--------------------------- MODULE Announcements ---------------------------
(***************************************************************************)
(* The team announcement: worker/routes/announcements.ts.  Posting clears  *)
(* what is there and inserts, in two statements; taking down reads the     *)
(* live announcement and clears that one.  An announcement also expires.   *)
(* Announcements are numbered in the order of their created_at.            *)
(***************************************************************************)
EXTENDS Integers, FiniteSets

CONSTANTS Posters,   \* requests of administrators that may be in progress at once
          Readers,   \* people who dismiss it for themselves
          MaxPosts, MaxClears \* bounds: posts, and requests to take down

ASSUME AnnouncementsAssumption == MaxPosts \in Nat /\ MaxClears \in Nat

VARIABLES
  posts,      \* announcements: number -> "cleared", "expired" or "live"
  dismissed,  \* announcement_dismissals: pairs of announcement and reader
  posting,    \* each request's progress
  started, clears,
  mixed       \* history: posts overlapped and none has run alone since

announcementVars == <<posts, dismissed, posting, started, clears, mixed>>

NotPosting == [op |-> "none"]
Live == {n \in DOMAIN posts : posts[n] = "live"}

\* ORDER BY created_at DESC LIMIT 1, as a set of at most one.
loadLive == {n \in Live : \A m \in Live : m <= n}

AnnouncementsInit ==
  /\ posts = <<>> /\ dismissed = {} /\ mixed = FALSE
  /\ posting = [p \in Posters |-> NotPosting]
  /\ started = 0 /\ clears = 0

\* Slip: only the announcement shown is cleared.
uncleared == loadLive

\* WHERE cleared_at IS NULL: the expired ones too.
allUncleared == {n \in DOMAIN posts : posts[n] # "cleared"}

\* POST /: created_at is taken, everything that is there is cleared.
ClearForPost(p) ==
  /\ posting[p].op = "none" /\ started < MaxPosts
  /\ LET shared == \E q \in Posters : posting[q].op = "post"
     IN  /\ posting' = [q \in Posters |->
              IF q = p THEN [op |-> "post", post |-> started + 1, alone |-> ~shared]
              ELSE IF posting[q].op = "post" THEN [posting[q] EXCEPT !.alone = FALSE]
              ELSE posting[q]]
         /\ mixed' = (mixed \/ shared)
  /\ posts' = [n \in DOMAIN posts |-> IF n \in allUncleared THEN "cleared" ELSE posts[n]]
  /\ started' = started + 1
  /\ UNCHANGED <<dismissed, clears>>

InsertPost(p) ==
  /\ posting[p].op = "post"
  /\ posts' = [n \in DOMAIN posts \cup {posting[p].post} |->
                 IF n = posting[p].post THEN "live" ELSE posts[n]]
  /\ mixed' = (mixed /\ ~posting[p].alone)
  /\ posting' = [posting EXCEPT ![p] = NotPosting]
  /\ UNCHANGED <<dismissed, started, clears>>

\* DELETE /active: reads the live one, then clears it.
ReadLive(p) ==
  /\ posting[p].op = "none" /\ clears < MaxClears /\ loadLive # {}
  /\ \E n \in loadLive : posting' = [posting EXCEPT ![p] = [op |-> "clear", post |-> n, alone |-> TRUE]]
  /\ clears' = clears + 1
  /\ UNCHANGED <<posts, dismissed, started, mixed>>

ClearLive(p) ==
  /\ posting[p].op = "clear"
  /\ posts' = [posts EXCEPT ![posting[p].post] = "cleared"]
  /\ posting' = [posting EXCEPT ![p] = NotPosting]
  /\ UNCHANGED <<dismissed, started, clears, mixed>>

Expire == \E n \in Live : /\ posts' = [posts EXCEPT ![n] = "expired"]
                          /\ UNCHANGED <<dismissed, posting, started, clears, mixed>>

Dismiss(r) == /\ loadLive # {}
              /\ dismissed' = dismissed \cup {<<n, r>> : n \in loadLive}
              /\ UNCHANGED <<posts, posting, started, clears, mixed>>

AnnouncementsNext ==
  \/ \E p \in Posters : ClearForPost(p) \/ InsertPost(p) \/ ReadLive(p) \/ ClearLive(p)
  \/ Expire
  \/ \E r \in Readers : Dismiss(r)

-----------------------------------------------------------------------------
\* Only one announcement is ever live, unless two posts overlap; then both may
\* stay, taking down the newer brings back the older, and the next post that
\* runs alone clears them all.
OneAnnouncementIsLive == ~mixed => Cardinality(Live) <= 1
=============================================================================
