---------------------------- MODULE OfficeProofs ----------------------------
(***************************************************************************)
(* What colleagues leave for each other, announcements and the corkboard,  *)
(* the browser's copy of a checklist, and the two pages that save venue    *)
(* bookings: for any people, devices, items, pages, requests and bounds.   *)
(*                                                                         *)
(* One announcement is live.  That is not inductive: what makes it so is   *)
(* that a post that has run alone since it cleared finds, at its INSERT,   *)
(* nothing live.                                                           *)
(*                                                                         *)
(* Who overwrites what on a note.  Both properties speak of one step.  The *)
(* one about edits needs to know what an equal stamp means: since every    *)
(* write of the wording moves the stamp, and no card or request holds a    *)
(* later stamp than the note's, an equal stamp means that the wording is   *)
(* the one that was read.                                                  *)
(*                                                                         *)
(* The screen settles on what the server has.  What makes it inductive: a  *)
(* list that is under way and was asked for with nothing else in progress  *)
(* is the server's; and without anything to recover from, the one mutation *)
(* in flight knows how far cache and server are apart.                     *)
(*                                                                         *)
(* Follow-ups match bookings.  What makes it inductive: a save that has    *)
(* been alone has read, for its tasks, the bookings and the tasks there    *)
(* are, and while nothing has overlapped every save under way is alone.    *)
(*                                                                         *)
(* A save is exact.  No page names a booking twice, and a batch that was   *)
(* not overtaken writes each line to a booking of its own: a line with an  *)
(* id to that one, the others to the numbers that follow, in turn.         *)
(***************************************************************************)
EXTENDS Announcements, StickyNotes, ChecklistCache, BookingSaves, FiniteSetTheorems,
        SequenceTheorems, TLAPS

AnnouncementSpec == AnnouncementsInit /\ [][AnnouncementsNext]_announcementVars

Marks == {"cleared", "expired", "live"}
Progress == {NotPosting} \cup [op : {"post", "clear"}, post : Nat, alone : BOOLEAN]

TypeInv ==
  /\ DOMAIN posts \subseteq Nat
  /\ posts \in [DOMAIN posts -> Marks]
  /\ posting \in [Posters -> Progress]
  /\ started \in Nat /\ mixed \in BOOLEAN

isPosting(p) == posting[p].op = "post"

\* A post that has been alone is the only one, and has left nothing live.
AloneInv == \A p \in Posters : isPosting(p) /\ posting[p].alone =>
              /\ Live = {}
              /\ \A q \in Posters : isPosting(q) => q = p

\* Without an overlap to recover from, every post is alone and one is live.
UnmixedInv == ~mixed => /\ \A p \in Posters : isPosting(p) => posting[p].alone
                        /\ \A m, n \in Live : m = n

IInv == TypeInv /\ AloneInv /\ UnmixedInv

-----------------------------------------------------------------------------
LEMMA InitIInv == AnnouncementsInit => IInv
<1> SUFFICES ASSUME AnnouncementsInit PROVE IInv
  OBVIOUS
<1> USE DEF AnnouncementsInit
<1>1. DOMAIN posts = {} /\ posts \in [DOMAIN posts -> Marks]
  OBVIOUS
<1>2. posting \in [Posters -> Progress] BY DEF Progress
<1>3. \A p \in Posters : ~isPosting(p) BY DEF isPosting, NotPosting
<1>4. Live = {} BY <1>1 DEF Live
<1> QED BY <1>1, <1>2, <1>3, <1>4 DEF IInv, TypeInv, AloneInv, UnmixedInv

\* What is cleared was never cleared before, and the shown one is among it.
LEMMA ShownIsUncleared ==
  ASSUME NEW n \in loadLive PROVE n \in Live
BY DEF loadLive

LEMMA ClearForPostKeeps ==
  ASSUME IInv, NEW p \in Posters, ClearForPost(p) PROVE IInv'
<1> USE DEF IInv, TypeInv, AloneInv, UnmixedInv, isPosting, Progress, NotPosting
<1> DEFINE shared == \E q \in Posters : posting[q].op = "post"
<1>1. posting' = [q \in Posters |->
         IF q = p THEN [op |-> "post", post |-> started + 1, alone |-> ~shared]
         ELSE IF posting[q].op = "post" THEN [posting[q] EXCEPT !.alone = FALSE]
         ELSE posting[q]]
  BY DEF ClearForPost
<1>2. /\ posts' = [n \in DOMAIN posts |-> IF n \in allUncleared THEN "cleared" ELSE posts[n]]
      /\ mixed' = (mixed \/ shared) /\ started' = started + 1
  BY DEF ClearForPost
<1>3. Live' = {} BY <1>2 DEF Live, allUncleared
<1>4. TypeInv'
  <2>1. DOMAIN posts' = DOMAIN posts /\ posts' \in [DOMAIN posts' -> Marks]
    BY <1>2 DEF Marks
  <2>2. ASSUME NEW q \in Posters PROVE posting'[q] \in Progress
    <3>1. CASE q = p BY <1>1, <3>1
    <3>2. CASE q # p /\ posting[q].op = "post"
      <4>1. posting[q] \in [op : {"post", "clear"}, post : Nat, alone : BOOLEAN] BY <3>2
      <4> QED BY <1>1, <3>2, <4>1
    <3>3. CASE q # p /\ posting[q].op # "post" BY <1>1, <3>3
    <3> QED BY <3>1, <3>2, <3>3
  <2>3. posting' \in [Posters -> Progress] BY <1>1, <2>2
  <2> QED BY <1>2, <2>1, <2>3
<1>5. AloneInv'
  <2> SUFFICES ASSUME NEW a \in Posters, isPosting(a)', posting'[a].alone,
                      NEW b \in Posters, isPosting(b)'
               PROVE  b = a
    BY <1>3
  <2>1. a = p /\ ~shared
    <3>1. CASE a # p /\ posting[a].op = "post"
      <4>1. posting[a] \in [op : {"post", "clear"}, post : Nat, alone : BOOLEAN] BY <3>1
      <4>2. posting'[a].alone = FALSE BY <1>1, <3>1, <4>1
      <4> QED BY <4>2
    <3>2. CASE a # p /\ posting[a].op # "post"
      BY <1>1, <3>2
    <3>3. CASE a = p BY <1>1, <3>3
    <3> QED BY <3>1, <3>2, <3>3
  <2>2. CASE b # p
    <3>1. posting[b].op # "post" BY <2>1
    <3>2. posting'[b] = posting[b] BY <1>1, <2>2, <3>1
    <3> QED BY <3>1, <3>2
  <2> QED BY <2>1, <2>2
<1>6. UnmixedInv'
  <2> SUFFICES ASSUME ~mixed', NEW a \in Posters, isPosting(a)' PROVE posting'[a].alone
    BY <1>3
  <2>1. ~shared BY <1>2
  <2>2. a = p BY <1>1, <2>1
  <2> QED BY <1>1, <2>1, <2>2
<1> QED BY <1>4, <1>5, <1>6

LEMMA InsertPostKeeps ==
  ASSUME IInv, NEW p \in Posters, InsertPost(p) PROVE IInv'
<1> USE DEF IInv, TypeInv, AloneInv, UnmixedInv, isPosting, Progress, NotPosting
<1> DEFINE k == posting[p].post
<1>1. /\ posting[p] \in [op : {"post", "clear"}, post : Nat, alone : BOOLEAN]
      /\ posting[p].op = "post" /\ k \in Nat
  BY DEF InsertPost
<1>2. /\ posts' = [n \in DOMAIN posts \cup {k} |-> IF n = k THEN "live" ELSE posts[n]]
      /\ mixed' = (mixed /\ ~posting[p].alone) /\ started' = started
      /\ posting' = [posting EXCEPT ![p] = NotPosting]
  BY DEF InsertPost
<1>3. Live' = Live \cup {k} BY <1>2 DEF Live
<1>4. TypeInv'
  <2>1. DOMAIN posts' = DOMAIN posts \cup {k} BY <1>2
  <2>2. posts' \in [DOMAIN posts' -> Marks] BY <1>2, <2>1 DEF Marks
  <2>3. posting' \in [Posters -> Progress] BY <1>2
  <2> QED BY <1>1, <1>2, <2>1, <2>2, <2>3
<1>5. \A q \in Posters : isPosting(q)' => q # p /\ posting'[q] = posting[q]
  BY <1>2
<1>6. AloneInv'
  <2> SUFFICES ASSUME NEW a \in Posters, isPosting(a)', posting'[a].alone PROVE FALSE
    OBVIOUS
  <2>1. a # p /\ isPosting(a) /\ posting[a].alone BY <1>5
  <2> QED BY <1>1, <2>1
<1>7. UnmixedInv'
  <2> SUFFICES ASSUME ~mixed'
               PROVE  /\ \A q \in Posters : ~isPosting(q)'
                      /\ \A m, n \in Live' : m = n
    OBVIOUS
  <2>1. posting[p].alone BY <1>1, <1>2
  <2>2. Live = {} /\ \A q \in Posters : isPosting(q) => q = p BY <1>1, <2>1
  <2> QED BY <1>3, <1>5, <2>2
<1> QED BY <1>4, <1>6, <1>7

\* No other step makes anything live or starts a post.
LEMMA QuietStepKeeps ==
  ASSUME IInv, TypeInv', Live' \subseteq Live, mixed' = mixed,
         \A q \in Posters : isPosting(q)' => posting'[q] = posting[q]
  PROVE  IInv'
BY DEF IInv, TypeInv, AloneInv, UnmixedInv, isPosting

LEMMA NextKeepsIInv == IInv /\ [AnnouncementsNext]_announcementVars => IInv'
<1> SUFFICES ASSUME IInv, [AnnouncementsNext]_announcementVars PROVE IInv'
  OBVIOUS
<1> USE DEF isPosting
<1>1. ASSUME NEW p \in Posters, ClearForPost(p) PROVE IInv'
  BY <1>1, ClearForPostKeeps
<1>2. ASSUME NEW p \in Posters, InsertPost(p) PROVE IInv'
  BY <1>2, InsertPostKeeps
<1>3. ASSUME NEW p \in Posters, ReadLive(p) PROVE IInv'
  <2>1. PICK n \in loadLive : posting' = [posting EXCEPT ![p] =
                               [op |-> "clear", post |-> n, alone |-> TRUE]]
    BY <1>3 DEF ReadLive
  <2>2. n \in Nat BY DEF loadLive, Live, IInv, TypeInv
  <2>3. UNCHANGED <<posts, started, mixed>> BY <1>3 DEF ReadLive
  <2>4. TypeInv' BY <2>1, <2>2, <2>3 DEF IInv, TypeInv, Progress
  <2>5. \A q \in Posters : isPosting(q)' => posting'[q] = posting[q]
    BY <2>1 DEF IInv, TypeInv
  <2> QED BY <2>3, <2>4, <2>5, QuietStepKeeps DEF Live
<1>4. ASSUME NEW p \in Posters, ClearLive(p) PROVE IInv'
  <2>1. /\ posts' = [posts EXCEPT ![posting[p].post] = "cleared"]
        /\ posting' = [posting EXCEPT ![p] = NotPosting]
        /\ UNCHANGED <<started, mixed>>
    BY <1>4 DEF ClearLive
  <2>2. DOMAIN posts' = DOMAIN posts /\ posts' \in [DOMAIN posts' -> Marks]
    BY <2>1 DEF IInv, TypeInv, Marks
  <2>3. TypeInv' BY <2>1, <2>2 DEF IInv, TypeInv, Progress
  <2>4. Live' \subseteq Live BY <2>1, <2>2 DEF Live, IInv, TypeInv
  <2>5. \A q \in Posters : isPosting(q)' => posting'[q] = posting[q]
    BY <2>1 DEF IInv, TypeInv, NotPosting
  <2> QED BY <2>1, <2>3, <2>4, <2>5, QuietStepKeeps
<1>5. CASE Expire
  <2>1. PICK n \in Live : posts' = [posts EXCEPT ![n] = "expired"]
    BY <1>5 DEF Expire
  <2>2. UNCHANGED <<posting, started, mixed>> BY <1>5 DEF Expire
  <2>3. DOMAIN posts' = DOMAIN posts /\ posts' \in [DOMAIN posts' -> Marks]
    BY <2>1 DEF IInv, TypeInv, Marks
  <2>4. TypeInv' BY <2>2, <2>3 DEF IInv, TypeInv
  <2>5. Live' \subseteq Live BY <2>1, <2>3 DEF Live, IInv, TypeInv
  <2> QED BY <2>2, <2>4, <2>5, QuietStepKeeps
<1>6. ASSUME NEW r \in Readers, Dismiss(r) PROVE IInv'
  <2>1. UNCHANGED <<posts, posting, started, mixed>> BY <1>6 DEF Dismiss
  <2> QED BY <2>1, QuietStepKeeps DEF IInv, TypeInv, Live
<1>7. CASE UNCHANGED announcementVars
  <2>1. UNCHANGED <<posts, posting, started, mixed>> BY <1>7 DEF announcementVars
  <2> QED BY <2>1, QuietStepKeeps DEF IInv, TypeInv, Live
<1> QED BY <1>1, <1>2, <1>3, <1>4, <1>5, <1>6, <1>7 DEF AnnouncementsNext

\* A set without two different elements has at most one.
LEMMA AtMostOne ==
  ASSUME NEW S, \A m, n \in S : m = n PROVE Cardinality(S) <= 1
<1>1. CASE S = {} BY <1>1, FS_EmptySet
<1>2. CASE S # {}
  <2>1. PICK x : S = {x} BY <1>2
  <2> QED BY <2>1, FS_Singleton
<1> QED BY <1>1, <1>2

\* Only one announcement is ever live unless posts have overlapped and none has
\* run alone since, whoever posts, takes down or lets expire meanwhile.
THEOREM OneIsLive == AnnouncementSpec => []OneAnnouncementIsLive
<1>1. IInv => OneAnnouncementIsLive
  BY AtMostOne DEF IInv, UnmixedInv, OneAnnouncementIsLive
<1> QED BY <1>1, InitIInv, NextKeepsIInv, PTL DEF AnnouncementSpec

-----------------------------------------------------------------------------
NotesSpec == NotesInit /\ [][NotesNext]_notesVars

Notes == [there : BOOLEAN, body : Nat, status : {"active", "archived", "gone"},
          by : Mates \cup {NoOne}, stamp : Nat]
Cards == [open : BOOLEAN, body : Nat, stamp : Nat, base : Nat]
Ops == {"edit", "relink", "layout", "archive", "restore", "delete", "delete note"}
CallRecords == [op : Ops, mate : Mates, body : Nat, expected : Nat, base : Nat,
                kept : BOOLEAN]

NotesTypeInv ==
  /\ note \in Notes
  /\ card \in [Devices -> Cards]
  /\ call \in [Calls -> CallRecords \cup {NoCall}]
  /\ calls \in Nat
  /\ kept \in [Devices -> BOOLEAN]

\* A card that shows the note as it is shows its wording.
CardInv ==
  note.there => \A d \in Devices : card[d].open =>
    /\ card[d].stamp <= note.stamp
    /\ card[d].stamp = note.stamp =>
         /\ card[d].body = note.body
         /\ kept[d] => card[d].base = note.body

\* So does an edit whose condition will hold.
CallInv ==
  note.there => \A k \in Calls : call[k].op = "edit" =>
    /\ call[k].expected <= note.stamp
    /\ call[k].expected = note.stamp /\ call[k].kept => call[k].base = note.body

NotesInv == NotesTypeInv /\ CardInv /\ CallInv

-----------------------------------------------------------------------------
LEMMA NotesInitInv == NotesInit => NotesInv
<1> SUFFICES ASSUME NotesInit PROVE NotesInv
  OBVIOUS
<1>1. note \in Notes /\ note.stamp = 0 /\ note.body = 0
  BY DEF NotesInit, Notes
<1>2. card \in [Devices -> Cards] /\ \A d \in Devices : card[d].stamp = 0 /\ card[d].body = 0
                                                     /\ card[d].base = 0
  BY DEF NotesInit, Cards
<1>3. call \in [Calls -> CallRecords \cup {NoCall}] /\ \A k \in Calls : call[k] = NoCall
  BY DEF NotesInit
<1>4. calls \in Nat /\ kept \in [Devices -> BOOLEAN]
  BY DEF NotesInit
<1>5. CardInv BY <1>1, <1>2 DEF CardInv
<1>6. CallInv BY <1>3 DEF CallInv, NoCall
<1> QED BY <1>1, <1>2, <1>3, <1>4, <1>5, <1>6 DEF NotesInv, NotesTypeInv

LEMMA PollKeeps ==
  ASSUME NotesInv, NEW d \in Devices, Poll(d) PROVE NotesInv'
<1> USE DEF NotesInv, NotesTypeInv
<1> DEFINE onBoard == note.there /\ note.status = "active"
           base == IF card[d].open THEN card[d].base ELSE note.body
           seen == IF onBoard THEN [open |-> TRUE, body |-> note.body,
                                  stamp |-> note.stamp, base |-> base]
                   ELSE [card[d] EXCEPT !.open = FALSE]
<1>1. /\ card' = [card EXCEPT ![d] = seen]
      /\ kept' = [kept EXCEPT ![d] = onBoard => note.body = base]
      /\ UNCHANGED <<note, layouts, call, calls>>
  BY DEF Poll
<1>2. base \in Nat BY DEF Cards, Notes
<1>3. seen \in Cards BY <1>2 DEF Cards, Notes
<1>4. NotesTypeInv' BY <1>1, <1>3
<1>5. CardInv'
  <2> SUFFICES ASSUME note.there, NEW e \in Devices, card'[e].open
               PROVE /\ card'[e].stamp <= note.stamp
                     /\ card'[e].stamp = note.stamp =>
                          /\ card'[e].body = note.body
                          /\ kept'[e] => card'[e].base = note.body
    BY <1>1 DEF CardInv
  <2>1. CASE e # d
    BY <2>1, <1>1 DEF CardInv
  <2>2. CASE e = d
    <3>1. card'[d] = seen /\ (kept'[d] <=> (onBoard => note.body = base))
      BY <1>1
    <3>2. onBoard
      <4> SUFFICES ASSUME ~onBoard PROVE FALSE
        OBVIOUS
      <4>1. seen = [card[d] EXCEPT !.open = FALSE]
        OBVIOUS
      <4>2. card[d] \in Cards
        OBVIOUS
      <4>3. ~seen.open
        BY <4>1, <4>2 DEF Cards
      <4> QED BY <4>3, <3>1, <2>2
    <3>3. seen = [open |-> TRUE, body |-> note.body, stamp |-> note.stamp, base |-> base]
      BY <3>2
    <3> HIDE DEF seen, base
    <3>4. card'[e].stamp = note.stamp /\ card'[e].body = note.body /\ card'[e].base = base
      BY <3>1, <3>3, <2>2
    <3>5. note.stamp \in Nat
      BY DEF Notes
    <3> QED BY <3>1, <3>2, <3>4, <3>5, <2>2
  <2> QED BY <2>1, <2>2
<1>6. CallInv' BY <1>1 DEF CallInv
<1> QED BY <1>4, <1>5, <1>6

LEMMA CancelKeeps ==
  ASSUME NotesInv, NEW d \in Devices, CancelEdit(d) PROVE NotesInv'
<1> USE DEF NotesInv, NotesTypeInv
<1>1. /\ card' = [card EXCEPT ![d].base = card[d].body]
      /\ kept' = [kept EXCEPT ![d] = TRUE]
      /\ UNCHANGED <<note, layouts, call, calls>>
      /\ card[d].open
  BY DEF CancelEdit
<1>2. NotesTypeInv' BY <1>1 DEF Cards
<1>3. CardInv'
  <2> SUFFICES ASSUME note.there, NEW e \in Devices, card'[e].open
               PROVE /\ card'[e].stamp <= note.stamp
                     /\ card'[e].stamp = note.stamp =>
                          /\ card'[e].body = note.body
                          /\ kept'[e] => card'[e].base = note.body
    BY <1>1 DEF CardInv
  <2>1. CASE e # d
    BY <2>1, <1>1 DEF CardInv
  <2>2. CASE e = d
    <3>1. card[d] \in Cards
      OBVIOUS
    <3>2. /\ card'[d].stamp = card[d].stamp /\ card'[d].body = card[d].body
          /\ card'[d].base = card[d].body
      BY <1>1, <3>1 DEF Cards
    <3> QED BY <3>2, <2>2, <1>1 DEF CardInv
  <2> QED BY <2>1, <2>2
<1>4. CallInv' BY <1>1 DEF CallInv
<1> QED BY <1>2, <1>3, <1>4

\* A request that starts with a call whose stamp, if it edits, speaks the truth.
LEMMA BeginKeeps ==
  ASSUME NotesInv, NEW k \in Calls, NEW c \in CallRecords, Begin(k, c),
         c.op = "edit" => /\ c.expected <= note.stamp
                          /\ c.expected = note.stamp /\ c.kept => c.base = note.body
  PROVE  NotesInv'
<1> USE DEF NotesInv, NotesTypeInv
<1>1. /\ call' = [call EXCEPT ![k] = c] /\ calls' = calls + 1
      /\ UNCHANGED <<note, layouts, card, kept>>
  BY DEF Begin
<1>2. NotesTypeInv' BY <1>1
<1>3. CardInv' BY <1>1 DEF CardInv
<1>4. CallInv' BY <1>1 DEF CallInv
<1> QED BY <1>2, <1>3, <1>4

LEMMA CallIsRecord ==
  ASSUME NEW op \in Ops, NEW mate \in Mates PROVE Call(op, mate) \in CallRecords
BY DEF Call, CallRecords

\* The records the statements write, one field at a time.
LEMMA Stamped ==
  ASSUME NEW n \in Notes
  PROVE  /\ [n EXCEPT !.stamp = n.stamp + 1] \in Notes
         /\ [n EXCEPT !.stamp = n.stamp + 1].stamp = n.stamp + 1
         /\ [n EXCEPT !.stamp = n.stamp + 1].status = n.status
BY DEF Notes

LEMMA Reworded ==
  ASSUME NEW n \in Notes, NEW b \in Nat
  PROVE  LET written == [n EXCEPT !.body = b, !.stamp = n.stamp + 1]
         IN  written \in Notes /\ written.stamp = n.stamp + 1
<1> DEFINE m == [n EXCEPT !.body = b]
<1>1. m \in Notes /\ m.stamp = n.stamp BY DEF Notes
<1>2. [n EXCEPT !.body = b, !.stamp = n.stamp + 1] = [m EXCEPT !.stamp = m.stamp + 1]
  BY <1>1
<1> HIDE DEF m
<1> QED BY <1>1, <1>2, Stamped

LEMMA Restatused ==
  ASSUME NEW n \in Notes, NEW s \in {"active", "archived"}, NEW mate \in Mates \cup {NoOne}
  PROVE  LET written == [n EXCEPT !.status = s, !.by = mate, !.stamp = n.stamp + 1]
         IN  written \in Notes /\ written.stamp = n.stamp + 1 /\ written.status = s
<1> DEFINE l == [n EXCEPT !.status = s]
           m == [l EXCEPT !.by = mate]
<1>1. l \in Notes /\ l.stamp = n.stamp /\ l.status = s BY DEF Notes
<1> HIDE DEF l
<1>2. m \in Notes /\ m.stamp = n.stamp /\ m.status = s BY <1>1 DEF Notes
<1> USE DEF l
<1>3. [n EXCEPT !.status = s, !.by = mate, !.stamp = n.stamp + 1]
         = [m EXCEPT !.stamp = m.stamp + 1]
  BY <1>2
<1> HIDE DEF l, m
<1> QED BY <1>2, <1>3, Stamped

LEMMA EditCall ==
  ASSUME NEW b \in Nat, NEW e \in Nat, NEW t \in Nat, NEW w \in BOOLEAN
  PROVE  LET c == [Call("edit", Author) EXCEPT !.body = b, !.expected = e, !.base = t, !.kept = w]
         IN  c \in CallRecords
<1> DEFINE c0 == Call("edit", Author)
           c1 == [c0 EXCEPT !.body = b]
           c2 == [c1 EXCEPT !.expected = e]
           c3 == [c2 EXCEPT !.base = t]
           c4 == [c3 EXCEPT !.kept = w]
<1>0. c0 \in CallRecords BY StickyNotesAssumption, CallIsRecord DEF Ops
<1> HIDE DEF c0
<1>1. c1 \in CallRecords BY <1>0 DEF CallRecords
<1> HIDE DEF c1
<1>2. c2 \in CallRecords BY <1>1 DEF CallRecords
<1> HIDE DEF c2
<1>3. c3 \in CallRecords BY <1>2 DEF CallRecords
<1> HIDE DEF c3
<1>4. c4 \in CallRecords BY <1>3 DEF CallRecords
<1>5. c4 = [Call("edit", Author) EXCEPT !.body = b, !.expected = e, !.base = t, !.kept = w]
  BY DEF c0, c1, c2, c3
<1> QED BY <1>4, <1>5

LEMMA BeginsKeep ==
  ASSUME NotesInv, NEW k \in Calls,
         \/ \E d \in Devices : BeginEdit(k, d)
         \/ \E mate \in Mates : \/ \E op \in {"relink", "layout", "archive"} : BeginActive(k, mate, op)
                                \/ BeginRestore(k, mate)
         \/ BeginDelete(k)
  PROVE  NotesInv'
<1>1. ASSUME NEW d \in Devices, BeginEdit(k, d) PROVE NotesInv'
  <2> DEFINE c == [Call("edit", Author) EXCEPT !.body = calls + 1, !.expected = card[d].stamp,
                                               !.base = card[d].base, !.kept = kept[d]]
  <2>1. Begin(k, c) /\ card[d].open /\ note.stamp = card[d].stamp /\ note.there
    BY <1>1 DEF BeginEdit, Begin
  <2>2. /\ calls + 1 \in Nat /\ kept[d] \in BOOLEAN
        /\ card[d].stamp \in Nat /\ card[d].base \in Nat
    BY DEF NotesInv, NotesTypeInv, Cards
  <2>3. c \in CallRecords /\ c.expected = card[d].stamp /\ c.base = card[d].base /\ c.kept = kept[d]
    <3>1. \A b \in Nat, e \in Nat, t \in Nat, w \in BOOLEAN :
            LET r == [Call("edit", Author) EXCEPT !.body = b, !.expected = e, !.base = t, !.kept = w]
            IN  r \in CallRecords
      BY EditCall
    <3>2. c \in CallRecords BY <2>2, <3>1
    <3>3. Call("edit", Author) \in CallRecords
      BY StickyNotesAssumption, CallIsRecord DEF Ops
    <3>4. c.expected = card[d].stamp /\ c.base = card[d].base BY <3>3 DEF CallRecords
    <3>5. c.kept = kept[d] BY <3>3 DEF CallRecords
    <3> QED BY <3>2, <3>3, <3>4, <3>5
  <2>4. kept[d] => card[d].base = note.body
    BY <2>1 DEF NotesInv, CardInv
  <2>5. note.stamp \in Nat
    BY DEF NotesInv, NotesTypeInv, Notes
  <2>6. c.expected <= note.stamp /\ (c.expected = note.stamp /\ c.kept => c.base = note.body)
    BY <2>1, <2>2, <2>3, <2>4, <2>5
  <2> HIDE DEF c
  <2> QED BY <2>1, <2>3, <2>6, BeginKeeps
<1>2. ASSUME NEW mate \in Mates, NEW op \in {"relink", "layout", "archive"},
             BeginActive(k, mate, op)
      PROVE NotesInv'
  <2>1. Begin(k, Call(op, mate)) BY <1>2 DEF BeginActive
  <2>2. Call(op, mate).op # "edit" BY DEF Call
  <2>3. Call(op, mate) \in CallRecords BY CallIsRecord DEF Ops
  <2> QED BY <2>1, <2>2, <2>3, BeginKeeps
<1>3. ASSUME NEW mate \in Mates, BeginRestore(k, mate) PROVE NotesInv'
  <2>1. Begin(k, Call("restore", mate)) BY <1>3 DEF BeginRestore
  <2>2. Call("restore", mate).op # "edit" BY DEF Call
  <2>3. Call("restore", mate) \in CallRecords BY CallIsRecord DEF Ops
  <2> QED BY <2>1, <2>2, <2>3, BeginKeeps
<1>4. ASSUME BeginDelete(k) PROVE NotesInv'
  <2>1. Begin(k, Call("delete", Author)) BY <1>4 DEF BeginDelete
  <2>2. Call("delete", Author).op # "edit" BY DEF Call
  <2>3. Call("delete", Author) \in CallRecords BY CallIsRecord, StickyNotesAssumption DEF Ops
  <2> QED BY <2>1, <2>2, <2>3, BeginKeeps
<1> QED BY <1>1, <1>2, <1>3, <1>4

-----------------------------------------------------------------------------
\* What a statement that writes may do to the note: leave it, remove it, or
\* write it and move the stamp.
LEMMA WriteKeeps ==
  ASSUME NotesInv, UNCHANGED <<card, calls, kept>>,
         note' \in Notes,
         note' = note \/ ~note'.there \/ (note.there /\ note'.stamp = note.stamp + 1),
         call' \in [Calls -> CallRecords \cup {NoCall}],
         \A k \in Calls : call'[k].op = "edit" => call'[k] = call[k]
  PROVE  NotesInv'
<1> USE DEF NotesInv, NotesTypeInv
<1>1. NotesTypeInv'
  OBVIOUS
<1>2. CASE note' = note
  <2>1. CardInv' BY <1>2 DEF CardInv
  <2>2. CallInv' BY <1>2 DEF CallInv
  <2> QED BY <1>1, <2>1, <2>2
<1>3. CASE ~note'.there
  BY <1>1, <1>3 DEF CardInv, CallInv
<1>4. CASE note.there /\ note'.stamp = note.stamp + 1
  <2>1. note.stamp \in Nat /\ note'.stamp \in Nat
    BY DEF Notes
  <2>2. \A d \in Devices : card[d].stamp \in Nat
    BY DEF Cards
  <2>3. CardInv' BY <1>4, <2>1, <2>2 DEF CardInv
  <2>4. CallInv'
    <3> SUFFICES ASSUME NEW k \in Calls, call'[k].op = "edit"
                 PROVE /\ call'[k].expected <= note'.stamp
                       /\ call'[k].expected # note'.stamp
      BY DEF CallInv
    <3>1. call'[k] = call[k] /\ call[k].op = "edit"
      OBVIOUS
    <3>2. call[k] # NoCall BY <3>1 DEF NoCall
    <3>3. call[k].expected \in Nat BY <3>2 DEF CallRecords
    <3>4. call[k].expected <= note.stamp BY <3>1, <1>4 DEF CallInv
    <3> QED BY <3>1, <3>3, <3>4, <2>1, <1>4
  <2> QED BY <1>1, <2>3, <2>4
<1> QED BY <1>2, <1>3, <1>4

LEMMA GoneIsNote == Gone \in Notes /\ ~Gone.there
BY DEF Gone, Notes

\* Ending a request keeps the others.
LEMMA EndCalls ==
  ASSUME NotesInv, NEW k \in Calls, End(k)
  PROVE  /\ call' \in [Calls -> CallRecords \cup {NoCall}]
         /\ call'[k] = NoCall
         /\ \A q \in Calls : call'[q].op = "edit" => call'[q] = call[q]
BY DEF NotesInv, NotesTypeInv, End, NoCall

LEMMA FinishesKeep ==
  ASSUME NotesInv, NEW k \in Calls,
         \/ FinishEdit(k) \/ FinishRelink(k) \/ FinishLayout(k) \/ FinishArchive(k)
         \/ FinishRestore(k) \/ DeleteLayouts(k) \/ DeleteNote(k)
  PROVE  NotesInv'
<1>0. note \in Notes BY DEF NotesInv, NotesTypeInv
<1>1. CASE FinishEdit(k)
  <2>1. End(k) /\ UNCHANGED <<card, calls, kept>> BY <1>1 DEF FinishEdit
  <2>2. /\ call[k].op = "edit"
        /\ note' = IF matchesExpected(call[k])
             THEN [note EXCEPT !.body = call[k].body, !.stamp = @ + 1] ELSE note
    BY <1>1 DEF FinishEdit
  <2>3. call[k] \in CallRecords BY <2>2 DEF NotesInv, NotesTypeInv, NoCall
  <2>4. call[k].body \in Nat BY <2>3 DEF CallRecords
  <2>5. note' \in Notes /\ (note' = note \/ (note.there /\ note'.stamp = note.stamp + 1))
    BY <2>2, <2>4, <1>0, Reworded DEF matchesExpected
  <2> QED BY <2>1, <2>5, EndCalls, WriteKeeps
<1>2. CASE FinishRelink(k)
  <2>1. End(k) /\ UNCHANGED <<card, calls, kept>> BY <1>2 DEF FinishRelink
  <2>2. note' \in Notes /\ (note' = note \/ (note.there /\ note'.stamp = note.stamp + 1))
    BY <1>2, <1>0 DEF FinishRelink, Notes
  <2> QED BY <2>1, <2>2, EndCalls, WriteKeeps
<1>3. CASE FinishLayout(k)
  <2>1. End(k) /\ UNCHANGED <<card, calls, kept, note>> BY <1>3 DEF FinishLayout
  <2> QED BY <2>1, <1>0, EndCalls, WriteKeeps
<1>4. CASE FinishArchive(k)
  <2>1. End(k) /\ UNCHANGED <<card, calls, kept>> BY <1>4 DEF FinishArchive
  <2>2. /\ call[k].op = "archive"
        /\ note' = IF archivableOnce(note)
             THEN [note EXCEPT !.status = "archived", !.by = call[k].mate, !.stamp = @ + 1]
             ELSE note
    BY <1>4 DEF FinishArchive
  <2>3. call[k] \in CallRecords BY <2>2 DEF NotesInv, NotesTypeInv, NoCall
  <2>4. call[k].mate \in Mates BY <2>3 DEF CallRecords
  <2>5. note' \in Notes /\ (note' = note \/ (note.there /\ note'.stamp = note.stamp + 1))
    BY <2>2, <2>4, <1>0, Restatused DEF archivableOnce
  <2> QED BY <2>1, <2>5, EndCalls, WriteKeeps
<1>5. CASE FinishRestore(k)
  <2>1. End(k) /\ UNCHANGED <<card, calls, kept>> BY <1>5 DEF FinishRestore
  <2>2. note' \in Notes /\ (note' = note \/ (note.there /\ note'.stamp = note.stamp + 1))
    BY <1>5, <1>0, Restatused DEF FinishRestore
  <2> QED BY <2>1, <2>2, EndCalls, WriteKeeps
<1>6. CASE DeleteLayouts(k)
  <2>1. UNCHANGED <<card, calls, kept, note>> BY <1>6 DEF DeleteLayouts
  <2>2. call' = [call EXCEPT ![k].op = "delete note"]
    BY <1>6 DEF DeleteLayouts
  <2>a. call[k].op = "delete"
    BY <1>6 DEF DeleteLayouts
  <2>3. call[k] \in CallRecords BY <2>a DEF NotesInv, NotesTypeInv, NoCall
  <2>4. [call[k] EXCEPT !.op = "delete note"] \in CallRecords
    BY <2>3 DEF CallRecords, Ops
  <2>5. [call[k] EXCEPT !.op = "delete note"].op = "delete note"
    BY <2>3 DEF CallRecords, Ops
  <2>6. /\ call' \in [Calls -> CallRecords \cup {NoCall}]
        /\ \A q \in Calls : call'[q].op = "edit" => call'[q] = call[q]
    BY <2>2, <2>4, <2>5 DEF NotesInv, NotesTypeInv
  <2> QED BY <2>1, <2>6, <1>0, WriteKeeps
<1>7. CASE DeleteNote(k)
  <2>1. End(k) /\ UNCHANGED <<card, calls, kept>> BY <1>7 DEF DeleteNote
  <2>2. note' \in Notes /\ (note' = note \/ ~note'.there)
    BY <1>7, <1>0, GoneIsNote DEF DeleteNote
  <2> QED BY <2>1, <2>2, EndCalls, WriteKeeps
<1> QED BY <1>1, <1>2, <1>3, <1>4, <1>5, <1>6, <1>7

LEMMA NotesStepInv == NotesInv /\ [NotesNext]_notesVars => NotesInv'
<1> SUFFICES ASSUME NotesInv, [NotesNext]_notesVars PROVE NotesInv'
  OBVIOUS
<1>1. CASE UNCHANGED notesVars
  BY <1>1 DEF notesVars, NotesInv, NotesTypeInv, CardInv, CallInv
<1>2. CASE NotesNext
  BY <1>2, PollKeeps, CancelKeeps, BeginsKeep, FinishesKeep DEF NotesNext
<1> QED BY <1>1, <1>2

\* What the cards and the requests know of the note is true whatever happens
\* between a poll and the save: equal stamps mean the wording that was read.
THEOREM StampsTellTheTruth == NotesSpec => []NotesInv
<1>1. NotesInit => NotesInv BY NotesInitInv
<1>2. NotesInv /\ [NotesNext]_notesVars => NotesInv' BY NotesStepInv
<1> QED BY <1>1, <1>2, PTL DEF NotesSpec

-----------------------------------------------------------------------------
\* Which statements touch the note at all.
LEMMA OthersKeepNote ==
  ASSUME [NotesNext]_notesVars,
         ~ \E k \in Calls : \/ FinishEdit(k) \/ FinishRelink(k) \/ FinishArchive(k)
                            \/ FinishRestore(k) \/ DeleteNote(k)
  PROVE  note' = note
BY DEF NotesNext, notesVars, Poll, CancelEdit, BeginEdit, BeginActive, BeginRestore,
       BeginDelete, Begin, FinishLayout, DeleteLayouts

\* PATCH /:id: an edit replaces the wording its text was typed over and no
\* other, and never that of an archived note, unless its card polled another
\* wording under the open text.
THEOREM EditsReplaceWhatTheyShowed == NotesSpec => EditReplacesWhatItShowed
<1> DEFINE Replaces ==
      note.there /\ note'.there /\ note'.body # note.body =>
        /\ note.status = "active"
        /\ \E k \in Calls : /\ call[k].op = "edit" /\ call'[k] = NoCall
                            /\ (call[k].kept => note.body = call[k].base)
<1>1. ASSUME NotesInv, [NotesNext]_notesVars PROVE Replaces
  <2> SUFFICES ASSUME note.there, note'.there, note'.body # note.body
               PROVE /\ note.status = "active"
                     /\ \E k \in Calls : /\ call[k].op = "edit" /\ call'[k] = NoCall
                                         /\ (call[k].kept => note.body = call[k].base)
    OBVIOUS
  <2>0. note \in Notes BY <1>1 DEF NotesInv, NotesTypeInv
  <2>1. PICK k \in Calls : \/ FinishEdit(k) \/ FinishRelink(k) \/ FinishArchive(k)
                           \/ FinishRestore(k) \/ DeleteNote(k)
    BY <1>1, OthersKeepNote
  <2>2. ~FinishRelink(k) BY <2>0 DEF FinishRelink, Notes
  <2>3. ~FinishArchive(k) BY <2>0 DEF FinishArchive, Notes
  <2>4. ~FinishRestore(k) BY <2>0 DEF FinishRestore, Notes
  <2>5. ~DeleteNote(k) BY <2>0, GoneIsNote DEF DeleteNote
  <2>6. FinishEdit(k) BY <2>1, <2>2, <2>3, <2>4, <2>5
  <2>7. call[k].op = "edit" /\ End(k) /\ matchesExpected(call[k])
    BY <2>6 DEF FinishEdit
  <2>8. call'[k] = NoCall BY <2>7, <1>1, EndCalls
  <2>9. note.status = "active" /\ (call[k].kept => note.body = call[k].base)
    BY <2>7, <1>1 DEF matchesExpected, NotesInv, CallInv
  <2> QED BY <2>7, <2>8, <2>9
<1>2. NotesSpec => []NotesInv BY StampsTellTheTruth
<1>3. NotesInv /\ [NotesNext]_notesVars => [Replaces]_notesVars BY <1>1
<1> QED BY <1>2, <1>3, PTL DEF NotesSpec, EditReplacesWhatItShowed

\* POST /:id/archive: the one who is named as having incorporated a note stays
\* named until it is restored, however many people archive it at once.
THEOREM FirstArchiverStays == NotesSpec => FirstArchiverIsNamed
<1> DEFINE Named ==
      note.there /\ note'.there /\ note.status = "archived" /\ note'.status = "archived" =>
        note'.by = note.by
<1>1. ASSUME NotesInv, [NotesNext]_notesVars PROVE Named
  <2> SUFFICES ASSUME note.there, note'.there, note.status = "archived",
                      note'.status = "archived", note' # note
               PROVE FALSE
    OBVIOUS
  <2>0. note \in Notes BY <1>1 DEF NotesInv, NotesTypeInv
  <2>1. PICK k \in Calls : \/ FinishEdit(k) \/ FinishRelink(k) \/ FinishArchive(k)
                           \/ FinishRestore(k) \/ DeleteNote(k)
    BY <1>1, OthersKeepNote
  <2>2. ~FinishEdit(k) BY DEF FinishEdit, matchesExpected
  <2>3. ~FinishRelink(k) BY DEF FinishRelink
  <2>4. ~FinishArchive(k) BY DEF FinishArchive, archivableOnce
  <2>5. ~FinishRestore(k) BY <2>0, Restatused DEF FinishRestore
  <2>6. ~DeleteNote(k) BY GoneIsNote DEF DeleteNote
  <2> QED BY <2>1, <2>2, <2>3, <2>4, <2>5, <2>6
<1>2. NotesSpec => []NotesInv BY StampsTellTheTruth
<1>3. NotesInv /\ [NotesNext]_notesVars => [Named]_notesVars BY <1>1
<1> QED BY <1>2, <1>3, PTL DEF NotesSpec, FirstArchiverIsNamed

-----------------------------------------------------------------------------
(* The browser's copy of a checklist.                                      *)

CacheSpec == CacheInit /\ [][CacheNext]_cacheVars

Lists == [Items -> 0..1]
CallSteps == {"patch", "answered", "failed", "get"}
Called == [step : CallSteps, item : Items, value : 0..1, previous : Lists]
Brought == [step : {"got"}, list : Lists, alone : BOOLEAN]
Asked == [step |-> "asked"]

CacheTypeInv ==
  /\ server \in Lists /\ cache \in Lists
  /\ mutation \in [Mutations -> {New, None} \cup Called \cup Brought]
  /\ query \in {None, Asked} \cup Brought
  /\ muddled \in BOOLEAN

\* A list asked for alone is the server's, and nothing has begun since.
AloneGetInv ==
  \A m \in Mutations : mutation[m].step = "got" /\ mutation[m].alone =>
    /\ mutation[m].list = server
    /\ \A n \in Mutations : inFlight(n) => n = m

AloneQueryInv ==
  query.step = "got" /\ query.alone =>
    query.list = server /\ \A m \in Mutations : ~inFlight(m)

\* How far the cache is from the server while m is in flight by itself.
Apart(m) ==
  /\ mutation[m].step \in {"patch", "failed"} => mutation[m].previous = server
  /\ mutation[m].step = "patch" =>
       cache = [server EXCEPT ![mutation[m].item] = mutation[m].value]
  /\ mutation[m].step \in {"answered", "get", "got"} => cache = server
  /\ mutation[m].step = "answered" => server[mutation[m].item] = mutation[m].value
  /\ mutation[m].step = "got" => mutation[m].list = server

UnmuddledInv ==
  ~muddled =>
    /\ \A m, n \in Mutations : inFlight(m) /\ inFlight(n) => m = n
    /\ \A m \in Mutations : inFlight(m) => Apart(m)
    /\ (\A m \in Mutations : ~inFlight(m)) => cache = server

CacheInv == CacheTypeInv /\ AloneGetInv /\ AloneQueryInv /\ UnmuddledInv
-----------------------------------------------------------------------------
LEMMA CacheInitInv == CacheInit => CacheInv
<1> SUFFICES ASSUME CacheInit PROVE CacheInv
  OBVIOUS
<1> USE DEF CacheInit
<1>1. server \in Lists /\ cache \in Lists /\ cache = server BY DEF Lists
<1>2. \A m \in Mutations : mutation[m].step = "new" BY DEF New
<1>3. query.step = "done" BY DEF None
<1> QED BY <1>1, <1>2, <1>3 DEF CacheInv, CacheTypeInv, AloneGetInv, AloneQueryInv,
                                UnmuddledInv, inFlight

\* What a mutation is by its step.
LEMMA MutationShape ==
  ASSUME CacheTypeInv, NEW m \in Mutations
  PROVE  /\ mutation[m].step \in {"new", "done", "got"} \cup CallSteps
         /\ mutation[m].step \in CallSteps => mutation[m] \in Called
         /\ mutation[m].step = "got" => mutation[m] \in Brought
BY DEF CacheTypeInv, New, None, Called, Brought, CallSteps

LEMMA QueryShape ==
  ASSUME CacheTypeInv
  PROVE  query.step = "got" => query \in Brought
BY DEF CacheTypeInv, None, Asked, Brought

-----------------------------------------------------------------------------
LEMMA OnMutateKeeps ==
  ASSUME CacheInv, NEW m \in Mutations, NEW i \in Items, OnMutate(m, i) PROVE CacheInv'
<1> USE DEF CacheInv, inFlight
<1>1. PICK v \in 0..1 :
        /\ mutation' = [n \in Mutations |->
             IF n = m THEN [step |-> "patch", item |-> i, value |-> v, previous |-> cache]
             ELSE IF mutation[n].step = "got" THEN [mutation[n] EXCEPT !.alone = FALSE]
             ELSE mutation[n]]
        /\ cache' = [cache EXCEPT ![i] = v]
  BY DEF OnMutate
<1>2. /\ mutation[m].step = "new" /\ query' = None /\ UNCHANGED server
      /\ muddled' = (muddled \/ \E n \in Mutations : inFlight(n))
  BY DEF OnMutate
<1>3. mutation'[m] = [step |-> "patch", item |-> i, value |-> v, previous |-> cache]
  BY <1>1
<1>4. \A n \in Mutations \ {m} :
        /\ mutation[n].step = "got" => mutation'[n] = [mutation[n] EXCEPT !.alone = FALSE]
        /\ mutation[n].step # "got" => mutation'[n] = mutation[n]
  BY <1>1
<1>5. ASSUME NEW n \in Mutations \ {m}, mutation[n].step = "got"
      PROVE  mutation'[n] \in Brought /\ mutation'[n].step = "got" /\ ~mutation'[n].alone
  <2>1. mutation[n] \in Brought BY <1>5, MutationShape
  <2> QED BY <1>4, <1>5, <2>1 DEF Brought
<1>6. mutation'[m] \in Called /\ mutation'[m].step = "patch"
  BY <1>3 DEF Called, CallSteps, CacheTypeInv
<1>7. CacheTypeInv'
  <2>1. \A n \in Mutations : mutation'[n] \in {New, None} \cup Called \cup Brought
    BY <1>4, <1>5, <1>6 DEF CacheTypeInv
  <2>2. mutation' \in [Mutations -> {New, None} \cup Called \cup Brought]
    BY <1>1, <2>1
  <2>3. cache' \in Lists BY <1>1 DEF CacheTypeInv, Lists
  <2> QED BY <1>2, <2>2, <2>3 DEF CacheTypeInv
<1>8. AloneGetInv' BY <1>4, <1>5, <1>6 DEF AloneGetInv
<1>9. AloneQueryInv' BY <1>2 DEF AloneQueryInv, None
<1>10. UnmuddledInv'
  <2> SUFFICES ASSUME ~muddled'
               PROVE  /\ \A a, b \in Mutations : inFlight(a)' /\ inFlight(b)' => a = b
                      /\ \A a \in Mutations : inFlight(a)' => Apart(a)'
                      /\ \E a \in Mutations : inFlight(a)'
    BY DEF UnmuddledInv
  <2>1. cache = server /\ \A n \in Mutations : ~inFlight(n)
    BY <1>2 DEF UnmuddledInv
  <2>2. \A n \in Mutations \ {m} : ~inFlight(n)'
    BY <1>4, <2>1
  <2>3. inFlight(m)' BY <1>6
  <2>4. Apart(m)' BY <1>1, <1>2, <1>3, <2>1 DEF Apart
  <2> QED BY <2>2, <2>3, <2>4
<1> QED BY <1>7, <1>8, <1>9, <1>10

LEMMA ServeKeeps ==
  ASSUME CacheInv, NEW m \in Mutations, Serve(m) PROVE CacheInv'
<1> USE DEF CacheInv, inFlight
<1>1. /\ mutation[m].step = "patch" /\ UNCHANGED <<cache, query>>
      /\ server' = [server EXCEPT ![mutation[m].item] = mutation[m].value]
  BY DEF Serve
<1>2. mutation[m] \in Called BY <1>1, MutationShape DEF CallSteps
<1>3. PICK s \in {"answered", "failed"} :
        /\ mutation' = [mutation EXCEPT ![m].step = s]
        /\ s = "answered" => muddled' = muddled
        /\ s = "failed" => muddled' = TRUE
  BY DEF Serve
<1>4. mutation'[m] = [mutation[m] EXCEPT !.step = s] /\ \A n \in Mutations \ {m} : mutation'[n] = mutation[n]
  BY <1>3 DEF CacheTypeInv
<1>5. /\ mutation'[m] \in Called /\ mutation'[m].step = s
      /\ mutation'[m].item = mutation[m].item /\ mutation'[m].value = mutation[m].value
      /\ mutation[m].item \in Items /\ mutation[m].value \in 0..1
  BY <1>2, <1>4 DEF Called, CallSteps
<1>6. CacheTypeInv'
  <2>1. mutation' \in [Mutations -> {New, None} \cup Called \cup Brought]
    BY <1>3, <1>4, <1>5 DEF CacheTypeInv
  <2>2. server' \in Lists BY <1>1, <1>5 DEF CacheTypeInv, Lists
  <2> QED BY <1>1, <1>3, <2>1, <2>2 DEF CacheTypeInv
<1>7. inFlight(m) BY <1>1
<1>8. AloneGetInv' BY <1>1, <1>4, <1>5, <1>7 DEF AloneGetInv
<1>9. AloneQueryInv' BY <1>1, <1>7 DEF AloneQueryInv
<1>10. UnmuddledInv'
  <2> SUFFICES ASSUME ~muddled' PROVE UnmuddledInv'
    BY DEF UnmuddledInv
  <2>1. s = "answered" /\ ~muddled BY <1>3
  <2>2. Apart(m) /\ \A n \in Mutations : inFlight(n) => n = m
    BY <1>7, <2>1 DEF UnmuddledInv
  <2>3. \A n \in Mutations : inFlight(n)' <=> n = m
    BY <1>4, <1>5, <2>1, <2>2
  <2>4. cache' = server' BY <1>1, <2>2 DEF Apart
  <2>5. server'[mutation'[m].item] = mutation'[m].value
    BY <1>1, <1>5 DEF CacheTypeInv, Lists
  <2>6. Apart(m)' BY <1>5, <2>1, <2>4, <2>5 DEF Apart
  <2> QED BY <2>3, <2>6 DEF UnmuddledInv
<1> QED BY <1>6, <1>8, <1>9, <1>10

LEMMA RefuseKeeps ==
  ASSUME CacheInv, NEW m \in Mutations, Refuse(m) PROVE CacheInv'
<1> USE DEF CacheInv, inFlight
<1>1. /\ mutation[m].step = "patch" /\ UNCHANGED <<server, cache, query, muddled>>
      /\ mutation' = [mutation EXCEPT ![m].step = "failed"]
  BY DEF Refuse
<1>2. mutation[m] \in Called BY <1>1, MutationShape DEF CallSteps
<1>3. mutation'[m] = [mutation[m] EXCEPT !.step = "failed"] /\ \A n \in Mutations \ {m} : mutation'[n] = mutation[n]
  BY <1>1 DEF CacheTypeInv
<1>4. /\ mutation'[m] \in Called /\ mutation'[m].step = "failed"
      /\ mutation'[m].previous = mutation[m].previous
  BY <1>2, <1>3 DEF Called, CallSteps
<1>5. mutation' \in [Mutations -> {New, None} \cup Called \cup Brought]
  BY <1>1, <1>3, <1>4 DEF CacheTypeInv
<1>6. \A n \in Mutations : inFlight(n)' <=> inFlight(n)
  BY <1>1, <1>3, <1>4
<1>7. \A n \in Mutations : Apart(n) => Apart(n)'
  BY <1>1, <1>3, <1>4 DEF Apart
<1>8. CacheTypeInv' BY <1>1, <1>5 DEF CacheTypeInv
<1>9. AloneGetInv' BY <1>1, <1>3, <1>4, <1>6 DEF AloneGetInv
<1>10. AloneQueryInv' BY <1>1, <1>6 DEF AloneQueryInv
<1>11. UnmuddledInv' BY <1>1, <1>6, <1>7 DEF UnmuddledInv
<1> QED BY <1>8, <1>9, <1>10, <1>11

LEMMA OnSuccessKeeps ==
  ASSUME CacheInv, NEW m \in Mutations, OnSuccess(m) PROVE CacheInv'
<1> USE DEF CacheInv, inFlight
<1>1. /\ mutation[m].step = "answered" /\ UNCHANGED <<server, query, muddled>>
      /\ mutation' = [mutation EXCEPT ![m].step = "get"]
      /\ cache' = [cache EXCEPT ![mutation[m].item] = mutation[m].value]
  BY DEF OnSuccess
<1>2. mutation[m] \in Called BY <1>1, MutationShape DEF CallSteps
<1>3. mutation'[m] = [mutation[m] EXCEPT !.step = "get"] /\ \A n \in Mutations \ {m} : mutation'[n] = mutation[n]
  BY <1>1 DEF CacheTypeInv
<1>4. /\ mutation'[m] \in Called /\ mutation'[m].step = "get"
      /\ mutation[m].item \in Items /\ mutation[m].value \in 0..1
  BY <1>2, <1>3 DEF Called, CallSteps
<1>5. CacheTypeInv'
  <2>1. mutation' \in [Mutations -> {New, None} \cup Called \cup Brought]
    BY <1>1, <1>3, <1>4 DEF CacheTypeInv
  <2>2. cache' \in Lists BY <1>1, <1>4 DEF CacheTypeInv, Lists
  <2> QED BY <1>1, <2>1, <2>2 DEF CacheTypeInv
<1>6. \A n \in Mutations : inFlight(n)' <=> inFlight(n)
  BY <1>1, <1>3, <1>4
<1>7. AloneGetInv' BY <1>1, <1>3, <1>4, <1>6 DEF AloneGetInv
<1>8. AloneQueryInv' BY <1>1, <1>6 DEF AloneQueryInv
<1>9. UnmuddledInv'
  <2> SUFFICES ASSUME ~muddled PROVE UnmuddledInv'
    BY <1>1 DEF UnmuddledInv
  <2>1. inFlight(m) BY <1>1
  <2>2. Apart(m) /\ \A n \in Mutations : inFlight(n) => n = m
    BY <2>1 DEF UnmuddledInv
  <2>3. cache = server /\ server[mutation[m].item] = mutation[m].value
    BY <1>1, <2>2 DEF Apart
  <2>4. cache' = server' BY <1>1, <1>4, <2>3 DEF CacheTypeInv, Lists
  <2>5. Apart(m)' BY <1>4, <2>4 DEF Apart
  <2> QED BY <1>6, <2>2, <2>5, <2>1 DEF UnmuddledInv
<1> QED BY <1>5, <1>7, <1>8, <1>9

\* A mutation that ends leaves the rest as it is.
LEMMA EndKeepsOthers ==
  ASSUME CacheInv, NEW m \in Mutations, mutation' = [mutation EXCEPT ![m] = None]
  PROVE  /\ mutation' \in [Mutations -> {New, None} \cup Called \cup Brought]
         /\ \A n \in Mutations : inFlight(n)' <=> inFlight(n) /\ n # m
         /\ \A n \in Mutations \ {m} : mutation'[n] = mutation[n]
         /\ mutation'[m].step = "done"
BY DEF CacheInv, CacheTypeInv, inFlight, None

LEMMA OnErrorKeeps ==
  ASSUME CacheInv, NEW m \in Mutations, OnError(m) PROVE CacheInv'
<1> USE DEF CacheInv
<1>1. /\ mutation[m].step = "failed" /\ UNCHANGED <<server, query, muddled>>
      /\ mutation' = [mutation EXCEPT ![m] = None]
      /\ cache' = mutation[m].previous
  BY DEF OnError, restored
<1>2. mutation[m] \in Called BY <1>1, MutationShape DEF CallSteps
<1>3. inFlight(m) BY <1>1 DEF inFlight
<1>4. /\ \A n \in Mutations : inFlight(n)' <=> inFlight(n) /\ n # m
      /\ \A n \in Mutations \ {m} : mutation'[n] = mutation[n]
      /\ mutation'[m].step = "done"
  BY <1>1, EndKeepsOthers
<1>5. CacheTypeInv'
  BY <1>1, <1>2, EndKeepsOthers DEF CacheTypeInv, Called
<1>6. AloneGetInv' BY <1>1, <1>4 DEF AloneGetInv
<1>7. AloneQueryInv' BY <1>1, <1>4 DEF AloneQueryInv
<1>8. UnmuddledInv'
  <2> SUFFICES ASSUME ~muddled PROVE cache' = server' /\ \A n \in Mutations : ~inFlight(n)'
    BY <1>1 DEF UnmuddledInv
  <2>1. Apart(m) /\ \A n \in Mutations : inFlight(n) => n = m
    BY <1>3 DEF UnmuddledInv
  <2> QED BY <1>1, <1>4, <2>1 DEF Apart
<1> QED BY <1>5, <1>6, <1>7, <1>8

LEMMA ServeGetKeeps ==
  ASSUME CacheInv, NEW m \in Mutations, ServeGet(m) PROVE CacheInv'
<1> USE DEF CacheInv
<1> DEFINE free == \A n \in Mutations \ {m} : ~inFlight(n)
<1>1. /\ mutation[m].step = "get" /\ UNCHANGED <<server, cache, query, muddled>>
      /\ mutation' = [mutation EXCEPT ![m] = [step |-> "got", list |-> server, alone |-> free]]
  BY DEF ServeGet
<1>2. /\ mutation'[m] = [step |-> "got", list |-> server, alone |-> free]
      /\ \A n \in Mutations \ {m} : mutation'[n] = mutation[n]
  BY <1>1 DEF CacheTypeInv
<1> HIDE DEF free
<1>3. free \in BOOLEAN BY DEF free
<1>4. /\ mutation'[m].step = "got" /\ mutation'[m].list = server
      /\ mutation'[m].alone = free
  BY <1>2
<1>5. CacheTypeInv'
  <2>1. mutation'[m] \in Brought BY <1>2, <1>3 DEF Brought, CacheTypeInv
  <2>2. mutation' \in [Mutations -> {New, None} \cup Called \cup Brought]
    BY <1>1, <1>2, <2>1 DEF CacheTypeInv
  <2> QED BY <1>1, <2>2 DEF CacheTypeInv
<1>6. \A n \in Mutations : inFlight(n)' <=> inFlight(n)
  BY <1>1, <1>2, <1>4 DEF inFlight
<1>7. AloneGetInv'
  <2>1. free => \A n \in Mutations : inFlight(n) => n = m BY DEF free
  <2> QED BY <1>1, <1>2, <1>4, <1>6, <2>1 DEF AloneGetInv
<1>8. AloneQueryInv' BY <1>1, <1>6 DEF AloneQueryInv
<1>9. \A n \in Mutations : Apart(n) => Apart(n)'
  BY <1>1, <1>2, <1>4 DEF Apart
<1>10. UnmuddledInv' BY <1>1, <1>6, <1>9 DEF UnmuddledInv
<1> QED BY <1>5, <1>7, <1>8, <1>10

LEMMA ShowGetKeeps ==
  ASSUME CacheInv, NEW m \in Mutations, ShowGet(m) PROVE CacheInv'
<1> USE DEF CacheInv
<1>1. /\ mutation[m].step = "got" /\ UNCHANGED server
      /\ mutation' = [mutation EXCEPT ![m] = None]
  BY DEF ShowGet
<1>2. mutation[m] \in Brought BY <1>1, MutationShape
<1>3. inFlight(m) BY <1>1 DEF inFlight
<1>4. /\ \A n \in Mutations : inFlight(n)' <=> inFlight(n) /\ n # m
      /\ \A n \in Mutations \ {m} : mutation'[n] = mutation[n]
      /\ mutation'[m].step = "done"
      /\ mutation' \in [Mutations -> {New, None} \cup Called \cup Brought]
  BY <1>1, EndKeepsOthers
<1>5. AloneGetInv' BY <1>1, <1>4 DEF AloneGetInv
<1>6. CASE UNCHANGED <<cache, query, muddled>>
  <2>1. CacheTypeInv' BY <1>1, <1>4, <1>6 DEF CacheTypeInv
  <2>2. AloneQueryInv' BY <1>1, <1>3, <1>4, <1>6 DEF AloneQueryInv
  <2>3. UnmuddledInv'
    <3> SUFFICES ASSUME ~muddled PROVE cache' = server' /\ \A n \in Mutations : ~inFlight(n)'
      BY <1>6 DEF UnmuddledInv
    <3>1. Apart(m) /\ \A n \in Mutations : inFlight(n) => n = m
      BY <1>3 DEF UnmuddledInv
    <3> QED BY <1>1, <1>4, <1>6, <3>1 DEF Apart
  <2> QED BY <1>5, <2>1, <2>2, <2>3
<1>7. CASE /\ cache' = mutation[m].list /\ query' = [step |-> "asked"]
           /\ muddled' = (muddled /\ ~(mutation[m].alone
                                       /\ \A n \in Mutations \ {m} : ~inFlight(n)))
  <2>1. CacheTypeInv' BY <1>1, <1>2, <1>4, <1>7 DEF CacheTypeInv, Brought, Asked
  <2>2. AloneQueryInv' BY <1>7 DEF AloneQueryInv
  <2>3. UnmuddledInv'
    <3> SUFFICES ASSUME ~muddled' PROVE cache' = server' /\ \A n \in Mutations : ~inFlight(n)'
      BY DEF UnmuddledInv
    <3>1. CASE ~muddled
      <4>1. Apart(m) /\ \A n \in Mutations : inFlight(n) => n = m
        BY <1>3, <3>1 DEF UnmuddledInv
      <4> QED BY <1>1, <1>4, <1>7, <4>1 DEF Apart
    <3>2. CASE muddled
      <4>1. mutation[m].alone /\ \A n \in Mutations \ {m} : ~inFlight(n)
        BY <1>7, <3>2
      <4>2. mutation[m].list = server BY <1>1, <4>1 DEF AloneGetInv
      <4> QED BY <1>1, <1>4, <1>7, <4>1, <4>2
    <3> QED BY <3>1, <3>2 DEF CacheTypeInv
  <2> QED BY <1>5, <2>1, <2>2, <2>3
<1> QED BY <1>6, <1>7 DEF ShowGet

LEMMA RefetchKeeps ==
  ASSUME CacheInv, Refetch PROVE CacheInv'
<1>1. query' = Asked /\ UNCHANGED <<server, cache, mutation, muddled>>
  BY DEF Refetch, Asked
<1> QED BY <1>1 DEF CacheInv, CacheTypeInv, AloneGetInv, AloneQueryInv, UnmuddledInv, Apart,
                    inFlight, Asked

LEMMA ServeRefetchKeeps ==
  ASSUME CacheInv, ServeRefetch PROVE CacheInv'
<1> USE DEF CacheInv
<1> DEFINE free == \A m \in Mutations : ~inFlight(m)
<1>1. /\ UNCHANGED <<server, cache, mutation, muddled>>
      /\ query' = [step |-> "got", list |-> server, alone |-> free]
  BY DEF ServeRefetch
<1> HIDE DEF free
<1>2. free \in BOOLEAN BY DEF free
<1>3. query' \in Brought BY <1>1, <1>2 DEF Brought, CacheTypeInv
<1>4. query'.list = server /\ query'.alone = free BY <1>1
<1>5. CacheTypeInv' BY <1>1, <1>3 DEF CacheTypeInv
<1>6. AloneQueryInv' BY <1>1, <1>4 DEF AloneQueryInv, free, inFlight
<1>7. AloneGetInv' /\ UnmuddledInv'
  BY <1>1 DEF AloneGetInv, UnmuddledInv, Apart, inFlight
<1> QED BY <1>5, <1>6, <1>7

LEMMA ShowRefetchKeeps ==
  ASSUME CacheInv, ShowRefetch PROVE CacheInv'
<1> USE DEF CacheInv
<1>1. /\ query.step = "got" /\ cache' = query.list /\ query' = None
      /\ muddled' = ~query.alone /\ UNCHANGED <<server, mutation>>
  BY DEF ShowRefetch
<1>2. query \in Brought BY <1>1, QueryShape
<1>3. query.list \in Lists /\ query.alone \in BOOLEAN BY <1>2 DEF Brought
<1>4. CacheTypeInv' BY <1>1, <1>3 DEF CacheTypeInv
<1>5. AloneGetInv' BY <1>1 DEF AloneGetInv, inFlight
<1>6. AloneQueryInv' BY <1>1 DEF AloneQueryInv, None
<1>7. UnmuddledInv'
  <2> SUFFICES ASSUME ~muddled' PROVE cache' = server' /\ \A n \in Mutations : ~inFlight(n)'
    BY DEF UnmuddledInv
  <2>1. query.list = server /\ \A n \in Mutations : ~inFlight(n)
    BY <1>1, <1>3 DEF AloneQueryInv
  <2> QED BY <1>1, <2>1 DEF inFlight
<1> QED BY <1>4, <1>5, <1>6, <1>7

-----------------------------------------------------------------------------
LEMMA CacheNextKeeps == CacheInv /\ [CacheNext]_cacheVars => CacheInv'
<1> SUFFICES ASSUME CacheInv, [CacheNext]_cacheVars PROVE CacheInv'
  OBVIOUS
<1>1. CASE UNCHANGED cacheVars
  BY <1>1 DEF cacheVars, CacheInv, CacheTypeInv, AloneGetInv, AloneQueryInv, UnmuddledInv,
              Apart, inFlight
<1>2. ASSUME NEW m \in Mutations, NEW i \in Items, OnMutate(m, i) PROVE CacheInv'
  BY <1>2, OnMutateKeeps
<1>3. ASSUME NEW m \in Mutations,
             Serve(m) \/ Refuse(m) \/ OnSuccess(m) \/ OnError(m) \/ ServeGet(m) \/ ShowGet(m)
      PROVE  CacheInv'
  BY <1>3, ServeKeeps, RefuseKeeps, OnSuccessKeeps, OnErrorKeeps, ServeGetKeeps, ShowGetKeeps
<1>4. CASE Refetch \/ ServeRefetch \/ ShowRefetch
  BY <1>4, RefetchKeeps, ServeRefetchKeeps, ShowRefetchKeeps
<1> QED BY <1>1, <1>2, <1>3, <1>4 DEF CacheNext

\* Once nothing is under way the screen shows what the server has, unless
\* something overlapped or an answer was lost and no list asked for alone has
\* come since: however many items, mutations and refetches there are.
THEOREM ScreenSettles == CacheSpec => []SettledShowsServer
<1>1. CacheInv => SettledShowsServer
  BY DEF CacheInv, UnmuddledInv, SettledShowsServer, quiet
<1> QED BY <1>1, CacheInitInv, CacheNextKeeps, PTL DEF CacheSpec

-----------------------------------------------------------------------------
BookingSpec == BookingsInit /\ [][BookingsNext]_bookingVars

FollowUp == [status : {"open", "done", "settled", "cancelled"}, linked : BOOLEAN]

BookingTypeInv ==
  /\ tasks \in [DOMAIN tasks -> FollowUp]
  /\ DOMAIN saving = Pages /\ crossed \in BOOLEAN
  /\ \A p \in Unsettled : {"step", "alone"} \subseteq DOMAIN saving[p] /\ saving[p].alone \in BOOLEAN

\* A save that has been alone is the only one, and what it has read for the
\* tasks is what there is.
AloneSaveInv == \A p \in Unsettled : saving[p].alone =>
                  /\ \A q \in Unsettled : q = p
                  /\ saving[p].step = "tasks" =>
                       saving[p].rows = held /\ DOMAIN saving[p].seen = DOMAIN tasks

UncrossedInv == ~crossed => \A p \in Unsettled : saving[p].alone

BookingsInv == BookingTypeInv /\ AloneSaveInv /\ UncrossedInv /\ FollowUpsMatchBookings

LEMMA BookingsInitInv == BookingsInit => BookingsInv
<1> SUFFICES ASSUME BookingsInit PROVE BookingsInv
  OBVIOUS
<1> USE DEF BookingsInit
<1>1. DOMAIN saving = Pages /\ \A p \in Pages : saving[p].step = "idle" BY DEF NotSaving
<1>2. Unsettled = {} BY <1>1 DEF Unsettled
<1>3. tasks \in [DOMAIN tasks -> FollowUp] BY DEF FollowUp
<1>4. FollowUpsMatchBookings
  <2>1. DOMAIN tasks = 1 .. Len(held) OBVIOUS
  <2>2. \A id \in DOMAIN tasks : tasks[id] = [status |-> "open", linked |-> TRUE] OBVIOUS
  <2>3. held = <<>> \/ \E h \in Places : held = <<[place |-> h, status |-> "tentative"]>>
    OBVIOUS
  <2>4. DOMAIN held = 1 .. Len(held) BY <2>3
  <2>5. \A id \in DOMAIN held : held[id].status = "tentative" BY <2>3
  <2> QED BY <2>1, <2>2, <2>4, <2>5 DEF FollowUpsMatchBookings
<1> QED BY <1>1, <1>2, <1>3, <1>4 DEF BookingsInv, BookingTypeInv, AloneSaveInv, UncrossedInv

\* A save that goes on or ends, with nothing written, keeps the invariant.
LEMMA SaveGoesOn ==
  ASSUME BookingsInv, NEW p \in Pages, p \in Unsettled \/ saving[p].step = "done",
         UNCHANGED <<held, tasks, crossed>>,
         DOMAIN saving' = Pages, \A q \in Pages \ {p} : saving'[q] = saving[q],
         \/ saving'[p].step = "idle" /\ saving[p].step \notin {"written", "tasks"}
         \/ /\ {"step", "alone"} \subseteq DOMAIN saving'[p]
            /\ p \in Unsettled /\ saving'[p].alone = saving[p].alone
            /\ \/ saving'[p].step = "read" /\ saving[p].step = "sent"
               \/ /\ saving'[p].step = "tasks" /\ saving[p].step = "written"
                  /\ saving'[p].rows = held /\ saving'[p].seen = tasks
  PROVE  BookingsInv'
<1> USE DEF BookingsInv, Unsettled
<1>1. \A q \in Unsettled' : q \in Unsettled /\ saving'[q].alone = saving[q].alone
  OBVIOUS
<1>2. BookingTypeInv' BY <1>1 DEF BookingTypeInv
<1>3. AloneSaveInv' BY <1>1 DEF AloneSaveInv
<1>4. UncrossedInv' BY <1>1 DEF UncrossedInv
<1>5. FollowUpsMatchBookings'
  <2>1. (\A q \in Pages : saving'[q].step \notin {"written", "tasks"})
        => \A q \in Pages : saving[q].step \notin {"written", "tasks"}
    OBVIOUS
  <2> QED BY <2>1 DEF FollowUpsMatchBookings
<1> QED BY <1>2, <1>3, <1>4, <1>5

\* Until it writes, a request only reads.
LEMMA RequestsKeep ==
  ASSUME BookingsInv, NEW p \in Pages,
         \/ ReadBookings(p) \/ RefuseUnknown(p) \/ FailBatch(p) \/ ReadForTasks(p)
         \/ AnswerMeeting(p) \/ AnswerStay(p) \/ AnswerLeave(p) \/ LoseAnswer(p)
  PROVE  BookingsInv'
<1> USE DEF BookingsInv, BookingTypeInv
<1>1. CASE ReadBookings(p)
  <2>1. /\ saving[p].step = "sent" /\ UNCHANGED <<held, tasks, crossed>>
        /\ saving' = [saving EXCEPT ![p] =
             [step |-> "read", sent |-> saving[p].sent, stay |-> saving[p].stay,
              alone |-> saving[p].alone, known |-> DOMAIN held]]
    BY <1>1 DEF ReadBookings, serverVars
  <2>2. p \in Unsettled BY <2>1 DEF Unsettled
  <2>3. /\ DOMAIN saving' = Pages /\ \A q \in Pages \ {p} : saving'[q] = saving[q]
        /\ saving'[p].step = "read" /\ saving'[p].alone = saving[p].alone
        /\ {"step", "alone"} \subseteq DOMAIN saving'[p]
    BY <2>1
  <2> QED BY <2>1, <2>2, <2>3, SaveGoesOn
<1>2. CASE ReadForTasks(p)
  <2>1. /\ saving[p].step = "written" /\ UNCHANGED <<held, tasks, crossed>>
        /\ saving' = [saving EXCEPT ![p] =
             [step |-> "tasks", stay |-> saving[p].stay, alone |-> saving[p].alone,
              rows |-> held, seen |-> tasks]]
    BY <1>2 DEF ReadForTasks, serverVars
  <2>2. p \in Unsettled BY <2>1 DEF Unsettled
  <2>3. /\ DOMAIN saving' = Pages /\ \A q \in Pages \ {p} : saving'[q] = saving[q]
        /\ saving'[p].step = "tasks" /\ saving'[p].alone = saving[p].alone
        /\ saving'[p].rows = held /\ saving'[p].seen = tasks
        /\ {"step", "alone"} \subseteq DOMAIN saving'[p]
    BY <2>1
  <2> QED BY <2>1, <2>2, <2>3, SaveGoesOn
<1>3. CASE \/ RefuseUnknown(p) \/ FailBatch(p) \/ AnswerMeeting(p) \/ AnswerStay(p)
           \/ AnswerLeave(p) \/ LoseAnswer(p)
  <2>1. /\ saving[p].step \in {"sent", "read", "done"} /\ UNCHANGED <<held, tasks, crossed>>
        /\ saving' = [saving EXCEPT ![p] = NotSaving]
    BY <1>3 DEF RefuseUnknown, FailBatch, AnswerMeeting, AnswerStay, AnswerLeave, LoseAnswer,
                serverVars
  <2>2. p \in Unsettled \/ saving[p].step = "done" BY <2>1 DEF Unsettled
  <2>3. /\ DOMAIN saving' = Pages /\ \A q \in Pages \ {p} : saving'[q] = saving[q]
        /\ saving'[p].step = "idle"
    BY <2>1 DEF NotSaving
  <2> QED BY <2>1, <2>2, <2>3, SaveGoesOn
<1> QED BY <1>1, <1>2, <1>3

LEMMA SavePageKeeps ==
  ASSUME BookingsInv, NEW p \in Pages, NEW stay \in BOOLEAN, SavePage(p, stay)
  PROVE  BookingsInv'
<1> USE DEF BookingsInv
<1>1. /\ saving[p].step = "idle" /\ UNCHANGED <<held, tasks>>
      /\ crossed' = (crossed \/ Unsettled # {})
      /\ saving' = [q \in Pages |->
           IF q = p THEN [step |-> "sent", sent |-> preparedLines(lines[p]), stay |-> stay,
                          alone |-> Unsettled = {}]
           ELSE IF q \in Unsettled THEN [saving[q] EXCEPT !.alone = FALSE] ELSE saving[q]]
  BY DEF SavePage, serverVars
<1>2. /\ saving'[p].step = "sent" /\ saving'[p].alone = (Unsettled = {})
      /\ {"step", "alone"} \subseteq DOMAIN saving'[p]
  BY <1>1
<1>3. ASSUME NEW q \in Unsettled, q # p
      PROVE  /\ saving'[q].step = saving[q].step /\ saving'[q].alone = FALSE
             /\ {"step", "alone"} \subseteq DOMAIN saving'[q]
  BY <1>1, <1>3 DEF BookingTypeInv, Unsettled
<1>4. \A q \in Pages : q # p /\ q \notin Unsettled => saving'[q] = saving[q]
  BY <1>1
<1>5. Unsettled' = Unsettled \cup {p} /\ p \notin Unsettled
  BY <1>1, <1>2, <1>3, <1>4 DEF Unsettled
<1>6. BookingTypeInv'
  <2>1. DOMAIN saving' = Pages /\ crossed' \in BOOLEAN BY <1>1 DEF BookingTypeInv
  <2> QED BY <1>1, <1>2, <1>3, <1>5, <2>1 DEF BookingTypeInv
<1>7. AloneSaveInv' BY <1>1, <1>2, <1>3, <1>5 DEF AloneSaveInv
<1>8. UncrossedInv' BY <1>1, <1>2, <1>5 DEF UncrossedInv
<1>9. FollowUpsMatchBookings'
  <2>1. \A q \in Pages : q # p => saving'[q].step = saving[q].step BY <1>3, <1>4
  <2>2. (\A q \in Pages : saving'[q].step \notin {"written", "tasks"})
        => \A q \in Pages : saving[q].step \notin {"written", "tasks"}
    BY <1>1, <2>1
  <2> QED BY <1>1, <2>2 DEF FollowUpsMatchBookings
<1> QED BY <1>6, <1>7, <1>8, <1>9

\* Between its batch and its tasks a save owes the follow-ups.
LEMMA WriteBatchKeeps ==
  ASSUME BookingsInv, NEW p \in Pages, WriteBatch(p) PROVE BookingsInv'
<1> USE DEF BookingsInv
<1>1. /\ saving[p].step = "read" /\ saving' = [saving EXCEPT ![p].step = "written"]
      /\ tasks' = [id \in DOMAIN tasks |->
           IF id \in removedIds(p) THEN [tasks[id] EXCEPT !.linked = FALSE] ELSE tasks[id]]
      /\ crossed' = crossed
  BY DEF WriteBatch
<1>2. p \in Unsettled BY <1>1 DEF Unsettled
<1>3. /\ saving'[p].step = "written" /\ saving'[p].alone = saving[p].alone
      /\ DOMAIN saving'[p] = DOMAIN saving[p] /\ DOMAIN saving' = Pages
      /\ \A q \in Pages : q # p => saving'[q] = saving[q]
  BY <1>1, <1>2 DEF BookingTypeInv
<1>4. Unsettled' = Unsettled BY <1>2, <1>3 DEF Unsettled
<1>5. tasks' \in [DOMAIN tasks' -> FollowUp] BY <1>1 DEF BookingTypeInv, FollowUp
<1>6. BookingTypeInv' BY <1>1, <1>3, <1>4, <1>5 DEF BookingTypeInv
<1>7. AloneSaveInv'
  <2> SUFFICES ASSUME NEW q \in Unsettled, saving'[q].alone
               PROVE  (\A r \in Unsettled : r = q) /\ saving'[q].step # "tasks"
    BY <1>4 DEF AloneSaveInv
  <2>1. q \in Pages BY DEF Unsettled
  <2>2. saving[q].alone BY <1>3, <2>1
  <2>3. \A r \in Unsettled : r = q BY <2>2 DEF AloneSaveInv
  <2> QED BY <1>2, <1>3, <2>3
<1>8. UncrossedInv' BY <1>1, <1>3, <1>4 DEF UncrossedInv
<1>9. FollowUpsMatchBookings' BY <1>3 DEF FollowUpsMatchBookings
<1> QED BY <1>6, <1>7, <1>8, <1>9

\* The tasks of a save that has been alone are those of the bookings there are.
LEMMA WriteTasksKeeps ==
  ASSUME BookingsInv, NEW p \in Pages, WriteTasks(p) PROVE BookingsInv'
<1> USE DEF BookingsInv
<1> DEFINE rows == saving[p].rows
           gone == {id \in DOMAIN rows \ DOMAIN held : rows[id].status = "tentative"}
           reached == {id \in DOMAIN rows : \A g \in gone : id < g}
           followed == {id \in DOMAIN tasks \cup reached :
                      id \in DOMAIN tasks \/ rows[id].status = "tentative"}
           left == IF gone = {} THEN orphans(saving[p].seen, rows) ELSE {}
           after == IF gone = {} THEN [step |-> "done", stay |-> saving[p].stay] ELSE NotSaving
           written == [id \in followed |->
              IF id \in reached THEN followUp(id, rows[id])
              ELSE IF id \in left /\ tasks[id].status = "open"
                   THEN [tasks[id] EXCEPT !.status = "cancelled"]
              ELSE tasks[id]]
<1>1. /\ saving[p].step = "tasks" /\ held' = held /\ tasks' = written
      /\ saving' = [saving EXCEPT ![p] = after]
      /\ crossed' = (crossed /\ ~(saving[p].alone /\ gone = {}))
  BY DEF WriteTasks
<1>2. p \in Unsettled BY <1>1 DEF Unsettled
<1>3. after.step \in {"idle", "done"} BY DEF NotSaving
<1>4. \A id \in followed \ DOMAIN tasks : id \in reached /\ rows[id].status = "tentative"
  OBVIOUS
<1> HIDE DEF after, followed, reached, left, gone
<1>5. /\ saving'[p] = after /\ DOMAIN saving' = Pages
      /\ \A q \in Pages : q # p => saving'[q] = saving[q]
  BY <1>1 DEF BookingTypeInv
<1>6. Unsettled' = Unsettled \ {p} BY <1>3, <1>5 DEF Unsettled
<1>7. tasks' \in [DOMAIN tasks' -> FollowUp]
  <2> SUFFICES ASSUME NEW id \in followed PROVE written[id] \in FollowUp
    BY <1>1
  <2>1. CASE id \in DOMAIN tasks
    <3>1. tasks[id] \in FollowUp BY <2>1 DEF BookingTypeInv
    <3> QED BY <2>1, <3>1 DEF followUp, FollowUp
  <2>2. CASE id \notin DOMAIN tasks
    <3>1. id \in reached /\ rows[id].status = "tentative" BY <1>4, <2>2
    <3> QED BY <2>2, <3>1 DEF followUp, FollowUp
  <2> QED BY <2>1, <2>2
<1>8. BookingTypeInv' BY <1>1, <1>5, <1>6, <1>7 DEF BookingTypeInv
<1>9. CASE saving[p].alone
  <2>1. /\ \A q \in Unsettled : q = p
        /\ rows = held /\ DOMAIN saving[p].seen = DOMAIN tasks
    BY <1>1, <1>2, <1>9 DEF AloneSaveInv
  <2>2. gone = {} BY <2>1 DEF gone
  <2>3. reached = DOMAIN held BY <2>1, <2>2 DEF reached
  <2>4. left = orphans(saving[p].seen, held) BY <2>1, <2>2 DEF left
  <2>5. Unsettled' = {} BY <1>6, <2>1
  <2>6. ASSUME NEW id \in DOMAIN held, held[id].status = "tentative"
        PROVE  id \in DOMAIN tasks' /\ tasks'[id].linked /\ tasks'[id].status \in {"open", "done"}
    <3>1. id \in followed BY <2>1, <2>3, <2>6 DEF followed
    <3>2. tasks'[id] = followUp(id, held[id]) BY <1>1, <2>1, <2>3, <3>1
    <3> QED BY <1>1, <2>6, <3>1, <3>2 DEF followUp
  <2>7. ASSUME NEW id \in DOMAIN tasks', tasks'[id].status = "open"
        PROVE  id \in DOMAIN held /\ held[id].status # "confirmed"
    <3>1. id \in followed BY <1>1
    <3>2. CASE id \in DOMAIN held
      <4>1. tasks'[id] = followUp(id, held[id]) BY <1>1, <2>1, <2>3, <3>1, <3>2
      <4>2. CASE id \in DOMAIN tasks
        <5>1. tasks[id] \in FollowUp BY <4>2 DEF BookingTypeInv
        <5> QED BY <2>7, <3>2, <4>1, <4>2, <5>1 DEF followUp, FollowUp
      <4>3. CASE id \notin DOMAIN tasks
        BY <2>7, <3>2, <4>1, <4>3 DEF followUp
      <4> QED BY <4>2, <4>3
    <3>3. CASE id \notin DOMAIN held
      <4>1. id \in DOMAIN tasks BY <1>4, <2>3, <3>1, <3>3
      <4>2. id \in left BY <2>1, <2>4, <3>3, <4>1 DEF orphans
      <4>3. tasks'[id] = IF tasks[id].status = "open"
                         THEN [tasks[id] EXCEPT !.status = "cancelled"] ELSE tasks[id]
        BY <1>1, <2>3, <3>1, <3>3, <4>2
      <4>4. tasks[id] \in FollowUp BY <4>1 DEF BookingTypeInv
      <4> QED BY <2>7, <4>3, <4>4 DEF FollowUp
    <3> QED BY <3>2, <3>3
  <2>8. FollowUpsMatchBookings' BY <1>1, <2>6, <2>7 DEF FollowUpsMatchBookings
  <2> QED BY <1>8, <2>5, <2>8 DEF AloneSaveInv, UncrossedInv
<1>10. CASE ~saving[p].alone
  <2>1. crossed /\ crossed'
    BY <1>1, <1>2, <1>10 DEF UncrossedInv, BookingTypeInv
  <2>2. AloneSaveInv'
    <3> SUFFICES ASSUME NEW q \in Unsettled', saving'[q].alone PROVE FALSE
      BY DEF AloneSaveInv
    <3>1. q \in Unsettled /\ q # p /\ saving[q].alone BY <1>5, <1>6 DEF Unsettled
    <3> QED BY <1>2, <3>1 DEF AloneSaveInv
  <2> QED BY <1>8, <2>1, <2>2 DEF UncrossedInv, FollowUpsMatchBookings
<1> QED BY <1>9, <1>10

LEMMA CompleteByHandKeeps ==
  ASSUME BookingsInv, CompleteByHand PROVE BookingsInv'
<1> USE DEF BookingsInv
<1>1. PICK id \in DOMAIN tasks :
        /\ tasks[id].status = "open" /\ tasks' = [tasks EXCEPT ![id].status = "done"]
        /\ UNCHANGED <<held, saving, crossed>>
  BY DEF CompleteByHand
<1>2. tasks[id] \in FollowUp BY DEF BookingTypeInv
<1>3. /\ DOMAIN tasks' = DOMAIN tasks
      /\ tasks'[id] = [tasks[id] EXCEPT !.status = "done"]
      /\ \A k \in DOMAIN tasks : k # id => tasks'[k] = tasks[k]
  BY <1>1
<1>4. /\ tasks'[id].status = "done" /\ tasks'[id].linked = tasks[id].linked
      /\ tasks'[id] \in FollowUp
  BY <1>2, <1>3 DEF FollowUp
<1>5. tasks' \in [DOMAIN tasks' -> FollowUp] BY <1>1, <1>3, <1>4 DEF BookingTypeInv
<1>6. Unsettled' = Unsettled BY <1>1 DEF Unsettled
<1>7. BookingTypeInv' BY <1>1, <1>5, <1>6 DEF BookingTypeInv
<1>8. AloneSaveInv' BY <1>1, <1>3, <1>6 DEF AloneSaveInv
<1>9. UncrossedInv' BY <1>1, <1>6 DEF UncrossedInv
<1>10. FollowUpsMatchBookings' BY <1>1, <1>3, <1>4 DEF FollowUpsMatchBookings
<1> QED BY <1>7, <1>8, <1>9, <1>10

LEMMA DieSavingKeeps ==
  ASSUME BookingsInv, NEW p \in Pages, DieSaving(p) PROVE BookingsInv'
<1> USE DEF BookingsInv
<1>1. /\ saving' = [saving EXCEPT ![p] = NotSaving] /\ crossed' = TRUE
      /\ UNCHANGED <<held, tasks>>
  BY DEF DieSaving, serverVars
<1>2. /\ DOMAIN saving' = Pages /\ saving'[p].step = "idle"
      /\ \A q \in Pages \ {p} : saving'[q] = saving[q]
  BY <1>1 DEF BookingTypeInv, NotSaving
<1>3. \A q \in Unsettled' : q \in Unsettled /\ saving'[q] = saving[q] BY <1>2 DEF Unsettled
<1>4. BookingTypeInv' BY <1>1, <1>2, <1>3 DEF BookingTypeInv
<1>5. AloneSaveInv' BY <1>1, <1>3 DEF AloneSaveInv
<1> QED BY <1>1, <1>4, <1>5 DEF UncrossedInv, FollowUpsMatchBookings

LEMMA BookingsNextKeeps == BookingsInv /\ [BookingsNext]_bookingVars => BookingsInv'
<1> SUFFICES ASSUME BookingsInv, [BookingsNext]_bookingVars PROVE BookingsInv'
  OBVIOUS
<1>1. ASSUME UNCHANGED <<held, tasks, saving, crossed>> PROVE BookingsInv'
  BY <1>1 DEF BookingsInv, BookingTypeInv, AloneSaveInv, UncrossedInv, Unsettled,
              FollowUpsMatchBookings
<1>2. CASE UNCHANGED bookingVars BY <1>1, <1>2 DEF bookingVars, serverVars
<1>3. ASSUME NEW p \in Pages,
             \/ OpenPage(p) \/ RefetchBookings(p) \/ GrowStale(p) \/ LeavePage(p)
             \/ ForgetCopy(p) \/ ChangeLines(p)
      PROVE  BookingsInv'
  <2>1. UNCHANGED <<held, tasks, saving, crossed>>
    BY <1>3 DEF OpenPage, RefetchBookings, GrowStale, LeavePage, ForgetCopy, ChangeLines,
                serverVars
  <2> QED BY <1>1, <2>1
<1>4. ASSUME NEW p \in Pages, NEW stay \in BOOLEAN, SavePage(p, stay) PROVE BookingsInv'
  BY <1>4, SavePageKeeps
<1>5. ASSUME NEW p \in Pages,
             \/ ReadBookings(p) \/ RefuseUnknown(p) \/ FailBatch(p) \/ ReadForTasks(p)
             \/ AnswerMeeting(p) \/ AnswerStay(p) \/ AnswerLeave(p) \/ LoseAnswer(p)
      PROVE  BookingsInv'
  BY <1>5, RequestsKeep
<1>6. ASSUME NEW p \in Pages, WriteBatch(p) \/ WriteTasks(p) \/ DieSaving(p)
      PROVE  BookingsInv'
  BY <1>6, WriteBatchKeeps, WriteTasksKeeps, DieSavingKeeps
<1>7. CASE CompleteByHand BY <1>7, CompleteByHandKeeps
<1> QED BY <1>2, <1>3, <1>4, <1>5, <1>6, <1>7 DEF BookingsNext

\* When no save is between its batch and its tasks, and the last one to run
\* alone came after any that overlapped or died, the follow-ups are those of the
\* bookings: however many pages are open, with whatever lines.
THEOREM FollowUpsFollow == BookingSpec => []FollowUpsMatchBookings
<1>1. BookingsInv => FollowUpsMatchBookings BY DEF BookingsInv
<1> QED BY <1>1, BookingsInitInv, BookingsNextKeeps, PTL DEF BookingSpec

-----------------------------------------------------------------------------
\* What SaveIsExact needs: the bookings there are or were are numbered, the
\* lines of a page and those on their way name no booking twice, and the ones a
\* request has read for are bookings it found.
Row == [place : Places \cup {Blank}, status : BookingStatuses]
Line == [id : Nat, place : Places \cup {Blank}, status : BookingStatuses]

Booked(rows) == DOMAIN rows \subseteq 1 .. made /\ rows \in [DOMAIN rows -> Row]

NamesEachOnce(list) ==
  \A i, j \in DOMAIN list : list[i].id = list[j].id /\ list[i].id # 0 => i = j

OnItsWay(p) ==
  /\ {"step", "sent"} \subseteq DOMAIN saving[p]
  /\ \E n \in Nat : DOMAIN saving[p].sent \subseteq 1 .. n
  /\ \A i \in DOMAIN saving[p].sent : saving[p].sent[i] \in Line
  /\ NamesEachOnce(saving[p].sent)

LinesInv ==
  /\ made \in Nat /\ Booked(held)
  /\ DOMAIN copy = Pages /\ \A p \in Pages : Booked(copy[p])
  /\ lines \in [Pages -> Seq(Line)] /\ \A p \in Pages : NamesEachOnce(lines[p])
  /\ DOMAIN saving = Pages
  /\ \A p \in Pages :
       /\ saving[p].step \in {"sent", "read"} => OnItsWay(p)
       /\ saving[p].step = "read" =>
            "known" \in DOMAIN saving[p] /\ keptIds(p) \subseteq saving[p].known

\* Numbers of a finite set and their places in it.
LEMMA PlacesAreAll ==
  ASSUME NEW S \in SUBSET Nat, IsFiniteSet(S)
  PROVE  [x \in S |-> Cardinality({y \in S : y <= x})] \in Bijection(S, 1 .. Cardinality(S))
<1> DEFINE upTo(x) == {y \in S : y <= x}
           place == [x \in S |-> Cardinality(upTo(x))]
           n == Cardinality(S)
<1>1. \A x \in S : IsFiniteSet(upTo(x)) /\ Cardinality(upTo(x)) <= n
                   /\ Cardinality(upTo(x)) \in Nat
  <2> TAKE x \in S
  <2>1. upTo(x) \in SUBSET S OBVIOUS
  <2> QED BY <2>1, FS_Subset, FS_CardinalityType
<1>2. n \in Nat BY FS_CardinalityType
<1>3. \A x \in S : place[x] \in 1 .. n
  <2> TAKE x \in S
  <2>1. x \in upTo(x) OBVIOUS
  <2> HIDE DEF upTo
  <2>2. Cardinality(upTo(x)) # 0 BY <1>1, <2>1, FS_EmptySet
  <2> QED BY <1>1, <1>2, <2>2
<1>4. ASSUME NEW x \in S, NEW z \in S, x < z PROVE place[x] # place[z]
  <2>1. \A y \in S : y \in Nat OBVIOUS
  <2>2. upTo(x) \in SUBSET upTo(z)
    <3>1. ASSUME NEW y \in S, y <= x PROVE y <= z BY <1>4, <2>1, <3>1
    <3> QED BY <3>1
  <2>3. z \in upTo(z) /\ z \notin upTo(x) BY <1>4, <2>1
  <2> HIDE DEF upTo
  <2>4. Cardinality(upTo(x)) # Cardinality(upTo(z)) BY <1>1, <2>2, <2>3, FS_Subset
  <2> QED BY <2>4
<1>5. place \in [S -> 1 .. n]
  <2> HIDE DEF upTo, n
  <2> QED BY <1>3
<1>6. \A x, z \in S : place[x] = place[z] => x = z
  <2> SUFFICES ASSUME NEW x \in S, NEW z \in S, place[x] = place[z] PROVE x = z
    OBVIOUS
  <2>1. x \in Nat /\ z \in Nat OBVIOUS
  <2> HIDE DEF place
  <2> QED BY <1>4, <2>1
<1>7. place \in Injection(S, 1 .. n)
  <2>1. DOMAIN place = S OBVIOUS
  <2> HIDE DEF place, n
  <2> QED BY <1>5, <1>6, <2>1 DEF Injection, IsInjective
<1>8. IsFiniteSet(1 .. n) /\ Cardinality(1 .. n) = n
  <2> HIDE DEF n
  <2> QED BY <1>2, FS_Interval
<1>9. place \in Surjection(S, 1 .. n)
  <2> HIDE DEF place
  <2> QED BY <1>7, <1>8, FS_Injection
<1> QED BY <1>7, <1>9 DEF Bijection

\* A list of the numbers in order has each of them once.
LEMMA InOrderOnce ==
  ASSUME NEW S \in SUBSET Nat, IsFiniteSet(S)
  PROVE  /\ DOMAIN inOrder(S) = 1 .. Cardinality(S)
         /\ \A i \in DOMAIN inOrder(S) : inOrder(S)[i] \in S
         /\ \A i, j \in DOMAIN inOrder(S) : inOrder(S)[i] = inOrder(S)[j] => i = j
<1> DEFINE place == [x \in S |-> Cardinality({y \in S : y <= x})]
           n == Cardinality(S)
<1>1. place \in Surjection(S, 1 .. n) BY PlacesAreAll DEF Bijection
<1>2. \A i \in 1 .. n : \E x \in S : place[x] = i
  <2> HIDE DEF place, n
  <2> QED BY <1>1 DEF Surjection
<1>3. DOMAIN inOrder(S) = 1 .. n BY DEF inOrder
<1>4. \A i \in 1 .. n : inOrder(S)[i] \in S /\ place[inOrder(S)[i]] = i
  <2> TAKE i \in 1 .. n
  <2>1. inOrder(S)[i] = CHOOSE x \in S : Cardinality({y \in S : y <= x}) = i
    BY DEF inOrder
  <2>2. \E x \in S : Cardinality({y \in S : y <= x}) = i BY <1>2
  <2> QED BY <2>1, <2>2
<1> HIDE DEF place, n
<1> QED BY <1>3, <1>4 DEF n

\* The lines on their way and the bookings after their batch are as many, each
\* line at a booking of its own.
LEMMA BatchIsExact ==
  ASSUME LinesInv, NEW p \in Pages, WriteBatch(p), saving[p].known = DOMAIN held
  PROVE  LET lineAt == saving[p].sent
         IN  /\ Cardinality(DOMAIN held') = Cardinality(DOMAIN lineAt)
             /\ \A i \in DOMAIN lineAt :
                  LET alike == {id \in DOMAIN held' : held'[id] = rowOf(lineAt[i])}
                  IN  /\ lineAt[i].id # 0 => lineAt[i].id \in alike
                      /\ Cardinality(alike) =
                           Cardinality({j \in DOMAIN lineAt : rowOf(lineAt[j]) = rowOf(lineAt[i])})
<1> DEFINE lineAt == saving[p].sent
           D == DOMAIN lineAt
           new == newLines(p)
           total == made + Cardinality(new)
           at == [i \in D |-> bookingOf(p, i)]
           H == keptIds(p) \cup made + 1 .. total
<1>1. /\ made \in Nat /\ IsFiniteSet(D) /\ D \subseteq Nat
      /\ \A i \in D : lineAt[i].id \in Nat
      /\ \A i, j \in D : lineAt[i].id = lineAt[j].id /\ lineAt[i].id # 0 => i = j
      /\ keptIds(p) \subseteq DOMAIN held /\ DOMAIN held \subseteq 1 .. made
  <2>1. saving[p].step = "read" BY DEF WriteBatch
  <2>2. OnItsWay(p) BY <2>1 DEF LinesInv
  <2>3. PICK n \in Nat : D \subseteq 1 .. n BY <2>2 DEF OnItsWay
  <2>4. IsFiniteSet(1 .. n) BY <2>3, FS_Interval
  <2>5. IsFiniteSet(D) /\ D \subseteq Nat BY <2>3, <2>4, FS_Subset
  <2>6. \A i \in D : lineAt[i].id \in Nat BY <2>2 DEF OnItsWay, Line
  <2>7. \A i, j \in D : lineAt[i].id = lineAt[j].id /\ lineAt[i].id # 0 => i = j
    BY <2>2 DEF OnItsWay, NamesEachOnce
  <2>8. keptIds(p) \subseteq DOMAIN held BY <2>1 DEF LinesInv
  <2>9. made \in Nat /\ DOMAIN held \subseteq 1 .. made BY DEF LinesInv, Booked
  <2> QED BY <2>5, <2>6, <2>7, <2>8, <2>9
<1>2. new \subseteq D /\ new = {i \in D : lineAt[i].id = 0} BY DEF newLines
<1>3. IsFiniteSet(new) /\ Cardinality(new) \in Nat /\ new \in SUBSET Nat
  <2> HIDE DEF new, D
  <2> QED BY <1>1, <1>2, FS_Subset, FS_CardinalityType
<1>4. keptIds(p) = {lineAt[i].id : i \in D \ new}
  BY <1>2 DEF keptIds, sent, ToSet
<1>5. \A i \in D : at[i] = IF i \in new
                           THEN made + Cardinality({j \in new : j <= i}) ELSE lineAt[i].id
  BY <1>2 DEF bookingOf
<1> DEFINE place == [i \in new |-> Cardinality({j \in new : j <= i})]
<1>6. place \in Injection(new, 1 .. Cardinality(new)) /\ place \in Surjection(new, 1 .. Cardinality(new))
  <2> HIDE DEF new
  <2> QED BY <1>3, PlacesAreAll DEF Bijection
<1>7. /\ \A i \in new : at[i] = made + place[i] /\ place[i] \in 1 .. Cardinality(new)
      /\ \A i, j \in new : place[i] = place[j] => i = j
      /\ \A k \in 1 .. Cardinality(new) : \E i \in new : place[i] = k
  <2>1. \A i \in new : at[i] = made + place[i] BY <1>2, <1>5
  <2>2. DOMAIN place = new OBVIOUS
  <2> HIDE DEF at, place, new
  <2> QED BY <1>6, <2>1, <2>2 DEF Injection, Surjection, IsInjective
<1>8. \A i \in D \ new : at[i] = lineAt[i].id /\ at[i] \in keptIds(p) BY <1>4, <1>5
<1> HIDE DEF at, place
<1>9. at \in [D -> H]
  <2>1. at = [i \in D |-> at[i]] BY DEF at
  <2>2. \A i \in D : at[i] \in H
    <3> HIDE DEF D, new
    <3> QED BY <1>1, <1>2, <1>3, <1>7, <1>8
  <2> HIDE DEF H, D
  <2> QED BY <2>1, <2>2
<1>10. \A i, j \in D : at[i] = at[j] => i = j
  <2> SUFFICES ASSUME NEW i \in D, NEW j \in D, at[i] = at[j] PROVE i = j
    OBVIOUS
  <2> HIDE DEF D, new, lineAt
  <2>1. CASE i \in new /\ j \in new
    <3>1. place[i] = place[j] BY <1>1, <1>7, <2>1
    <3> QED BY <1>7, <2>1, <3>1
  <2>2. CASE i \notin new /\ j \notin new
    <3>1. lineAt[i].id = lineAt[j].id /\ lineAt[i].id # 0 BY <1>1, <1>2, <1>8, <2>2
    <3> QED BY <1>1, <3>1
  <2>3. \A k \in new, l \in D \ new : at[k] > made /\ at[l] <= made
    BY <1>1, <1>3, <1>7, <1>8
  <2>4. \A k \in D : at[k] \in Int BY <1>1, <1>2, <1>3, <1>7, <1>8
  <2> QED BY <1>1, <2>1, <2>2, <2>3, <2>4
<1>11. \A id \in H : \E i \in D : at[i] = id
  <2>1. ASSUME NEW id \in keptIds(p) PROVE \E i \in D : at[i] = id
    BY <1>4, <1>8
  <2>2. ASSUME NEW id \in made + 1 .. total PROVE \E i \in D : at[i] = id
    <3> HIDE DEF D, new
    <3>1. id - made \in 1 .. Cardinality(new) BY <1>1, <1>3, <2>2
    <3>2. PICK i \in new : place[i] = id - made BY <1>7, <3>1
    <3>3. at[i] = id BY <1>1, <1>7, <3>1, <3>2
    <3> QED BY <1>2, <3>3
  <2> QED BY <2>1, <2>2
<1>12. DOMAIN held' = H /\ \A i \in D : held'[at[i]] = rowOf(lineAt[i])
  <2> DEFINE linesOf(id) == {i \in D : bookingOf(p, i) = id}
  <2>1. held' = [id \in (DOMAIN held \ removedIds(p)) \cup made + 1 .. total |->
              IF linesOf(id) = {} THEN held[id]
              ELSE rowOf(lineAt[CHOOSE i \in linesOf(id) : TRUE])]
    BY DEF WriteBatch
  <2>2. DOMAIN held \ removedIds(p) = keptIds(p) BY <1>1 DEF removedIds
  <2>3. ASSUME NEW i \in D PROVE linesOf(at[i]) = {i}
    BY <1>10, <2>3 DEF at
  <2>4. \A i \in D : at[i] \in H
    <3> HIDE DEF D, H
    <3> QED BY <1>9
  <2> HIDE DEF D, lineAt, linesOf, total
  <2> QED BY <2>1, <2>2, <2>3, <2>4
<1> HIDE DEF H, D, lineAt
<1>13. at \in Bijection(D, H)
  <2>1. DOMAIN at = D BY <1>9
  <2> QED BY <1>9, <1>10, <1>11, <2>1 DEF Bijection, Injection, Surjection, IsInjective
<1>14. Cardinality(DOMAIN held') = Cardinality(D)
  <2>1. ExistsBijection(D, H) BY <1>13 DEF ExistsBijection
  <2> QED BY <1>1, <1>12, <2>1, FS_Bijection
<1>15. ASSUME NEW i \in D
       PROVE  LET alike == {id \in DOMAIN held' : held'[id] = rowOf(lineAt[i])}
              IN  /\ lineAt[i].id # 0 => lineAt[i].id \in alike
                  /\ Cardinality(alike) = Cardinality({j \in D : rowOf(lineAt[j]) = rowOf(lineAt[i])})
  <2> DEFINE alike == {id \in DOMAIN held' : held'[id] = rowOf(lineAt[i])}
             same == {j \in D : rowOf(lineAt[j]) = rowOf(lineAt[i])}
             f == [j \in same |-> at[j]]
  <2>1. lineAt[i].id # 0 => lineAt[i].id \in alike
    <3>1. at[i] \in H BY <1>9
    <3>2. lineAt[i].id # 0 => at[i] = lineAt[i].id BY <1>2, <1>8 DEF D, lineAt
    <3> QED BY <1>12, <3>1, <3>2
  <2>2. f \in [same -> alike] BY <1>9, <1>12
  <2>3. \A j, k \in same : f[j] = f[k] => j = k BY <1>10
  <2>4. \A id \in alike : \E j \in same : f[j] = id BY <1>11, <1>12
  <2>5. DOMAIN f = same /\ IsFiniteSet(same)
    <3>1. same \in SUBSET D OBVIOUS
    <3> QED BY <1>1, <3>1, FS_Subset
  <2> HIDE DEF f, same, alike
  <2>6. f \in Bijection(same, alike)
    BY <2>2, <2>3, <2>4, <2>5 DEF Bijection, Injection, Surjection, IsInjective
  <2>7. ExistsBijection(same, alike) BY <2>6 DEF ExistsBijection
  <2>8. Cardinality(alike) = Cardinality(same) BY <2>5, <2>7, FS_Bijection
  <2> QED BY <2>1, <2>8 DEF same, alike
<1> QED BY <1>14, <1>15 DEF D, lineAt

\* A list with one line taken out.
LEMMA RemoveAtShifts ==
  ASSUME NEW list \in Seq(Line), NEW i \in DOMAIN list
  PROVE  /\ RemoveAt(list, i) \in Seq(Line) /\ Len(list) \in Nat
         /\ Len(RemoveAt(list, i)) = Len(list) - 1
         /\ \A k \in 1 .. Len(list) - 1 :
              RemoveAt(list, i)[k] = IF k < i THEN list[k] ELSE list[k + 1]
<1> DEFINE n == Len(list)
           first == SubSeq(list, 1, i - 1)
           last == SubSeq(list, i + 1, n)
<1>1. n \in Nat /\ i \in 1 .. n BY LenProperties
<1>2. /\ first \in Seq(Line) /\ Len(first) = i - 1
      /\ \A k \in 1 .. i - 1 : first[k] = list[k]
  BY <1>1, SubSeqProperties
<1>3. /\ last \in Seq(Line) /\ Len(last) = n - i
      /\ \A k \in 1 .. n - i : last[k] = list[i + k]
  BY <1>1, SubSeqProperties
<1>4. RemoveAt(list, i) = first \o last BY DEF RemoveAt
<1> HIDE DEF first, last, n
<1>5. /\ first \o last \in Seq(Line) /\ Len(first \o last) = (i - 1) + (n - i)
      /\ \A k \in 1 .. (i - 1) + (n - i) :
           (first \o last)[k] = IF k <= i - 1 THEN first[k] ELSE last[k - (i - 1)]
  <2>1. first \o last \in Seq(Line) /\ Len(first \o last) = Len(first) + Len(last)
    BY <1>2, <1>3, ConcatProperties
  <2>2. \A k \in 1 .. Len(first) + Len(last) :
          (first \o last)[k] = IF k <= Len(first) THEN first[k] ELSE last[k - Len(first)]
    BY <1>2, <1>3, ConcatProperties
  <2> QED BY <1>2, <1>3, <2>1, <2>2
<1>6. (i - 1) + (n - i) = n - 1 BY <1>1
<1>7. ASSUME NEW k \in 1 .. n - 1
      PROVE  (first \o last)[k] = IF k < i THEN list[k] ELSE list[k + 1]
  <2>1. CASE k < i
    <3>1. k <= i - 1 /\ k \in 1 .. i - 1 BY <1>1, <2>1
    <3> QED BY <1>2, <1>5, <1>6, <2>1, <3>1
  <2>2. CASE ~(k < i)
    <3>1. ~(k <= i - 1) /\ k - (i - 1) \in 1 .. n - i /\ i + (k - (i - 1)) = k + 1
      BY <1>1, <2>2
    <3> QED BY <1>3, <1>5, <1>6, <2>2, <3>1
  <2> QED BY <2>1, <2>2
<1> QED BY <1>1, <1>4, <1>5, <1>6, <1>7 DEF n

LEMMA FiniteNumbers == \A n \in Nat : IsFiniteSet(1 .. n) BY FS_Interval

LEMMA PageLinesOnce ==
  ASSUME LinesInv, NEW p \in Pages, NEW rows, Booked(rows)
  PROVE  pageLines(p, rows) \in Seq(Line) /\ NamesEachOnce(pageLines(p, rows))
<1> DEFINE ids == inOrder(DOMAIN rows)
           all == [i \in DOMAIN ids |-> [id |-> ids[i], place |-> rows[ids[i]].place,
                                         status |-> rows[ids[i]].status]]
           blankLine == [id |-> 0, place |-> Blank, status |-> "tentative"]
<1>1. DOMAIN rows \in SUBSET Nat /\ IsFiniteSet(DOMAIN rows)
      /\ \A id \in DOMAIN rows : rows[id] \in Row
  <2>1. made \in Nat /\ DOMAIN rows \subseteq 1 .. made BY DEF LinesInv, Booked
  <2>2. IsFiniteSet(DOMAIN rows) BY <2>1, FiniteNumbers, FS_Subset
  <2> QED BY <2>1, <2>2 DEF Booked
<1>2. /\ DOMAIN ids = 1 .. Cardinality(DOMAIN rows) /\ Cardinality(DOMAIN rows) \in Nat
      /\ \A i \in DOMAIN ids : ids[i] \in DOMAIN rows
      /\ \A i, j \in DOMAIN ids : ids[i] = ids[j] => i = j
  BY <1>1, InOrderOnce, FS_CardinalityType
<1> HIDE DEF ids
<1>3. \A i \in DOMAIN all : all[i] \in Line /\ all[i].id = ids[i]
  <2> TAKE i \in DOMAIN all
  <2>1. ids[i] \in Nat /\ rows[ids[i]] \in Row BY <1>1, <1>2
  <2> QED BY <2>1 DEF Row, Line
<1>4. all \in Seq(Line) /\ NamesEachOnce(all)
  <2>1. DOMAIN all = 1 .. Cardinality(DOMAIN rows) BY <1>2
  <2>2. all \in [1 .. Cardinality(DOMAIN rows) -> Line]
    <3>1. all = [i \in DOMAIN all |-> all[i]] OBVIOUS
    <3> HIDE DEF all
    <3> QED BY <1>3, <2>1, <3>1
  <2>3. DOMAIN all = DOMAIN ids OBVIOUS
  <2> HIDE DEF all
  <2>4. all \in Seq(Line) BY <1>2, <2>2, SeqDef
  <2> QED BY <1>2, <1>3, <2>3, <2>4 DEF NamesEachOnce
<1>5. <<blankLine>> \in Seq(Line) /\ NamesEachOnce(<<blankLine>>)
  <2>1. blankLine \in Line BY DEF Line, BookingStatuses
  <2> HIDE DEF blankLine
  <2> QED BY <2>1 DEF NamesEachOnce
<1>6. pageLines(p, rows) = IF all = <<>> /\ p \notin MeetingForms THEN <<blankLine>> ELSE all
  BY DEF pageLines, ids
<1> QED BY <1>4, <1>5, <1>6

LEMMA ChangeLinesOnce ==
  ASSUME LinesInv, NEW p \in Pages, ChangeLines(p)
  PROVE  lines' \in [Pages -> Seq(Line)] /\ \A q \in Pages : NamesEachOnce(lines'[q])
<1> DEFINE old == lines[p]
<1>1. old \in Seq(Line) /\ NamesEachOnce(old) /\ lines \in [Pages -> Seq(Line)]
      /\ \A q \in Pages : NamesEachOnce(lines[q])
  BY DEF LinesInv
<1>2. ASSUME NEW list \in Seq(Line), NamesEachOnce(list), lines' = [lines EXCEPT ![p] = list]
      PROVE  lines' \in [Pages -> Seq(Line)] /\ \A q \in Pages : NamesEachOnce(lines'[q])
  BY <1>1, <1>2
<1>3. ASSUME NEW place \in Places \cup {Blank},
             lines' = [lines EXCEPT ![p] =
               Append(@, [id |-> 0, place |-> place, status |-> "tentative"])]
      PROVE  \E list \in Seq(Line) : NamesEachOnce(list) /\ lines' = [lines EXCEPT ![p] = list]
  <2> DEFINE l == [id |-> 0, place |-> place, status |-> "tentative"]
  <2>1. l \in Line /\ l.id = 0 BY DEF Line, BookingStatuses
  <2>2. lines' = [lines EXCEPT ![p] = Append(old, l)] BY <1>3
  <2> HIDE DEF l
  <2>3. Append(old, l) \in Seq(Line) BY <1>1, <2>1
  <2>4. NamesEachOnce(Append(old, l)) BY <1>1, <2>1 DEF NamesEachOnce
  <2> QED BY <2>2, <2>3, <2>4
<1>4. ASSUME NEW i \in DOMAIN old, lines' = [lines EXCEPT ![p] = RemoveAt(@, i)]
      PROVE  \E list \in Seq(Line) : NamesEachOnce(list) /\ lines' = [lines EXCEPT ![p] = list]
  <2> DEFINE rest == RemoveAt(old, i)
  <2>1. lines' = [lines EXCEPT ![p] = rest] BY <1>4
  <2>2. /\ rest \in Seq(Line) /\ Len(rest) = Len(old) - 1 /\ Len(old) \in Nat
        /\ \A k \in 1 .. Len(old) - 1 : rest[k] = IF k < i THEN old[k] ELSE old[k + 1]
    BY <1>1, RemoveAtShifts
  <2> HIDE DEF rest
  <2>3. DOMAIN rest = 1 .. Len(old) - 1 /\ DOMAIN old = 1 .. Len(old) /\ i \in 1 .. Len(old)
    BY <1>1, <2>2
  <2>4. NamesEachOnce(rest)
    <3> SUFFICES ASSUME NEW a \in DOMAIN rest, NEW b \in DOMAIN rest,
                        rest[a].id = rest[b].id, rest[a].id # 0
                 PROVE  a = b
      BY DEF NamesEachOnce
    <3> DEFINE before(k) == IF k < i THEN k ELSE k + 1
    <3>1. \A k \in DOMAIN rest : before(k) \in DOMAIN old /\ rest[k] = old[before(k)]
      BY <2>2, <2>3
    <3>2. before(a) = before(b) BY <1>1, <3>1 DEF NamesEachOnce
    <3> QED BY <2>2, <2>3, <3>2
  <2> QED BY <2>1, <2>2, <2>4
<1>5. ASSUME NEW i \in DOMAIN old, NEW l \in Line, l.id = old[i].id,
             lines' = [lines EXCEPT ![p] = [old EXCEPT ![i] = l]]
      PROVE  \E list \in Seq(Line) : NamesEachOnce(list) /\ lines' = [lines EXCEPT ![p] = list]
  <2> DEFINE list == [old EXCEPT ![i] = l]
  <2>1. list \in Seq(Line) BY <1>1
  <2>2. NamesEachOnce(list)
    <3>1. DOMAIN list = DOMAIN old /\ \A k \in DOMAIN old : list[k].id = old[k].id BY <1>1, <1>5
    <3> HIDE DEF list
    <3> QED BY <1>1, <3>1 DEF NamesEachOnce
  <2> QED BY <1>5, <2>1, <2>2
<1>6. ASSUME NEW i \in DOMAIN old, NEW place \in Places \cup {Blank},
             lines' = [lines EXCEPT ![p][i].place = place]
      PROVE  \E list \in Seq(Line) : NamesEachOnce(list) /\ lines' = [lines EXCEPT ![p] = list]
  <2> DEFINE l == [old[i] EXCEPT !.place = place]
  <2>1. old[i] \in Line BY <1>1
  <2>2. l \in Line /\ l.id = old[i].id BY <2>1 DEF Line
  <2>3. lines' = [lines EXCEPT ![p] = [old EXCEPT ![i] = l]] BY <1>6
  <2> QED BY <1>5, <2>2, <2>3
<1>7. ASSUME NEW i \in DOMAIN old, NEW s \in BookingStatuses,
             lines' = [lines EXCEPT ![p][i].status = s]
      PROVE  \E list \in Seq(Line) : NamesEachOnce(list) /\ lines' = [lines EXCEPT ![p] = list]
  <2> DEFINE l == [old[i] EXCEPT !.status = s]
  <2>1. old[i] \in Line BY <1>1
  <2>2. l \in Line /\ l.id = old[i].id BY <2>1 DEF Line
  <2>3. lines' = [lines EXCEPT ![p] = [old EXCEPT ![i] = l]] BY <1>7
  <2> QED BY <1>5, <2>2, <2>3
<1>8. \E list \in Seq(Line) : NamesEachOnce(list) /\ lines' = [lines EXCEPT ![p] = list]
  BY <1>3, <1>4, <1>6, <1>7 DEF ChangeLines
<1> QED BY <1>2, <1>8

LEMMA LinesInit == BookingsInit => LinesInv
<1> SUFFICES ASSUME BookingsInit PROVE LinesInv
  OBVIOUS
<1> USE DEF BookingsInit
<1>1. made \in Nat /\ Booked(held)
  <2>1. CASE held = <<>> BY <2>1 DEF Booked
  <2>2. ASSUME NEW h \in Places, held = <<[place |-> h, status |-> "tentative"]>>
        PROVE  made \in Nat /\ Booked(held)
    <3>1. made = 1 /\ DOMAIN held = 1 .. 1 BY <2>2
    <3>2. held[1] \in Row BY <2>2 DEF Row, BookingStatuses
    <3>3. held = [i \in 1 .. 1 |-> held[i]] BY <2>2
    <3> QED BY <3>1, <3>2, <3>3 DEF Booked
  <2> QED BY <2>1, <2>2
<1>2. Booked(<<>>) BY <1>1 DEF Booked
<1>3. \A p \in Pages : saving[p].step = "idle" BY DEF NotSaving
<1>4. NamesEachOnce(<<>>) BY DEF NamesEachOnce
<1>5. lines \in [Pages -> Seq(Line)] OBVIOUS
<1> QED BY <1>1, <1>2, <1>3, <1>4, <1>5 DEF LinesInv

\* A step may make bookings, take others into a copy or change lines, as long
\* as these are bookings and lines as they should be, and end one request.
LEMMA LinesKept ==
  ASSUME LinesInv, made' \in Nat, made <= made', Booked(held)',
         DOMAIN copy' = Pages, \A q \in Pages : copy'[q] = copy[q] \/ Booked(copy[q])',
         lines' \in [Pages -> Seq(Line)], \A q \in Pages : NamesEachOnce(lines'[q]),
         DOMAIN saving' = Pages,
         NEW p \in Pages, \A q \in Pages \ {p} : saving'[q] = saving[q],
         saving'[p].step \notin {"sent", "read"} \/ saving'[p] = saving[p]
  PROVE  LinesInv'
<1> USE DEF LinesInv
<1>1. \A q \in Pages : Booked(copy[q])'
  <2>1. 1 .. made \subseteq 1 .. made' OBVIOUS
  <2> QED BY <2>1 DEF Booked
<1>2. \A q \in Pages : NamesEachOnce(lines[q])' BY DEF NamesEachOnce
<1>3. ASSUME NEW q \in Pages, saving'[q].step \in {"sent", "read"} PROVE OnItsWay(q)'
  <2>1. saving'[q] = saving[q] BY <1>3
  <2>2. OnItsWay(q) BY <1>3, <2>1
  <2> QED BY <2>1, <2>2 DEF OnItsWay, NamesEachOnce
<1>4. ASSUME NEW q \in Pages, saving'[q].step = "read"
      PROVE  "known" \in DOMAIN saving'[q] /\ keptIds(q)' \subseteq saving'[q].known
  <2>1. saving'[q] = saving[q] BY <1>4
  <2>2. keptIds(q)' = keptIds(q) BY <2>1 DEF keptIds, sent
  <2> QED BY <1>4, <2>1, <2>2
<1> QED BY <1>1, <1>2, <1>3, <1>4

LEMMA SavePageLines ==
  ASSUME LinesInv, BookingTypeInv, NEW p \in Pages, NEW stay \in BOOLEAN, SavePage(p, stay)
  PROVE  LinesInv'
<1> USE DEF LinesInv
<1>1. /\ UNCHANGED <<held, made, copy, lines>>
      /\ saving' = [q \in Pages |->
           IF q = p THEN [step |-> "sent", sent |-> preparedLines(lines[p]), stay |-> stay,
                          alone |-> Unsettled = {}]
           ELSE IF q \in Unsettled THEN [saving[q] EXCEPT !.alone = FALSE] ELSE saving[q]]
  BY DEF SavePage, serverVars, pageVars, copyVars
<1>2. Booked(held)' /\ \A q \in Pages : Booked(copy[q])' BY <1>1 DEF Booked
<1>3. \A q \in Pages : NamesEachOnce(lines[q])' BY <1>1 DEF NamesEachOnce
<1>4. /\ saving'[p].step = "sent" /\ saving'[p].sent = preparedLines(lines[p])
      /\ {"step", "sent"} \subseteq DOMAIN saving'[p]
  BY <1>1
<1>5. OnItsWay(p)'
  <2> DEFINE old == lines[p]
  <2>1. old \in Seq(Line) /\ NamesEachOnce(old) OBVIOUS
  <2>2. Len(old) \in Nat /\ DOMAIN old = 1 .. Len(old) /\ \A i \in DOMAIN old : old[i] \in Line
    BY <2>1
  <2>3. /\ DOMAIN preparedLines(old) \subseteq DOMAIN old
        /\ \A i \in DOMAIN preparedLines(old) : preparedLines(old)[i] = old[i]
    BY DEF preparedLines
  <2> HIDE DEF old
  <2>4. saving'[p].sent = preparedLines(old) BY <1>4 DEF old
  <2> QED BY <1>4, <2>1, <2>2, <2>3, <2>4 DEF OnItsWay, NamesEachOnce
<1>6. ASSUME NEW q \in Pages, q # p, saving[q].step \in {"sent", "read"}
      PROVE  /\ saving'[q].step = saving[q].step /\ saving'[q].sent = saving[q].sent
             /\ saving'[q].known = saving[q].known \/ saving[q].step = "sent"
             /\ DOMAIN saving'[q] = DOMAIN saving[q]
  <2>1. q \in Unsettled /\ "alone" \in DOMAIN saving[q] BY <1>6 DEF Unsettled, BookingTypeInv
  <2>2. saving'[q] = [saving[q] EXCEPT !.alone = FALSE] BY <1>1, <1>6, <2>1
  <2>3. {"step", "sent"} \subseteq DOMAIN saving[q] BY <1>6 DEF OnItsWay
  <2>4. saving[q].step = "read" => "known" \in DOMAIN saving[q] OBVIOUS
  <2> QED BY <1>6, <2>2, <2>3, <2>4
<1>7. ASSUME NEW q \in Pages, q # p, saving'[q].step \in {"sent", "read"}
      PROVE  saving[q].step \in {"sent", "read"}
  <2>1. CASE q \in Unsettled
    <3>1. saving'[q] = [saving[q] EXCEPT !.alone = FALSE] BY <1>1, <1>7, <2>1
    <3>2. {"step", "alone"} \subseteq DOMAIN saving[q] BY <2>1 DEF BookingTypeInv
    <3>3. saving'[q].step = saving[q].step BY <3>1, <3>2
    <3> QED BY <1>7, <3>3
  <2>2. CASE q \notin Unsettled
    <3>1. saving'[q] = saving[q] BY <1>1, <1>7, <2>2
    <3> QED BY <1>7, <3>1
  <2> QED BY <2>1, <2>2
<1>8. ASSUME NEW q \in Pages, saving'[q].step \in {"sent", "read"} PROVE OnItsWay(q)'
  <2>1. CASE q = p BY <1>5, <2>1
  <2>2. CASE q # p
    <3>1. saving[q].step \in {"sent", "read"} BY <1>7, <1>8, <2>2
    <3>2. OnItsWay(q) BY <3>1
    <3>3. saving'[q].sent = saving[q].sent /\ DOMAIN saving'[q] = DOMAIN saving[q]
      BY <1>6, <2>2, <3>1
    <3> QED BY <3>2, <3>3 DEF OnItsWay, NamesEachOnce
  <2> QED BY <2>1, <2>2
<1>9. ASSUME NEW q \in Pages, saving'[q].step = "read"
      PROVE  "known" \in DOMAIN saving'[q] /\ keptIds(q)' \subseteq saving'[q].known
  <2>1. q # p BY <1>4, <1>9
  <2>2. saving[q].step \in {"sent", "read"} BY <1>7, <1>9, <2>1
  <2>3. /\ saving'[q].step = saving[q].step /\ saving'[q].sent = saving[q].sent
        /\ saving'[q].known = saving[q].known \/ saving[q].step = "sent"
        /\ DOMAIN saving'[q] = DOMAIN saving[q]
    BY <1>6, <2>1, <2>2
  <2>4. saving[q].step = "read" /\ saving'[q].known = saving[q].known BY <1>9, <2>3
  <2>5. keptIds(q)' = keptIds(q) BY <2>3 DEF keptIds, sent
  <2>6. "known" \in DOMAIN saving[q] /\ keptIds(q) \subseteq saving[q].known BY <2>4
  <2> QED BY <2>3, <2>4, <2>5, <2>6
<1>10. DOMAIN saving' = Pages /\ made' \in Nat /\ lines' \in [Pages -> Seq(Line)]
       /\ DOMAIN copy' = Pages
  BY <1>1
<1> QED BY <1>2, <1>3, <1>8, <1>9, <1>10

LEMMA ReadBookingsLines ==
  ASSUME LinesInv, NEW p \in Pages, ReadBookings(p) PROVE LinesInv'
<1> USE DEF LinesInv
<1>1. /\ saving[p].step = "sent" /\ UNCHANGED <<held, made, copy, lines>>
      /\ keptIds(p) \subseteq DOMAIN held
      /\ saving' = [saving EXCEPT ![p] =
           [step |-> "read", sent |-> saving[p].sent, stay |-> saving[p].stay,
            alone |-> saving[p].alone, known |-> DOMAIN held]]
  BY DEF ReadBookings, serverVars, pageVars, copyVars
<1>2. /\ DOMAIN saving' = Pages /\ \A q \in Pages \ {p} : saving'[q] = saving[q]
      /\ saving'[p].step = "read" /\ saving'[p].sent = saving[p].sent
      /\ saving'[p].known = DOMAIN held
      /\ {"step", "sent", "known"} \subseteq DOMAIN saving'[p]
  BY <1>1
<1>3. Booked(held)' /\ \A q \in Pages : Booked(copy[q])' BY <1>1 DEF Booked
<1>4. \A q \in Pages : NamesEachOnce(lines[q])' BY <1>1 DEF NamesEachOnce
<1>5. ASSUME NEW q \in Pages, saving'[q].step \in {"sent", "read"} PROVE OnItsWay(q)'
  <2>1. CASE q = p
    <3>1. OnItsWay(p) BY <1>1
    <3> QED BY <1>2, <2>1, <3>1 DEF OnItsWay, NamesEachOnce
  <2>2. CASE q # p
    <3>1. saving'[q] = saving[q] BY <1>2, <2>2
    <3>2. OnItsWay(q) BY <1>5, <3>1
    <3> QED BY <3>1, <3>2 DEF OnItsWay, NamesEachOnce
  <2> QED BY <2>1, <2>2
<1>6. ASSUME NEW q \in Pages, saving'[q].step = "read"
      PROVE  "known" \in DOMAIN saving'[q] /\ keptIds(q)' \subseteq saving'[q].known
  <2>1. keptIds(q)' = keptIds(q)
    <3>1. saving'[q].sent = saving[q].sent BY <1>2
    <3> QED BY <3>1 DEF keptIds, sent
  <2>2. CASE q = p BY <1>1, <1>2, <2>1, <2>2
  <2>3. CASE q # p
    <3>1. saving'[q] = saving[q] BY <1>2, <2>3
    <3> QED BY <1>6, <2>1, <3>1
  <2> QED BY <2>2, <2>3
<1> QED BY <1>1, <1>2, <1>3, <1>4, <1>5, <1>6

\* The page's own steps, and the answers.
LEMMA PageStepsLines ==
  ASSUME LinesInv, NEW p \in Pages,
         \/ OpenPage(p) \/ RefetchBookings(p) \/ GrowStale(p) \/ LeavePage(p)
         \/ ForgetCopy(p) \/ ChangeLines(p) \/ AnswerStay(p) \/ AnswerLeave(p)
         \/ AnswerMeeting(p)
  PROVE  LinesInv'
<1> USE DEF LinesInv
<1>1. /\ made' = made /\ held' = held
      /\ DOMAIN saving' = Pages /\ \A q \in Pages \ {p} : saving'[q] = saving[q]
      /\ saving'[p].step \notin {"sent", "read"} \/ saving'[p] = saving[p]
  BY DEF OpenPage, RefetchBookings, GrowStale, LeavePage, ForgetCopy, ChangeLines,
         AnswerStay, AnswerLeave, AnswerMeeting, serverVars, NotSaving
<1>2. Booked(held)' /\ Booked(held) /\ Booked(<<>>) /\ \A q \in Pages : Booked(copy[q])
  BY <1>1 DEF Booked
<1>3. /\ DOMAIN copy' = Pages
      /\ \A q \in Pages : copy'[q] = copy[q] \/ Booked(copy[q])'
  <2>1. /\ DOMAIN copy' = Pages /\ \A q \in Pages \ {p} : copy'[q] = copy[q]
        /\ copy'[p] \in {copy[p], held, <<>>}
    BY DEF OpenPage, RefetchBookings, GrowStale, LeavePage, ForgetCopy, ChangeLines,
           AnswerStay, AnswerLeave, AnswerMeeting, copyVars
  <2>2. copy'[p] # copy[p] => Booked(copy[p])' BY <1>1, <1>2, <2>1 DEF Booked
  <2> QED BY <2>1, <2>2
<1>4. <<>> \in Seq(Line) /\ NamesEachOnce(<<>>) BY DEF NamesEachOnce
<1>5. /\ lines' \in [Pages -> Seq(Line)]
      /\ \A q \in Pages : NamesEachOnce(lines'[q])
  <2>1. CASE ChangeLines(p) BY <2>1, ChangeLinesOnce
  <2>2. ASSUME NEW list \in Seq(Line), NamesEachOnce(list), lines' = [lines EXCEPT ![p] = list]
        PROVE  lines' \in [Pages -> Seq(Line)] /\ \A q \in Pages : NamesEachOnce(lines'[q])
    BY <2>2
  <2>3. \A rows \in {held, copy[p]} :
          pageLines(p, rows) \in Seq(Line) /\ NamesEachOnce(pageLines(p, rows))
    BY <1>2, PageLinesOnce
  <2>4. CASE OpenPage(p) \/ AnswerStay(p)
    <3>1. \E rows \in {held, copy[p]} : lines' = [lines EXCEPT ![p] = pageLines(p, rows)]
      BY <2>4 DEF OpenPage, AnswerStay
    <3> QED BY <2>2, <2>3, <3>1
  <2>5. CASE LeavePage(p) \/ AnswerLeave(p)
    <3>1. lines' = [lines EXCEPT ![p] = <<>>] BY <2>5 DEF LeavePage, AnswerLeave
    <3> QED BY <1>4, <2>2, <3>1
  <2>6. CASE RefetchBookings(p) \/ GrowStale(p) \/ ForgetCopy(p) \/ AnswerMeeting(p)
    <3>1. lines' = lines
      BY <2>6 DEF RefetchBookings, GrowStale, ForgetCopy, AnswerMeeting, pageVars
    <3> QED BY <3>1
  <2> QED BY <2>1, <2>4, <2>5, <2>6
<1> QED BY <1>1, <1>2, <1>3, <1>5, LinesKept

\* The steps of a save that has read the bookings, and its ends.
LEMMA SaveStepsLines ==
  ASSUME LinesInv, BookingTypeInv, NEW p \in Pages,
         \/ RefuseUnknown(p) \/ WriteBatch(p) \/ FailBatch(p) \/ ReadForTasks(p)
         \/ WriteTasks(p) \/ DieSaving(p) \/ LoseAnswer(p)
  PROVE  LinesInv'
<1> USE DEF LinesInv
<1>1. copy' = copy /\ lines' = lines
  BY DEF RefuseUnknown, WriteBatch, FailBatch, ReadForTasks, WriteTasks, DieSaving, LoseAnswer,
         copyVars, pageVars
<1>2. /\ DOMAIN saving' = Pages /\ \A q \in Pages \ {p} : saving'[q] = saving[q]
      /\ saving'[p].step \notin {"sent", "read"}
  <2>1. CASE WriteBatch(p)
    <3>1. saving' = [saving EXCEPT ![p].step = "written"] /\ saving[p].step = "read"
      BY <2>1 DEF WriteBatch
    <3>2. "step" \in DOMAIN saving[p] BY <3>1 DEF OnItsWay
    <3> QED BY <3>1, <3>2
  <2>2. CASE WriteTasks(p)
    <3>1. \/ saving' = [saving EXCEPT ![p] = [step |-> "done", stay |-> saving[p].stay]]
          \/ saving' = [saving EXCEPT ![p] = NotSaving]
      BY <2>2 DEF WriteTasks
    <3> QED BY <3>1 DEF NotSaving
  <2>3. CASE ReadForTasks(p) BY <2>3 DEF ReadForTasks
  <2>4. CASE RefuseUnknown(p) \/ FailBatch(p) \/ DieSaving(p) \/ LoseAnswer(p)
    BY <2>4 DEF RefuseUnknown, FailBatch, DieSaving, LoseAnswer, NotSaving
  <2> QED BY <2>1, <2>2, <2>3, <2>4
<1>3. made' \in Nat /\ made <= made' /\ Booked(held)'
  <2>1. CASE WriteBatch(p)
    <3> DEFINE lineAt == saving[p].sent
               total == made + Cardinality(newLines(p))
               H == (DOMAIN held \ removedIds(p)) \cup made + 1 .. total
               linesOf(id) == {i \in DOMAIN lineAt : bookingOf(p, i) = id}
    <3>1. /\ made' = total
          /\ held' = [id \in H |-> IF linesOf(id) = {} THEN held[id]
                                   ELSE rowOf(lineAt[CHOOSE i \in linesOf(id) : TRUE])]
      BY <2>1 DEF WriteBatch
    <3>2. OnItsWay(p) BY <2>1 DEF WriteBatch
    <3>3. PICK n \in Nat : DOMAIN lineAt \subseteq 1 .. n BY <3>2 DEF OnItsWay
    <3>4. newLines(p) \in SUBSET (1 .. n) /\ newLines(p) \subseteq Nat BY <3>3 DEF newLines
    <3>5. IsFiniteSet(newLines(p)) BY <3>4, FiniteNumbers, FS_Subset
    <3>6. Cardinality(newLines(p)) \in Nat BY <3>5, FS_CardinalityType
    <3>7. \A i \in DOMAIN lineAt : rowOf(lineAt[i]) \in Row
      BY <3>2 DEF OnItsWay, Line, Row, rowOf
    <3>8. made \in Nat /\ DOMAIN held \subseteq 1 .. made
          /\ \A id \in DOMAIN held : held[id] \in Row
      BY DEF Booked
    <3>9. ASSUME NEW id \in made + 1 .. total PROVE linesOf(id) # {}
      <4> DEFINE new == newLines(p)
                 place == [i \in new |-> Cardinality({j \in new : j <= i})]
      <4>1. place \in Surjection(new, 1 .. Cardinality(new))
        <5> HIDE DEF new
        <5>1. new \in SUBSET Nat /\ IsFiniteSet(new) BY <3>4, <3>5 DEF new
        <5> QED BY <5>1, PlacesAreAll DEF Bijection
      <4>2. id - made \in 1 .. Cardinality(new) BY <3>6, <3>8, <3>9
      <4>3. \E i \in new : place[i] = id - made
        <5> HIDE DEF place, new
        <5> QED BY <4>1, <4>2 DEF Surjection
      <4>4. PICK i \in new : Cardinality({j \in new : j <= i}) = id - made BY <4>3
      <4>5. bookingOf(p, i) = made + (id - made) /\ i \in DOMAIN lineAt
        BY <4>4 DEF bookingOf, newLines
      <4>6. made + (id - made) = id BY <3>8, <4>2
      <4> QED BY <4>5, <4>6
    <3>10. made' \in Nat /\ made <= made' /\ H \subseteq 1 .. made'
      BY <3>1, <3>6, <3>8
    <3>11. \A id \in H : held'[id] \in Row
      <4> TAKE id \in H
      <4>1. CASE linesOf(id) = {}
        <5>1. id \in DOMAIN held BY <3>9, <4>1
        <5> HIDE DEF linesOf, H
        <5> QED BY <3>1, <3>8, <4>1, <5>1
      <4>2. CASE linesOf(id) # {}
        <5>1. (CHOOSE i \in linesOf(id) : TRUE) \in DOMAIN lineAt BY <4>2
        <5> HIDE DEF linesOf, H
        <5> QED BY <3>1, <3>7, <4>2, <5>1
      <4> QED BY <4>1, <4>2
    <3>12. held' = [id \in H |-> held'[id]] /\ DOMAIN held' = H
      <4> HIDE DEF linesOf, H
      <4> QED BY <3>1
    <3> HIDE DEF H
    <3> QED BY <3>10, <3>11, <3>12 DEF Booked
  <2>2. CASE \/ RefuseUnknown(p) \/ FailBatch(p) \/ ReadForTasks(p)
             \/ WriteTasks(p) \/ DieSaving(p) \/ LoseAnswer(p)
    <3>1. made' = made /\ held' = held
      BY <2>2 DEF RefuseUnknown, FailBatch, ReadForTasks, WriteTasks, DieSaving, LoseAnswer,
                  serverVars
    <3> QED BY <3>1 DEF Booked
  <2> QED BY <2>1, <2>2
<1> QED BY <1>1, <1>2, <1>3, LinesKept

LEMMA LinesNext == LinesInv /\ BookingTypeInv /\ [BookingsNext]_bookingVars => LinesInv'
<1> SUFFICES ASSUME LinesInv, BookingTypeInv, [BookingsNext]_bookingVars PROVE LinesInv'
  OBVIOUS
<1>1. ASSUME UNCHANGED <<held, made, copy, lines, saving>> PROVE LinesInv'
  BY <1>1 DEF LinesInv, Booked, OnItsWay, NamesEachOnce, keptIds, sent
<1>2. CASE UNCHANGED bookingVars
  BY <1>1, <1>2 DEF bookingVars, serverVars, pageVars, copyVars
<1>3. CASE CompleteByHand BY <1>1, <1>3 DEF CompleteByHand, pageVars, copyVars
<1>4. ASSUME NEW p \in Pages, NEW stay \in BOOLEAN, SavePage(p, stay) PROVE LinesInv'
  BY <1>4, SavePageLines
<1>5. ASSUME NEW p \in Pages, ReadBookings(p) PROVE LinesInv' BY <1>5, ReadBookingsLines
<1>6. ASSUME NEW p \in Pages,
             \/ OpenPage(p) \/ RefetchBookings(p) \/ GrowStale(p) \/ LeavePage(p)
             \/ ForgetCopy(p) \/ ChangeLines(p) \/ AnswerStay(p) \/ AnswerLeave(p)
             \/ AnswerMeeting(p)
      PROVE  LinesInv'
  BY <1>6, PageStepsLines
<1>7. ASSUME NEW p \in Pages,
             \/ RefuseUnknown(p) \/ WriteBatch(p) \/ FailBatch(p) \/ ReadForTasks(p)
             \/ WriteTasks(p) \/ DieSaving(p) \/ LoseAnswer(p)
      PROVE  LinesInv'
  BY <1>7, SaveStepsLines
<1> QED BY <1>2, <1>3, <1>4, <1>5, <1>6, <1>7 DEF BookingsNext

LEMMA SaveInvHolds == BookingSpec => [](BookingTypeInv /\ LinesInv)
<1>1. BookingsInit => BookingsInv /\ LinesInv BY BookingsInitInv, LinesInit
<1>2. BookingsInv /\ LinesInv /\ [BookingsNext]_bookingVars => (BookingsInv /\ LinesInv)'
  <2>1. BookingsInv => BookingTypeInv BY DEF BookingsInv
  <2> QED BY <2>1, BookingsNextKeeps, LinesNext
<1>3. BookingsInv /\ LinesInv => BookingTypeInv /\ LinesInv BY DEF BookingsInv
<1> QED BY <1>1, <1>2, <1>3, PTL DEF BookingSpec

\* SaveIsExact: any pages, halls, lines and bookings.  A batch that meets the
\* bookings its request read leaves one booking for each line that was sent,
\* a line with an id at the booking of that id, and no other.
THEOREM SavesAreExact == BookingSpec => SaveIsExact
<1> DEFINE Exact ==
      \A p \in Pages :
        (WriteBatch(p) /\ saving[p].known = DOMAIN held)
        => LET lineAt == saving[p].sent
           IN  /\ Cardinality(DOMAIN held') = Cardinality(DOMAIN lineAt)
               /\ \A i \in DOMAIN lineAt :
                    LET alike == {id \in DOMAIN held' : held'[id] = rowOf(lineAt[i])}
                    IN  /\ lineAt[i].id # 0 => lineAt[i].id \in alike
                        /\ Cardinality(alike) =
                             Cardinality({j \in DOMAIN lineAt : rowOf(lineAt[j]) = rowOf(lineAt[i])})
<1>1. LinesInv => Exact BY BatchIsExact
<1>2. BookingTypeInv /\ LinesInv => Exact BY <1>1
<1> HIDE DEF Exact
<1>3. BookingSpec => [][Exact]_bookingVars BY <1>2, SaveInvHolds, PTL
<1> USE DEF Exact
<1>4. [][Exact]_bookingVars => SaveIsExact BY DEF SaveIsExact
<1> QED BY <1>3, <1>4, PTL
=============================================================================
