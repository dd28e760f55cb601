--------------------------- MODULE ChecklistCache ---------------------------
(***************************************************************************)
(* The browser's copy of an event's checklist and what useChecklistUpdate  *)
(* does to it: an optimistic change before the PATCH, the merge of its     *)
(* answer, a GET of the whole list behind it, and the return to the        *)
(* earlier copy when the PATCH fails.  The hook lets the next item be      *)
(* changed while a PATCH or its GET is under way.  Answers come in any     *)
(* order, and an answer may be lost after the server has acted.            *)
(*                                                                         *)
(* A PATCH is handled in one step (FollowUpTasks and EventLifecycle model  *)
(* it); a value stands for an item with its statuses.  Only this browser   *)
(* changes the checklist.                                                  *)
(***************************************************************************)
EXTENDS Integers, FiniteSets

CONSTANTS Items, Mutations,  \* items; calls of mutate
          MaxRefetches       \* bound: GETs of the query itself (focus, hints)

ASSUME ChecklistCacheAssumption == MaxRefetches \in Nat

VARIABLES
  server,    \* each item's value in the database
  cache,     \* the query's data
  mutation,  \* each mutation's progress
  query,     \* the query's own GET: "no", "asked", or the list it brings
  refetches,
  muddled    \* history: cache and server may differ with nothing under way

cacheVars == <<server, cache, mutation, query, refetches, muddled>>

New == [step |-> "new"]
None == [step |-> "done"]

\* In flight until the GET behind the mutation has been answered.
inFlight(m) == mutation[m].step \notin {"new", "done"}
quiet == query.step = "done" /\ \A m \in Mutations : ~inFlight(m)

CacheInit ==
  /\ server = [i \in Items |-> 0] /\ cache = server
  /\ mutation = [m \in Mutations |-> New]
  /\ query = None /\ refetches = 0 /\ muddled = FALSE

\* onMutate: cancelQueries stops the query's own GET, not the GETs behind
\* other mutations; the copy is kept, the new value shown.
OnMutate(m, i) ==
  /\ mutation[m].step = "new" /\ m = CHOOSE n \in Mutations : mutation[n].step = "new"
  /\ \E v \in 0..1 :
       /\ v # cache[i]
       /\ mutation' = [n \in Mutations |->
            IF n = m THEN [step |-> "patch", item |-> i, value |-> v, previous |-> cache]
            ELSE IF mutation[n].step = "got" THEN [mutation[n] EXCEPT !.alone = FALSE]
            ELSE mutation[n]]
       /\ cache' = [cache EXCEPT ![i] = v]
  /\ query' = None
  /\ muddled' = (muddled \/ \E n \in Mutations : inFlight(n))
  /\ UNCHANGED <<server, refetches>>

\* The server's handler of the PATCH; the answer is under way, or is lost.
Serve(m) ==
  /\ mutation[m].step = "patch"
  /\ server' = [server EXCEPT ![mutation[m].item] = mutation[m].value]
  /\ \/ /\ mutation' = [mutation EXCEPT ![m].step = "answered"]
        /\ UNCHANGED muddled
     \/ /\ mutation' = [mutation EXCEPT ![m].step = "failed"]
        /\ muddled' = TRUE
  /\ UNCHANGED <<cache, query, refetches>>

\* The PATCH does not arrive, or is refused.
Refuse(m) ==
  /\ mutation[m].step = "patch"
  /\ mutation' = [mutation EXCEPT ![m].step = "failed"]
  /\ UNCHANGED <<server, cache, query, refetches, muddled>>

\* onSuccess: the answer is merged, then the GET is sent.
OnSuccess(m) ==
  /\ mutation[m].step = "answered"
  /\ cache' = [cache EXCEPT ![mutation[m].item] = mutation[m].value]
  /\ mutation' = [mutation EXCEPT ![m].step = "get"]
  /\ UNCHANGED <<server, query, refetches, muddled>>

\* Slip: the new value stays on the screen.
keepOptimistic(m) == cache

\* onError puts the whole copy back, later changes of other items included.
restored(m) == mutation[m].previous

OnError(m) ==
  /\ mutation[m].step = "failed"
  /\ cache' = restored(m)
  /\ mutation' = [mutation EXCEPT ![m] = None]
  /\ UNCHANGED <<server, query, refetches, muddled>>

\* The GET behind a mutation is answered from the database ...
ServeGet(m) ==
  /\ mutation[m].step = "get"
  /\ mutation' = [mutation EXCEPT ![m] =
                  [step |-> "got", list |-> server,
                   alone |-> \A n \in Mutations \ {m} : ~inFlight(n)]]
  /\ UNCHANGED <<server, cache, query, refetches, muddled>>

\* ... and shown, whatever came before it, and the event's queries, of which
\* the checklist is one, are fetched anew; unless the connection breaks.
ShowGet(m) ==
  /\ mutation[m].step = "got"
  /\ mutation' = [mutation EXCEPT ![m] = None]
  /\ \/ /\ cache' = mutation[m].list
        /\ query' = [step |-> "asked"]
        /\ muddled' = (muddled /\ ~(mutation[m].alone
                                   /\ \A n \in Mutations \ {m} : ~inFlight(n)))
     \/ UNCHANGED <<cache, query, muddled>>
  /\ UNCHANGED <<server, refetches>>

\* The query's own GET: on focus, or by a realtime hint.
Refetch ==
  /\ query = None /\ refetches < MaxRefetches
  /\ query' = [step |-> "asked"] /\ refetches' = refetches + 1
  /\ UNCHANGED <<server, cache, mutation, muddled>>

ServeRefetch ==
  /\ query.step = "asked"
  /\ query' = [step |-> "got", list |-> server,
               alone |-> \A m \in Mutations : ~inFlight(m)]
  /\ UNCHANGED <<server, cache, mutation, refetches, muddled>>

ShowRefetch ==
  /\ query.step = "got"
  /\ cache' = query.list /\ query' = None
  /\ muddled' = ~query.alone
  /\ UNCHANGED <<server, mutation, refetches>>

CacheNext ==
  \/ \E m \in Mutations :
       \/ \E i \in Items : OnMutate(m, i)
       \/ Serve(m) \/ Refuse(m) \/ OnSuccess(m) \/ OnError(m) \/ ServeGet(m) \/ ShowGet(m)
  \/ Refetch \/ ServeRefetch \/ ShowRefetch

-----------------------------------------------------------------------------
\* With nothing under way the screen shows what the server has, after any
\* sequence of saved and refused changes, lost connections of the GETs
\* included.  The exceptions, which the next answer to a GET that runs alone
\* ends: mutations that overlapped each other or a GET of the query (a late
\* list, or a failure putting back the copy from before both), and an answer
\* lost after the server had acted.
SettledShowsServer == quiet /\ ~muddled => cache = server
=============================================================================
