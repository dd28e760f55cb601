-------------------------- MODULE LifecycleRequests --------------------------
(***************************************************************************)
(* The requests of EventLifecycle taken apart into their SQL statements.   *)
(* D1 runs one statement at a time and the handlers use no transaction, so *)
(* two requests about one event interleave between any two statements, and *)
(* a request that dies leaves what it has written.                         *)
(*                                                                         *)
(* A slot is a worker serving one request: req is that request, todo the   *)
(* statements it has still to run, seen what its earlier reads told it.    *)
(* A read decides at once which writes follow, as the code does between    *)
(* two awaits, and puts them at the head of todo.                          *)
(*                                                                         *)
(* The event here has a show date, a filled point of contact and a type    *)
(* that needs no approval, so its gate alone decides.  A GET runs the      *)
(* healers twice in parallel (getChecklistItems and getEventLifecycle      *)
(* under one Promise.all): each pass is a "get" of its own.                *)
(***************************************************************************)
EXTENDS ConfirmationGate, Naturals, Sequences

CONSTANTS
  Slot,         \* workers that can serve this event at once
  Offers,       \* the requests users may send
  Start,        \* the events they may send them to
  MaxRequests,  \* bound: requests in one behaviour
  MaxDeaths     \* bound: requests that die in one behaviour

Request ==
  [kind : {"patch"}, field : GateField, value : UNION {FieldValues[f] : f \in GateField}]
    \cup [kind : {"patch_other", "get"}]
    \cup [kind : {"post"}, to : Status]

Nobody == [kind |-> "none"]

ASSUME RequestsAssumption ==
  /\ Offers \subseteq Request
  /\ \A q \in Offers : q.kind = "patch" => q.value \in FieldValues[q.field]
  /\ Start \subseteq [gate : Gate, status : Status,
                      from : PreConfirmStatus \cup {"none"}]
  /\ MaxRequests \in Nat /\ MaxDeaths \in Nat

VARIABLES
  gate,       \* the rows and confirmation_status
  status,     \* events.status
  from,       \* from_status of the newest history row to confirmed
  req, todo, seen,
  alone,      \* alone[s]: the request of s has overlapped nothing but reads
              \* that were alone themselves, and those only if it is a read
  sent,       \* requests begun so far
  deaths      \* requests that died so far

vars == <<gate, status, from, req, todo, seen, alone, sent, deaths>>

-----------------------------------------------------------------------------
(* Statements.                                                             *)

Read(what) == [op |-> what]

Set(f, v) == [op |-> "set", field |-> f, value |-> v]

\* The write that brings field f to its value in h, if it has another.
WriteOf(f, h) == IF h[f] = gate[f] THEN <<>> ELSE <<Set(f, h[f])>>

healFinancials == <<Read("financials_to_heal")>>
healLetter     == <<Read("financials_of_letter")>>
healChain      == <<Read("letter_chain")>>

\* The judgement of a checklist edit and the decision of a status change both
\* end by reading confirmation_status and then the money rows.
readGate == <<Read("letter_status"), Read("money")>>

reconcilersOf(f) ==
  CASE f \in {"costing", "proforma"}  -> healFinancials \o healLetter
    [] f = "payment"                  -> healLetter
    [] f \in {"made", "couriered"}    -> healChain
    [] OTHER                          -> <<>>

\* The reads updateChecklistItem makes before it accepts the value.
guardsOf(f, v) ==
  CASE f = "proforma" /\ v = "Sent"      -> <<Read("guard_financials")>>
    [] f = "payment" /\ v = "Completed"  -> <<Read("guard_financials")>>
    [] <<f, v>> \in {<<"couriered", "dated">>, <<"signed", "Yes">>} ->
         <<Read("guard_letter"), Read("guard_financials")>>
    [] OTHER -> <<>>

syncOf(f, v) ==
  CASE f = "signed" /\ v # "Yes" -> <<Read("letter_rows_to_sync")>>
    [] <<f, v>> \in {<<"made", "Yes">>, <<"couriered", "dated">>, <<"signed", "Yes">>} ->
         <<[op |-> "sync_letter"]>>
    [] OTHER -> <<>>

\* Slip: the read heals the money and the letter but not the delivery chain.
ProgramWithoutChain(q) ==
  CASE q.kind = "patch" ->
         guardsOf(q.field, q.value) \o <<Set(q.field, q.value)>>
           \o reconcilersOf(q.field) \o syncOf(q.field, q.value)
           \o <<Read("status_to_judge")>>
    [] q.kind = "patch_other" -> <<Read("status_to_judge")>>
    [] q.kind = "get"  -> healFinancials \o healLetter
    [] q.kind = "post" -> <<Read("event")>> \o healFinancials \o healLetter \o readGate

\* Slip: the event is judged before the edit is written.
ProgramJudgingFirst(q) ==
  CASE q.kind = "patch" ->
         <<Read("status_to_judge")>> \o guardsOf(q.field, q.value)
           \o <<Set(q.field, q.value)>>
           \o reconcilersOf(q.field) \o syncOf(q.field, q.value)
    [] q.kind = "patch_other" -> <<Read("status_to_judge")>>
    [] q.kind = "get"  -> healFinancials \o healLetter \o healChain
    [] q.kind = "post" -> <<Read("event")>> \o healFinancials \o healLetter \o readGate

Program(q) ==
  CASE q.kind = "patch" ->
         guardsOf(q.field, q.value) \o <<Set(q.field, q.value)>>
           \o reconcilersOf(q.field) \o syncOf(q.field, q.value)
           \o <<Read("status_to_judge")>>
    [] q.kind = "patch_other" -> <<Read("status_to_judge")>>
    [] q.kind = "get"  -> healFinancials \o healLetter \o healChain
    [] q.kind = "post" -> <<Read("event")>> \o healFinancials \o healLetter \o readGate

-----------------------------------------------------------------------------
Init ==
  /\ \E e \in Start : gate = e.gate /\ status = e.status /\ from = e.from
  /\ req = [s \in Slot |-> Nobody]
  /\ todo = [s \in Slot |-> <<>>]
  /\ seen = [s \in Slot |-> [status |-> "none", letter |-> "none"]]
  /\ alone = [s \in Slot |-> TRUE]
  /\ sent = 0
  /\ deaths = 0

bothRead(t, q) == req[t].kind = "get" /\ q.kind = "get"

Begin(s, q) ==
  /\ req[s] = Nobody
  /\ sent < MaxRequests
  /\ sent' = sent + 1
  /\ req' = [req EXCEPT ![s] = q]
  /\ todo' = [todo EXCEPT ![s] = Program(q)]
  /\ alone' = [t \in Slot |->
       IF t = s THEN \A u \in Slot \ {s} :
                       req[u] # Nobody => alone[u] /\ bothRead(u, q)
       ELSE alone[t] /\ (req[t] # Nobody => bothRead(t, q))]
  /\ UNCHANGED <<gate, status, from, seen, deaths>>

\* The response goes out and the slot is free.
Answer(s) ==
  /\ req[s] # Nobody
  /\ todo[s] = <<>>
  /\ req' = [req EXCEPT ![s] = Nobody]
  /\ seen' = [seen EXCEPT ![s] = [status |-> "none", letter |-> "none"]]
  /\ UNCHANGED <<gate, status, from, todo, alone, sent, deaths>>

\* A statement fails or the worker is killed: what was written stays written,
\* and the statements that were to follow never run.
Die(s) ==
  /\ req[s] # Nobody
  /\ todo[s] # <<>>
  /\ deaths < MaxDeaths
  /\ deaths' = deaths + 1
  /\ req' = [req EXCEPT ![s] = Nobody]
  /\ todo' = [todo EXCEPT ![s] = <<>>]
  /\ seen' = [seen EXCEPT ![s] = [status |-> "none", letter |-> "none"]]
  /\ UNCHANGED <<gate, status, from, alone, sent>>

At(s, op) == todo[s] # <<>> /\ Head(todo[s]).op = op

\* The head statement of s is done and `next` takes its place.
Proceed(s, next) == todo' = [todo EXCEPT ![s] = next \o Tail(@)]

\* updateChecklistItem throws: nothing further of the request runs.
Refuse(s) == todo' = [todo EXCEPT ![s] = <<>>]

Elsewhere == UNCHANGED <<req, alone, sent, deaths>>

-----------------------------------------------------------------------------
(* The guards of a checklist edit, each a read of its own.                 *)

GuardFinancials(s) ==
  /\ At(s, "guard_financials")
  /\ IF CASE req[s].field = "proforma" -> isCostingEmailSent(gate)
          [] req[s].field = "payment"  -> isCostingEmailSent(gate) /\ isProformaSatisfied(gate)
          [] OTHER                     -> areFinancialsReady(gate)
     THEN Proceed(s, <<>>) ELSE Refuse(s)
  /\ UNCHANGED <<gate, status, from, seen>> /\ Elsewhere

GuardLetter(s) ==
  /\ At(s, "guard_letter")
  /\ IF IF req[s].field = "couriered" THEN gate.made = "Yes" ELSE gate.couriered = "dated"
     THEN Proceed(s, <<>>) ELSE Refuse(s)
  /\ UNCHANGED <<gate, status, from, seen>> /\ Elsewhere

(* UPDATE of one checklist row or of confirmation_status.                  *)
WriteField(s) ==
  /\ At(s, "set")
  /\ gate' = [gate EXCEPT ![Head(todo[s]).field] = Head(todo[s]).value]
  /\ Proceed(s, <<>>)
  /\ UNCHANGED <<status, from, seen>> /\ Elsewhere

(* The reads of the three healers.                                         *)

ReadFinancialsToHeal(s) ==
  LET h == reconcileFinancialSequence(gate)
  IN  /\ At(s, "financials_to_heal")
      /\ Proceed(s, WriteOf("proforma", h) \o WriteOf("payment", h))
      /\ UNCHANGED <<gate, status, from, seen>> /\ Elsewhere

\* Two reads: the financials, then, when they are incomplete, the letter rows.
ReadFinancialsOfLetter(s) ==
  /\ At(s, "financials_of_letter")
  /\ Proceed(s, IF areFinancialsReady(gate) THEN <<>>
                ELSE <<Read("letter_rows_to_roll_back")>>)
  /\ UNCHANGED <<gate, status, from, seen>> /\ Elsewhere

\* Once a row is reset, confirmation_status is written too, changed or not.
ResetLetterRows(s, h) ==
  Proceed(s, IF h = gate THEN <<>>
             ELSE WriteOf("signed", h) \o WriteOf("couriered", h)
                    \o <<Set("letter", h.letter)>>)

ReadLetterRowsToRollBack(s) ==
  /\ At(s, "letter_rows_to_roll_back")
  /\ ResetLetterRows(s, rollBackLetter(gate))
  /\ UNCHANGED <<gate, status, from, seen>> /\ Elsewhere

ReadLetterChain(s) ==
  /\ At(s, "letter_chain")
  /\ ResetLetterRows(s, reconcileDeliveryChain(gate))
  /\ UNCHANGED <<gate, status, from, seen>> /\ Elsewhere

(* syncEventFieldsFromChecklist, on the value this request wrote.          *)

\* One conditional UPDATE of confirmation_status.
SyncLetter(s) ==
  /\ At(s, "sync_letter")
  /\ gate' = syncLetterStatus(gate, req[s].field, req[s].value)
  /\ Proceed(s, <<>>)
  /\ UNCHANGED <<status, from, seen>> /\ Elsewhere

\* Signed set back to No: the letter rows are read, then the column is written.
ReadLetterRowsToSync(s) ==
  /\ At(s, "letter_rows_to_sync")
  /\ Proceed(s, <<Set("letter", syncLetterStatus(gate, "signed", "No").letter)>>)
  /\ UNCHANGED <<gate, status, from, seen>> /\ Elsewhere

-----------------------------------------------------------------------------
(* Judging and deciding.                                                   *)

\* reconcileConfirmedStatusForBlockers: nothing to judge unless Confirmed.
ReadStatusToJudge(s) ==
  /\ At(s, "status_to_judge")
  /\ Proceed(s, IF status = "confirmed"
                THEN healFinancials \o healLetter \o healChain \o readGate
                ELSE <<>>)
  /\ UNCHANGED <<gate, status, from, seen>> /\ Elsewhere

\* POST status starts by reading the events row; this status is the one it
\* later validates against and records.
ReadEvent(s) ==
  /\ At(s, "event")
  /\ seen' = [seen EXCEPT ![s].status = status]
  /\ Proceed(s, <<>>)
  /\ UNCHANGED <<gate, status, from>> /\ Elsewhere

ReadLetterStatus(s) ==
  /\ At(s, "letter_status")
  /\ seen' = [seen EXCEPT ![s].letter = gate.letter]
  /\ Proceed(s, <<>>)
  /\ UNCHANGED <<gate, status, from>> /\ Elsewhere

Row(g) == [eventType |-> "Free Event", showDate |-> TRUE, approval |-> "not_required",
           poc |-> TRUE, gate |-> g]

\* The row as request s has read it: its own confirmation_status, money now.
RowSeen(s) == Row([gate EXCEPT !.letter = seen[s].letter])

\* What a status change to `to` writes, from the status it read at its start.
Move(s, to) == <<[op |-> "update_status", value |-> to],
                 [op |-> "insert_history", from |-> seen[s].status, to |-> to]>>

\* The last read of a POST and its checks; override and reason are in order.
Decide(s) ==
  /\ At(s, "money") /\ req[s].kind = "post"
  /\ LET to == req[s].to
         accepted == /\ canTransition(seen[s].status, to)
                     /\ to = "confirmed" => canConfirm(RowSeen(s))
                     /\ blockersForTransition(RowSeen(s), to) = {}
     IN  Proceed(s, IF accepted THEN Move(s, to) ELSE <<>>)
  /\ UNCHANGED <<gate, status, from, seen>> /\ Elsewhere

\* The last read of a judgement: blocked means the prior status is looked up.
Judge(s) ==
  /\ At(s, "money") /\ req[s].kind # "post"
  /\ Proceed(s, IF blockersForTransition(RowSeen(s), "confirmed") # {}
                THEN <<Read("prior_status")>> ELSE <<>>)
  /\ UNCHANGED <<gate, status, from, seen>> /\ Elsewhere

ReadPriorStatus(s) ==
  /\ At(s, "prior_status")
  /\ LET prior == IF from \in PreConfirmStatus THEN from ELSE "tentative"
     IN  Proceed(s, <<[op |-> "update_status", value |-> prior],
                      [op |-> "insert_history", from |-> "confirmed", to |-> prior]>>)
  /\ UNCHANGED <<gate, status, from, seen>> /\ Elsewhere

\* UPDATE events SET status = ? WHERE id = ?: whatever the status is by now.
UpdateStatus(s) ==
  /\ At(s, "update_status")
  /\ status' = Head(todo[s]).value
  /\ Proceed(s, <<>>)
  /\ UNCHANGED <<gate, from, seen>> /\ Elsewhere

InsertHistory(s) ==
  /\ At(s, "insert_history")
  /\ from' = IF Head(todo[s]).to = "confirmed" THEN Head(todo[s]).from ELSE from
  /\ Proceed(s, <<>>)
  /\ UNCHANGED <<gate, status, seen>> /\ Elsewhere

Step(s) ==
  \/ GuardFinancials(s) \/ GuardLetter(s) \/ WriteField(s)
  \/ ReadFinancialsToHeal(s) \/ ReadFinancialsOfLetter(s)
  \/ ReadLetterRowsToRollBack(s) \/ ReadLetterChain(s)
  \/ SyncLetter(s) \/ ReadLetterRowsToSync(s)
  \/ ReadStatusToJudge(s) \/ ReadEvent(s) \/ ReadLetterStatus(s)
  \/ Decide(s) \/ Judge(s) \/ ReadPriorStatus(s)
  \/ UpdateStatus(s) \/ InsertHistory(s)
  \/ Answer(s)

Next == \E s \in Slot : Step(s) \/ Die(s) \/ \E q \in Offers : Begin(s, q)

Spec == Init /\ [][Next]_vars

-----------------------------------------------------------------------------
(* Properties.                                                             *)

\* The last statement of a request that was not refused and did not die.
Finishes(s) ==
  /\ todo[s] # <<>> /\ todo'[s] = <<>> /\ req'[s] = req[s]
  /\ ~At(s, "guard_financials") /\ ~At(s, "guard_letter")

MovesTo(s, to) ==
  At(s, "update_status") /\ Head(todo[s]).value = to /\ todo'[s] = Tail(todo[s])

\* However overlapping or dying requests left the rows, a read of the checklist
\* that no edit or status change overlaps puts the financials and the letter in
\* order.
AloneReadHeals ==
  [][\A s \in Slot : req[s].kind = "get" /\ alone[s] /\ Finishes(s) =>
       FinancialsInOrder(gate') /\ LetterInOrder(gate')]_vars

\* However overlapping or dying requests left the rows, a status change that nothing
\* overlaps confirms only with complete financials: it heals before it decides.
AloneConfirmIsPaid ==
  [][\A s \in Slot : req[s].kind = "post" /\ alone[s] /\ MovesTo(s, "confirmed") =>
       areFinancialsReady(gate)]_vars

\* A checklist edit that nothing overlaps leaves no Confirmed event blocked,
\* even one that an overlap or the death of earlier requests had left so.
AloneEditJudges ==
  [][\A s \in Slot :
       req[s].kind \in {"patch", "patch_other"} /\ alone[s] /\ Finishes(s) =>
         (status' = "confirmed" => blockersForTransition(Row(gate'), "confirmed") = {})]_vars

\* Stated by PRD section 5: an event moves to Confirmed only when costing,
\* payment and the signed letter are there as the status is written.
ConfirmsOnlyUnblocked ==
  [][\A s \in Slot : req[s].kind = "post" /\ MovesTo(s, "confirmed") =>
       blockersForTransition(Row(gate), "confirmed") = {}]_vars

\* Stated by PRD section 5, rule 3: the signed letter has been received.  Asked
\* only of a status change that overlaps nothing.
AloneConfirmIsSigned ==
  [][\A s \in Slot : req[s].kind = "post" /\ alone[s] /\ MovesTo(s, "confirmed") =>
       gate.signed = "Yes"]_vars

\* Stated by the header of state-machine.ts: Regret and Cancelled are terminal,
\* and only a request that set out to reopen takes an event out of them.
ClosedStaysClosed ==
  [][(status \in {"regret", "cancelled"}) /\ status' # status =>
       \E s \in Slot : req[s].kind = "post" /\ seen[s].status = status
                         /\ MovesTo(s, status')]_vars
=============================================================================
