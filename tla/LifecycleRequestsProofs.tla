----------------------- MODULE LifecycleRequestsProofs -----------------------
(***************************************************************************)
(* Proofs about requests that interleave between SQL statements: whatever  *)
(* overlapping or dying requests left behind, the next request that runs   *)
(* alone, or a read among reads, puts it right or judges it.               *)
(*                                                                         *)
(* The invariant says of each slot whose request is still alone what it    *)
(* has yet to run, and how gate and status stand to that.                  *)
(***************************************************************************)
EXTENDS LifecycleRequests, ConfirmationGateProofs, SequenceTheorems, TLAPS

-----------------------------------------------------------------------------
\* What a slot has to run is a sequence of these.

Work == {"guard_financials", "guard_letter", "financials_to_heal", "financials_of_letter",
         "letter_rows_to_roll_back", "letter_chain", "letter_rows_to_sync", "sync_letter"}

Reading == {"status_to_judge", "event", "letter_status", "money", "prior_status"}

Value == LetterStatus \cup UNION {FieldValues[f] : f \in GateField}

GateWrite ==
  {x \in [op : {"set"}, field : GateField \cup {"letter"}, value : Value] :
     x.value \in IF x.field = "letter" THEN LetterStatus ELSE FieldValues[x.field]}

GateWork == [op : Work] \cup GateWrite

Statement ==
  GateWork \cup [op : Reading]
    \cup [op : {"update_status"}, value : Status]
    \cup [op : {"insert_history"}, from : Status \cup {"none"}, to : Status]

From == PreConfirmStatus \cup Status \cup {"none"}

TypeInv ==
  /\ gate \in Gate /\ status \in Status /\ from \in From
  /\ req \in [Slot -> Offers \cup {Nobody}]
  /\ todo \in [Slot -> Seq(Statement)]
  /\ seen \in [Slot -> [status : Status \cup {"none"}, letter : LetterStatus \cup {"none"}]]
  /\ alone \in [Slot -> BOOLEAN]

LEMMA StatementOps ==
  ASSUME NEW x \in Statement
  PROVE  /\ x.op \in Work \cup Reading \cup {"set", "update_status", "insert_history"}
         /\ x.op = "set" => x \in GateWrite
         /\ x.op = "update_status" => x.value \in Status
         /\ x.op = "insert_history" => x.from \in Status \cup {"none"} /\ x.to \in Status
         /\ x.op \in Work \cup Reading => x = Read(x.op)
<1>1. CASE x \in [op : Work] BY <1>1 DEF Work, Reading, Read
<1>2. CASE x \in GateWrite BY <1>2 DEF GateWrite, Work, Reading
<1>3. CASE x \in [op : Reading] BY <1>3 DEF Work, Reading, Read
<1>4. CASE x \in [op : {"update_status"}, value : Status] BY <1>4 DEF Work, Reading
<1>5. CASE x \in [op : {"insert_history"}, from : Status \cup {"none"}, to : Status]
  BY <1>5 DEF Work, Reading
<1> QED BY <1>1, <1>2, <1>3, <1>4, <1>5 DEF Statement, GateWork

LEMMA ReadsAreStatements ==
  ASSUME NEW w \in Work \cup Reading
  PROVE  Read(w) \in Statement /\ (w \in Work => Read(w) \in GateWork)
BY DEF Statement, GateWork, Read

LEMMA SetsAreStatements ==
  ASSUME NEW f \in GateField \cup {"letter"},
         NEW v \in IF f = "letter" THEN LetterStatus ELSE FieldValues[f]
  PROVE  Set(f, v) \in GateWrite /\ Set(f, v) \in GateWork /\ Set(f, v) \in Statement
<1>1. v \in Value BY GateFieldNames DEF Value
<1>2. Set(f, v) \in [op : {"set"}, field : GateField \cup {"letter"}, value : Value]
  BY <1>1 DEF Set
<1>3. Set(f, v).field = f /\ Set(f, v).value = v BY DEF Set
<1> QED BY <1>2, <1>3 DEF GateWrite, GateWork, Statement

-----------------------------------------------------------------------------
\* One statement.

LEMMA Pairs ==
  ASSUME NEW a, NEW b
  PROVE  <<a>> \o <<b>> = <<a, b>>
<1> DEFINE S == {a, b}
           p == <<a>> \o <<b>>
           r == <<a, b>>
<1>1. <<a>> \in Seq(S) /\ <<b>> \in Seq(S) OBVIOUS
<1>2. p \in Seq(S) /\ Len(p) = 2 /\ p[1] = a /\ p[2] = b BY <1>1
<1>3. r \in Seq(S) /\ Len(r) = 2 /\ r[1] = a /\ r[2] = b OBVIOUS
<1> HIDE DEF p, r
<1>4. \A i \in 1 .. Len(p) : p[i] = r[i] BY <1>2, <1>3
<1>5. p = r BY <1>2, <1>3, <1>4, SeqEqual
<1> QED BY <1>5 DEF p, r

LEMMA Triples ==
  ASSUME NEW a, NEW b, NEW c
  PROVE  <<a>> \o <<b, c>> = <<a, b, c>> /\ <<a, b>> \o <<c>> = <<a, b, c>>
<1> DEFINE S == {a, b, c}
<1>1. <<a>> \in Seq(S) /\ <<b, c>> \in Seq(S) /\ <<a, b>> \in Seq(S) /\ <<c>> \in Seq(S)
      /\ <<b>> \in Seq(S)
  OBVIOUS
<1>2. <<a, b, c>> \in Seq(S) OBVIOUS
<1> DEFINE p == <<a>> \o <<b, c>>
           q == <<a, b>> \o <<c>>
           r == <<a, b, c>>
<1>3. p \in Seq(S) /\ Len(p) = 3 /\ p[1] = a /\ p[2] = b /\ p[3] = c
  BY <1>1
<1>4. q \in Seq(S) /\ Len(q) = 3 /\ q[1] = a /\ q[2] = b /\ q[3] = c
  BY <1>1
<1>5. r \in Seq(S) /\ Len(r) = 3 /\ r[1] = a /\ r[2] = b /\ r[3] = c
  BY <1>2
<1> HIDE DEF p, q, r
<1>6. \A i \in 1 .. Len(p) : p[i] = r[i] BY <1>3, <1>5
<1>7. \A i \in 1 .. Len(q) : q[i] = r[i] BY <1>4, <1>5
<1>8. p = r BY <1>3, <1>5, <1>6, SeqEqual
<1>9. q = r BY <1>4, <1>5, <1>7, SeqEqual
<1> QED BY <1>8, <1>9 DEF p, q, r

LEMMA TailOfConcat ==
  ASSUME NEW X \in Seq(Statement), NEW T \in Seq(Statement), NEW next \in Seq(Statement),
         X # <<>>
  PROVE  /\ next \o Tail(X \o T) = (next \o Tail(X)) \o T
         /\ Head(X \o T) = Head(X) /\ X \o T # <<>> /\ Tail(X) \in Seq(Statement)
OBVIOUS

\* The head of X is done and next takes its place; T follows as before.
LEMMA Proceeds ==
  ASSUME todo \in [Slot -> Seq(Statement)], NEW s \in Slot,
         NEW next \in Seq(Statement), Proceed(s, next),
         NEW X \in Seq(Statement), NEW T \in Seq(Statement), todo[s] = X \o T, X # <<>>
  PROVE  /\ Head(todo[s]) = Head(X) /\ todo[s] # <<>>
         /\ todo'[s] = (next \o Tail(X)) \o T
         /\ Tail(X) \in Seq(Statement)
<1>1. todo'[s] = next \o Tail(X \o T) BY DEF Proceed
<1>2. next \o Tail(X \o T) = (next \o Tail(X)) \o T BY TailOfConcat
<1>3. Head(X \o T) = Head(X) /\ X \o T # <<>> /\ Tail(X) \in Seq(Statement) BY TailOfConcat
<1> QED BY <1>1, <1>2, <1>3

LEMMA ProceedTypes ==
  ASSUME todo \in [Slot -> Seq(Statement)], NEW s \in Slot, todo[s] # <<>>,
         NEW next \in Seq(Statement), Proceed(s, next)
  PROVE  /\ todo' \in [Slot -> Seq(Statement)]
         /\ \A t \in Slot \ {s} : todo'[t] = todo[t]
<1>1. Tail(todo[s]) \in Seq(Statement) OBVIOUS
<1>2. next \o Tail(todo[s]) \in Seq(Statement) BY <1>1
<1> QED BY <1>2 DEF Proceed

-----------------------------------------------------------------------------
\* The head of todo says which action is next.

Others(s) == UNCHANGED <<req, alone>> /\ \A t \in Slot \ {s} : todo'[t] = todo[t]

LEMMA HeadDecides ==
  ASSUME NEW s \in Slot, Step(s), todo[s] # <<>>
  PROVE  LET op == Head(todo[s]).op
         IN  /\ op = "guard_financials" => GuardFinancials(s)
             /\ op = "guard_letter" => GuardLetter(s)
             /\ op = "set" => WriteField(s)
             /\ op = "financials_to_heal" => ReadFinancialsToHeal(s)
             /\ op = "financials_of_letter" => ReadFinancialsOfLetter(s)
             /\ op = "letter_rows_to_roll_back" => ReadLetterRowsToRollBack(s)
             /\ op = "letter_chain" => ReadLetterChain(s)
             /\ op = "sync_letter" => SyncLetter(s)
             /\ op = "letter_rows_to_sync" => ReadLetterRowsToSync(s)
             /\ op = "status_to_judge" => ReadStatusToJudge(s)
             /\ op = "event" => ReadEvent(s)
             /\ op = "letter_status" => ReadLetterStatus(s)
             /\ op = "money" => IF req[s].kind = "post" THEN Decide(s) ELSE Judge(s)
             /\ op = "prior_status" => ReadPriorStatus(s)
             /\ op = "update_status" => UpdateStatus(s)
             /\ op = "insert_history" => InsertHistory(s)
<1> DEFINE op == Head(todo[s]).op
<1>1. GuardFinancials(s) => op = "guard_financials" BY DEF GuardFinancials, At
<1>2. GuardLetter(s) => op = "guard_letter" BY DEF GuardLetter, At
<1>3. WriteField(s) => op = "set" BY DEF WriteField, At
<1>4. ReadFinancialsToHeal(s) => op = "financials_to_heal" BY DEF ReadFinancialsToHeal, At
<1>5. ReadFinancialsOfLetter(s) => op = "financials_of_letter" BY DEF ReadFinancialsOfLetter, At
<1>6. ReadLetterRowsToRollBack(s) => op = "letter_rows_to_roll_back"
  BY DEF ReadLetterRowsToRollBack, At
<1>7. ReadLetterChain(s) => op = "letter_chain" BY DEF ReadLetterChain, At
<1>8. SyncLetter(s) => op = "sync_letter" BY DEF SyncLetter, At
<1>9. ReadLetterRowsToSync(s) => op = "letter_rows_to_sync" BY DEF ReadLetterRowsToSync, At
<1>10. ReadStatusToJudge(s) => op = "status_to_judge" BY DEF ReadStatusToJudge, At
<1>11. ReadEvent(s) => op = "event" BY DEF ReadEvent, At
<1>12. ReadLetterStatus(s) => op = "letter_status" BY DEF ReadLetterStatus, At
<1>13. Decide(s) => op = "money" /\ req[s].kind = "post" BY DEF Decide, At
<1>14. Judge(s) => op = "money" /\ req[s].kind # "post" BY DEF Judge, At
<1>15. ReadPriorStatus(s) => op = "prior_status" BY DEF ReadPriorStatus, At
<1>16. UpdateStatus(s) => op = "update_status" BY DEF UpdateStatus, At
<1>17. InsertHistory(s) => op = "insert_history" BY DEF InsertHistory, At
<1>18. ~Answer(s) BY DEF Answer
<1> HIDE DEF op
<1>19. \/ GuardFinancials(s) \/ GuardLetter(s) \/ WriteField(s)
       \/ ReadFinancialsToHeal(s) \/ ReadFinancialsOfLetter(s)
       \/ ReadLetterRowsToRollBack(s) \/ ReadLetterChain(s)
       \/ SyncLetter(s) \/ ReadLetterRowsToSync(s)
       \/ ReadStatusToJudge(s) \/ ReadEvent(s) \/ ReadLetterStatus(s)
       \/ Decide(s) \/ Judge(s) \/ ReadPriorStatus(s)
       \/ UpdateStatus(s) \/ InsertHistory(s)
  BY <1>18 DEF Step
<1>20. \/ op = "guard_financials" /\ GuardFinancials(s)
       \/ op = "guard_letter" /\ GuardLetter(s)
       \/ op = "set" /\ WriteField(s)
       \/ op = "financials_to_heal" /\ ReadFinancialsToHeal(s)
       \/ op = "financials_of_letter" /\ ReadFinancialsOfLetter(s)
       \/ op = "letter_rows_to_roll_back" /\ ReadLetterRowsToRollBack(s)
       \/ op = "letter_chain" /\ ReadLetterChain(s)
       \/ op = "sync_letter" /\ SyncLetter(s)
       \/ op = "letter_rows_to_sync" /\ ReadLetterRowsToSync(s)
       \/ op = "status_to_judge" /\ ReadStatusToJudge(s)
       \/ op = "event" /\ ReadEvent(s)
       \/ op = "letter_status" /\ ReadLetterStatus(s)
       \/ op = "money" /\ req[s].kind = "post" /\ Decide(s)
       \/ op = "money" /\ req[s].kind # "post" /\ Judge(s)
       \/ op = "prior_status" /\ ReadPriorStatus(s)
       \/ op = "update_status" /\ UpdateStatus(s)
       \/ op = "insert_history" /\ InsertHistory(s)
  BY <1>1, <1>2, <1>3, <1>4, <1>5, <1>6, <1>7, <1>8, <1>9, <1>10, <1>11, <1>12, <1>13,
     <1>14, <1>15, <1>16, <1>17, <1>19
<1> QED BY <1>20 DEF op

LEMMA WritesOfAGate ==
  ASSUME NEW h \in Gate, NEW f \in GateField
  PROVE  WriteOf(f, h) \in Seq(GateWork)
<1>1. h[f] \in FieldValues[f] BY GateFieldNames DEF Gate
<1>2. f # "letter" BY GateFieldNames
<1>3. Set(f, h[f]) \in GateWork BY <1>1, <1>2, SetsAreStatements
<1> QED BY <1>3 DEF WriteOf

LEMMA GateWorkIsStatements == Seq(GateWork) \subseteq Seq(Statement)
<1>1. GateWork \subseteq Statement BY DEF Statement
<1> QED BY <1>1, SeqMonotonic

LEMMA LetterSteps ==
  ASSUME NEW g \in Gate
  PROVE  rollBackLetter(g) \in Gate /\ reconcileDeliveryChain(g) \in Gate
<1>1. letterAfterRollback(g) \in LetterStatus BY DEF letterAfterRollback, LetterStatus
<1>2. rollBackLetter(g) \in Gate BY <1>1 DEF rollBackLetter, Gate, FieldValues
<1> QED BY <1>2, ReconcilersKeepType

LEMMA SyncKeepsType ==
  ASSUME NEW g \in Gate, NEW f, NEW v
  PROVE  syncLetterStatus(g, f, v) \in Gate
<1>1. letterAfterRollback(g) \in LetterStatus BY DEF letterAfterRollback, LetterStatus
<1>2. {"made", "couriered", "signed_received"} \subseteq LetterStatus BY DEF LetterStatus
<1>3. \A w \in LetterStatus : [g EXCEPT !.letter = w] \in Gate BY DEF Gate
<1> QED BY <1>1, <1>2, <1>3 DEF syncLetterStatus

LEMMA Resets ==
  ASSUME NEW h \in Gate
  PROVE  WriteOf("signed", h) \o WriteOf("couriered", h) \o <<Set("letter", h.letter)>> \in Seq(GateWork)
<1>1. h.letter \in LetterStatus BY DEF Gate
<1>2. Set("letter", h.letter) \in GateWork BY <1>1, SetsAreStatements
<1>3. WriteOf("signed", h) \in Seq(GateWork) /\ WriteOf("couriered", h) \in Seq(GateWork)
  BY GateFieldNames, WritesOfAGate
<1> QED BY <1>2, <1>3

LEMMA FieldChanged ==
  ASSUME NEW g \in Gate, NEW f \in GateField \cup {"letter"},
         NEW v \in IF f = "letter" THEN LetterStatus ELSE FieldValues[f]
  PROVE  [g EXCEPT ![f] = v] \in Gate
<1>1. CASE f = "costing"
  <2>1. [g EXCEPT !.costing = v] \in Gate BY <1>1 DEF Gate
  <2> QED BY <1>1, <2>1
<1>2. CASE f = "proforma"
  <2>1. [g EXCEPT !.proforma = v] \in Gate BY <1>2 DEF Gate
  <2> QED BY <1>2, <2>1
<1>3. CASE f = "payment"
  <2>1. [g EXCEPT !.payment = v] \in Gate BY <1>3 DEF Gate
  <2> QED BY <1>3, <2>1
<1>4. CASE f = "made"
  <2>1. [g EXCEPT !.made = v] \in Gate BY <1>4 DEF Gate
  <2> QED BY <1>4, <2>1
<1>5. CASE f = "couriered"
  <2>1. [g EXCEPT !.couriered = v] \in Gate BY <1>5 DEF Gate
  <2> QED BY <1>5, <2>1
<1>6. CASE f = "signed"
  <2>1. [g EXCEPT !.signed = v] \in Gate BY <1>6 DEF Gate
  <2> QED BY <1>6, <2>1
<1>7. CASE f = "letter"
  <2>1. [g EXCEPT !.letter = v] \in Gate BY <1>7 DEF Gate
  <2> QED BY <1>7, <2>1
<1> QED BY <1>1, <1>2, <1>3, <1>4, <1>5, <1>6, <1>7, GateFieldNames

LEMMA FieldWritten ==
  ASSUME NEW g \in Gate, NEW x \in GateWrite
  PROVE  [g EXCEPT ![x.field] = x.value] \in Gate
<1>1. /\ x.field \in GateField \cup {"letter"}
      /\ x.value \in IF x.field = "letter" THEN LetterStatus ELSE FieldValues[x.field]
  BY DEF GateWrite
<1> QED BY <1>1, FieldChanged

\* Reading and writing the gate leads to nothing but more of it; a refusal ends it.
LEMMA GateWorkStep ==
  ASSUME TypeInv, NEW s \in Slot, Step(s), todo[s] # <<>>, Head(todo[s]) \in GateWork
  PROVE  /\ \/ \E next \in Seq(GateWork) : Proceed(s, next)
            \/ Refuse(s) /\ (At(s, "guard_financials") \/ At(s, "guard_letter"))
         /\ gate' \in Gate /\ UNCHANGED <<status, from, seen, req, alone>>
<1> DEFINE op == Head(todo[s]).op
<1>1. op \in Work \cup {"set"} BY DEF GateWork, GateWrite
<1>2. gate \in Gate BY DEF TypeInv
<1>3. <<>> \in Seq(GateWork) OBVIOUS
<1>4. CASE op = "guard_financials"
  <2>1. GuardFinancials(s) BY <1>4, HeadDecides
  <2> QED BY <1>2, <1>3, <2>1 DEF GuardFinancials, Elsewhere
<1>5. CASE op = "guard_letter"
  <2>1. GuardLetter(s) BY <1>5, HeadDecides
  <2> QED BY <1>2, <1>3, <2>1 DEF GuardLetter, Elsewhere
<1>6. CASE op = "set"
  <2>1. WriteField(s) BY <1>6, HeadDecides
  <2>2. Head(todo[s]) \in GateWrite BY <1>6 DEF GateWork, Work
  <2>3. gate' \in Gate BY <1>2, <2>1, <2>2, FieldWritten DEF WriteField
  <2> QED BY <1>3, <2>1, <2>3 DEF WriteField, Elsewhere
<1>7. CASE op = "financials_to_heal"
  <2> DEFINE h == reconcileFinancialSequence(gate)
  <2>1. ReadFinancialsToHeal(s) BY <1>7, HeadDecides
  <2>2. h \in Gate BY <1>2, ReconcilersKeepType
  <2> HIDE DEF h
  <2>3. WriteOf("proforma", h) \in Seq(GateWork) /\ WriteOf("payment", h) \in Seq(GateWork)
    BY <2>2, GateFieldNames, WritesOfAGate
  <2>4. WriteOf("proforma", h) \o WriteOf("payment", h) \in Seq(GateWork) BY <2>3
  <2> QED BY <1>2, <2>1, <2>4 DEF ReadFinancialsToHeal, Elsewhere, h
<1>8. CASE op = "financials_of_letter"
  <2>1. ReadFinancialsOfLetter(s) BY <1>8, HeadDecides
  <2>2. Read("letter_rows_to_roll_back") \in GateWork BY DEF GateWork, Work, Read
  <2>3. <<Read("letter_rows_to_roll_back")>> \in Seq(GateWork) BY <2>2
  <2> QED BY <1>2, <1>3, <2>1, <2>3 DEF ReadFinancialsOfLetter, Elsewhere
<1>9. CASE op = "letter_rows_to_roll_back"
  <2>1. ReadLetterRowsToRollBack(s) BY <1>9, HeadDecides
  <2> DEFINE h == rollBackLetter(gate)
  <2>2. h \in Gate BY <1>2, LetterSteps
  <2> HIDE DEF h
  <2> DEFINE W == WriteOf("signed", h) \o WriteOf("couriered", h) \o <<Set("letter", h.letter)>>
  <2>3. W \in Seq(GateWork) BY <2>2, Resets
  <2>4. Proceed(s, IF h = gate THEN <<>> ELSE W)
    BY <2>1 DEF ReadLetterRowsToRollBack, ResetLetterRows, h
  <2> HIDE DEF W
  <2>5. \E next \in Seq(GateWork) : Proceed(s, next) BY <1>3, <2>3, <2>4
  <2> QED BY <1>2, <2>1, <2>5 DEF ReadLetterRowsToRollBack, Elsewhere
<1>10. CASE op = "letter_chain"
  <2>1. ReadLetterChain(s) BY <1>10, HeadDecides
  <2> DEFINE h == reconcileDeliveryChain(gate)
  <2>2. h \in Gate BY <1>2, LetterSteps
  <2> HIDE DEF h
  <2> DEFINE W == WriteOf("signed", h) \o WriteOf("couriered", h) \o <<Set("letter", h.letter)>>
  <2>3. W \in Seq(GateWork) BY <2>2, Resets
  <2>4. Proceed(s, IF h = gate THEN <<>> ELSE W)
    BY <2>1 DEF ReadLetterChain, ResetLetterRows, h
  <2> HIDE DEF W
  <2>5. \E next \in Seq(GateWork) : Proceed(s, next) BY <1>3, <2>3, <2>4
  <2> QED BY <1>2, <2>1, <2>5 DEF ReadLetterChain, Elsewhere
<1>11. CASE op = "sync_letter"
  <2>1. SyncLetter(s) BY <1>11, HeadDecides
  <2>2. gate' \in Gate BY <1>2, <2>1, SyncKeepsType DEF SyncLetter
  <2> QED BY <1>3, <2>1, <2>2 DEF SyncLetter, Elsewhere
<1>12. CASE op = "letter_rows_to_sync"
  <2>1. ReadLetterRowsToSync(s) BY <1>12, HeadDecides
  <2> DEFINE v == syncLetterStatus(gate, "signed", "No").letter
  <2>2. v \in LetterStatus BY <1>2, SyncKeepsType DEF Gate
  <2> HIDE DEF v
  <2>3. <<Set("letter", v)>> \in Seq(GateWork) BY <2>2, SetsAreStatements
  <2> QED BY <1>2, <2>1, <2>3 DEF ReadLetterRowsToSync, Elsewhere, v
<1> QED BY <1>1, <1>4, <1>5, <1>6, <1>7, <1>8, <1>9, <1>10, <1>11, <1>12 DEF Work

-----------------------------------------------------------------------------
\* What the requests have to run.

LEMMA HealsAreGateWork ==
  /\ healFinancials \in Seq(GateWork) /\ healLetter \in Seq(GateWork)
  /\ healChain \in Seq(GateWork)
<1>1. Read("financials_to_heal") \in GateWork /\ Read("financials_of_letter") \in GateWork
      /\ Read("letter_chain") \in GateWork
  BY DEF GateWork, Work, Read
<1> QED BY <1>1 DEF healFinancials, healLetter, healChain

LEMMA ReadGateIsStatements == readGate \in Seq(Statement)
<1>1. Read("letter_status") \in Statement /\ Read("money") \in Statement
  BY DEF Statement, Reading, Read
<1> QED BY <1>1 DEF readGate

LEMMA ReconcilersAreGateWork ==
  ASSUME NEW f
  PROVE  reconcilersOf(f) \in Seq(GateWork)
BY HealsAreGateWork DEF reconcilersOf

LEMMA GuardsAreGateWork ==
  ASSUME NEW f, NEW v
  PROVE  guardsOf(f, v) \in Seq(GateWork)
<1>1. Read("guard_financials") \in GateWork /\ Read("guard_letter") \in GateWork
  BY DEF GateWork, Work, Read
<1>2. /\ <<Read("guard_financials")>> \in Seq(GateWork)
      /\ <<Read("guard_letter"), Read("guard_financials")>> \in Seq(GateWork)
      /\ <<>> \in Seq(GateWork)
  BY <1>1
<1> QED BY <1>2 DEF guardsOf

LEMMA SyncIsGateWork ==
  ASSUME NEW f, NEW v
  PROVE  syncOf(f, v) \in Seq(GateWork)
<1>1. Read("letter_rows_to_sync") \in GateWork /\ [op |-> "sync_letter"] \in GateWork
  BY DEF GateWork, Work, Read
<1>2. /\ <<Read("letter_rows_to_sync")>> \in Seq(GateWork) /\ <<[op |-> "sync_letter"]>> \in Seq(GateWork)
      /\ <<>> \in Seq(GateWork)
  BY <1>1
<1> QED BY <1>2 DEF syncOf

\* The edit of a field up to its judgement.
Edit(f, v) == guardsOf(f, v) \o <<Set(f, v)>> \o reconcilersOf(f) \o syncOf(f, v)

LEMMA Programs ==
  ASSUME NEW q \in Offers
  PROVE  /\ q.kind \in {"patch", "patch_other", "get", "post"}
         /\ q.kind = "patch" => /\ Edit(q.field, q.value) \in Seq(GateWork)
                                /\ Program(q) = Edit(q.field, q.value) \o <<Read("status_to_judge")>>
         /\ q.kind = "patch_other" => Program(q) = <<>> \o <<Read("status_to_judge")>>
         /\ q.kind = "get" => Program(q) = healFinancials \o healLetter \o healChain
         /\ q.kind = "post" =>
              /\ q.to \in Status
              /\ Program(q) = <<Read("event")>> \o healFinancials \o healLetter \o readGate
<1>1. q \in Request BY RequestsAssumption
<1>2. q.kind \in {"patch", "patch_other", "get", "post"} BY <1>1 DEF Request
<1>3. ASSUME q.kind = "patch" PROVE Edit(q.field, q.value) \in Seq(GateWork)
  <2>1. q.field \in GateField /\ q.value \in FieldValues[q.field]
    BY <1>1, <1>3, RequestsAssumption DEF Request
  <2>2. Set(q.field, q.value) \in GateWork BY <2>1, SetsAreStatements, GateFieldNames
  <2>3. guardsOf(q.field, q.value) \in Seq(GateWork) /\ reconcilersOf(q.field) \in Seq(GateWork)
        /\ syncOf(q.field, q.value) \in Seq(GateWork)
    BY GuardsAreGateWork, ReconcilersAreGateWork, SyncIsGateWork
  <2> QED BY <2>2, <2>3 DEF Edit
<1>4. q.kind = "patch" => Program(q) = Edit(q.field, q.value) \o <<Read("status_to_judge")>>
  BY DEF Program, Edit
<1>5. /\ q.kind = "patch_other" => Program(q) = <<Read("status_to_judge")>>
      /\ q.kind = "get" => Program(q) = healFinancials \o healLetter \o healChain
      /\ q.kind = "post" =>
           Program(q) = <<Read("event")>> \o healFinancials \o healLetter \o readGate
  BY DEF Program
<1>6. q.kind = "post" => q.to \in Status BY <1>1 DEF Request
<1>7. <<>> \o <<Read("status_to_judge")>> = <<Read("status_to_judge")>>
  <2>1. <<Read("status_to_judge")>> \in Seq({Read("status_to_judge")}) OBVIOUS
  <2> QED BY <2>1
<1> QED BY <1>2, <1>3, <1>4, <1>5, <1>6, <1>7

LEMMA ProgramsAreStatements ==
  ASSUME NEW q \in Offers
  PROVE  Program(q) \in Seq(Statement)
<1>1. healFinancials \in Seq(Statement) /\ healLetter \in Seq(Statement)
      /\ healChain \in Seq(Statement) /\ readGate \in Seq(Statement)
  BY HealsAreGateWork, GateWorkIsStatements, ReadGateIsStatements
<1>2. Read("event") \in Statement /\ Read("status_to_judge") \in Statement
  BY DEF Statement, Reading, Read
<1>3. <<Read("event")>> \in Seq(Statement) /\ <<Read("status_to_judge")>> \in Seq(Statement)
      /\ <<>> \in Seq(Statement)
  BY <1>2
<1>4. CASE q.kind = "patch"
  <2>1. Edit(q.field, q.value) \in Seq(Statement) BY <1>4, Programs, GateWorkIsStatements
  <2> QED BY <1>3, <1>4, <2>1, Programs
<1>5. CASE q.kind = "patch_other"
  <2>1. <<>> \o <<Read("status_to_judge")>> \in Seq(Statement) BY <1>3
  <2> QED BY <1>5, <2>1, Programs
<1>6. CASE q.kind = "get"
  <2>1. healFinancials \o healLetter \o healChain \in Seq(Statement) BY <1>1
  <2> QED BY <1>6, <2>1, Programs
<1>7. CASE q.kind = "post"
  <2>1. <<Read("event")>> \o healFinancials \o healLetter \o readGate \in Seq(Statement)
    BY <1>1, <1>3
  <2> QED BY <1>7, <2>1, Programs
<1> QED BY <1>4, <1>5, <1>6, <1>7, Programs

-----------------------------------------------------------------------------
\* The types are kept, and a slot without a request has nothing to run.

LEMMA StepTypes ==
  ASSUME TypeInv, NEW s \in Slot, Step(s), todo[s] # <<>>
  PROVE  /\ gate' \in Gate /\ status' \in Status /\ from' \in From
         /\ todo' \in [Slot -> Seq(Statement)]
         /\ seen' \in [Slot -> [status : Status \cup {"none"}, letter : LetterStatus \cup {"none"}]]
         /\ UNCHANGED <<req, alone>> /\ \A t \in Slot \ {s} : todo'[t] = todo[t]
<1> DEFINE x == Head(todo[s])
           SeenTypes == [status : Status \cup {"none"}, letter : LetterStatus \cup {"none"}]
<1>1. todo \in [Slot -> Seq(Statement)] /\ x \in Statement BY DEF TypeInv
<1>2. CASE x \in GateWork
  <2>1. /\ \/ \E next \in Seq(GateWork) : Proceed(s, next)
           \/ Refuse(s)
        /\ gate' \in Gate /\ UNCHANGED <<status, from, seen, req, alone>>
    BY <1>2, GateWorkStep
  <2>2. ASSUME NEW next \in Seq(GateWork), Proceed(s, next)
        PROVE  todo' \in [Slot -> Seq(Statement)] /\ \A t \in Slot \ {s} : todo'[t] = todo[t]
    <3>1. next \in Seq(Statement) BY GateWorkIsStatements
    <3> QED BY <1>1, <2>2, <3>1, ProceedTypes
  <2>3. ASSUME Refuse(s)
        PROVE  todo' \in [Slot -> Seq(Statement)] /\ \A t \in Slot \ {s} : todo'[t] = todo[t]
    BY <1>1, <2>3 DEF Refuse
  <2> QED BY <2>1, <2>2, <2>3 DEF TypeInv
<1>3. ASSUME x \notin GateWork, NEW next \in Seq(Statement), Proceed(s, next)
      PROVE  todo' \in [Slot -> Seq(Statement)] /\ \A t \in Slot \ {s} : todo'[t] = todo[t]
  BY <1>1, <1>3, ProceedTypes
<1>4. <<>> \in Seq(Statement) OBVIOUS
<1>5. CASE x.op = "status_to_judge"
  <2>1. ReadStatusToJudge(s) BY <1>5, HeadDecides
  <2> DEFINE N == healFinancials \o healLetter \o healChain \o readGate
  <2>2. healFinancials \in Seq(Statement) /\ healLetter \in Seq(Statement)
        /\ healChain \in Seq(Statement) /\ readGate \in Seq(Statement)
    BY HealsAreGateWork, GateWorkIsStatements, ReadGateIsStatements
  <2>3. N \in Seq(Statement) BY <2>2
  <2>4. Proceed(s, IF status = "confirmed" THEN N ELSE <<>>) BY <2>1 DEF ReadStatusToJudge
  <2> HIDE DEF N
  <2>5. x \notin GateWork BY <1>5 DEF GateWork, GateWrite, Work
  <2>6. todo' \in [Slot -> Seq(Statement)] /\ \A t \in Slot \ {s} : todo'[t] = todo[t]
    BY <1>3, <1>4, <2>3, <2>4, <2>5
  <2> QED BY <2>1, <2>6 DEF ReadStatusToJudge, Elsewhere, TypeInv
<1>6. CASE x.op = "event"
  <2>1. ReadEvent(s) BY <1>6, HeadDecides
  <2>2. x \notin GateWork BY <1>6 DEF GateWork, GateWrite, Work
  <2>3. todo' \in [Slot -> Seq(Statement)] /\ \A t \in Slot \ {s} : todo'[t] = todo[t]
    BY <1>3, <1>4, <2>1, <2>2 DEF ReadEvent
  <2>4. seen' \in [Slot -> SeenTypes] BY <2>1 DEF ReadEvent, TypeInv
  <2> QED BY <2>1, <2>3, <2>4 DEF ReadEvent, Elsewhere, TypeInv
<1>7. CASE x.op = "letter_status"
  <2>1. ReadLetterStatus(s) BY <1>7, HeadDecides
  <2>2. x \notin GateWork BY <1>7 DEF GateWork, GateWrite, Work
  <2>3. todo' \in [Slot -> Seq(Statement)] /\ \A t \in Slot \ {s} : todo'[t] = todo[t]
    BY <1>3, <1>4, <2>1, <2>2 DEF ReadLetterStatus
  <2>4. gate.letter \in LetterStatus BY DEF TypeInv, Gate
  <2>5. seen' \in [Slot -> SeenTypes] BY <2>1, <2>4 DEF ReadLetterStatus, TypeInv
  <2> QED BY <2>1, <2>3, <2>5 DEF ReadLetterStatus, Elsewhere, TypeInv
<1>8. CASE x.op = "money" /\ req[s].kind = "post"
  <2>1. Decide(s) BY <1>8, HeadDecides
  <2>2. x \notin GateWork BY <1>8 DEF GateWork, GateWrite, Work
  <2>3. req[s].to \in Status
    <3>1. req[s] \in Offers BY <1>8 DEF TypeInv, Nobody
    <3> QED BY <1>8, <3>1, Programs
  <2>4. seen[s].status \in Status \cup {"none"} BY DEF TypeInv
  <2>5. Move(s, req[s].to) \in Seq(Statement)
    <3> DEFINE u == [op |-> "update_status", value |-> req[s].to]
               i == [op |-> "insert_history", from |-> seen[s].status, to |-> req[s].to]
    <3>1. u \in Statement /\ i \in Statement BY <2>3, <2>4 DEF Statement
    <3> HIDE DEF u, i
    <3>2. <<u, i>> \in Seq(Statement) BY <3>1
    <3> QED BY <3>2 DEF u, i, Move
  <2>6. Proceed(s, Move(s, req[s].to)) \/ Proceed(s, <<>>) BY <2>1 DEF Decide
  <2>7. todo' \in [Slot -> Seq(Statement)] /\ \A t \in Slot \ {s} : todo'[t] = todo[t]
    BY <1>3, <1>4, <2>2, <2>5, <2>6
  <2> QED BY <2>1, <2>7 DEF Decide, Elsewhere, TypeInv
<1>9. CASE x.op = "money" /\ req[s].kind # "post"
  <2>1. Judge(s) BY <1>9, HeadDecides
  <2>2. x \notin GateWork BY <1>9 DEF GateWork, GateWrite, Work
  <2>3. Read("prior_status") \in Statement BY DEF Statement, Reading, Read
  <2>4. <<Read("prior_status")>> \in Seq(Statement) BY <2>3
  <2>5. Proceed(s, <<Read("prior_status")>>) \/ Proceed(s, <<>>) BY <2>1 DEF Judge
  <2>6. todo' \in [Slot -> Seq(Statement)] /\ \A t \in Slot \ {s} : todo'[t] = todo[t]
    BY <1>3, <1>4, <2>2, <2>4, <2>5
  <2> QED BY <2>1, <2>6 DEF Judge, Elsewhere, TypeInv
<1>10. CASE x.op = "prior_status"
  <2>1. ReadPriorStatus(s) BY <1>10, HeadDecides
  <2>2. x \notin GateWork BY <1>10 DEF GateWork, GateWrite, Work
  <2> DEFINE prior == IF from \in PreConfirmStatus THEN from ELSE "tentative"
             u == [op |-> "update_status", value |-> prior]
             i == [op |-> "insert_history", from |-> "confirmed", to |-> prior]
  <2>3. prior \in Status BY DEF PreConfirmStatus, Status
  <2>4. Proceed(s, <<u, i>>) BY <2>1 DEF ReadPriorStatus
  <2> HIDE DEF prior
  <2>5. u \in Statement /\ i \in Statement BY <2>3 DEF Statement, Status
  <2> HIDE DEF u, i
  <2>6. <<u, i>> \in Seq(Statement) BY <2>5
  <2>7. todo' \in [Slot -> Seq(Statement)] /\ \A t \in Slot \ {s} : todo'[t] = todo[t]
    BY <1>3, <2>2, <2>4, <2>6
  <2> QED BY <2>1, <2>7 DEF ReadPriorStatus, Elsewhere, TypeInv
<1>11. CASE x.op = "update_status"
  <2>1. UpdateStatus(s) BY <1>11, HeadDecides
  <2>2. x \notin GateWork BY <1>11 DEF GateWork, GateWrite, Work
  <2>3. todo' \in [Slot -> Seq(Statement)] /\ \A t \in Slot \ {s} : todo'[t] = todo[t]
    BY <1>3, <1>4, <2>1, <2>2 DEF UpdateStatus
  <2>4. x.value \in Status BY <1>1, <1>11, StatementOps
  <2> QED BY <2>1, <2>3, <2>4 DEF UpdateStatus, Elsewhere, TypeInv
<1>12. CASE x.op = "insert_history"
  <2>1. InsertHistory(s) BY <1>12, HeadDecides
  <2>2. x \notin GateWork BY <1>12 DEF GateWork, GateWrite, Work
  <2>3. todo' \in [Slot -> Seq(Statement)] /\ \A t \in Slot \ {s} : todo'[t] = todo[t]
    BY <1>3, <1>4, <2>1, <2>2 DEF InsertHistory
  <2>4. x.from \in Status \cup {"none"} BY <1>1, <1>12, StatementOps
  <2> QED BY <2>1, <2>3, <2>4 DEF InsertHistory, Elsewhere, TypeInv, From
<1>13. x \in GateWork \/ x.op \in Reading \cup {"update_status", "insert_history"}
  <2>1. x \in GateWork \/ x \in [op : Reading] \/ x \in [op : {"update_status"}, value : Status]
        \/ x \in [op : {"insert_history"}, from : Status \cup {"none"}, to : Status]
    BY <1>1 DEF Statement
  <2> QED BY <2>1
<1> QED BY <1>2, <1>5, <1>6, <1>7, <1>8, <1>9, <1>10, <1>11, <1>12, <1>13 DEF Reading

Idle == \A s \in Slot : req[s] = Nobody => todo[s] = <<>>

\* Of requests that overlap, one that is still alone is a read among reads.
Abreast ==
  \A s \in Slot : \A t \in Slot \ {s} :
    req[s] # Nobody /\ req[t] # Nobody /\ alone[s] =>
      alone[t] /\ req[s].kind = "get" /\ req[t].kind = "get"

TypesInv == TypeInv /\ Idle /\ Abreast

LEMMA InitTypes == Init => TypesInv
<1> SUFFICES ASSUME Init PROVE TypesInv OBVIOUS
<1>1. gate \in Gate /\ status \in Status /\ from \in From
  BY RequestsAssumption DEF Init, From
<1>2. TypeInv BY <1>1 DEF Init, TypeInv
<1> QED BY <1>2 DEF Init, TypesInv, Idle, Abreast

LEMMA NextTypes ==
  ASSUME TypesInv, [Next]_vars
  PROVE  TypesInv'
<1> USE DEF TypesInv
<1>1. ASSUME NEW s \in Slot, Step(s), todo[s] # <<>> PROVE TypesInv'
  <2>1. TypeInv' BY <1>1, StepTypes DEF TypeInv
  <2>2. req[s] # Nobody BY <1>1 DEF Idle
  <2>3. Idle' BY <1>1, <2>2, StepTypes DEF Idle
  <2>4. Abreast' BY <1>1, StepTypes DEF Abreast
  <2> QED BY <2>1, <2>3, <2>4
<1>2. ASSUME NEW s \in Slot, Step(s), todo[s] = <<>> PROVE TypesInv'
  <2>1. Answer(s)
    BY <1>2 DEF Step, At, GuardFinancials, GuardLetter, WriteField, ReadFinancialsToHeal,
       ReadFinancialsOfLetter, ReadLetterRowsToRollBack, ReadLetterChain, SyncLetter,
       ReadLetterRowsToSync, ReadStatusToJudge, ReadEvent, ReadLetterStatus, Decide, Judge,
       ReadPriorStatus, UpdateStatus, InsertHistory
  <2>2. TypeInv' BY <2>1 DEF Answer, TypeInv
  <2>3. Idle' BY <2>1 DEF Answer, Idle, TypeInv
  <2>4. Abreast' BY <2>1 DEF Answer, Abreast, TypeInv
  <2> QED BY <2>2, <2>3, <2>4
<1>3. ASSUME NEW s \in Slot, Die(s) PROVE TypesInv'
  <2>1. TypeInv' BY <1>3 DEF Die, TypeInv
  <2>2. Idle' BY <1>3 DEF Die, Idle, TypeInv
  <2>3. Abreast' BY <1>3 DEF Die, Abreast, TypeInv
  <2> QED BY <2>1, <2>2, <2>3
<1>4. ASSUME NEW s \in Slot, NEW q \in Offers, Begin(s, q) PROVE TypesInv'
  <2>1. TypeInv'
    <3>1. Program(q) \in Seq(Statement) BY ProgramsAreStatements
    <3>2. todo' \in [Slot -> Seq(Statement)] BY <1>4, <3>1 DEF Begin, TypeInv
    <3>3. alone' \in [Slot -> BOOLEAN] BY <1>4 DEF Begin, TypeInv, bothRead
    <3>4. req' \in [Slot -> Offers \cup {Nobody}] BY <1>4 DEF Begin, TypeInv
    <3> QED BY <1>4, <3>2, <3>3, <3>4 DEF Begin, TypeInv
  <2>2. q # Nobody
    <3>1. q.kind \in {"patch", "patch_other", "get", "post"} BY Programs
    <3> QED BY <3>1 DEF Nobody
  <2>3. Idle' BY <1>4, <2>2 DEF Begin, Idle, TypeInv
  <2>4. Abreast' BY <1>4, <2>2 DEF Begin, Abreast, TypeInv, bothRead
  <2> QED BY <2>1, <2>3, <2>4
<1>5. CASE UNCHANGED vars BY <1>5 DEF vars, TypeInv, Idle, Abreast
<1> QED BY <1>1, <1>2, <1>3, <1>4, <1>5 DEF Next

-----------------------------------------------------------------------------
\* What the healers still owe: of a gate g, and of the writes W decided on.

Backed(g) == isCostingEmailSent(g) /\ isProformaSatisfied(g)

\* The writes healers make while nothing but healers run.
Lowers(g, h) ==
  \/ h = g
  \/ h = [g EXCEPT !.proforma = "NotSent"] /\ g.costing # "Yes"
  \/ h = [g EXCEPT !.payment = "Incomplete"] /\ ~Backed(g)
  \/ h = [g EXCEPT !.signed = "No"]
  \/ h = [g EXCEPT !.couriered = "blank"] /\ g.signed = "No"
  \/ \E v : h = [g EXCEPT !.letter = v]

Sets(W, f) == \E i \in DOMAIN W : W[i].field = f

MoneyReset(g, x) ==
  \/ x.field = "proforma" /\ x.value = "NotSent" /\ g.costing # "Yes"
  \/ x.field = "payment" /\ x.value = "Incomplete" /\ ~Backed(g)

MoneyOwed(g, W) ==
  /\ \A i \in DOMAIN W : MoneyReset(g, W[i])
  /\ g.proforma = "Sent" /\ g.costing # "Yes" => Sets(W, "proforma")
  /\ g.payment = "Completed" /\ ~Backed(g) => Sets(W, "payment")

\* Signed is withdrawn before Couriered.
LetterResets(g, W) ==
  \A i \in DOMAIN W :
    \/ W[i].field = "signed" /\ W[i].value = "No"
    \/ /\ W[i].field = "couriered" /\ W[i].value = "blank"
       /\ g.signed = "No" \/ \E j \in 1 .. (i - 1) : W[j].field = "signed"
    \/ W[i].field = "letter"

Withdrawn(g, W) ==
  \/ areFinancialsReady(g)
  \/ /\ g.couriered = "dated" => Sets(W, "couriered")
     /\ g.signed = "Yes" => Sets(W, "signed")

Chained(g, W) ==
  /\ g.signed = "Yes" /\ (g.made = "No" \/ g.couriered = "blank") => Sets(W, "signed")
  /\ g.couriered = "dated" /\ g.made = "No" => Sets(W, "couriered")

LEMMA LoweredGate ==
  ASSUME NEW g \in Gate, NEW h \in Gate, Lowers(g, h)
  PROVE  /\ h.costing = g.costing /\ h.made = g.made
         /\ h.proforma = g.proforma \/ (h.proforma = "NotSent" /\ g.costing # "Yes")
         /\ h.payment = g.payment \/ (h.payment = "Incomplete" /\ ~Backed(g))
         /\ h.signed = g.signed \/ h.signed = "No"
         /\ h.couriered = g.couriered \/ (h.couriered = "blank" /\ g.signed = "No")
         /\ h.proforma # g.proforma => h.payment = g.payment
BY DEF Lowers, Gate

\* Healers do not take from each other what they rely on.
LEMMA LoweringKeeps ==
  ASSUME NEW g \in Gate, NEW h \in Gate, Lowers(g, h), NEW W
  PROVE  /\ FinancialsInOrder(g) => FinancialsInOrder(h)
         /\ MoneyOwed(g, W) => MoneyOwed(h, W)
         /\ LetterResets(g, W) => LetterResets(h, W)
         /\ FinancialsInOrder(g) /\ Withdrawn(g, W) => Withdrawn(h, W)
         /\ Chained(g, W) => Chained(h, W)
<1> USE DEF isCostingEmailSent, isProformaSatisfied
<1>1. /\ h.costing = g.costing /\ h.made = g.made
      /\ h.proforma = g.proforma \/ (h.proforma = "NotSent" /\ g.costing # "Yes")
      /\ h.payment = g.payment \/ (h.payment = "Incomplete" /\ ~Backed(g))
      /\ h.signed = g.signed \/ h.signed = "No"
      /\ h.couriered = g.couriered \/ (h.couriered = "blank" /\ g.signed = "No")
  BY LoweredGate
<1>2. Backed(h) <=> Backed(g) BY <1>1 DEF Backed
<1>3. FinancialsInOrder(g) => FinancialsInOrder(h)
  BY <1>1 DEF FinancialsInOrder, areFinancialsReady, Backed
<1>4. MoneyOwed(g, W) => MoneyOwed(h, W)
  <2>1. \A x : MoneyReset(g, x) => MoneyReset(h, x) BY <1>1, <1>2 DEF MoneyReset
  <2> QED BY <1>1, <1>2, <2>1 DEF MoneyOwed
<1>5. LetterResets(g, W) => LetterResets(h, W) BY <1>1 DEF LetterResets
<1>6. areFinancialsReady(g) => areFinancialsReady(h)
  BY <1>1 DEF areFinancialsReady, Backed
<1>7. Withdrawn(g, W) => Withdrawn(h, W) BY <1>1, <1>6 DEF Withdrawn
<1>8. Chained(g, W) => Chained(h, W) BY <1>1 DEF Chained, Gate, FieldValues
<1> QED BY <1>3, <1>4, <1>5, <1>7, <1>8

LEMMA TailAt ==
  ASSUME NEW W \in Seq(GateWrite), W # <<>>
  PROVE  /\ Tail(W) \in Seq(GateWrite) /\ Head(W) = W[1] /\ W[1] \in GateWrite
         /\ 1 \in DOMAIN W /\ DOMAIN W = 1 .. Len(W) /\ Len(W) \in Nat
         /\ DOMAIN Tail(W) = 1 .. (Len(W) - 1)
         /\ \A i \in DOMAIN Tail(W) : Tail(W)[i] = W[i + 1] /\ i + 1 \in DOMAIN W
OBVIOUS

LEMMA SetsOfTail ==
  ASSUME NEW W \in Seq(GateWrite), W # <<>>, NEW f, Sets(W, f), Head(W).field # f
  PROVE  Sets(Tail(W), f)
<1>1. PICK i \in DOMAIN W : W[i].field = f BY DEF Sets
<1>2. i # 1 /\ i \in 1 .. Len(W) BY <1>1, TailAt
<1>3. i - 1 \in DOMAIN Tail(W) BY <1>2, TailAt
<1>4. Tail(W)[i - 1] = W[(i - 1) + 1] BY <1>3, TailAt
<1>5. (i - 1) + 1 = i BY <1>2
<1> QED BY <1>1, <1>3, <1>4, <1>5 DEF Sets

Written(g, x) == [g EXCEPT ![x.field] = x.value]

LEMMA WrittenField ==
  ASSUME NEW g \in Gate, NEW x \in GateWrite
  PROVE  /\ x.field = "proforma" => Written(g, x) = [g EXCEPT !.proforma = x.value]
         /\ x.field = "payment" => Written(g, x) = [g EXCEPT !.payment = x.value]
         /\ x.field = "signed" => Written(g, x) = [g EXCEPT !.signed = x.value]
         /\ x.field = "couriered" => Written(g, x) = [g EXCEPT !.couriered = x.value]
         /\ x.field = "letter" => Written(g, x) = [g EXCEPT !.letter = x.value]
         /\ Written(g, x) \in Gate
<1>1. Written(g, x) \in Gate BY FieldWritten DEF Written
<1> QED BY <1>1 DEF Written

LEMMA MoneyWrite ==
  ASSUME NEW g \in Gate, NEW W \in Seq(GateWrite), W # <<>>, MoneyOwed(g, W)
  PROVE  LET h == Written(g, Head(W))
         IN  h \in Gate /\ Lowers(g, h) /\ MoneyOwed(h, Tail(W))
<1> DEFINE x == Head(W)
           h == Written(g, x)
<1>1. x = W[1] /\ x \in GateWrite /\ 1 \in DOMAIN W BY TailAt
<1>2. MoneyReset(g, x) BY <1>1 DEF MoneyOwed
<1>3. h \in Gate /\ Lowers(g, h) BY <1>1, <1>2, WrittenField DEF MoneyReset, Lowers
<1>4. MoneyOwed(h, W) BY <1>3, LoweringKeeps
<1>5. \A i \in DOMAIN Tail(W) : MoneyReset(h, Tail(W)[i]) BY <1>4, TailAt DEF MoneyOwed
<1>6. ASSUME h.proforma = "Sent", h.costing # "Yes" PROVE Sets(Tail(W), "proforma")
  <2>1. x.field # "proforma"
    BY <1>1, <1>2, <1>6, WrittenField DEF MoneyReset, Gate
  <2> QED BY <1>4, <1>6, <2>1, SetsOfTail DEF MoneyOwed
<1>7. ASSUME h.payment = "Completed", ~Backed(h) PROVE Sets(Tail(W), "payment")
  <2>1. x.field # "payment"
    BY <1>1, <1>2, <1>7, WrittenField DEF MoneyReset, Gate
  <2> QED BY <1>4, <1>7, <2>1, SetsOfTail DEF MoneyOwed
<1> QED BY <1>3, <1>5, <1>6, <1>7 DEF MoneyOwed

LEMMA LetterWrite ==
  ASSUME NEW g \in Gate, NEW W \in Seq(GateWrite), W # <<>>, LetterResets(g, W)
  PROVE  LET h == Written(g, Head(W))
         IN  /\ h \in Gate /\ Lowers(g, h) /\ LetterResets(h, Tail(W))
             /\ FinancialsInOrder(g) /\ Withdrawn(g, W) => Withdrawn(h, Tail(W))
             /\ Chained(g, W) => Chained(h, Tail(W))
<1> DEFINE x == Head(W)
           h == Written(g, x)
<1>1. x = W[1] /\ x \in GateWrite /\ 1 \in DOMAIN W BY TailAt
<1>2. \/ x.field = "signed" /\ x.value = "No"
      \/ x.field = "couriered" /\ x.value = "blank" /\ g.signed = "No"
      \/ x.field = "letter"
  BY <1>1 DEF LetterResets
<1>3. h \in Gate /\ Lowers(g, h) BY <1>1, <1>2, WrittenField DEF Lowers
<1>4. /\ x.field = "signed" => h.signed = "No"
      /\ x.field = "couriered" => h.couriered = "blank"
  BY <1>1, <1>2, WrittenField DEF Gate
<1>5. LetterResets(h, W) BY <1>3, LoweringKeeps
<1>6. LetterResets(h, Tail(W))
  <2> SUFFICES ASSUME NEW i \in DOMAIN Tail(W)
               PROVE  \/ Tail(W)[i].field = "signed" /\ Tail(W)[i].value = "No"
                      \/ /\ Tail(W)[i].field = "couriered" /\ Tail(W)[i].value = "blank"
                         /\ h.signed = "No" \/ \E j \in 1 .. (i - 1) : Tail(W)[j].field = "signed"
                      \/ Tail(W)[i].field = "letter"
    BY DEF LetterResets
  <2>1. Tail(W)[i] = W[i + 1] /\ i + 1 \in DOMAIN W /\ i \in 1 .. (Len(W) - 1) /\ Len(W) \in Nat
    BY TailAt
  <2>2. \/ W[i + 1].field = "signed" /\ W[i + 1].value = "No"
        \/ /\ W[i + 1].field = "couriered" /\ W[i + 1].value = "blank"
           /\ h.signed = "No" \/ \E j \in 1 .. ((i + 1) - 1) : W[j].field = "signed"
        \/ W[i + 1].field = "letter"
    BY <1>5, <2>1 DEF LetterResets
  <2>3. ASSUME h.signed # "No", NEW j \in 1 .. ((i + 1) - 1), W[j].field = "signed"
        PROVE  \E k \in 1 .. (i - 1) : Tail(W)[k].field = "signed"
    <3>1. j # 1 BY <1>1, <1>4, <2>3
    <3>2. j - 1 \in 1 .. (i - 1) /\ j - 1 \in 1 .. (Len(W) - 1) /\ (j - 1) + 1 = j
      BY <2>1, <3>1
    <3>3. Tail(W)[j - 1] = W[(j - 1) + 1] BY <3>2, TailAt
    <3> QED BY <2>3, <3>2, <3>3
  <2> QED BY <2>1, <2>2, <2>3
<1>7. ASSUME FinancialsInOrder(g), Withdrawn(g, W) PROVE Withdrawn(h, Tail(W))
  <2>1. Withdrawn(h, W) BY <1>3, <1>7, LoweringKeeps
  <2>2. h.couriered = "dated" /\ Sets(W, "couriered") => Sets(Tail(W), "couriered")
    BY <1>4, SetsOfTail
  <2>3. h.signed = "Yes" /\ Sets(W, "signed") => Sets(Tail(W), "signed")
    BY <1>4, SetsOfTail
  <2> QED BY <2>1, <2>2, <2>3 DEF Withdrawn
<1>8. ASSUME Chained(g, W) PROVE Chained(h, Tail(W))
  <2>1. Chained(h, W) BY <1>3, <1>8, LoweringKeeps
  <2>2. h.couriered = "dated" /\ Sets(W, "couriered") => Sets(Tail(W), "couriered")
    BY <1>4, SetsOfTail
  <2>3. h.signed = "Yes" /\ Sets(W, "signed") => Sets(Tail(W), "signed")
    BY <1>4, SetsOfTail
  <2> QED BY <2>1, <2>2, <2>3 DEF Chained
<1> QED BY <1>3, <1>6, <1>7, <1>8

-----------------------------------------------------------------------------
\* What a healer's read decides is what it owes.

LEMMA NothingBefore ==
  ASSUME NEW T \in Seq(Statement)
  PROVE  <<>> \o T = T /\ T \o <<>> = T
OBVIOUS

LEMMA OneWrite ==
  ASSUME NEW x \in GateWrite
  PROVE  /\ <<x>> \in Seq(GateWrite) /\ <<x>> # <<>> /\ DOMAIN <<x>> = {1} /\ <<x>>[1] = x
         /\ \A f : Sets(<<x>>, f) <=> x.field = f
<1>1. <<x>> \in Seq(GateWrite) /\ DOMAIN <<x>> = {1} /\ <<x>>[1] = x OBVIOUS
<1> QED BY <1>1 DEF Sets

LEMMA TwoWrites ==
  ASSUME NEW x \in GateWrite, NEW y \in GateWrite
  PROVE  /\ <<x, y>> \in Seq(GateWrite) /\ <<x, y>> # <<>> /\ DOMAIN <<x, y>> = {1, 2}
         /\ <<x, y>>[1] = x /\ <<x, y>>[2] = y
         /\ \A f : Sets(<<x, y>>, f) <=> x.field = f \/ y.field = f
<1>1. /\ <<x, y>> \in Seq(GateWrite) /\ DOMAIN <<x, y>> = {1, 2}
      /\ <<x, y>>[1] = x /\ <<x, y>>[2] = y
  OBVIOUS
<1> HIDE DEF GateWrite
<1> QED BY <1>1 DEF Sets

LEMMA NoWrites ==
  /\ <<>> \in Seq(GateWrite) /\ DOMAIN <<>> = {}
  /\ \A f : ~Sets(<<>>, f)
<1>1. <<>> \in Seq(GateWrite) /\ DOMAIN <<>> = {} OBVIOUS
<1> QED BY <1>1 DEF Sets

LEMMA SetFields ==
  ASSUME NEW f, NEW v
  PROVE  Set(f, v).field = f /\ Set(f, v).value = v
BY DEF Set

LEMMA MoneyRead ==
  ASSUME gate \in Gate
  PROVE  LET h == reconcileFinancialSequence(gate)
             W == WriteOf("proforma", h) \o WriteOf("payment", h)
         IN  W \in Seq(GateWrite) /\ MoneyOwed(gate, W)
<1> DEFINE h == reconcileFinancialSequence(gate)
           p == Set("proforma", "NotSent")
           q == Set("payment", "Incomplete")
           W == WriteOf("proforma", h) \o WriteOf("payment", h)
           lostProforma == gate.proforma = "Sent" /\ gate.costing # "Yes"
           lostPayment == gate.payment = "Completed" /\ ~Backed(gate)
<1>1. /\ h.proforma = IF lostProforma THEN "NotSent" ELSE gate.proforma
      /\ h.payment = IF lostPayment THEN "Incomplete" ELSE gate.payment
  BY DEF reconcileFinancialSequence, Backed, areFinancialsReady, isCostingEmailSent,
         isProformaSatisfied, Gate
<1>2. p \in GateWrite /\ q \in GateWrite
  BY SetsAreStatements, GateFieldNames DEF FieldValues
<1>3. /\ p.field = "proforma" /\ p.value = "NotSent"
      /\ q.field = "payment" /\ q.value = "Incomplete"
  BY SetFields
<1>4. WriteOf("proforma", h) = IF lostProforma THEN <<p>> ELSE <<>>
  BY <1>1 DEF WriteOf
<1>5. WriteOf("payment", h) = IF lostPayment THEN <<q>> ELSE <<>>
  BY <1>1 DEF WriteOf
<1> HIDE DEF h, p, q
<1>6. lostProforma => MoneyReset(gate, p) BY <1>3 DEF MoneyReset
<1>7. lostPayment => MoneyReset(gate, q) BY <1>3 DEF MoneyReset
<1>8. CASE lostProforma /\ lostPayment
  <2>1. W = <<p, q>> BY <1>4, <1>5, <1>8, Pairs
  <2>2. \A i \in DOMAIN <<p, q>> : MoneyReset(gate, <<p, q>>[i])
    BY <1>2, <1>6, <1>7, <1>8, TwoWrites
  <2>3. <<p, q>> \in Seq(GateWrite) /\ Sets(<<p, q>>, "proforma") /\ Sets(<<p, q>>, "payment")
    BY <1>2, <1>3, TwoWrites
  <2>4. MoneyOwed(gate, <<p, q>>) BY <2>2, <2>3 DEF MoneyOwed
  <2> QED BY <2>1, <2>3, <2>4 DEF h
<1>9. CASE lostProforma /\ ~lostPayment
  <2>1. <<p>> \o <<>> = <<p>> BY <1>2
  <2>2. W = <<p>> BY <1>4, <1>5, <1>9, <2>1
  <2>3. \A i \in DOMAIN <<p>> : MoneyReset(gate, <<p>>[i]) BY <1>2, <1>6, <1>9, OneWrite
  <2> QED BY <1>2, <1>3, <1>9, <2>2, <2>3, OneWrite DEF MoneyOwed, h
<1>10. CASE ~lostProforma /\ lostPayment
  <2>1. <<>> \o <<q>> = <<q>> BY <1>2
  <2>2. W = <<q>> BY <1>4, <1>5, <1>10, <2>1
  <2>3. \A i \in DOMAIN <<q>> : MoneyReset(gate, <<q>>[i]) BY <1>2, <1>7, <1>10, OneWrite
  <2> QED BY <1>2, <1>3, <1>10, <2>2, <2>3, OneWrite DEF MoneyOwed, h
<1>11. CASE ~lostProforma /\ ~lostPayment
  <2>1. <<>> \o <<>> = <<>> OBVIOUS
  <2>2. W = <<>> BY <1>4, <1>5, <1>11, <2>1
  <2> QED BY <1>11, <2>2, NoWrites DEF MoneyOwed, h
<1> QED BY <1>8, <1>9, <1>10, <1>11 DEF h

\* The writes of a healer that resets rows, as ResetLetterRows queues them.
ResetWrites(h) ==
  IF h = gate THEN <<>>
  ELSE WriteOf("signed", h) \o WriteOf("couriered", h) \o <<Set("letter", h.letter)>>

\* h withdraws Signed, or Couriered of a letter that is not Signed any more.
LEMMA ResetsAreOwed ==
  ASSUME gate \in Gate, NEW h \in Gate,
         h.signed = gate.signed \/ (gate.signed = "Yes" /\ h.signed = "No"),
         h.couriered = gate.couriered
           \/ (gate.couriered = "dated" /\ h.couriered = "blank" /\ h.signed = "No")
  PROVE  LET W == ResetWrites(h)
         IN  /\ W \in Seq(GateWrite) /\ LetterResets(gate, W)
             /\ h.signed # gate.signed => Sets(W, "signed")
             /\ h.couriered # gate.couriered => Sets(W, "couriered")
<1> DEFINE p == Set("signed", "No")
           q == Set("couriered", "blank")
           z == Set("letter", h.letter)
           W == ResetWrites(h)
           lostSigned == h.signed # gate.signed
           lostCouriered == h.couriered # gate.couriered
<1>1. h.letter \in LetterStatus BY DEF Gate
<1>2. p \in GateWrite /\ q \in GateWrite /\ z \in GateWrite
  BY <1>1, SetsAreStatements, GateFieldNames DEF FieldValues
<1>3. /\ p.field = "signed" /\ p.value = "No"
      /\ q.field = "couriered" /\ q.value = "blank" /\ z.field = "letter"
  BY SetFields
<1>4. WriteOf("signed", h) = IF lostSigned THEN <<p>> ELSE <<>> BY DEF WriteOf
<1>5. WriteOf("couriered", h) = IF lostCouriered THEN <<q>> ELSE <<>> BY DEF WriteOf
<1>6. lostCouriered => gate.signed = "No" \/ lostSigned BY DEF Gate, FieldValues
<1>7. h = gate => ~lostSigned /\ ~lostCouriered OBVIOUS
<1> HIDE DEF p, q, z
<1>8. CASE h = gate
  <2>1. W = <<>> BY <1>8 DEF ResetWrites
  <2> QED BY <1>7, <1>8, <2>1, NoWrites DEF LetterResets
<1>9. h # gate => W = (WriteOf("signed", h) \o WriteOf("couriered", h)) \o <<z>>
  BY DEF ResetWrites, z
<1>10. CASE h # gate /\ lostSigned /\ lostCouriered
  <2>1. W = <<p, q, z>> BY <1>4, <1>5, <1>9, <1>10, Pairs, Triples
  <2>2. <<p, q, z>> \in Seq(GateWrite) BY <1>2
  <2>3. /\ DOMAIN <<p, q, z>> = {1, 2, 3} /\ <<p, q, z>>[1] = p /\ <<p, q, z>>[2] = q
        /\ <<p, q, z>>[3] = z
    BY <2>2
  <2>4. Sets(W, "signed") /\ Sets(W, "couriered") BY <1>3, <2>1, <2>3 DEF Sets
  <2>9. DOMAIN W = {1, 2, 3} /\ W[1] = p /\ W[2] = q /\ W[3] = z BY <2>1, <2>3
  <2> HIDE DEF W
  <2>5. \A i \in DOMAIN W : (i = 1 /\ W[i] = p) \/ (i = 2 /\ W[i] = q) \/ (i = 3 /\ W[i] = z)
    BY <2>9
  <2>6. W[1].field = "signed" BY <1>3, <2>9
  <2>7. 1 \in 1 .. (2 - 1) OBVIOUS
  <2>8. LetterResets(gate, W) BY <1>3, <2>5, <2>6, <2>7 DEF LetterResets
  <2> QED BY <2>1, <2>2, <2>4, <2>8 DEF W
<1>11. CASE h # gate /\ lostSigned /\ ~lostCouriered
  <2>1. <<p>> \o <<>> = <<p>> BY <1>2
  <2>2. W = <<p, z>> BY <1>4, <1>5, <1>9, <1>11, <2>1, Pairs
  <2>3. \A i \in DOMAIN W : W[i] = p \/ W[i] = z BY <1>2, <2>2, TwoWrites
  <2>4. LetterResets(gate, W) BY <1>3, <2>3 DEF LetterResets
  <2> QED BY <1>2, <1>3, <1>11, <2>2, <2>4, TwoWrites
<1>12. CASE h # gate /\ ~lostSigned /\ lostCouriered
  <2>1. <<>> \o <<q>> = <<q>> BY <1>2
  <2>2. W = <<q, z>> BY <1>4, <1>5, <1>9, <1>12, <2>1, Pairs
  <2>3. \A i \in DOMAIN W : W[i] = q \/ W[i] = z BY <1>2, <2>2, TwoWrites
  <2>4. gate.signed = "No" BY <1>6, <1>12
  <2>5. LetterResets(gate, W) BY <1>3, <2>3, <2>4 DEF LetterResets
  <2> QED BY <1>2, <1>3, <1>12, <2>2, <2>5, TwoWrites
<1>13. CASE h # gate /\ ~lostSigned /\ ~lostCouriered
  <2>1. <<>> \o <<>> = <<>> OBVIOUS
  <2>2. <<>> \o <<z>> = <<z>> BY <1>2
  <2>3. W = <<z>> BY <1>4, <1>5, <1>9, <1>13, <2>1, <2>2
  <2>4. LetterResets(gate, W) BY <1>2, <1>3, <2>3, OneWrite DEF LetterResets
  <2> QED BY <1>2, <1>13, <2>3, <2>4, OneWrite
<1> QED BY <1>8, <1>10, <1>11, <1>12, <1>13

LEMMA RollRead ==
  ASSUME gate \in Gate
  PROVE  LET W == ResetWrites(rollBackLetter(gate))
         IN  W \in Seq(GateWrite) /\ LetterResets(gate, W) /\ Withdrawn(gate, W)
<1> DEFINE h == rollBackLetter(gate)
<1>1. h \in Gate BY LetterSteps
<1>2. h.signed = "No" /\ h.couriered = "blank" BY DEF rollBackLetter, Gate
<1>3. gate.signed \in {"Yes", "No"} /\ gate.couriered \in {"blank", "dated"}
  BY DEF Gate, FieldValues
<1> HIDE DEF h
<1>4. LET W == ResetWrites(h)
      IN  /\ W \in Seq(GateWrite) /\ LetterResets(gate, W)
          /\ h.signed # gate.signed => Sets(W, "signed")
          /\ h.couriered # gate.couriered => Sets(W, "couriered")
  BY <1>1, <1>2, <1>3, ResetsAreOwed
<1>5. Withdrawn(gate, ResetWrites(h)) BY <1>2, <1>4 DEF Withdrawn
<1> QED BY <1>4, <1>5 DEF h

LEMMA ChainRead ==
  ASSUME gate \in Gate
  PROVE  LET W == ResetWrites(reconcileDeliveryChain(gate))
         IN  W \in Seq(GateWrite) /\ LetterResets(gate, W) /\ Chained(gate, W)
<1> DEFINE h == reconcileDeliveryChain(gate)
           lostSigned == gate.signed = "Yes" /\ (gate.made = "No" \/ gate.couriered = "blank")
           lostCouriered == gate.couriered = "dated" /\ gate.made = "No"
<1>1. h \in Gate BY ReconcilersKeepType
<1>2. /\ h.signed = IF lostSigned THEN "No" ELSE gate.signed
      /\ h.couriered = IF lostCouriered THEN "blank" ELSE gate.couriered
  BY DEF reconcileDeliveryChain, Gate
<1>3. /\ gate.signed \in {"Yes", "No"} /\ gate.couriered \in {"blank", "dated"}
      /\ gate.made \in {"Yes", "No"}
  BY DEF Gate, FieldValues
<1> HIDE DEF h
<1>4. LET W == ResetWrites(h)
      IN  /\ W \in Seq(GateWrite) /\ LetterResets(gate, W)
          /\ h.signed # gate.signed => Sets(W, "signed")
          /\ h.couriered # gate.couriered => Sets(W, "couriered")
  BY <1>1, <1>2, <1>3, ResetsAreOwed
<1>5. Chained(gate, ResetWrites(h)) BY <1>2, <1>4 DEF Chained
<1> QED BY <1>4, <1>5 DEF h

-----------------------------------------------------------------------------
\* A read or a write at the head of todo.

LEMMA ReadStep ==
  ASSUME todo \in [Slot -> Seq(Statement)], NEW s \in Slot, NEW r \in Statement,
         NEW T \in Seq(Statement), todo[s] = <<r>> \o T
  PROVE  /\ todo[s] # <<>> /\ Head(todo[s]) = r
         /\ \A next \in Seq(Statement) : Proceed(s, next) => todo'[s] = next \o T
<1>1. <<r>> \in Seq(Statement) /\ <<r>> # <<>> /\ Head(<<r>>) = r /\ Tail(<<r>>) = <<>> OBVIOUS
<1>2. todo[s] # <<>> /\ Head(todo[s]) = r OBVIOUS
<1>3. ASSUME NEW next \in Seq(Statement), Proceed(s, next) PROVE todo'[s] = next \o T
  <2>1. todo'[s] = (next \o Tail(<<r>>)) \o T BY <1>1, <1>3, Proceeds
  <2>2. next \o Tail(<<r>>) = next BY <1>1
  <2> QED BY <2>1, <2>2
<1> QED BY <1>2, <1>3

LEMMA GateWritesAreStatements == Seq(GateWrite) \subseteq Seq(Statement)
<1>1. GateWrite \subseteq Statement BY DEF Statement, GateWork
<1> QED BY <1>1, SeqMonotonic

LEMMA WriteStep ==
  ASSUME TypeInv, NEW s \in Slot, Step(s), NEW W \in Seq(GateWrite), W # <<>>,
         NEW T \in Seq(Statement), todo[s] = W \o T
  PROVE  /\ gate' = Written(gate, Head(W)) /\ todo'[s] = Tail(W) \o T
         /\ Tail(W) \in Seq(GateWrite)
         /\ todo[s] # <<>> /\ Head(todo[s]).op = "set"
<1>1. todo \in [Slot -> Seq(Statement)] BY DEF TypeInv
<1>2. W \in Seq(Statement) BY GateWritesAreStatements
<1>3. todo[s] # <<>> /\ Head(todo[s]) = Head(W) BY <1>2
<1>4. Head(W) \in GateWrite /\ Tail(W) \in Seq(GateWrite) BY TailAt
<1>5. Head(W).op = "set" BY <1>4 DEF GateWrite
<1>6. WriteField(s) BY <1>3, <1>5, HeadDecides
<1>7. <<>> \in Seq(Statement) OBVIOUS
<1>8. todo'[s] = (<<>> \o Tail(W)) \o T BY <1>1, <1>2, <1>6, <1>7, Proceeds DEF WriteField
<1>9. <<>> \o Tail(W) = Tail(W) BY <1>4
<1> QED BY <1>3, <1>4, <1>5, <1>6, <1>8, <1>9 DEF WriteField, Written

-----------------------------------------------------------------------------
\* The money and the letter healer on their way to T, among healers.

ToReadMoney(L, T) == L = healFinancials \o (healLetter \o T)

ToWriteMoney(g, L, T) ==
  \E W \in Seq(GateWrite) : L = W \o (healLetter \o T) /\ MoneyOwed(g, W)

ToReadLetter(g, L, T) ==
  L = <<Read("letter_rows_to_roll_back")>> \o T /\ FinancialsInOrder(g)

ToWriteLetter(g, L, T) ==
  \E W \in Seq(GateWrite) :
    /\ W # <<>> /\ L = W \o T
    /\ FinancialsInOrder(g) /\ LetterResets(g, W) /\ Withdrawn(g, W)

Healed(g, L, T) == L = T /\ FinancialsInOrder(g) /\ Withdrawn(g, <<>>)

Healing(g, L, T) ==
  ToReadMoney(L, T) \/ ToWriteMoney(g, L, T) \/ ToReadLetter(g, L, T) \/ ToWriteLetter(g, L, T)

LEMMA HealingKeeps ==
  ASSUME NEW g \in Gate, NEW h \in Gate, Lowers(g, h), NEW L, NEW T
  PROVE  /\ Healing(g, L, T) => Healing(h, L, T)
         /\ Healed(g, L, T) => Healed(h, L, T)
<1>1. /\ FinancialsInOrder(g) => FinancialsInOrder(h)
      /\ \A W : /\ MoneyOwed(g, W) => MoneyOwed(h, W)
                /\ LetterResets(g, W) => LetterResets(h, W)
                /\ FinancialsInOrder(g) /\ Withdrawn(g, W) => Withdrawn(h, W)
  BY LoweringKeeps
<1>2. ToWriteMoney(g, L, T) => ToWriteMoney(h, L, T) BY <1>1 DEF ToWriteMoney
<1>3. ToReadLetter(g, L, T) => ToReadLetter(h, L, T) BY <1>1 DEF ToReadLetter
<1>4. ToWriteLetter(g, L, T) => ToWriteLetter(h, L, T) BY <1>1 DEF ToWriteLetter
<1>5. Healed(g, L, T) => Healed(h, L, T) BY <1>1 DEF Healed
<1> QED BY <1>2, <1>3, <1>4, <1>5 DEF Healing

LEMMA NothingOwed ==
  ASSUME NEW g \in Gate, MoneyOwed(g, <<>>)
  PROVE  FinancialsInOrder(g)
<1>1. ~(g.proforma = "Sent" /\ g.costing # "Yes") /\ ~(g.payment = "Completed" /\ ~Backed(g))
  BY NoWrites DEF MoneyOwed
<1> QED BY <1>1 DEF FinancialsInOrder, Backed, areFinancialsReady, isCostingEmailSent

LEMMA HealingStep ==
  ASSUME TypeInv, NEW s \in Slot, Step(s), NEW T \in Seq(Statement), Healing(gate, todo[s], T)
  PROVE  /\ Lowers(gate, gate') /\ UNCHANGED <<status, from, seen>>
         /\ Healing(gate', todo'[s], T) \/ Healed(gate', todo'[s], T)
         /\ todo[s] # <<>> /\ Head(todo[s]) \in GateWork
         /\ ~At(s, "guard_financials") /\ ~At(s, "guard_letter")
<1>1. todo \in [Slot -> Seq(Statement)] /\ gate \in Gate BY DEF TypeInv
<1>2. /\ healFinancials \in Seq(Statement) /\ healLetter \in Seq(Statement)
      /\ Read("letter_rows_to_roll_back") \in Statement
      /\ Read("financials_of_letter") \in Statement /\ Read("financials_to_heal") \in Statement
  BY HealsAreGateWork, GateWorkIsStatements, ReadsAreStatements DEF Work
<1>3. healLetter \o T \in Seq(Statement) BY <1>2
<1>4. \A w \in {"financials_to_heal", "financials_of_letter", "letter_rows_to_roll_back"} :
        Read(w) \in GateWork /\ Read(w).op = w
  BY ReadsAreStatements DEF Work, Read
<1>5. CASE ToReadMoney(todo[s], T)
  <2> DEFINE h == reconcileFinancialSequence(gate)
             W == WriteOf("proforma", h) \o WriteOf("payment", h)
  <2>1. todo[s] = <<Read("financials_to_heal")>> \o (healLetter \o T)
    BY <1>5 DEF ToReadMoney, healFinancials
  <2>2. todo[s] # <<>> /\ Head(todo[s]) = Read("financials_to_heal")
        /\ \A next \in Seq(Statement) : Proceed(s, next) => todo'[s] = next \o (healLetter \o T)
    BY <1>1, <1>2, <1>3, <2>1, ReadStep
  <2>3. Head(todo[s]).op = "financials_to_heal" BY <1>4, <2>2
  <2>4. ReadFinancialsToHeal(s) BY <2>2, <2>3, HeadDecides
  <2>5. W \in Seq(GateWrite) /\ MoneyOwed(gate, W) BY <1>1, MoneyRead
  <2>6. Proceed(s, W) /\ gate' = gate /\ UNCHANGED <<status, from, seen>>
    BY <2>4 DEF ReadFinancialsToHeal
  <2> HIDE DEF W
  <2>7. todo'[s] = W \o (healLetter \o T) BY <2>2, <2>5, <2>6, GateWritesAreStatements
  <2>8. ToWriteMoney(gate', todo'[s], T) BY <2>5, <2>6, <2>7 DEF ToWriteMoney
  <2> QED BY <1>4, <2>2, <2>3, <2>6, <2>8 DEF Lowers, Healing, At
<1>6. ASSUME NEW W \in Seq(GateWrite), W # <<>>, todo[s] = W \o (healLetter \o T),
             MoneyOwed(gate, W)
      PROVE  /\ Lowers(gate, gate') /\ UNCHANGED <<status, from, seen>>
             /\ Healing(gate', todo'[s], T)
             /\ todo[s] # <<>> /\ Head(todo[s]) \in GateWork
             /\ ~At(s, "guard_financials") /\ ~At(s, "guard_letter")
  <2>1. /\ gate' = Written(gate, Head(W)) /\ todo'[s] = Tail(W) \o (healLetter \o T)
        /\ Tail(W) \in Seq(GateWrite)
        /\ todo[s] # <<>> /\ Head(todo[s]).op = "set"
    BY <1>3, <1>6, WriteStep
  <2>2. Lowers(gate, gate') /\ MoneyOwed(gate', Tail(W)) BY <1>1, <1>6, <2>1, MoneyWrite
  <2>3. ToWriteMoney(gate', todo'[s], T) BY <2>1, <2>2 DEF ToWriteMoney
  <2>4. WriteField(s) BY <2>1, HeadDecides
  <2>5. Head(todo[s]) \in GateWork BY <1>1, <2>1, StatementOps DEF GateWork
  <2> QED BY <2>1, <2>2, <2>3, <2>4, <2>5 DEF WriteField, Healing, At
<1>7. ASSUME todo[s] = <<>> \o (healLetter \o T), MoneyOwed(gate, <<>>)
      PROVE  /\ Lowers(gate, gate') /\ UNCHANGED <<status, from, seen>>
             /\ Healing(gate', todo'[s], T) \/ Healed(gate', todo'[s], T)
             /\ todo[s] # <<>> /\ Head(todo[s]) \in GateWork
             /\ ~At(s, "guard_financials") /\ ~At(s, "guard_letter")
  <2>1. todo[s] = <<Read("financials_of_letter")>> \o T
    BY <1>3, <1>7, NothingBefore DEF healLetter
  <2>2. todo[s] # <<>> /\ Head(todo[s]) = Read("financials_of_letter")
        /\ \A next \in Seq(Statement) : Proceed(s, next) => todo'[s] = next \o T
    BY <1>1, <1>2, <2>1, ReadStep
  <2>3. Head(todo[s]).op = "financials_of_letter" BY <1>4, <2>2
  <2>4. ReadFinancialsOfLetter(s) BY <2>2, <2>3, HeadDecides
  <2>5. gate' = gate /\ UNCHANGED <<status, from, seen>> BY <2>4 DEF ReadFinancialsOfLetter
  <2>6. FinancialsInOrder(gate') BY <1>1, <1>7, <2>5, NothingOwed
  <2>7. CASE areFinancialsReady(gate)
    <3>1. <<>> \in Seq(Statement) OBVIOUS
    <3>2. Proceed(s, <<>>) BY <2>4, <2>7 DEF ReadFinancialsOfLetter
    <3>3. todo'[s] = T BY <2>2, <3>1, <3>2, NothingBefore
    <3>4. Healed(gate', todo'[s], T) BY <2>5, <2>6, <2>7, <3>3 DEF Healed, Withdrawn
    <3> QED BY <1>4, <2>2, <2>3, <2>5, <3>4 DEF Lowers, At
  <2>8. CASE ~areFinancialsReady(gate)
    <3>1. <<Read("letter_rows_to_roll_back")>> \in Seq(Statement) BY <1>2
    <3>2. Proceed(s, <<Read("letter_rows_to_roll_back")>>)
      BY <2>4, <2>8 DEF ReadFinancialsOfLetter
    <3>3. todo'[s] = <<Read("letter_rows_to_roll_back")>> \o T BY <2>2, <3>1, <3>2
    <3>4. ToReadLetter(gate', todo'[s], T) BY <2>6, <3>3 DEF ToReadLetter
    <3> QED BY <1>4, <2>2, <2>3, <2>5, <3>4 DEF Lowers, At, Healing
  <2> QED BY <2>7, <2>8
<1>8. CASE ToWriteMoney(gate, todo[s], T) BY <1>6, <1>7, <1>8 DEF ToWriteMoney
<1>9. CASE ToReadLetter(gate, todo[s], T)
  <2> DEFINE h == rollBackLetter(gate)
             W == ResetWrites(h)
  <2>1. todo[s] = <<Read("letter_rows_to_roll_back")>> \o T BY <1>9 DEF ToReadLetter
  <2>2. todo[s] # <<>> /\ Head(todo[s]) = Read("letter_rows_to_roll_back")
        /\ \A next \in Seq(Statement) : Proceed(s, next) => todo'[s] = next \o T
    BY <1>1, <1>2, <2>1, ReadStep
  <2>3. Head(todo[s]).op = "letter_rows_to_roll_back" BY <1>4, <2>2
  <2>4. ReadLetterRowsToRollBack(s) BY <2>2, <2>3, HeadDecides
  <2>5. W \in Seq(GateWrite) /\ LetterResets(gate, W) /\ Withdrawn(gate, W) BY <1>1, RollRead
  <2>6. Proceed(s, W) /\ gate' = gate /\ UNCHANGED <<status, from, seen>>
    BY <2>4 DEF ReadLetterRowsToRollBack, ResetLetterRows, ResetWrites
  <2> HIDE DEF W
  <2>7. todo'[s] = W \o T BY <2>2, <2>5, <2>6, GateWritesAreStatements
  <2>8. FinancialsInOrder(gate') BY <1>9, <2>6 DEF ToReadLetter
  <2>9. CASE W # <<>>
    <3>1. ToWriteLetter(gate', todo'[s], T) BY <2>5, <2>6, <2>7, <2>8, <2>9 DEF ToWriteLetter
    <3> QED BY <1>4, <2>2, <2>3, <2>6, <3>1 DEF Lowers, At, Healing
  <2>10. CASE W = <<>>
    <3>1. Healed(gate', todo'[s], T) BY <2>5, <2>6, <2>7, <2>8, <2>10, NothingBefore DEF Healed
    <3> QED BY <1>4, <2>2, <2>3, <2>6, <3>1 DEF Lowers, At
  <2> QED BY <2>9, <2>10
<1>10. ASSUME NEW W \in Seq(GateWrite), W # <<>>, todo[s] = W \o T,
              FinancialsInOrder(gate), LetterResets(gate, W), Withdrawn(gate, W)
       PROVE  /\ Lowers(gate, gate') /\ UNCHANGED <<status, from, seen>>
              /\ Healing(gate', todo'[s], T) \/ Healed(gate', todo'[s], T)
              /\ todo[s] # <<>> /\ Head(todo[s]) \in GateWork
              /\ ~At(s, "guard_financials") /\ ~At(s, "guard_letter")
  <2>1. /\ gate' = Written(gate, Head(W)) /\ todo'[s] = Tail(W) \o T
        /\ Tail(W) \in Seq(GateWrite)
        /\ todo[s] # <<>> /\ Head(todo[s]).op = "set"
    BY <1>10, WriteStep
  <2>2. /\ gate' \in Gate /\ Lowers(gate, gate') /\ LetterResets(gate', Tail(W))
        /\ Withdrawn(gate', Tail(W))
    BY <1>1, <1>10, <2>1, LetterWrite
  <2>3. FinancialsInOrder(gate') BY <1>1, <1>10, <2>2, LoweringKeeps
  <2>4. WriteField(s) BY <2>1, HeadDecides
  <2>5. Head(todo[s]) \in GateWork BY <1>1, <2>1, StatementOps DEF GateWork
  <2>6. CASE Tail(W) # <<>>
    <3>1. ToWriteLetter(gate', todo'[s], T) BY <2>1, <2>2, <2>3, <2>6 DEF ToWriteLetter
    <3> QED BY <2>1, <2>2, <2>4, <2>5, <3>1 DEF WriteField, Healing, At
  <2>7. CASE Tail(W) = <<>>
    <3>1. Healed(gate', todo'[s], T) BY <2>1, <2>2, <2>3, <2>7, NothingBefore DEF Healed
    <3> QED BY <2>1, <2>2, <2>4, <2>5, <3>1 DEF WriteField, At
  <2> QED BY <2>6, <2>7
<1>11. CASE ToWriteLetter(gate, todo[s], T) BY <1>10, <1>11 DEF ToWriteLetter
<1> QED BY <1>5, <1>8, <1>9, <1>11 DEF Healing

LEMMA HealingHead ==
  ASSUME NEW g, NEW L, NEW T \in Seq(Statement), Healing(g, L, T)
  PROVE  L # <<>> /\ Head(L) \in GateWork
<1>1. /\ \A w \in Work : Read(w) \in GateWork /\ Read(w) \in Statement
      /\ healLetter \in Seq(Statement)
  BY HealsAreGateWork, GateWorkIsStatements, ReadsAreStatements
<1>2. healLetter \o T \in Seq(Statement) BY <1>1
<1>3. ASSUME NEW r \in GateWork, NEW S \in Seq(Statement)
      PROVE  <<r>> \o S # <<>> /\ Head(<<r>> \o S) = r
  <2>1. r \in Statement BY DEF Statement
  <2> QED BY <2>1
<1>4. ASSUME NEW W \in Seq(GateWrite), W # <<>>, NEW S \in Seq(Statement)
      PROVE  W \o S # <<>> /\ Head(W \o S) \in GateWork
  <2>1. W \in Seq(Statement) /\ Head(W) \in GateWrite BY <1>4, GateWritesAreStatements, TailAt
  <2>2. W \o S # <<>> /\ Head(W \o S) = Head(W) BY <1>4, <2>1, TailOfConcat
  <2> QED BY <2>1, <2>2 DEF GateWork
<1>5. CASE ToReadMoney(L, T)
  BY <1>1, <1>2, <1>3, <1>5 DEF ToReadMoney, healFinancials, Work
<1>6. CASE ToWriteMoney(g, L, T)
  <2>1. PICK W \in Seq(GateWrite) : L = W \o (healLetter \o T) BY <1>6 DEF ToWriteMoney
  <2>2. CASE W = <<>>
    <3>1. L = <<Read("financials_of_letter")>> \o T
      BY <1>2, <2>1, <2>2, NothingBefore DEF healLetter
    <3> QED BY <1>1, <1>3, <3>1 DEF Work
  <2> QED BY <1>2, <1>4, <2>1, <2>2
<1>7. CASE ToReadLetter(g, L, T) BY <1>1, <1>3, <1>7 DEF ToReadLetter, Work
<1>8. CASE ToWriteLetter(g, L, T) BY <1>4, <1>8 DEF ToWriteLetter
<1> QED BY <1>5, <1>6, <1>7, <1>8 DEF Healing

-----------------------------------------------------------------------------
\* A read on its way.

Chaining(g, L) ==
  \E W \in Seq(GateWrite) :
    /\ W # <<>> /\ L = W
    /\ FinancialsInOrder(g) /\ Withdrawn(g, <<>>) /\ LetterResets(g, W) /\ Chained(g, W)

Getting(g, L) == Healing(g, L, healChain) \/ Healed(g, L, healChain) \/ Chaining(g, L)

LEMMA GettingKeeps ==
  ASSUME NEW g \in Gate, NEW h \in Gate, Lowers(g, h), NEW L, Getting(g, L)
  PROVE  Getting(h, L)
<1>1. Chaining(g, L) => Chaining(h, L)
  <2>1. /\ FinancialsInOrder(g) => FinancialsInOrder(h)
        /\ \A W : /\ LetterResets(g, W) => LetterResets(h, W)
                  /\ FinancialsInOrder(g) /\ Withdrawn(g, W) => Withdrawn(h, W)
                  /\ Chained(g, W) => Chained(h, W)
    BY LoweringKeeps
  <2> QED BY <2>1 DEF Chaining
<1> QED BY <1>1, HealingKeeps DEF Getting

LEMMA NothingLeftToReset ==
  ASSUME NEW g \in Gate, Withdrawn(g, <<>>), Chained(g, <<>>)
  PROVE  LetterInOrder(g)
<1>1. areFinancialsReady(g) \/ (g.couriered # "dated" /\ g.signed # "Yes")
  BY NoWrites DEF Withdrawn
<1>2. /\ ~(g.signed = "Yes" /\ (g.made = "No" \/ g.couriered = "blank"))
      /\ ~(g.couriered = "dated" /\ g.made = "No")
  BY NoWrites DEF Chained
<1> QED BY <1>1, <1>2 DEF LetterInOrder, Gate, FieldValues

LEMMA GettingStep ==
  ASSUME TypeInv, NEW s \in Slot, Step(s), Getting(gate, todo[s])
  PROVE  /\ Lowers(gate, gate')
         /\ \/ Getting(gate', todo'[s])
            \/ todo'[s] = <<>> /\ FinancialsInOrder(gate') /\ LetterInOrder(gate')
<1>1. todo \in [Slot -> Seq(Statement)] /\ gate \in Gate BY DEF TypeInv
<1>2. healChain \in Seq(Statement) BY HealsAreGateWork, GateWorkIsStatements
<1>3. <<>> \in Seq(Statement) OBVIOUS
<1>4. CASE Healing(gate, todo[s], healChain)
  <2>1. /\ Lowers(gate, gate')
        /\ Healing(gate', todo'[s], healChain) \/ Healed(gate', todo'[s], healChain)
    BY <1>2, <1>4, HealingStep
  <2> QED BY <2>1 DEF Getting
<1>5. CASE Healed(gate, todo[s], healChain)
  <2> DEFINE W == ResetWrites(reconcileDeliveryChain(gate))
  <2>1. Read("letter_chain") \in Statement /\ Read("letter_chain").op = "letter_chain"
    BY ReadsAreStatements DEF Work, Read
  <2>2. <<Read("letter_chain")>> \in Seq(Statement) BY <2>1
  <2>3. todo[s] = <<Read("letter_chain")>> \o <<>>
    BY <1>5, <2>2, NothingBefore DEF Healed, healChain
  <2>4. /\ todo[s] # <<>> /\ Head(todo[s]) = Read("letter_chain")
        /\ \A next \in Seq(Statement) : Proceed(s, next) => todo'[s] = next \o <<>>
    BY <1>1, <1>3, <2>1, <2>3, ReadStep
  <2>5. ReadLetterChain(s) BY <2>1, <2>4, HeadDecides
  <2>6. W \in Seq(GateWrite) /\ LetterResets(gate, W) /\ Chained(gate, W) BY <1>1, ChainRead
  <2>7. Proceed(s, W) /\ gate' = gate
    BY <2>5 DEF ReadLetterChain, ResetLetterRows, ResetWrites
  <2> HIDE DEF W
  <2>8. todo'[s] = W BY <2>4, <2>6, <2>7, NothingBefore, GateWritesAreStatements
  <2>9. FinancialsInOrder(gate) /\ Withdrawn(gate, <<>>) BY <1>5 DEF Healed
  <2>10. CASE W # <<>>
    <3>1. Chaining(gate', todo'[s]) BY <2>6, <2>7, <2>8, <2>9, <2>10 DEF Chaining
    <3> QED BY <2>7, <3>1 DEF Lowers, Getting
  <2>11. CASE W = <<>>
    <3>1. LetterInOrder(gate) BY <1>1, <2>6, <2>9, <2>11, NothingLeftToReset
    <3> QED BY <2>7, <2>8, <2>9, <2>11, <3>1 DEF Lowers
  <2> QED BY <2>10, <2>11
<1>6. ASSUME NEW W \in Seq(GateWrite), W # <<>>, todo[s] = W, FinancialsInOrder(gate),
             Withdrawn(gate, <<>>), LetterResets(gate, W), Chained(gate, W)
      PROVE  /\ Lowers(gate, gate')
             /\ \/ Getting(gate', todo'[s])
                \/ todo'[s] = <<>> /\ FinancialsInOrder(gate') /\ LetterInOrder(gate')
  <2>1. W \in Seq(Statement) BY GateWritesAreStatements
  <2>2. todo[s] = W \o <<>> BY <1>6, <2>1, NothingBefore
  <2>3. /\ gate' = Written(gate, Head(W)) /\ todo'[s] = Tail(W) \o <<>>
        /\ Tail(W) \in Seq(GateWrite)
    BY <1>3, <1>6, <2>2, WriteStep
  <2>4. todo'[s] = Tail(W) BY <2>3, NothingBefore, GateWritesAreStatements
  <2>5. /\ gate' \in Gate /\ Lowers(gate, gate') /\ LetterResets(gate', Tail(W))
        /\ Chained(gate', Tail(W))
    BY <1>1, <1>6, <2>3, LetterWrite
  <2>6. FinancialsInOrder(gate') /\ Withdrawn(gate', <<>>) BY <1>1, <1>6, <2>5, LoweringKeeps
  <2>7. CASE Tail(W) # <<>>
    <3>1. Chaining(gate', todo'[s]) BY <2>3, <2>4, <2>5, <2>6, <2>7 DEF Chaining
    <3> QED BY <2>5, <3>1 DEF Getting
  <2>8. CASE Tail(W) = <<>>
    <3>1. LetterInOrder(gate') BY <2>5, <2>6, <2>8, NothingLeftToReset
    <3> QED BY <2>4, <2>5, <2>6, <2>8, <3>1
  <2> QED BY <2>7, <2>8
<1>7. CASE Chaining(gate, todo[s]) BY <1>6, <1>7 DEF Chaining
<1> QED BY <1>4, <1>5, <1>7 DEF Getting

LEMMA GettingGoesOn ==
  ASSUME NEW g, NEW L, Getting(g, L)
  PROVE  L # <<>>
<1>1. healChain \in Seq(Statement) /\ healChain # <<>>
  BY HealsAreGateWork, GateWorkIsStatements DEF healChain
<1> QED BY <1>1, HealingHead DEF Getting, Healed, Chaining

-----------------------------------------------------------------------------
\* A status change on its way.

Moving(g, L) ==
  \E x \in Statement : \E y \in Statement :
    /\ L = <<x, y>> /\ x.op = "update_status" /\ y.op = "insert_history"
    /\ x.value = "confirmed" => areFinancialsReady(g)

Posting(g, L) ==
  \/ L = <<Read("event")>> \o (healFinancials \o (healLetter \o readGate))
  \/ Healing(g, L, readGate)
  \/ Healed(g, L, readGate)
  \/ L = <<Read("money")>> /\ FinancialsInOrder(g)
  \/ Moving(g, L)
  \/ \E y \in Statement : L = <<y>> /\ y.op = "insert_history"

LEMMA RowOfGate ==
  ASSUME NEW g
  PROVE  Row(g).gate = g
BY DEF Row

LEMMA MoneySeen ==
  ASSUME NEW s \in Slot, gate \in Gate, FinancialsInOrder(gate), canConfirm(RowSeen(s))
  PROVE  areFinancialsReady(gate)
<1> DEFINE g == [gate EXCEPT !.letter = seen[s].letter]
<1>1. RowSeen(s).gate = g BY RowOfGate DEF RowSeen
<1> HIDE DEF g
<1>2. isPaymentGateSatisfied(g) BY <1>1 DEF canConfirm
<1>3. g.costing = gate.costing /\ g.payment = gate.payment BY DEF g, Gate
<1> QED BY <1>2, <1>3 DEF isPaymentGateSatisfied, isCostingEmailSent, FinancialsInOrder

LEMMA MovesAreStatements ==
  ASSUME TypeInv, NEW s \in Slot, NEW to \in Status
  PROVE  LET x == [op |-> "update_status", value |-> to]
             y == [op |-> "insert_history", from |-> seen[s].status, to |-> to]
         IN  x \in Statement /\ y \in Statement /\ Move(s, to) = <<x, y>>
<1>1. seen[s].status \in Status \cup {"none"} BY DEF TypeInv
<1> QED BY <1>1 DEF Statement, Move

LEMMA PairOfStatements ==
  ASSUME NEW x \in Statement, NEW y \in Statement
  PROVE  <<x, y>> = <<x>> \o <<y>> /\ <<y>> \in Seq(Statement) /\ <<y>> = <<y>> \o <<>>
<1>1. <<x>> \o <<y>> = <<x, y>> BY Pairs
<1>2. <<y>> \in Seq(Statement) OBVIOUS
<1>3. <<y>> \o <<>> = <<y>> BY <1>2, NothingBefore
<1> QED BY <1>1, <1>2, <1>3

LEMMA ReadsOfGate ==
  /\ readGate = <<Read("letter_status")>> \o <<Read("money")>>
  /\ Read("letter_status") \in Statement /\ Read("letter_status").op = "letter_status"
  /\ Read("money") \in Statement /\ Read("money").op = "money"
  /\ <<Read("money")>> \in Seq(Statement)
  /\ readGate \in Seq(Statement) /\ readGate # <<>> /\ Head(readGate) = Read("letter_status")
<1>1. \A w \in {"letter_status", "money"} : Read(w) \in Statement /\ Read(w).op = w
  BY ReadsAreStatements DEF Reading, Read
<1>2. readGate = <<Read("letter_status")>> \o <<Read("money")>> BY Pairs DEF readGate
<1>3. readGate # <<>> /\ Head(readGate) = Read("letter_status") BY DEF readGate
<1> QED BY <1>1, <1>2, <1>3, ReadGateIsStatements

LEMMA MovingStep ==
  ASSUME TypeInv, NEW s \in Slot, Step(s), NEW x \in Statement, NEW y \in Statement,
         todo[s] = <<x, y>>, x.op = "update_status"
  PROVE  todo'[s] = <<y>> /\ status' = x.value /\ gate' = gate
<1>1. todo \in [Slot -> Seq(Statement)] BY DEF TypeInv
<1>2. todo[s] = <<x>> \o <<y>> /\ <<y>> \in Seq(Statement) BY PairOfStatements
<1>3. /\ todo[s] # <<>> /\ Head(todo[s]) = x
      /\ \A next \in Seq(Statement) : Proceed(s, next) => todo'[s] = next \o <<y>>
  BY <1>1, <1>2, ReadStep
<1>4. UpdateStatus(s) BY <1>3, HeadDecides
<1>5. <<>> \in Seq(Statement) OBVIOUS
<1>6. todo'[s] = <<>> \o <<y>> BY <1>3, <1>4, <1>5 DEF UpdateStatus
<1> QED BY <1>2, <1>3, <1>4, <1>6, NothingBefore DEF UpdateStatus

LEMMA RecordStep ==
  ASSUME TypeInv, NEW s \in Slot, Step(s), NEW y \in Statement,
         todo[s] = <<y>>, y.op = "insert_history"
  PROVE  todo'[s] = <<>> /\ UNCHANGED <<gate, status>>
<1>1. todo \in [Slot -> Seq(Statement)] BY DEF TypeInv
<1>2. <<>> \in Seq(Statement) OBVIOUS
<1>3. todo[s] = <<y>> \o <<>> BY PairOfStatements
<1>4. /\ todo[s] # <<>> /\ Head(todo[s]) = y
      /\ \A next \in Seq(Statement) : Proceed(s, next) => todo'[s] = next \o <<>>
  BY <1>1, <1>2, <1>3, ReadStep
<1>5. InsertHistory(s) BY <1>4, HeadDecides
<1>6. todo'[s] = <<>> \o <<>> BY <1>2, <1>4, <1>5 DEF InsertHistory
<1> QED BY <1>2, <1>5, <1>6, NothingBefore DEF InsertHistory

LEMMA PostingStep ==
  ASSUME TypeInv, NEW s \in Slot, Step(s), req[s] \in Offers, req[s].kind = "post",
         Posting(gate, todo[s])
  PROVE  Posting(gate', todo'[s]) \/ todo'[s] = <<>>
<1>1. todo \in [Slot -> Seq(Statement)] /\ gate \in Gate BY DEF TypeInv
<1>2. <<>> \in Seq(Statement) OBVIOUS
<1>3. readGate \in Seq(Statement) BY ReadGateIsStatements
<1>4. CASE todo[s] = <<Read("event")>> \o (healFinancials \o (healLetter \o readGate))
  <2> DEFINE T == healFinancials \o (healLetter \o readGate)
  <2>1. T \in Seq(Statement) BY <1>3, HealsAreGateWork, GateWorkIsStatements
  <2>2. Read("event") \in Statement /\ Read("event").op = "event"
    BY ReadsAreStatements DEF Reading, Read
  <2>3. ToReadMoney(T, readGate) BY DEF ToReadMoney
  <2>4. todo[s] = <<Read("event")>> \o T BY <1>4
  <2> HIDE DEF T
  <2>5. /\ todo[s] # <<>> /\ Head(todo[s]) = Read("event")
        /\ \A next \in Seq(Statement) : Proceed(s, next) => todo'[s] = next \o T
    BY <1>1, <2>1, <2>2, <2>4, ReadStep
  <2>6. ReadEvent(s) BY <2>2, <2>5, HeadDecides
  <2>7. todo'[s] = <<>> \o T BY <1>2, <2>5, <2>6 DEF ReadEvent
  <2>8. todo'[s] = T BY <2>1, <2>7, NothingBefore
  <2> QED BY <2>3, <2>8 DEF Posting, Healing
<1>5. CASE Healing(gate, todo[s], readGate)
  <2>1. Healing(gate', todo'[s], readGate) \/ Healed(gate', todo'[s], readGate)
    BY <1>3, <1>5, HealingStep
  <2> QED BY <2>1 DEF Posting
<1>6. CASE Healed(gate, todo[s], readGate)
  <2>1. todo[s] = <<Read("letter_status")>> \o <<Read("money")>> BY <1>6, ReadsOfGate DEF Healed
  <2>2. /\ todo[s] # <<>> /\ Head(todo[s]) = Read("letter_status")
        /\ \A next \in Seq(Statement) : Proceed(s, next) => todo'[s] = next \o <<Read("money")>>
    BY <1>1, <2>1, ReadsOfGate, ReadStep
  <2>3. ReadLetterStatus(s) BY <2>2, ReadsOfGate, HeadDecides
  <2>4. todo'[s] = <<>> \o <<Read("money")>> BY <1>2, <2>2, <2>3 DEF ReadLetterStatus
  <2>5. todo'[s] = <<Read("money")>> BY <2>4, ReadsOfGate, NothingBefore
  <2> QED BY <1>6, <2>3, <2>5 DEF Healed, Posting, ReadLetterStatus
<1>7. CASE todo[s] = <<Read("money")>> /\ FinancialsInOrder(gate)
  <2> DEFINE to == req[s].to
             x == [op |-> "update_status", value |-> to]
             y == [op |-> "insert_history", from |-> seen[s].status, to |-> to]
  <2>1. todo[s] = <<Read("money")>> \o <<>> BY <1>7, ReadsOfGate, NothingBefore
  <2>2. /\ todo[s] # <<>> /\ Head(todo[s]) = Read("money")
        /\ \A next \in Seq(Statement) : Proceed(s, next) => todo'[s] = next \o <<>>
    BY <1>1, <1>2, <2>1, ReadsOfGate, ReadStep
  <2>3. Decide(s) BY <2>2, ReadsOfGate, HeadDecides
  <2>4. to \in Status BY Programs
  <2>5. x \in Statement /\ y \in Statement /\ Move(s, to) = <<x, y>>
    BY <2>4, MovesAreStatements
  <2>6. x.op = "update_status" /\ y.op = "insert_history" /\ x.value = to OBVIOUS
  <2>7. \/ Proceed(s, Move(s, to)) /\ (to = "confirmed" => canConfirm(RowSeen(s)))
        \/ Proceed(s, <<>>)
    BY <2>3 DEF Decide
  <2>8. gate' = gate BY <2>3 DEF Decide
  <2> HIDE DEF x, y, to
  <2>9. ASSUME Proceed(s, Move(s, to)), to = "confirmed" => canConfirm(RowSeen(s))
        PROVE  Posting(gate', todo'[s])
    <3>1. <<x, y>> \in Seq(Statement) BY <2>5
    <3>2. todo'[s] = <<x, y>> \o <<>> BY <2>2, <2>5, <2>9, <3>1
    <3>3. todo'[s] = <<x, y>> BY <3>1, <3>2, NothingBefore
    <3>4. to = "confirmed" => areFinancialsReady(gate) BY <1>1, <1>7, <2>9, MoneySeen
    <3>5. Moving(gate', todo'[s]) BY <2>5, <2>6, <2>8, <3>3, <3>4 DEF Moving
    <3> QED BY <3>5 DEF Posting
  <2>10. ASSUME Proceed(s, <<>>) PROVE todo'[s] = <<>>
    <3>1. todo'[s] = <<>> \o <<>> BY <1>2, <2>2, <2>10
    <3> QED BY <1>2, <3>1, NothingBefore
  <2> QED BY <2>7, <2>9, <2>10
<1>8. CASE Moving(gate, todo[s]) BY <1>8, MovingStep DEF Moving, Posting
<1>9. CASE \E y \in Statement : todo[s] = <<y>> /\ y.op = "insert_history"
  BY <1>9, RecordStep
<1> QED BY <1>4, <1>5, <1>6, <1>7, <1>8, <1>9 DEF Posting

\* The only status a POST has to write is the one it decided on.
LEMMA PostingPays ==
  ASSUME TypeInv, NEW s \in Slot, Posting(gate, todo[s]),
         At(s, "update_status"), Head(todo[s]).value = "confirmed"
  PROVE  areFinancialsReady(gate)
<1>1. todo[s] # <<>> /\ Head(todo[s]).op = "update_status" BY DEF At
<1>2. todo[s] # <<Read("event")>> \o (healFinancials \o (healLetter \o readGate))
  <2>1. Read("event") \in Statement /\ Read("event").op = "event"
    BY ReadsAreStatements DEF Reading, Read
  <2>2. healFinancials \o (healLetter \o readGate) \in Seq(Statement)
    BY ReadGateIsStatements, HealsAreGateWork, GateWorkIsStatements
  <2>3. Head(<<Read("event")>> \o (healFinancials \o (healLetter \o readGate))) = Read("event")
    BY <2>1, <2>2
  <2> QED BY <1>1, <2>1, <2>3
<1>3. ~Healing(gate, todo[s], readGate)
  <2>1. \A x \in GateWork : x.op # "update_status" BY DEF GateWork, GateWrite, Work
  <2> QED BY <1>1, <2>1, HealingHead, ReadGateIsStatements
<1>4. ~Healed(gate, todo[s], readGate) BY <1>1, ReadsOfGate DEF Healed
<1>5. todo[s] # <<Read("money")>>
  <2>1. Head(<<Read("money")>>) = Read("money") OBVIOUS
  <2> QED BY <1>1, <2>1, ReadsOfGate
<1>6. ~ \E y \in Statement : todo[s] = <<y>> /\ y.op = "insert_history" BY <1>1
<1>7. Moving(gate, todo[s]) BY <1>2, <1>3, <1>4, <1>5, <1>6 DEF Posting
<1>8. PICK x \in Statement : \E y \in Statement :
        todo[s] = <<x, y>> /\ (x.value = "confirmed" => areFinancialsReady(gate))
  BY <1>7 DEF Moving
<1>9. Head(todo[s]) = x BY <1>8
<1> QED BY <1>8, <1>9

-----------------------------------------------------------------------------
\* A checklist edit on its way; st is the status, lt the letter it has seen.

Editing(g, st, lt, L) ==
  \/ \E X \in Seq(GateWork) : L = X \o <<Read("status_to_judge")>>
  \/ \E X \in Seq(GateWork) : L = X \o readGate
  \/ L = <<Read("money")>> /\ lt = g.letter
  \/ L = <<Read("prior_status")>>
  \/ \E x \in Statement : \E y \in Statement :
       L = <<x, y>> /\ x.op = "update_status" /\ y.op = "insert_history"
         /\ x.value # "confirmed"
  \/ \E y \in Statement : L = <<y>> /\ y.op = "insert_history" /\ st # "confirmed"

Judged == status = "confirmed" => blockersForTransition(Row(gate), "confirmed") = {}

\* A statement of gate work ahead of T: more of it ahead of T, or a refusal.
LEMMA GateWorkAhead ==
  ASSUME TypeInv, NEW s \in Slot, Step(s), NEW X \in Seq(GateWork), X # <<>>,
         NEW T \in Seq(Statement), todo[s] = X \o T
  PROVE  \/ \E Y \in Seq(GateWork) : todo'[s] = Y \o T
         \/ todo'[s] = <<>> /\ (At(s, "guard_financials") \/ At(s, "guard_letter"))
<1>1. todo \in [Slot -> Seq(Statement)] BY DEF TypeInv
<1>2. X \in Seq(Statement) BY GateWorkIsStatements
<1>3. todo[s] # <<>> /\ Head(todo[s]) = Head(X) BY <1>2
<1>4. Head(X) \in GateWork /\ Tail(X) \in Seq(GateWork) OBVIOUS
<1>5. \/ \E next \in Seq(GateWork) : Proceed(s, next)
      \/ Refuse(s) /\ (At(s, "guard_financials") \/ At(s, "guard_letter"))
  BY <1>3, <1>4, GateWorkStep
<1>6. ASSUME NEW next \in Seq(GateWork), Proceed(s, next)
      PROVE  \E Y \in Seq(GateWork) : todo'[s] = Y \o T
  <2>1. next \in Seq(Statement) BY GateWorkIsStatements
  <2>2. todo'[s] = next \o Tail(X \o T) BY <1>1, <1>6 DEF Proceed
  <2>3. next \o Tail(X \o T) = (next \o Tail(X)) \o T BY <1>2, <2>1, TailOfConcat
  <2>4. next \o Tail(X) \in Seq(GateWork) BY <1>4, ConcatProperties
  <2> QED BY <2>2, <2>3, <2>4
<1>7. ASSUME Refuse(s) PROVE todo'[s] = <<>> BY <1>1, <1>7 DEF Refuse
<1> QED BY <1>5, <1>6, <1>7

\* The judgement sees the gate as it is.
LEMMA JudgesGate ==
  ASSUME NEW s \in Slot, gate \in Gate, seen[s].letter = gate.letter
  PROVE  RowSeen(s) = Row(gate)
<1>1. [gate EXCEPT !.letter = seen[s].letter] = gate BY DEF Gate
<1> QED BY <1>1 DEF RowSeen

LEMMA EditingStep ==
  ASSUME TypeInv, NEW s \in Slot, Step(s), req[s].kind # "post",
         Editing(gate, status, seen[s].letter, todo[s])
  PROVE  \/ Editing(gate', status', seen'[s].letter, todo'[s])
         \/ todo'[s] = <<>> /\ (At(s, "guard_financials") \/ At(s, "guard_letter") \/ Judged')
<1>1. todo \in [Slot -> Seq(Statement)] /\ gate \in Gate BY DEF TypeInv
<1>2. <<>> \in Seq(Statement) /\ <<>> \in Seq(GateWork) OBVIOUS
<1>3. /\ Read("status_to_judge") \in Statement /\ Read("status_to_judge").op = "status_to_judge"
      /\ Read("prior_status") \in Statement /\ Read("prior_status").op = "prior_status"
  BY ReadsAreStatements DEF Reading, Read
<1>4. <<Read("status_to_judge")>> \in Seq(Statement) /\ <<Read("prior_status")>> \in Seq(Statement)
  BY <1>3
<1>5. ASSUME NEW X \in Seq(GateWork), todo[s] = X \o <<Read("status_to_judge")>>
      PROVE  \/ Editing(gate', status', seen'[s].letter, todo'[s])
             \/ todo'[s] = <<>> /\ (At(s, "guard_financials") \/ At(s, "guard_letter") \/ Judged')
  <2>1. CASE X # <<>>
    <3>1. \/ \E Y \in Seq(GateWork) : todo'[s] = Y \o <<Read("status_to_judge")>>
          \/ todo'[s] = <<>> /\ (At(s, "guard_financials") \/ At(s, "guard_letter"))
      BY <1>4, <1>5, <2>1, GateWorkAhead
    <3> QED BY <3>1 DEF Editing
  <2>2. CASE X = <<>>
    <3> DEFINE H == (healFinancials \o healLetter) \o healChain
    <3>1. todo[s] = <<Read("status_to_judge")>> BY <1>4, <1>5, <2>2, NothingBefore
    <3>2. todo[s] = <<Read("status_to_judge")>> \o <<>> BY <1>4, <3>1, NothingBefore
    <3>3. /\ todo[s] # <<>> /\ Head(todo[s]) = Read("status_to_judge")
          /\ \A next \in Seq(Statement) : Proceed(s, next) => todo'[s] = next \o <<>>
      BY <1>1, <1>2, <1>3, <3>2, ReadStep
    <3>4. ReadStatusToJudge(s) BY <1>3, <3>3, HeadDecides
    <3>5. gate' = gate /\ status' = status BY <3>4 DEF ReadStatusToJudge
    <3>6. CASE status = "confirmed"
      <4>1. H \in Seq(GateWork) BY HealsAreGateWork
      <4>2. Proceed(s, H \o readGate) BY <3>4, <3>6 DEF ReadStatusToJudge
      <4> HIDE DEF H
      <4>3. H \o readGate \in Seq(Statement) BY <4>1, GateWorkIsStatements, ReadGateIsStatements
      <4>4. todo'[s] = (H \o readGate) \o <<>> BY <3>3, <4>2, <4>3
      <4>5. todo'[s] = H \o readGate BY <4>3, <4>4, NothingBefore
      <4> QED BY <4>1, <4>5 DEF Editing
    <3>7. CASE status # "confirmed"
      <4>1. Proceed(s, <<>>) BY <3>4, <3>7 DEF ReadStatusToJudge
      <4>2. todo'[s] = <<>> BY <1>2, <3>3, <4>1, NothingBefore
      <4> QED BY <3>5, <3>7, <4>2 DEF Judged
    <3> QED BY <3>6, <3>7
  <2> QED BY <2>1, <2>2
<1>6. ASSUME NEW X \in Seq(GateWork), todo[s] = X \o readGate
      PROVE  \/ Editing(gate', status', seen'[s].letter, todo'[s])
             \/ todo'[s] = <<>> /\ (At(s, "guard_financials") \/ At(s, "guard_letter") \/ Judged')
  <2>1. CASE X # <<>>
    <3>1. \/ \E Y \in Seq(GateWork) : todo'[s] = Y \o readGate
          \/ todo'[s] = <<>> /\ (At(s, "guard_financials") \/ At(s, "guard_letter"))
      BY <1>6, <2>1, GateWorkAhead, ReadGateIsStatements
    <3> QED BY <3>1 DEF Editing
  <2>2. CASE X = <<>>
    <3>1. todo[s] = readGate BY <1>6, <2>2, NothingBefore, ReadGateIsStatements
    <3>2. todo[s] = <<Read("letter_status")>> \o <<Read("money")>> BY <3>1, ReadsOfGate
    <3>3. /\ todo[s] # <<>> /\ Head(todo[s]) = Read("letter_status")
          /\ \A next \in Seq(Statement) : Proceed(s, next) => todo'[s] = next \o <<Read("money")>>
      BY <1>1, <3>2, ReadsOfGate, ReadStep
    <3>4. ReadLetterStatus(s) BY <3>3, ReadsOfGate, HeadDecides
    <3>5. todo'[s] = <<>> \o <<Read("money")>> BY <1>2, <3>3, <3>4 DEF ReadLetterStatus
    <3>6. todo'[s] = <<Read("money")>> BY <3>5, ReadsOfGate, NothingBefore
    <3>7. seen'[s].letter = gate.letter /\ gate' = gate
      BY <3>4 DEF ReadLetterStatus, TypeInv
    <3> QED BY <3>6, <3>7 DEF Editing
  <2> QED BY <2>1, <2>2
<1>7. CASE todo[s] = <<Read("money")>> /\ seen[s].letter = gate.letter
  <2>1. todo[s] = <<Read("money")>> \o <<>> BY <1>7, ReadsOfGate, NothingBefore
  <2>2. /\ todo[s] # <<>> /\ Head(todo[s]) = Read("money")
        /\ \A next \in Seq(Statement) : Proceed(s, next) => todo'[s] = next \o <<>>
    BY <1>1, <1>2, <2>1, ReadsOfGate, ReadStep
  <2>3. Judge(s) BY <2>2, ReadsOfGate, HeadDecides
  <2>4. gate' = gate /\ status' = status BY <2>3 DEF Judge
  <2>5. CASE blockersForTransition(Row(gate), "confirmed") # {}
    <3>1. Proceed(s, <<Read("prior_status")>>) BY <1>1, <1>7, <2>3, <2>5, JudgesGate DEF Judge
    <3>2. todo'[s] = <<Read("prior_status")>> BY <1>4, <2>2, <3>1, NothingBefore
    <3> QED BY <3>2 DEF Editing
  <2>6. CASE blockersForTransition(Row(gate), "confirmed") = {}
    <3>1. Proceed(s, <<>>) BY <1>1, <1>7, <2>3, <2>6, JudgesGate DEF Judge
    <3>2. todo'[s] = <<>> BY <1>2, <2>2, <3>1, NothingBefore
    <3>3. Judged' BY <2>4, <2>6 DEF Judged
    <3> QED BY <3>2, <3>3
  <2> QED BY <2>5, <2>6
<1>8. CASE todo[s] = <<Read("prior_status")>>
  <2> DEFINE prior == IF from \in PreConfirmStatus THEN from ELSE "tentative"
             x == [op |-> "update_status", value |-> prior]
             y == [op |-> "insert_history", from |-> "confirmed", to |-> prior]
  <2>1. todo[s] = <<Read("prior_status")>> \o <<>> BY <1>4, <1>8, NothingBefore
  <2>2. /\ todo[s] # <<>> /\ Head(todo[s]) = Read("prior_status")
        /\ \A next \in Seq(Statement) : Proceed(s, next) => todo'[s] = next \o <<>>
    BY <1>1, <1>2, <1>3, <2>1, ReadStep
  <2>3. ReadPriorStatus(s) BY <1>3, <2>2, HeadDecides
  <2>4. prior \in Status /\ prior # "confirmed" BY DEF PreConfirmStatus, Status
  <2>5. Proceed(s, <<x, y>>) BY <2>3 DEF ReadPriorStatus
  <2> HIDE DEF prior
  <2>6. x \in Statement /\ y \in Statement BY <2>4 DEF Statement, Status
  <2>7. x.op = "update_status" /\ y.op = "insert_history" /\ x.value # "confirmed" BY <2>4
  <2> HIDE DEF x, y
  <2>8. <<x, y>> \in Seq(Statement) BY <2>6
  <2>9. todo'[s] = <<x, y>> BY <2>2, <2>5, <2>8, NothingBefore
  <2> QED BY <2>6, <2>7, <2>9 DEF Editing
<1>9. ASSUME NEW x \in Statement, NEW y \in Statement, todo[s] = <<x, y>>,
             x.op = "update_status", y.op = "insert_history", x.value # "confirmed"
      PROVE  Editing(gate', status', seen'[s].letter, todo'[s])
  <2>1. todo'[s] = <<y>> /\ status' = x.value BY <1>9, MovingStep
  <2> QED BY <1>9, <2>1 DEF Editing
<1>10. ASSUME NEW y \in Statement, todo[s] = <<y>>, y.op = "insert_history",
              status # "confirmed"
       PROVE  todo'[s] = <<>> /\ Judged'
  BY <1>10, RecordStep DEF Judged
<1> QED BY <1>5, <1>6, <1>7, <1>8, <1>9, <1>10 DEF Editing

-----------------------------------------------------------------------------
\* What every request that is still alone has yet to run.

Onward(s) ==
  /\ req[s].kind = "get" => Getting(gate, todo[s])
  /\ req[s].kind = "post" => Posting(gate, todo[s])
  /\ req[s].kind \in {"patch", "patch_other"} =>
       Editing(gate, status, seen[s].letter, todo[s])

OnwardInv == \A s \in Slot : alone[s] /\ todo[s] # <<>> => Onward(s)

LEMMA Sends ==
  ASSUME NEW s \in Slot, NEW q \in Offers, todo \in [Slot -> Seq(Statement)],
         req \in [Slot -> Offers \cup {Nobody}], Begin(s, q)
  PROVE  Onward(s)'
<1>1. req'[s] = q /\ todo'[s] = Program(q) BY DEF Begin
<1>2. /\ healFinancials \in Seq(Statement) /\ healLetter \in Seq(Statement)
      /\ healChain \in Seq(Statement) /\ readGate \in Seq(Statement)
  BY HealsAreGateWork, GateWorkIsStatements, ReadGateIsStatements
<1>3. Read("event") \in Statement BY ReadsAreStatements DEF Reading
<1>4. ASSUME q.kind = "get" PROVE Getting(gate', todo'[s])
  <2>1. todo'[s] = (healFinancials \o healLetter) \o healChain BY <1>1, <1>4, Programs
  <2>2. todo'[s] = healFinancials \o (healLetter \o healChain) BY <1>2, <2>1
  <2> QED BY <2>2 DEF Getting, Healing, ToReadMoney
<1>5. ASSUME q.kind = "post" PROVE Posting(gate', todo'[s])
  <2>1. todo'[s] = ((<<Read("event")>> \o healFinancials) \o healLetter) \o readGate
    BY <1>1, <1>5, Programs
  <2>2. <<Read("event")>> \in Seq(Statement) BY <1>3
  <2>3. todo'[s] = <<Read("event")>> \o (healFinancials \o (healLetter \o readGate))
    BY <1>2, <2>1, <2>2
  <2> QED BY <2>3 DEF Posting
<1>6. ASSUME q.kind \in {"patch", "patch_other"}
      PROVE  Editing(gate', status', seen'[s].letter, todo'[s])
  <2>1. <<>> \in Seq(GateWork) OBVIOUS
  <2>2. \E X \in Seq(GateWork) : todo'[s] = X \o <<Read("status_to_judge")>>
    BY <1>1, <1>6, <2>1, Programs
  <2> QED BY <2>2 DEF Editing
<1> QED BY <1>1, <1>4, <1>5, <1>6 DEF Onward

\* The slot that steps.
LEMMA StepGoesOnward ==
  ASSUME TypesInv, NEW s \in Slot, Step(s), alone[s], todo[s] # <<>>, Onward(s)
  PROVE  /\ todo'[s] = <<>> \/ Onward(s)'
         /\ req[s].kind = "get" => Lowers(gate, gate')
<1>1. TypeInv /\ UNCHANGED req BY StepTypes DEF TypesInv
<1>2. req[s] # Nobody BY DEF TypesInv, Idle
<1>3. req[s] \in Offers BY <1>1, <1>2 DEF TypeInv
<1>4. CASE req[s].kind = "get"
  <2>1. Getting(gate, todo[s]) BY <1>4 DEF Onward
  <2> QED BY <1>1, <1>4, <2>1, GettingStep DEF Onward
<1>5. CASE req[s].kind = "post"
  <2>1. Posting(gate, todo[s]) BY <1>5 DEF Onward
  <2> QED BY <1>1, <1>3, <1>5, <2>1, PostingStep DEF Onward
<1>6. CASE req[s].kind \in {"patch", "patch_other"}
  <2>1. Editing(gate, status, seen[s].letter, todo[s]) BY <1>6 DEF Onward
  <2>2. Editing(gate', status', seen'[s].letter, todo'[s]) \/ todo'[s] = <<>>
    BY <1>1, <1>6, <2>1, EditingStep
  <2> QED BY <1>1, <1>6, <2>2 DEF Onward
<1> QED BY <1>3, <1>4, <1>5, <1>6, Programs

LEMMA InitOnward == Init => OnwardInv
BY DEF Init, OnwardInv

LEMMA NextOnward ==
  ASSUME TypesInv, OnwardInv, [Next]_vars
  PROVE  OnwardInv'
<1>1. ASSUME NEW s \in Slot, Step(s), todo[s] # <<>> PROVE OnwardInv'
  <2>1. /\ UNCHANGED <<req, alone>> /\ gate' \in Gate
        /\ \A t \in Slot \ {s} : todo'[t] = todo[t]
    BY <1>1, StepTypes DEF TypesInv
  <2>2. SUFFICES ASSUME NEW t \in Slot, alone[t], todo'[t] # <<>>
                 PROVE  Onward(t)'
    BY <2>1 DEF OnwardInv
  <2>3. CASE t = s
    <3>1. Onward(s) BY <1>1, <2>2, <2>3 DEF OnwardInv
    <3> QED BY <1>1, <2>2, <2>3, <3>1, StepGoesOnward
  <2>4. CASE t # s
    <3>1. todo'[t] = todo[t] /\ todo[t] # <<>> /\ Onward(t) BY <2>1, <2>2, <2>4 DEF OnwardInv
    <3>2. req[s] # Nobody /\ req[t] # Nobody BY <1>1, <3>1 DEF TypesInv, Idle
    <3>3. alone[s] /\ req[s].kind = "get" /\ req[t].kind = "get"
      BY <2>2, <2>4, <3>2 DEF TypesInv, Abreast
    <3>4. Onward(s) BY <1>1, <3>3 DEF OnwardInv
    <3>5. Lowers(gate, gate') BY <1>1, <3>3, <3>4, StepGoesOnward
    <3>6. Getting(gate, todo[t]) BY <3>1, <3>3 DEF Onward
    <3>7. gate \in Gate BY DEF TypesInv, TypeInv
    <3>8. Getting(gate', todo'[t]) BY <2>1, <3>1, <3>5, <3>6, <3>7, GettingKeeps
    <3> QED BY <2>1, <3>3, <3>8 DEF Onward
  <2> QED BY <2>3, <2>4
<1>2. ASSUME NEW s \in Slot, Step(s), todo[s] = <<>> PROVE OnwardInv'
  <2>1. Answer(s)
    BY <1>2 DEF Step, At, GuardFinancials, GuardLetter, WriteField, ReadFinancialsToHeal,
       ReadFinancialsOfLetter, ReadLetterRowsToRollBack, ReadLetterChain, SyncLetter,
       ReadLetterRowsToSync, ReadStatusToJudge, ReadEvent, ReadLetterStatus, Decide, Judge,
       ReadPriorStatus, UpdateStatus, InsertHistory
  <2>2. /\ UNCHANGED <<gate, status, todo, alone>>
        /\ \A t \in Slot \ {s} : req'[t] = req[t] /\ seen'[t] = seen[t]
    BY <2>1 DEF Answer, TypesInv, TypeInv
  <2> QED BY <1>2, <2>2 DEF OnwardInv, Onward
<1>3. ASSUME NEW s \in Slot, Die(s) PROVE OnwardInv'
  <2>1. /\ UNCHANGED <<gate, status, alone>> /\ todo'[s] = <<>>
        /\ \A t \in Slot \ {s} : req'[t] = req[t] /\ seen'[t] = seen[t] /\ todo'[t] = todo[t]
    BY <1>3 DEF Die, TypesInv, TypeInv
  <2> QED BY <2>1 DEF OnwardInv, Onward
<1>4. ASSUME NEW s \in Slot, NEW q \in Offers, Begin(s, q) PROVE OnwardInv'
  <2>1. /\ UNCHANGED <<gate, status, seen>>
        /\ \A t \in Slot \ {s} : req'[t] = req[t] /\ todo'[t] = todo[t] /\ (alone'[t] => alone[t])
    BY <1>4 DEF Begin, TypesInv, TypeInv
  <2>2. Onward(s)' BY <1>4, Sends DEF TypesInv, TypeInv
  <2> QED BY <2>1, <2>2 DEF OnwardInv, Onward
<1>5. CASE UNCHANGED vars BY <1>5 DEF vars, OnwardInv, Onward
<1> QED BY <1>1, <1>2, <1>3, <1>4, <1>5 DEF Next

Inv == TypesInv /\ OnwardInv

LEMMA AlwaysOnward == Spec => []Inv
<1>1. Init => Inv BY InitTypes, InitOnward DEF Inv
<1>2. Inv /\ [Next]_vars => Inv' BY NextTypes, NextOnward DEF Inv
<1> QED BY <1>1, <1>2, PTL DEF Spec

-----------------------------------------------------------------------------
\* Only a request's own statement is its last one.
LEMMA OwnStep ==
  ASSUME TypesInv, Next, NEW s \in Slot, todo[s] # <<>>, todo'[s] # todo[s], req'[s] = req[s]
  PROVE  Step(s)
<1>1. todo \in [Slot -> Seq(Statement)] /\ req[s] # Nobody /\ req \in [Slot -> Offers \cup {Nobody}]
  BY DEF TypesInv, TypeInv, Idle
<1>2. ASSUME NEW t \in Slot, Step(t), todo[t] # <<>> PROVE t = s
  BY <1>2, StepTypes DEF TypesInv
<1>3. ASSUME NEW t \in Slot, Step(t), todo[t] = <<>> PROVE FALSE
  <2>1. Answer(t)
    BY <1>3 DEF Step, At, GuardFinancials, GuardLetter, WriteField, ReadFinancialsToHeal,
       ReadFinancialsOfLetter, ReadLetterRowsToRollBack, ReadLetterChain, SyncLetter,
       ReadLetterRowsToSync, ReadStatusToJudge, ReadEvent, ReadLetterStatus, Decide, Judge,
       ReadPriorStatus, UpdateStatus, InsertHistory
  <2> QED BY <2>1 DEF Answer
<1>4. ASSUME NEW t \in Slot, Die(t) PROVE FALSE BY <1>1, <1>4 DEF Die
<1>5. ASSUME NEW t \in Slot, NEW q \in Offers, Begin(t, q) PROVE FALSE
  BY <1>1, <1>5 DEF Begin
<1> QED BY <1>2, <1>3, <1>4, <1>5 DEF Next

\* A read that no edit or status change overlaps leaves the financials and the
\* letter in order, whatever half-done requests it found (AloneReadHeals): the
\* writes its healers decided on stay the right ones while other reads write theirs.
THEOREM AloneReadsHeal == Spec => AloneReadHeals
<1>1. ASSUME Inv, Next, NEW s \in Slot, req[s].kind = "get", alone[s], Finishes(s)
      PROVE  FinancialsInOrder(gate') /\ LetterInOrder(gate')
  <2>1. TypesInv /\ OnwardInv /\ TypeInv BY <1>1 DEF Inv, TypesInv
  <2>2. todo[s] # <<>> /\ todo'[s] = <<>> /\ req'[s] = req[s] BY <1>1 DEF Finishes
  <2>3. Step(s) BY <1>1, <2>1, <2>2, OwnStep
  <2>4. Getting(gate, todo[s]) BY <1>1, <2>1, <2>2 DEF OnwardInv, Onward
  <2> QED BY <2>1, <2>2, <2>3, <2>4, GettingStep, GettingGoesOn
<1>2. Inv /\ [Next]_vars =>
        [\A s \in Slot : req[s].kind = "get" /\ alone[s] /\ Finishes(s) =>
           FinancialsInOrder(gate') /\ LetterInOrder(gate')]_vars
  BY <1>1
<1> QED BY <1>2, AlwaysOnward, PTL DEF Spec, AloneReadHeals

\* A status change that nothing overlaps writes Confirmed only with complete
\* financials (AloneConfirmIsPaid): it heals before it decides, and nobody
\* writes between its decision and its UPDATE.
THEOREM AloneConfirmsArePaid == Spec => AloneConfirmIsPaid
<1>1. ASSUME Inv, NEW s \in Slot, req[s].kind = "post", alone[s], MovesTo(s, "confirmed")
      PROVE  areFinancialsReady(gate)
  <2>1. TypeInv /\ OnwardInv BY <1>1 DEF Inv, TypesInv
  <2>2. At(s, "update_status") /\ Head(todo[s]).value = "confirmed" BY <1>1 DEF MovesTo
  <2>3. todo[s] # <<>> BY <2>2 DEF At
  <2>4. Posting(gate, todo[s]) BY <1>1, <2>1, <2>3 DEF OnwardInv, Onward
  <2> QED BY <2>1, <2>2, <2>4, PostingPays
<1>2. Inv /\ [Next]_vars =>
        [\A s \in Slot : req[s].kind = "post" /\ alone[s] /\ MovesTo(s, "confirmed") =>
           areFinancialsReady(gate)]_vars
  BY <1>1
<1> QED BY <1>2, AlwaysOnward, PTL DEF Spec, AloneConfirmIsPaid

LEMMA EditingGoesOn ==
  ASSUME NEW g, NEW st, NEW lt, NEW L, Editing(g, st, lt, L)
  PROVE  L # <<>>
<1>1. Read("status_to_judge") \in Statement BY ReadsAreStatements DEF Reading
<1>2. <<Read("status_to_judge")>> \in Seq(Statement) /\ <<Read("status_to_judge")>> # <<>>
  BY <1>1
<1>3. ASSUME NEW X \in Seq(GateWork), NEW T \in Seq(Statement), T # <<>> PROVE X \o T # <<>>
  <2>1. X \in Seq(Statement) BY GateWorkIsStatements
  <2> QED BY <1>3, <2>1
<1>4. readGate \in Seq(Statement) /\ readGate # <<>> BY ReadsOfGate
<1>5. CASE \E X \in Seq(GateWork) : L = X \o <<Read("status_to_judge")>> BY <1>2, <1>3, <1>5
<1>6. CASE \E X \in Seq(GateWork) : L = X \o readGate BY <1>3, <1>4, <1>6
<1>7. CASE L = <<Read("money")>> \/ L = <<Read("prior_status")>> BY <1>7
<1>8. CASE \E x \in Statement : \E y \in Statement : L = <<x, y>> BY <1>8
<1>9. CASE \E y \in Statement : L = <<y>> BY <1>9
<1> QED BY <1>5, <1>6, <1>7, <1>8, <1>9 DEF Editing

\* A checklist edit that nothing overlaps, and that the rules accept, leaves no
\* Confirmed event blocked (AloneEditJudges), one that earlier requests left
\* blocked included: it ends by judging the gate as it has left it.
THEOREM AloneEditsJudge == Spec => AloneEditJudges
<1>1. ASSUME Inv, Next, NEW s \in Slot, req[s].kind \in {"patch", "patch_other"},
             alone[s], Finishes(s)
      PROVE  Judged'
  <2>1. TypesInv /\ OnwardInv /\ TypeInv BY <1>1 DEF Inv, TypesInv
  <2>2. /\ todo[s] # <<>> /\ todo'[s] = <<>> /\ req'[s] = req[s]
        /\ ~At(s, "guard_financials") /\ ~At(s, "guard_letter")
    BY <1>1 DEF Finishes
  <2>3. Step(s) BY <1>1, <2>1, <2>2, OwnStep
  <2>4. Editing(gate, status, seen[s].letter, todo[s])
    BY <1>1, <2>1, <2>2 DEF OnwardInv, Onward
  <2> QED BY <1>1, <2>1, <2>2, <2>3, <2>4, EditingStep, EditingGoesOn
<1>2. Inv /\ [Next]_vars =>
        [\A s \in Slot :
           req[s].kind \in {"patch", "patch_other"} /\ alone[s] /\ Finishes(s) =>
             (status' = "confirmed" =>
                blockersForTransition(Row(gate'), "confirmed") = {})]_vars
  BY <1>1 DEF Judged
<1> QED BY <1>2, AlwaysOnward, PTL DEF Spec, AloneEditJudges
=============================================================================
