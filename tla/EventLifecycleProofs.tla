------------------------ MODULE EventLifecycleProofs ------------------------
(***************************************************************************)
(* Theorems about EventLifecycle for every set of event types.             *)
(*                                                                         *)
(* The argument: each reconciler, run on an ordered gate or on the gate a  *)
(* permitted edit leaves behind, returns an ordered gate; an ordered gate  *)
(* with no confirm blocker carries the evidence; so whatever a request     *)
(* does, a live event that is still Confirmed when it ends is backed.      *)
(***************************************************************************)
EXTENDS EventLifecycle, ConfirmationGateProofs

-----------------------------------------------------------------------------
\* The invariant that is inductive: order of the gate, the evidence of a live
\* Confirmed event, and where it was confirmed from.
IInv == TypeOK /\ InOrder(gate) /\ ConfirmedBacked /\ ConfirmedFromPipeline

\* The status an event is demoted to is a pipeline status.
LEMMA PriorIsPipeline == priorStatusBeforeConfirmed \in PreConfirmStatus
BY DEF priorStatusBeforeConfirmed, PreConfirmStatus

\* Whatever was edited, the tail of a checklist edit restores the invariant.
LEMMA AfterEditKeepsIInv ==
  ASSUME IInv, NEW g \in Gate, InOrder(g), NEW a \in Approval, NEW contact \in BOOLEAN,
         AfterEdit(g, a, contact)
  PROVE  IInv'
<1>1. healGate(g) = g
  BY OrderedGateIsHealed
<1>2. gate' = g /\ approval' = a /\ poc' = contact
  BY <1>1 DEF AfterEdit
<1>3. PreConfirmStatus \subseteq Status /\ "confirmed" \notin PreConfirmStatus
  BY DEF PreConfirmStatus, Status
<1>4. TypeOK'
  BY <1>2, <1>3, PriorIsPipeline DEF IInv, TypeOK, AfterEdit
<1>5. InOrder(gate)'
  BY <1>2
<1>6. ConfirmedFromPipeline'
  BY <1>3, PriorIsPipeline DEF IInv, ConfirmedFromPipeline, AfterEdit
<1>7. ConfirmedBacked'
  <2>1. SUFFICES ASSUME status' = "confirmed", ~archived'
                 PROVE  Evidence'
    BY DEF ConfirmedBacked
  <2>2. status = "confirmed" /\ ~archived
    BY <2>1, <1>3, PriorIsPipeline DEF AfterEdit
  <2>3. blockersForTransition(Row(g, a, contact), "confirmed") = {}
    BY <1>1, <1>3, <2>1, <2>2, PriorIsPipeline DEF AfterEdit
  <2>4. Row(g, a, contact).gate = g
    BY DEF Row
  <2>5. areFinancialsReady(g) /\ g.made = "Yes" /\ g.signed = "Yes"
    BY <2>3, <2>4, UnblockedIsBacked
  <2> QED BY <1>2, <2>5 DEF Evidence
<1> QED BY <1>4, <1>5, <1>6, <1>7 DEF IInv

\* Every checklist edit is AfterEdit of an ordered gate.
LEMMA ChecklistEditIsAfterEdit ==
  ASSUME IInv, ChecklistEdit
  PROVE  \E g \in Gate, a \in Approval, contact \in BOOLEAN :
            InOrder(g) /\ AfterEdit(g, a, contact)
<1>1. gate \in Gate /\ InOrder(gate) /\ approval \in Approval /\ poc \in BOOLEAN
  BY DEF IInv, TypeOK
<1>2. ASSUME NEW f \in GateField, NEW v \in FieldValues[f], PatchGateField(f, v)
      PROVE  \E g \in Gate, a \in Approval, contact \in BOOLEAN :
            InOrder(g) /\ AfterEdit(g, a, contact)
  <2>1. patchGate(gate, f, v) \in Gate /\ InOrder(patchGate(gate, f, v))
    BY <1>1, <1>2, PatchKeepsOrder DEF PatchGateField
  <2> QED BY <1>1, <1>2, <2>1 DEF PatchGateField
<1>3. ASSUME NEW a \in Approval, AfterEdit(gate, a, poc)
      PROVE  \E g \in Gate, b \in Approval, contact \in BOOLEAN :
               InOrder(g) /\ AfterEdit(g, b, contact)
  BY <1>1, <1>3
<1>4. ASSUME NEW v \in {"blank", "Not Required", "Required"}, PatchApprovalRequired(v)
      PROVE  \E a \in Approval : AfterEdit(gate, a, poc)
  <2> DEFINE a == [approval EXCEPT
       !.required = v,
       !.status = CASE v = "Not Required" -> "not_required"
                    [] v = "Required"     -> unlessReceived(approval, "pending")
                    [] OTHER              -> @]
  <2>1. a \in Approval
    BY <1>1 DEF Approval, ApprovalStatus, unlessReceived
  <2>2. AfterEdit(gate, a, poc)
    BY <1>4 DEF PatchApprovalRequired
  <2> HIDE DEF a
  <2> QED BY <2>1, <2>2
<1>5. ASSUME PatchApprovalSent PROVE \E a \in Approval : AfterEdit(gate, a, poc)
  <2> DEFINE a == [approval EXCEPT !.status = unlessReceived(approval, "sent")]
  <2>1. a \in Approval
    BY <1>1 DEF Approval, ApprovalStatus, unlessReceived
  <2>2. AfterEdit(gate, a, poc)
    BY <1>5 DEF PatchApprovalSent
  <2> HIDE DEF a
  <2> QED BY <2>1, <2>2
<1>6. ASSUME NEW dated \in BOOLEAN, PatchApprovalReceived(dated)
      PROVE  \E a \in Approval : AfterEdit(gate, a, poc)
  <2> DEFINE a == [approval EXCEPT !.received = dated,
                                   !.status = IF dated THEN "received" ELSE @]
  <2>1. a \in Approval
    BY <1>1 DEF Approval, ApprovalStatus
  <2>2. AfterEdit(gate, a, poc)
    BY <1>6 DEF PatchApprovalReceived
  <2> HIDE DEF a
  <2> QED BY <2>1, <2>2
<1>7. CASE PatchOther
  BY <1>1, <1>3, <1>7 DEF PatchOther
<1>8. ASSUME NEW complete \in BOOLEAN, PatchContact(complete)
      PROVE  \E g \in Gate, a \in Approval, contact \in BOOLEAN :
               InOrder(g) /\ AfterEdit(g, a, contact)
  BY <1>1, <1>8 DEF PatchContact
<1> QED BY <1>2, <1>3, <1>4, <1>5, <1>6, <1>7, <1>8 DEF ChecklistEdit

\* Every checklist edit, of whatever field, keeps the invariant.
LEMMA ChecklistEditKeepsIInv ==
  ASSUME IInv, ChecklistEdit
  PROVE  IInv'
BY ChecklistEditIsAfterEdit, AfterEditKeepsIInv

\* A status change keeps the invariant: on an ordered gate its healing writes
\* nothing, and it confirms only when no blocker stands.
LEMMA StatusChangeKeepsIInv ==
  ASSUME IInv, NEW to \in Status, NEW override, NEW reason,
         StatusChange(to, override, reason)
  PROVE  IInv'
<1>1. gate \in Gate /\ InOrder(gate)
  BY DEF IInv, TypeOK
<1>2. reconcileLetterAgainstFinancials(reconcileFinancialSequence(gate)) = gate
  BY <1>1, OrderedGateIsHealed
<1>3. gate' = gate
  BY <1>2 DEF StatusChange
<1>4. CASE status' = status /\ prior' = prior
  BY <1>3, <1>4 DEF StatusChange, IInv, TypeOK, ConfirmedBacked, Evidence,
     ConfirmedFromPipeline
<1>5. CASE ~(status' = status /\ prior' = prior)
  <2>1. /\ canTransition(status, to)
        /\ blockersForTransition(Row(gate, approval, poc), to) = {}
        /\ status' = to
        /\ prior' = IF to = "confirmed" THEN status ELSE prior
    BY <1>2, <1>5 DEF StatusChange
  <2>2. to = "confirmed" => status \in PreConfirmStatus
    BY <2>1 DEF canTransition, Transitions, PreConfirmStatus, IInv, TypeOK, Status
  <2>3. TypeOK'
    BY <1>3, <2>1, <2>2 DEF StatusChange, IInv, TypeOK
  <2>4. ConfirmedFromPipeline'
    BY <2>1, <2>2 DEF ConfirmedFromPipeline
  <2>5. to = "confirmed" => Evidence
    <3>1. Row(gate, approval, poc).gate = gate
      BY DEF Row
    <3> QED BY <1>1, <2>1, <3>1, UnblockedIsBacked DEF Evidence
  <2>6. ConfirmedBacked'
    BY <1>3, <2>1, <2>5 DEF ConfirmedBacked, Evidence
  <2> QED BY <1>1, <1>3, <2>3, <2>4, <2>6 DEF IInv
<1> QED BY <1>4, <1>5

\* A new event's seeded checklist satisfies the invariant.
LEMMA InitIInv == Init => IInv
<1> SUFFICES ASSUME Init PROVE IInv
  OBVIOUS
<1>1. TypeOK
  BY DEF Init, TypeOK, SeededGate, Gate, FieldValues, LetterStatus, Approval,
     ApprovalStatus, Status
<1>2. InOrder(gate)
  BY DEF Init, SeededGate, InOrder, FinancialsInOrder, LetterInOrder,
     LetterStatusAbreast
<1>3. ConfirmedBacked /\ ConfirmedFromPipeline
  BY DEF Init, ConfirmedBacked, ConfirmedFromPipeline
<1> QED BY <1>1, <1>2, <1>3 DEF IInv

\* Every request keeps the invariant.
LEMMA NextKeepsIInv == IInv /\ [Next]_vars => IInv'
<1> SUFFICES ASSUME IInv, [Next]_vars PROVE IInv'
  OBVIOUS
<1>1. CASE ChecklistEdit
  BY <1>1, ChecklistEditKeepsIInv
<1>2. ASSUME NEW type \in EventTypes, NEW dated \in BOOLEAN,
             NEW contact \in BOOLEAN, EditEvent(type, dated, contact)
      PROVE  IInv'
  BY <1>2 DEF EditEvent, IInv, TypeOK, ConfirmedBacked, Evidence,
     ConfirmedFromPipeline
<1>3. ASSUME NEW to \in Status, NEW override \in BOOLEAN, NEW reason \in BOOLEAN,
             StatusChange(to, override, reason)
      PROVE  IInv'
  BY <1>3, StatusChangeKeepsIInv
<1>4. CASE GetChecklist
  <2>1. gate' = gate
    BY <1>4, OrderedGateIsHealed DEF GetChecklist, IInv, TypeOK
  <2> QED BY <1>4, <2>1 DEF GetChecklist, IInv, TypeOK, Approval, ConfirmedBacked,
       Evidence, ConfirmedFromPipeline
<1>5. CASE Archive
  BY <1>5 DEF Archive, IInv, TypeOK, ConfirmedBacked, Evidence, ConfirmedFromPipeline
<1>6. CASE UNCHANGED vars
  BY <1>6 DEF vars, IInv, TypeOK, ConfirmedBacked, Evidence, ConfirmedFromPipeline
<1> QED BY <1>1, <1>2, <1>3, <1>4, <1>5, <1>6 DEF Next

\* IInv holds of every reachable state, for any set of event types.
THEOREM InductiveInvariant == Spec => []IInv
BY InitIInv, NextKeepsIInv, PTL DEF Spec

-----------------------------------------------------------------------------
(* What follows from it.                                                   *)

\* Every variable keeps its type.
THEOREM TypeCorrect == Spec => []TypeOK
<1>1. IInv => TypeOK
  BY DEF IInv
<1> QED BY <1>1, InductiveInvariant, PTL

\* The financial steps, the letter steps and confirmation_status stay in order
\* across every request.
THEOREM GateStaysInOrder ==
  Spec => [](FinancialSequence /\ LetterChain /\ LetterStatusTrusted)
<1>1. IInv => FinancialSequence /\ LetterChain /\ LetterStatusTrusted
  BY DEF IInv, InOrder, FinancialSequence, LetterChain, LetterStatusTrusted
<1> QED BY <1>1, InductiveInvariant, PTL

\* Proforma and payment never stand without the step before them.
THEOREM FinancialsStayInOrder == Spec => []FinancialSequence
BY GateStaysInOrder, PTL

\* No letter is couriered or signed without the steps it rests on.
THEOREM LetterStaysInOrder == Spec => []LetterChain
BY GateStaysInOrder, PTL

\* The healing a read performs never writes when requests run one at a time.
THEOREM ReadsNeverWrite == Spec => []ReadsHealNothing
<1>1. IInv => ReadsHealNothing
  BY OrderedGateIsHealed DEF IInv, TypeOK, ReadsHealNothing
<1> QED BY <1>1, InductiveInvariant, PTL

\* A live Confirmed event always has its financials and its signed letter.
THEOREM ConfirmedIsBacked == Spec => [](ConfirmedBacked /\ ConfirmedFromPipeline)
<1>1. IInv => ConfirmedBacked /\ ConfirmedFromPipeline
  BY DEF IInv
<1> QED BY <1>1, InductiveInvariant, PTL

\* What AfterEdit says of an edit in an ordered state.
LEMMA EditJudged ==
  ASSUME IInv, NEW g \in Gate, InOrder(g), NEW a \in Approval, NEW contact \in BOOLEAN,
         AfterEdit(g, a, contact)
  PROVE  /\ ConfirmBlockers' = blockersForTransition(Row(g, a, contact), "confirmed")
         /\ status' = "confirmed" /\ ~archived' => ConfirmBlockers' = {}
         /\ status' # status =>
              /\ status = "confirmed" /\ ~archived
              /\ status' = prior
              /\ ConfirmBlockers' # {}
<1>1. healGate(g) = g
  BY OrderedGateIsHealed
<1>2. /\ gate' = g /\ approval' = a /\ poc' = contact
      /\ UNCHANGED <<eventType, showDate, archived, prior>>
  BY <1>1 DEF AfterEdit
<1>3. ConfirmBlockers' = blockersForTransition(Row(g, a, contact), "confirmed")
  BY <1>2 DEF ConfirmBlockers, Row
<1>4. "confirmed" \notin PreConfirmStatus
  BY DEF PreConfirmStatus
<1>5. status' = "confirmed" /\ ~archived' => ConfirmBlockers' = {}
  BY <1>1, <1>3, <1>4, PriorIsPipeline DEF AfterEdit
<1>6. ASSUME status' # status
      PROVE  /\ status = "confirmed" /\ ~archived
             /\ status' = prior
             /\ ConfirmBlockers' # {}
  <2>1. /\ status = "confirmed" /\ ~archived
        /\ ConfirmBlockers' # {}
        /\ status' = priorStatusBeforeConfirmed
    BY <1>1, <1>3, <1>6 DEF AfterEdit
  <2>2. prior \in PreConfirmStatus
    BY <2>1 DEF IInv, ConfirmedFromPipeline
  <2> QED BY <2>1, <2>2 DEF priorStatusBeforeConfirmed
<1> QED BY <1>3, <1>5, <1>6

\* What a status change does in an ordered state.
LEMMA StatusChangeJudged ==
  ASSUME IInv, NEW to \in Status, NEW override, NEW reason,
         StatusChange(to, override, reason), status' # status
  PROVE  /\ UNCHANGED <<gate, approval, eventType, showDate, poc, archived>>
         /\ status' = to /\ canTransition(status, to)
         /\ to = "confirmed" => ConfirmBlockers = {}
<1>1. reconcileLetterAgainstFinancials(reconcileFinancialSequence(gate)) = gate
  BY OrderedGateIsHealed DEF IInv, TypeOK
<1> QED BY <1>1 DEF StatusChange, ConfirmBlockers

\* Only a checklist edit or a status change moves status.
LEMMA StatusMovers ==
  ASSUME [Next]_vars, status' # status
  PROVE  \/ ChecklistEdit
         \/ \E to \in Status, override, reason \in BOOLEAN :
              StatusChange(to, override, reason)
BY DEF Next, vars, EditEvent, GetChecklist, Archive

\* No checklist edit leaves a live event Confirmed over a standing blocker,
\* whether the edit brought it in (contact rows included) or found it there.
THEOREM EditsLeaveNoneBlocked == Spec => EditLeavesNoBlockedConfirmed
<1>1. IInv /\ [Next]_vars =>
        [ChecklistEdit =>
           (status' = "confirmed" /\ ~archived' => ConfirmBlockers' = {})]_vars
  BY ChecklistEditIsAfterEdit, EditJudged
<1> QED BY <1>1, InductiveInvariant, PTL DEF Spec, EditLeavesNoBlockedConfirmed

\* A demotion has a cause, befalls only a live event and returns it to the
\* status it was confirmed from.
THEOREM DemotionsHaveCause == Spec => DemotedForCause
<1>1. ASSUME IInv, [Next]_vars, status = "confirmed", status' \in PreConfirmStatus
      PROVE  ~archived /\ status' = prior /\ ConfirmBlockers' # {}
  <2>1. status' # status
    BY <1>1 DEF PreConfirmStatus
  <2>2. CASE ChecklistEdit
    BY <1>1, <2>1, <2>2, ChecklistEditIsAfterEdit, EditJudged
  <2>3. ASSUME NEW to \in Status, NEW override \in BOOLEAN, NEW reason \in BOOLEAN,
               StatusChange(to, override, reason)
        PROVE  FALSE
    <3>1. status' = to /\ canTransition("confirmed", to)
      BY <1>1, <2>1, <2>3, StatusChangeJudged
    <3>2. to = "cancelled"
      BY <3>1 DEF canTransition, Transitions
    <3> QED BY <1>1, <3>1, <3>2 DEF PreConfirmStatus
  <2> QED BY <1>1, <2>1, <2>2, <2>3, StatusMovers
<1>2. IInv /\ [Next]_vars =>
        [status = "confirmed" /\ status' \in PreConfirmStatus =>
           ~archived /\ status' = prior /\ ConfirmBlockers' # {}]_vars
  BY <1>1
<1> QED BY <1>2, InductiveInvariant, PTL DEF Spec, DemotedForCause

\* Confirmed is entered from the pipeline, with no blocker standing.
THEOREM ConfirmationsAreClear == Spec => ConfirmedWithoutBlockers
<1>1. ASSUME IInv, [Next]_vars, status # "confirmed", status' = "confirmed"
      PROVE  status \in PreConfirmStatus /\ ConfirmBlockers' = {}
  <2>1. ASSUME ChecklistEdit PROVE FALSE
    BY <1>1, <2>1, ChecklistEditIsAfterEdit, EditJudged
  <2>2. ASSUME NEW to \in Status, NEW override \in BOOLEAN, NEW reason \in BOOLEAN,
               StatusChange(to, override, reason)
        PROVE  status \in PreConfirmStatus /\ ConfirmBlockers' = {}
    <3>1. /\ UNCHANGED <<gate, approval, eventType, showDate, poc, archived>>
          /\ canTransition(status, "confirmed") /\ ConfirmBlockers = {}
      BY <1>1, <2>2, StatusChangeJudged
    <3>2. ConfirmBlockers' = ConfirmBlockers
      BY <3>1 DEF ConfirmBlockers, Row
    <3>3. status \in PreConfirmStatus
      BY <1>1, <3>1 DEF IInv, TypeOK, Status, canTransition, Transitions, PreConfirmStatus
    <3> QED BY <3>1, <3>2, <3>3
  <2> QED BY <1>1, <2>1, <2>2, StatusMovers
<1>2. IInv /\ [Next]_vars =>
        [status # "confirmed" /\ status' = "confirmed" =>
           status \in PreConfirmStatus /\ ConfirmBlockers' = {}]_vars
  BY <1>1
<1> QED BY <1>2, InductiveInvariant, PTL DEF Spec, ConfirmedWithoutBlockers

-----------------------------------------------------------------------------
(* EventLifecycle implements LifecycleContract.                            *)

\* A request that leaves the status alone is a contract step: the evidence may
\* come and go, except under a live Confirmed event.
LEMMA SameStatusRefines ==
  ASSUME IInv, IInv', status' = status, archived' = archived
  PROVE  [Contract!Next]_(Contract!cvars)
<1>1. Stage' = Stage
  BY DEF Stage
<1>2. Evidence \in BOOLEAN /\ Evidence' \in BOOLEAN
  BY DEF Evidence, areFinancialsReady, isCostingEmailSent, isProformaSatisfied
<1>3. CASE Evidence' = Evidence
  BY <1>1, <1>3 DEF Contract!cvars
<1>4. CASE ~Evidence /\ Evidence'
  BY <1>1, <1>4 DEF Contract!Next, Contract!Gather
<1>5. CASE Evidence /\ ~Evidence'
  <2>1. ~(status = "confirmed" /\ ~archived)
    BY <1>5 DEF IInv, ConfirmedBacked
  <2>2. ~(Stage = "confirmed" /\ ~archived)
    BY <2>1 DEF Stage
  <2> QED BY <1>1, <1>5, <2>2 DEF Contract!Next, Contract!Withdraw
<1> QED BY <1>2, <1>3, <1>4, <1>5

\* A checklist edit that changes the status demotes: a Withdraw when it took the
\* evidence away, a Demote when something else blocks.
LEMMA EditRefines ==
  ASSUME IInv, IInv', ChecklistEdit
  PROVE  [Contract!Next]_(Contract!cvars)
<1>1. archived' = archived
  BY DEF ChecklistEdit, PatchGateField, PatchApprovalRequired, PatchApprovalSent,
     PatchApprovalReceived, PatchContact, PatchOther, AfterEdit
<1>2. CASE status' = status
  BY <1>1, <1>2, SameStatusRefines
<1>3. CASE status' # status
  <2>1. status = "confirmed" /\ ~archived /\ status' = prior
    BY <1>3, ChecklistEditIsAfterEdit, EditJudged
  <2>2. prior \in PreConfirmStatus
    BY <2>1 DEF IInv, ConfirmedFromPipeline
  <2>3. Stage = "confirmed" /\ Stage' = "pipeline"
    BY <2>1, <2>2 DEF Stage, PreConfirmStatus
  <2>4. Evidence
    BY <2>1 DEF IInv, ConfirmedBacked
  <2>5. CASE Evidence'
    BY <1>1, <2>1, <2>3, <2>4, <2>5 DEF Contract!Next, Contract!Demote
  <2>6. CASE ~Evidence'
    BY <1>1, <2>1, <2>3, <2>4, <2>6 DEF Contract!Next, Contract!Withdraw
  <2> QED BY <2>5, <2>6
<1> QED BY <1>2, <1>3

\* A status change is a Confirm, a Close, a Reopen or, when refused, no step.
LEMMA StatusChangeRefines ==
  ASSUME IInv, IInv', NEW to \in Status, NEW override \in BOOLEAN,
         NEW reason \in BOOLEAN, StatusChange(to, override, reason)
  PROVE  [Contract!Next]_(Contract!cvars)
<1>1. archived' = archived
  BY DEF StatusChange
<1>2. CASE status' = status
  BY <1>1, <1>2, SameStatusRefines
<1>3. CASE status' # status
  <2>1. /\ gate' = gate /\ status' = to /\ canTransition(status, to)
        /\ to = "confirmed" => ConfirmBlockers = {}
    BY <1>3, StatusChangeJudged
  <2>2. (Evidence' <=> Evidence) /\ Evidence \in BOOLEAN /\ Evidence' \in BOOLEAN
    BY <2>1 DEF Evidence, areFinancialsReady, isCostingEmailSent, isProformaSatisfied
  <2>3. Evidence' = Evidence
    BY <2>2
  <2>4. \/ status \in PreConfirmStatus /\ to \in PreConfirmStatus
        \/ status \in PreConfirmStatus /\ to \in {"confirmed", "regret", "cancelled"}
        \/ status = "confirmed" /\ to = "cancelled"
        \/ status = "cancelled" /\ to \in PreConfirmStatus
    BY <2>1 DEF IInv, TypeOK, Status, PreConfirmStatus, canTransition, Transitions
  <2>5. CASE status \in PreConfirmStatus /\ to \in PreConfirmStatus
    BY <1>1, <2>1, <2>3, <2>5 DEF Stage, Contract!cvars
  <2>6. CASE status \in PreConfirmStatus /\ to \in {"confirmed", "regret", "cancelled"}
    <3>1. Stage = "pipeline" /\ Stage' = to
      BY <2>1, <2>6 DEF Stage, PreConfirmStatus
    <3>2. CASE to = "confirmed"
      <4>1. Row(gate, approval, poc).gate = gate
        BY DEF Row
      <4>2. Evidence
        BY <2>1, <3>2, <4>1, UnblockedIsBacked
        DEF Evidence, ConfirmBlockers, IInv, TypeOK
      <4> QED BY <1>1, <2>3, <3>1, <3>2, <4>2 DEF Contract!Next, Contract!Confirm
    <3>3. CASE to \in {"regret", "cancelled"}
      BY <1>1, <2>3, <3>1, <3>3 DEF Contract!Next, Contract!Close
    <3> QED BY <2>6, <3>2, <3>3
  <2>7. CASE status = "confirmed" /\ to = "cancelled"
    <3>1. Stage = "confirmed" /\ Stage' = "cancelled"
      BY <2>1, <2>7 DEF Stage, PreConfirmStatus
    <3> QED BY <1>1, <2>3, <3>1 DEF Contract!Next, Contract!Close
  <2>8. CASE status = "cancelled" /\ to \in PreConfirmStatus
    <3>1. Stage = "cancelled" /\ Stage' = "pipeline"
      BY <2>1, <2>8 DEF Stage, PreConfirmStatus
    <3> QED BY <1>1, <2>3, <3>1 DEF Contract!Next, Contract!Reopen
  <2> QED BY <2>4, <2>5, <2>6, <2>7, <2>8
<1> QED BY <1>2, <1>3

\* The detailed lifecycle keeps the contract: every behaviour of the handlers,
\* seen through Stage, Evidence and archived, is a behaviour of the contract.
THEOREM LifecycleRefinesContract == Spec => ImplementsContract
<1>1. ASSUME Init PROVE Contract!Init
  <2>1. Stage = "pipeline" /\ ~archived
    BY <1>1 DEF Init, Stage, PreConfirmStatus
  <2>2. gate.signed = "No"
    BY <1>1 DEF Init, SeededGate
  <2>3. ~Evidence
    BY <2>2 DEF Evidence
  <2> QED BY <2>1, <2>3 DEF Contract!Init
<1>2. ASSUME IInv, IInv', [Next]_vars PROVE [Contract!Next]_(Contract!cvars)
  <2>1. CASE ChecklistEdit
    BY <1>2, <2>1, EditRefines
  <2>2. ASSUME NEW type \in EventTypes, NEW dated \in BOOLEAN,
               NEW contact \in BOOLEAN, EditEvent(type, dated, contact)
        PROVE  [Contract!Next]_(Contract!cvars)
    BY <1>2, <2>2, SameStatusRefines DEF EditEvent
  <2>3. ASSUME NEW to \in Status, NEW override \in BOOLEAN, NEW reason \in BOOLEAN,
               StatusChange(to, override, reason)
        PROVE  [Contract!Next]_(Contract!cvars)
    BY <1>2, <2>3, StatusChangeRefines
  <2>4. CASE GetChecklist
    BY <1>2, <2>4, SameStatusRefines DEF GetChecklist
  <2>5. CASE Archive
    <3>1. /\ Stage' = Stage /\ ~archived /\ archived'
          /\ Evidence' = Evidence
      BY <2>5 DEF Archive, Stage, Evidence
    <3> QED BY <3>1 DEF Contract!Next, Contract!Archive
  <2>6. CASE UNCHANGED vars
    BY <1>2, <2>6, SameStatusRefines DEF vars
  <2> QED BY <1>2, <2>1, <2>2, <2>3, <2>4, <2>5, <2>6 DEF Next
<1> QED BY <1>1, <1>2, InductiveInvariant, PTL DEF Spec, ImplementsContract, Contract!Spec
=============================================================================
