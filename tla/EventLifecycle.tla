--------------------------- MODULE EventLifecycle ---------------------------
(***************************************************************************)
(* One venue-hire event and the requests that move it through its life:    *)
(* checklist edits (PATCH /:id/checklist/:itemId), the event form          *)
(* (PUT /:id), status changes (POST /:id/status), the checklist read       *)
(* (GET /:id/checklist, which heals what it reads) and archiving           *)
(* (DELETE /:id).  Each request runs alone here; LifecycleRequests takes   *)
(* the same handlers apart and lets them overlap.                          *)
(*                                                                         *)
(*   gate      the confirmation checklist rows and confirmation_status     *)
(*   approval  the VFH approval rows (absent until seeded) and             *)
(*             approval_status                                             *)
(*   prior     from_status of the newest history row that confirmed        *)
(***************************************************************************)
EXTENDS ConfirmationGate

CONSTANT EventTypes

ASSUME EventTypesAssumption == "VFH" \in EventTypes

VARIABLES gate, approval, status, eventType, showDate, poc, archived, prior

vars == <<gate, approval, status, eventType, showDate, poc, archived, prior>>

\* rows: the approval checklist rows exist.  received: Approval Received On
\* holds a date.
Approval == [rows     : BOOLEAN,
             required : {"blank", "Not Required", "Required"},
             received : BOOLEAN,
             status   : ApprovalStatus]

-----------------------------------------------------------------------------
\* What the confirmation rules read: the events row joined with the checklist.
Row(g, a, contact) == [eventType |-> eventType, showDate |-> showDate,
                       approval  |-> a.status,  poc |-> contact, gate |-> g]

ConfirmBlockers == blockersForTransition(Row(gate, approval, poc), "confirmed")

\* Slip: the status history is not consulted.
priorStatusByType == IF eventType = "VFH" THEN "approved" ELSE "tentative"

priorStatusBeforeConfirmed ==
  IF prior \in PreConfirmStatus THEN prior
  ELSE IF eventType = "VFH" THEN "approved" ELSE "tentative"

\* Slip: the event is judged by the row as it was before the edit.
AfterEditJudgingOldRow(g, a, contact) ==
  LET judged  == status = "confirmed" /\ ~archived
      blocked == blockersForTransition(Row(healGate(gate), approval, poc), "confirmed") # {}
  IN  /\ gate' = IF judged THEN healGate(g) ELSE g
      /\ approval' = a
      /\ poc' = contact
      /\ status' = IF judged /\ blocked THEN priorStatusBeforeConfirmed
                                        ELSE status
      /\ UNCHANGED <<eventType, showDate, archived, prior>>

\* Slip: the event is judged only after an edit of a gate row.
AfterEditOfGateOnly(g, a, contact) ==
  LET judged  == status = "confirmed" /\ ~archived /\ g # gate
      blocked == blockersForTransition(Row(healGate(g), a, contact), "confirmed") # {}
  IN  /\ gate' = IF judged THEN healGate(g) ELSE g
      /\ approval' = a
      /\ poc' = contact
      /\ status' = IF judged /\ blocked THEN priorStatusBeforeConfirmed
                                        ELSE status
      /\ UNCHANGED <<eventType, showDate, archived, prior>>

\* The tail of every checklist edit, reconcileConfirmedStatusForBlockers: a
\* live Confirmed event is healed, judged again and demoted if blocked.
AfterEdit(g, a, contact) ==
  LET judged  == status = "confirmed" /\ ~archived
      blocked == blockersForTransition(Row(healGate(g), a, contact), "confirmed") # {}
  IN  /\ gate' = IF judged THEN healGate(g) ELSE g
      /\ approval' = a
      /\ poc' = contact
      /\ status' = IF judged /\ blocked THEN priorStatusBeforeConfirmed
                                        ELSE status
      /\ UNCHANGED <<eventType, showDate, archived, prior>>

-----------------------------------------------------------------------------
Init ==
  /\ eventType \in EventTypes
  /\ showDate \in BOOLEAN
  /\ poc \in BOOLEAN
  /\ gate = SeededGate
  /\ approval = [rows |-> eventType = "VFH", required |-> "Not Required",
                 received |-> FALSE, status |-> "not_required"]
  /\ status = "enquiry"
  /\ archived = FALSE
  /\ prior = "none"

\* PATCH of one of the six gate fields.
PatchGateField(f, v) ==
  /\ patchAllowed(gate, f, v)
  /\ AfterEdit(patchGate(gate, f, v), approval, poc)

unlessReceived(a, s) == IF a.status = "received" THEN "received" ELSE s

PatchApprovalRequired(v) ==
  /\ approval.rows
  /\ AfterEdit(gate, [approval EXCEPT
       !.required = v,
       !.status = CASE v = "Not Required" -> "not_required"
                    [] v = "Required"     -> unlessReceived(approval, "pending")
                    [] OTHER              -> @], poc)

\* Approval Sent On is given a date; clearing it changes nothing kept here.
PatchApprovalSent ==
  /\ approval.rows
  /\ AfterEdit(gate, [approval EXCEPT !.status = unlessReceived(approval, "sent")], poc)

\* Approval Received On is set (dated) or cleared.
PatchApprovalReceived(dated) ==
  /\ approval.rows
  /\ AfterEdit(gate, [approval EXCEPT
       !.received = dated,
       !.status = IF dated THEN "received" ELSE @], poc)

\* PATCH of a row of the point of contact.  A value may fill what was missing;
\* asking for the event company's contact, or putting the vendor form back to
\* Pending, may leave the contact incomplete again.
PatchContact(complete) == AfterEdit(gate, approval, complete)

\* PATCH of any other checklist field.
PatchOther == AfterEdit(gate, approval, poc)

\* PUT: the form's event type, show date and point of contact.  The handler
\* does not look at status and calls no confirmation reconciler.
EditEvent(type, dated, contact) ==
  /\ ~archived
  /\ eventType' = type
  /\ showDate' = dated
  /\ poc' = contact
  /\ UNCHANGED <<gate, approval, status, archived, prior>>

\* Slip: canConfirm is taken for the whole gate and the blockers are not asked.
StatusChangeByCanConfirm(to, override, reason) ==
  LET healed   == reconcileLetterAgainstFinancials(reconcileFinancialSequence(gate))
      accepted == /\ canTransition(status, to)
                  /\ to = "confirmed" => canConfirm(Row(healed, approval, poc))
                  /\ requiresOverride(status, to) => override /\ reason
                  /\ to \in {"regret", "cancelled"} => reason
  IN  /\ gate' = healed
      /\ status' = IF accepted THEN to ELSE status
      /\ prior' = IF accepted /\ to = "confirmed" THEN status ELSE prior
      /\ UNCHANGED <<approval, eventType, showDate, poc, archived>>

\* POST status.  The gate is healed (not the delivery chain) before anything is
\* checked, so even a refused request may write.  override: the caller holds
\* conflict.override.  reason: an acceptable reason came with the request.
StatusChange(to, override, reason) ==
  LET healed   == reconcileLetterAgainstFinancials(reconcileFinancialSequence(gate))
      row      == Row(healed, approval, poc)
      accepted == /\ canTransition(status, to)
                  /\ to = "confirmed" => canConfirm(row)
                  /\ blockersForTransition(row, to) = {}
                  /\ requiresOverride(status, to) => override /\ reason
                  /\ to \in {"regret", "cancelled"} => reason
  IN  /\ gate' = healed
      /\ status' = IF accepted THEN to ELSE status
      /\ prior' = IF accepted /\ to = "confirmed" THEN status ELSE prior
      /\ UNCHANGED <<approval, eventType, showDate, poc, archived>>

\* GET checklist: missing VFH rows are seeded, then the gate is healed.
GetChecklist ==
  /\ gate' = healGate(gate)
  /\ approval' = [approval EXCEPT !.rows = @ \/ eventType = "VFH"]
  /\ UNCHANGED <<status, eventType, showDate, poc, archived, prior>>

Archive ==
  /\ ~archived
  /\ archived' = TRUE
  /\ UNCHANGED <<gate, approval, status, eventType, showDate, poc, prior>>

ChecklistEdit ==
  \/ \E f \in GateField : \E v \in FieldValues[f] : PatchGateField(f, v)
  \/ \E v \in {"blank", "Not Required", "Required"} : PatchApprovalRequired(v)
  \/ PatchApprovalSent
  \/ \E dated \in BOOLEAN : PatchApprovalReceived(dated)
  \/ \E complete \in BOOLEAN : PatchContact(complete)
  \/ PatchOther

Next ==
  \/ ChecklistEdit
  \/ \E type \in EventTypes, dated, contact \in BOOLEAN :
       EditEvent(type, dated, contact)
  \/ \E to \in Status, override, reason \in BOOLEAN :
       StatusChange(to, override, reason)
  \/ GetChecklist
  \/ Archive

Spec == Init /\ [][Next]_vars

-----------------------------------------------------------------------------
(* Properties.                                                             *)

TypeOK ==
  /\ gate \in Gate
  /\ approval \in Approval
  /\ status \in Status
  /\ eventType \in EventTypes
  /\ showDate \in BOOLEAN
  /\ poc \in BOOLEAN
  /\ archived \in BOOLEAN
  /\ prior \in PreConfirmStatus \cup {"none"}

\* The financial steps stand in order after every request: Proforma Sent rests
\* on the costing email, Payment Completed on both, whichever of them was
\* withdrawn last (financial-sequence.ts and its healers).
FinancialSequence == FinancialsInOrder(gate)

\* The letter never runs ahead: a courier date rests on Made and on complete
\* financials, a signed copy on a courier date.
LetterChain == LetterInOrder(gate)

\* confirmation_status, which the confirmation gate trusts instead of the
\* checklist, says signed_received exactly when the checklist says so, and is
\* never behind what the checklist shows.
LetterStatusTrusted == LetterStatusAbreast(gate)

\* The evidence, read off the checklist rows and not off the derived column.
Evidence == areFinancialsReady(gate) /\ gate.made = "Yes" /\ gate.signed = "Yes"

\* A live Confirmed event has its money and its signed letter at every moment
\* between requests; the event form cannot take these away.
ConfirmedBacked == status = "confirmed" /\ ~archived => Evidence

\* Every confirmed event was confirmed from a pipeline status, so the fallback
\* of priorStatusBeforeConfirmed is never taken by an event made by this API.
ConfirmedFromPipeline == status = "confirmed" => prior \in PreConfirmStatus

\* No checklist edit, of whatever field, leaves a live event Confirmed with a
\* blocker standing: neither one that the edit itself brings in (a gate row, the
\* approval, the contact) nor one the event form had let in earlier.
EditLeavesNoBlockedConfirmed ==
  [][ChecklistEdit =>
       (status' = "confirmed" /\ ~archived' => ConfirmBlockers' = {})]_vars

\* A confirmed event goes back to the pipeline only for a standing blocker,
\* only while live, and exactly to the status it was confirmed from.
DemotedForCause ==
  [][status = "confirmed" /\ status' \in PreConfirmStatus =>
       /\ ~archived
       /\ status' = prior
       /\ ConfirmBlockers' # {}]_vars

\* An event enters Confirmed only with no blocker standing in the state it
\* enters (the healing inside the request included), and never from a closed one.
ConfirmedWithoutBlockers ==
  [][status # "confirmed" /\ status' = "confirmed" =>
       /\ status \in PreConfirmStatus
       /\ ConfirmBlockers' = {}]_vars

\* Between whole requests there is nothing to heal: a read of the checklist
\* and a refused status change leave every gate field as it was.
ReadsHealNothing == healGate(gate) = gate

\* Stated by PRD VFH-07: a VFH event whose Approval Required? is Required and
\* whose approval has not been received cannot confirm.
ApprovalBeforeConfirm ==
  [][status # "confirmed" /\ status' = "confirmed" =>
       (eventType = "VFH" /\ approval.required = "Required" => approval.received)]_vars

\* The lifecycle contract as this module implements it: approved, tentative and
\* enquiry are all the pipeline, and an event is live until archived.
Stage == IF status \in PreConfirmStatus THEN "pipeline" ELSE status

Contract == INSTANCE LifecycleContract
              WITH stage <- Stage, evidence <- Evidence, live <- ~archived

\* Every request is one step of the contract or leaves it unmoved: no checklist
\* edit drops the evidence of a live Confirmed event without demoting it in the
\* same request, and nothing but POST status ever confirms.
ImplementsContract == Contract!Spec
=============================================================================
