-------------------------- MODULE ConfirmationGate --------------------------
(***************************************************************************)
(* The pure rules that decide whether an event may be Confirmed.           *)
(*                                                                         *)
(* A "gate" is the part of the checklist those rules read, together with   *)
(* the events.confirmation_status column that is derived from it:          *)
(*   costing   costing_email                  proforma  proforma_invoice   *)
(*   payment   payment_status                 made      confirmation_made  *)
(*   couriered confirmation_couriered (a date, here blank or set)          *)
(*   signed    confirmation_signed_received                                *)
(*   letter    events.confirmation_status                                  *)
(* A checklist value is kept up to what the rules can tell apart, so any   *)
(* other string, and NULL, is the field's negative value.                  *)
(***************************************************************************)

Status == {"enquiry", "tentative", "approved", "confirmed", "regret", "cancelled"}

PreConfirmStatus == {"enquiry", "tentative", "approved"}

\* state-machine.ts, TRANSITIONS.
Transitions ==
  [enquiry   |-> {"tentative", "approved", "confirmed", "regret", "cancelled"},
   tentative |-> {"approved", "confirmed", "regret", "cancelled"},
   approved  |-> {"confirmed", "regret", "cancelled"},
   confirmed |-> {"cancelled"},
   regret    |-> {},
   cancelled |-> {"enquiry", "tentative"}]

canTransition(from, to) == to \in Transitions[from]

requiresOverride(from, to) ==
  \/ from = "confirmed" /\ to = "cancelled"
  \/ from \in {"cancelled", "regret"}

-----------------------------------------------------------------------------

FieldValues ==
  [costing   |-> {"No", "Yes"},
   proforma  |-> {"NotSent", "Sent", "NotApplicable"},
   payment   |-> {"Incomplete", "Completed"},
   made      |-> {"No", "Yes"},
   couriered |-> {"blank", "dated"},
   signed    |-> {"No", "Yes"}]

GateField == DOMAIN FieldValues

LetterStatus == {"none", "made", "couriered", "signed_received"}

Gate ==
  [costing   : FieldValues.costing,   proforma : FieldValues.proforma,
   payment   : FieldValues.payment,   made     : FieldValues.made,
   couriered : FieldValues.couriered, signed   : FieldValues.signed,
   letter    : LetterStatus]

\* The values the checklist is seeded with, and confirmation_status 'none'.
SeededGate ==
  [costing   |-> "No",    proforma |-> "NotSent", payment |-> "Incomplete",
   made      |-> "No",    couriered |-> "blank",   signed  |-> "No",
   letter    |-> "none"]

isCostingEmailSent(g) == g.costing = "Yes"

isProformaSatisfied(g) == g.proforma \in {"Sent", "NotApplicable"}

\* Slip: the costing email alone opens the payment gate.
paymentGateByCosting(g) == isCostingEmailSent(g)

isPaymentGateSatisfied(g) == isCostingEmailSent(g) /\ g.payment = "Completed"

areFinancialsReady(g) ==
  isCostingEmailSent(g) /\ isProformaSatisfied(g) /\ g.payment = "Completed"

-----------------------------------------------------------------------------
(* The three healing functions, each run to completion.                    *)

\* Slip: the payment that rested on the reset proforma is left standing.
reconcileProformaOnly(g) ==
  IF g.proforma = "Sent" /\ g.costing # "Yes"
  THEN [g EXCEPT !.proforma = "NotSent"] ELSE g

\* reconcileFinancialSequenceForEvent: Sent without costing falls back to
\* Not Sent, then Completed without costing or proforma falls to Incomplete.
reconcileFinancialSequence(g) ==
  LET proforma == IF g.proforma = "Sent" /\ g.costing # "Yes"
                  THEN "NotSent" ELSE g.proforma
      healed   == [g EXCEPT !.proforma = proforma]
  IN  IF g.payment = "Completed" /\ ~areFinancialsReady(healed)
      THEN [healed EXCEPT !.payment = "Incomplete"]
      ELSE healed

\* Slip: the checklist value itself is stored as confirmation_status.
letterIsMadeValue(g) == g.made

letterAfterRollback(g) == IF g.made = "Yes" THEN "made" ELSE "none"

\* What reconcileConfirmationLetterAgainstFinancials writes once it has found
\* the financials incomplete: Couriered and Signed are both withdrawn.
rollBackLetter(g) ==
  IF g.couriered = "blank" /\ g.signed = "No"
  THEN g
  ELSE [g EXCEPT !.couriered = "blank", !.signed = "No",
                 !.letter = letterAfterRollback(g)]

reconcileLetterAgainstFinancials(g) ==
  IF areFinancialsReady(g) THEN g ELSE rollBackLetter(g)

\* reconcileConfirmationLetterDeliveryChain: Signed needs Couriered and Made,
\* Couriered needs Made.
reconcileDeliveryChain(g) ==
  LET resetSigned    == g.signed = "Yes" /\ (g.made = "No" \/ g.couriered = "blank")
      resetCouriered == g.couriered = "dated" /\ g.made = "No"
  IN  IF ~resetSigned /\ ~resetCouriered
      THEN g
      ELSE [g EXCEPT !.signed    = IF resetSigned THEN "No" ELSE @,
                     !.couriered = IF resetCouriered THEN "blank" ELSE @,
                     !.letter    = letterAfterRollback(g)]

\* What getChecklistItems and getEventLifecycle do before they answer a read.
healGate(g) ==
  reconcileDeliveryChain(
    reconcileLetterAgainstFinancials(reconcileFinancialSequence(g)))

-----------------------------------------------------------------------------
(* The order the reconcilers keep, stated of a gate.                       *)

FinancialsInOrder(g) ==
  /\ g.proforma = "Sent" => isCostingEmailSent(g)
  /\ g.payment = "Completed" => areFinancialsReady(g)

LetterInOrder(g) ==
  /\ g.couriered = "dated" => g.made = "Yes" /\ areFinancialsReady(g)
  /\ g.signed = "Yes" => g.couriered = "dated"

\* confirmation_status is never behind the rows it is derived from.
LetterStatusAbreast(g) ==
  /\ g.letter = "signed_received" <=> g.signed = "Yes"
  /\ g.couriered = "dated" => g.letter \in {"couriered", "signed_received"}
  /\ g.made = "Yes" => g.letter # "none"

InOrder(g) == FinancialsInOrder(g) /\ LetterInOrder(g) /\ LetterStatusAbreast(g)

-----------------------------------------------------------------------------
(* One checklist edit: field f of the gate is set to v.                    *)

\* Slip: Payment Completed asks for the costing email only.
patchIgnoresProforma(g, f, v) ==
  /\ f \in {"proforma", "payment"} /\ v \in {"Sent", "Completed"} => isCostingEmailSent(g)
  /\ f = "couriered" /\ v = "dated" => g.made = "Yes" /\ areFinancialsReady(g)
  /\ f = "signed" /\ v = "Yes" => g.couriered = "dated" /\ areFinancialsReady(g)

\* The refusals of updateChecklistItem.
patchAllowed(g, f, v) ==
  /\ f = "proforma" /\ v = "Sent" => isCostingEmailSent(g)
  /\ f = "payment" /\ v = "Completed" =>
       isCostingEmailSent(g) /\ isProformaSatisfied(g)
  /\ f = "couriered" /\ v = "dated" => g.made = "Yes" /\ areFinancialsReady(g)
  /\ f = "signed" /\ v = "Yes" => g.couriered = "dated" /\ areFinancialsReady(g)

\* Slip: no reconciler follows an edit of Made.
reconcileExceptMade(g, f) ==
  CASE f \in {"costing", "proforma"} ->
         reconcileLetterAgainstFinancials(reconcileFinancialSequence(g))
    [] f = "payment" -> reconcileLetterAgainstFinancials(g)
    [] f = "couriered" -> reconcileDeliveryChain(g)
    [] OTHER -> g

\* The reconcilers that follow the write, chosen by the field.
reconcileAfterWrite(g, f) ==
  CASE f = "costing" ->
         reconcileLetterAgainstFinancials(reconcileFinancialSequence(g))
    [] f = "proforma" ->
         reconcileLetterAgainstFinancials(reconcileFinancialSequence(g))
    [] f = "payment" -> reconcileLetterAgainstFinancials(g)
    [] f \in {"made", "couriered"} -> reconcileDeliveryChain(g)
    [] OTHER -> g

\* Slip: Made = Yes sets confirmation_status back although the letter is further on.
syncLetterStatusBackwards(g, f, v) ==
  CASE f = "made" /\ v = "Yes" -> [g EXCEPT !.letter = "made"]
    [] f = "couriered" /\ v = "dated" -> [g EXCEPT !.letter = "couriered"]
    [] f = "signed" /\ v = "Yes" -> [g EXCEPT !.letter = "signed_received"]
    [] f = "signed" /\ v # "Yes" ->
         [g EXCEPT !.letter = IF g.couriered = "dated" THEN "couriered"
                              ELSE letterAfterRollback(g)]
    [] OTHER -> g

\* syncEventFieldsFromChecklist, the part that keeps confirmation_status.
syncLetterStatus(g, f, v) ==
  CASE f = "made" /\ v = "Yes" /\ g.letter \notin {"couriered", "signed_received"} ->
         [g EXCEPT !.letter = "made"]
    [] f = "couriered" /\ v = "dated" /\ g.letter # "signed_received" ->
         [g EXCEPT !.letter = "couriered"]
    [] f = "signed" /\ v = "Yes" -> [g EXCEPT !.letter = "signed_received"]
    [] f = "signed" /\ v # "Yes" ->
         [g EXCEPT !.letter = IF g.couriered = "dated" THEN "couriered"
                              ELSE letterAfterRollback(g)]
    [] OTHER -> g

patchGate(g, f, v) ==
  syncLetterStatus(reconcileAfterWrite([g EXCEPT ![f] = v], f), f, v)

-----------------------------------------------------------------------------
(* The confirmation gate proper.  e is the row the rules are applied to:   *)
(* eventType, showDate, approval (approval_status), poc and gate.          *)

ApprovalStatus == {"not_required", "pending", "sent", "received"}

approvalSatisfied(e) ==
  e.eventType = "VFH" => e.approval \in {"not_required", "received"}

canConfirm(e) ==
  /\ isPaymentGateSatisfied(e.gate)
  /\ e.gate.letter = "signed_received"
  /\ approvalSatisfied(e)

\* blockersForTransition: the set of blockers shown for moving e to status `to`.
blockersForTransition(e, to) ==
  { b \in {"show date", "VFH only", "approval", "costing", "letter made",
           "payment", "letter couriered", "letter signed", "poc"} :
      \/ b = "show date" /\ to \in {"approved", "confirmed"} /\ ~e.showDate
      \/ b = "VFH only" /\ to = "approved" /\ e.eventType # "VFH"
      \/ b = "approval" /\ to \in {"approved", "confirmed"} /\ ~approvalSatisfied(e)
      \/ /\ to = "confirmed"
         /\ \/ b = "costing" /\ ~isCostingEmailSent(e.gate)
            \/ b = "letter made" /\ e.gate.letter = "none"
            \/ b = "payment" /\ ~isPaymentGateSatisfied(e.gate)
            \/ b = "letter couriered" /\ e.gate.letter = "made"
            \/ b = "letter signed" /\ e.gate.letter = "couriered"
            \/ b = "poc" /\ ~e.poc }
=============================================================================
