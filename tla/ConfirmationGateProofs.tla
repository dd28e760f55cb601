----------------------- MODULE ConfirmationGateProofs -----------------------
(***************************************************************************)
(* What the rules of the gate do to any gate: the reconcilers leave an     *)
(* ordered gate alone and order any other, a permitted edit keeps the      *)
(* order, and an ordered gate without blockers carries the evidence.       *)
(***************************************************************************)
EXTENDS ConfirmationGate, TLAPS

\* The six gate fields by name.
LEMMA GateFieldNames ==
  GateField = {"costing", "proforma", "payment", "made", "couriered", "signed"}
BY DEF GateField, FieldValues

\* A gate is still a gate after each of the three reconcilers.
LEMMA ReconcilersKeepType ==
  ASSUME NEW g \in Gate
  PROVE  /\ reconcileFinancialSequence(g) \in Gate
         /\ reconcileLetterAgainstFinancials(g) \in Gate
         /\ reconcileDeliveryChain(g) \in Gate
<1>1. reconcileFinancialSequence(g) \in Gate
  BY DEF reconcileFinancialSequence, Gate, FieldValues
<1>2. letterAfterRollback(g) \in LetterStatus
  BY DEF letterAfterRollback, LetterStatus
<1>3. reconcileLetterAgainstFinancials(g) \in Gate
  BY <1>2 DEF reconcileLetterAgainstFinancials, rollBackLetter, Gate, FieldValues
<1>4. reconcileDeliveryChain(g) \in Gate
  BY <1>2 DEF reconcileDeliveryChain, Gate, FieldValues
<1> QED BY <1>1, <1>3, <1>4

\* On an ordered gate the reconcilers have nothing to do.
LEMMA OrderedGateIsHealed ==
  ASSUME NEW g \in Gate, InOrder(g)
  PROVE  /\ reconcileFinancialSequence(g) = g
         /\ reconcileLetterAgainstFinancials(g) = g
         /\ reconcileDeliveryChain(g) = g
         /\ healGate(g) = g
<1> USE DEF InOrder, FinancialsInOrder, LetterInOrder
<1>1. reconcileFinancialSequence(g) = g
  BY DEF reconcileFinancialSequence, Gate, FieldValues, isCostingEmailSent
<1>2. reconcileLetterAgainstFinancials(g) = g
  BY DEF reconcileLetterAgainstFinancials, rollBackLetter, Gate, FieldValues
<1>3. reconcileDeliveryChain(g) = g
  BY DEF reconcileDeliveryChain, Gate, FieldValues
<1> QED BY <1>1, <1>2, <1>3 DEF healGate

\* The financial healer orders the financials of any gate and leaves the costing
\* email and the letter alone.
LEMMA FinancialsHealed ==
  ASSUME NEW g \in Gate
  PROVE  LET h == reconcileFinancialSequence(g)
         IN  /\ h \in Gate
             /\ FinancialsInOrder(h)
             /\ h.made = g.made /\ h.couriered = g.couriered
             /\ h.signed = g.signed /\ h.letter = g.letter
BY DEF reconcileFinancialSequence, FinancialsInOrder, Gate, FieldValues,
       isCostingEmailSent, isProformaSatisfied, areFinancialsReady

\* Where only the financials have slipped, the letter healer restores the order.
LEMMA LetterHealed ==
  ASSUME NEW g \in Gate, FinancialsInOrder(g), LetterStatusAbreast(g),
         g.couriered = "dated" => g.made = "Yes",
         g.signed = "Yes" => g.couriered = "dated"
  PROVE  /\ reconcileLetterAgainstFinancials(g) \in Gate
         /\ InOrder(reconcileLetterAgainstFinancials(g))
<1>1. CASE areFinancialsReady(g) \/ (g.couriered = "blank" /\ g.signed = "No")
  BY <1>1 DEF reconcileLetterAgainstFinancials, rollBackLetter, InOrder, LetterInOrder
<1>2. CASE ~(areFinancialsReady(g) \/ (g.couriered = "blank" /\ g.signed = "No"))
  <2> DEFINE h == [g EXCEPT !.couriered = "blank", !.signed = "No",
                            !.letter = letterAfterRollback(g)]
  <2>1. reconcileLetterAgainstFinancials(g) = h
    BY <1>2 DEF reconcileLetterAgainstFinancials, rollBackLetter
  <2>2. h \in Gate
    BY DEF letterAfterRollback, Gate, FieldValues, LetterStatus
  <2>3. FinancialsInOrder(h)
    BY DEF FinancialsInOrder, Gate, isCostingEmailSent, isProformaSatisfied,
           areFinancialsReady
  <2>4. LetterInOrder(h) /\ LetterStatusAbreast(h)
    BY DEF LetterInOrder, LetterStatusAbreast, letterAfterRollback, Gate, FieldValues
  <2> QED BY <2>1, <2>2, <2>3, <2>4 DEF InOrder
<1> QED BY <1>1, <1>2

\* The three healers in a row order the rows of any gate whatever, one that no
\* single request could have left included.  (confirmation_status is not healed
\* with them: it may still claim more than the rows show.)
THEOREM HealRestoresOrder ==
  ASSUME NEW g \in Gate
  PROVE  /\ healGate(g) \in Gate
         /\ FinancialsInOrder(healGate(g)) /\ LetterInOrder(healGate(g))
<1> DEFINE g1 == reconcileFinancialSequence(g)
           g2 == reconcileLetterAgainstFinancials(g1)
           g3 == reconcileDeliveryChain(g2)
<1> USE DEF isCostingEmailSent, isProformaSatisfied, areFinancialsReady
<1>1. g1 \in Gate /\ FinancialsInOrder(g1)
  BY FinancialsHealed
<1> HIDE DEF g1
<1>2. /\ g2 \in Gate /\ FinancialsInOrder(g2)
      /\ g2.couriered = "dated" \/ g2.signed = "Yes" => areFinancialsReady(g2)
  <2>1. g2 \in Gate
    BY <1>1, ReconcilersKeepType
  <2>2. CASE areFinancialsReady(g1) \/ (g1.couriered = "blank" /\ g1.signed = "No")
    BY <1>1, <2>1, <2>2 DEF reconcileLetterAgainstFinancials, rollBackLetter
  <2>3. CASE ~(areFinancialsReady(g1) \/ (g1.couriered = "blank" /\ g1.signed = "No"))
    <3>1. g2 = [g1 EXCEPT !.couriered = "blank", !.signed = "No",
                          !.letter = letterAfterRollback(g1)]
      BY <2>3 DEF reconcileLetterAgainstFinancials, rollBackLetter
    <3> QED BY <1>1, <2>1, <3>1 DEF FinancialsInOrder, Gate
  <2> QED BY <2>2, <2>3
<1> HIDE DEF g2
<1>3. g3 \in Gate
  BY <1>2, ReconcilersKeepType
<1>4. /\ g3.costing = g2.costing /\ g3.proforma = g2.proforma
      /\ g3.payment = g2.payment /\ g3.made = g2.made
      /\ g3.couriered = "dated" => g2.couriered = "dated" /\ g2.made = "Yes"
      /\ g3.signed = "Yes" => g2.signed = "Yes" /\ g3.couriered = "dated"
  BY <1>2 DEF reconcileDeliveryChain, Gate, FieldValues
<1>5. FinancialsInOrder(g3) /\ LetterInOrder(g3)
  BY <1>2, <1>4 DEF FinancialsInOrder, LetterInOrder
<1>6. healGate(g) = g3
  BY DEF healGate, g1, g2
<1> QED BY <1>3, <1>5, <1>6

\* A permitted edit of an ordered gate, its reconcilers included, leaves an
\* ordered gate: the heart of updateChecklistItem.
LEMMA PatchKeepsOrder ==
  ASSUME NEW g \in Gate, InOrder(g),
         NEW f \in GateField, NEW v \in FieldValues[f], patchAllowed(g, f, v)
  PROVE  patchGate(g, f, v) \in Gate /\ InOrder(patchGate(g, f, v))
<1> DEFINE h == [g EXCEPT ![f] = v]
<1>1. ASSUME f \in {"costing", "proforma"} PROVE patchGate(g, f, v) \in Gate /\ InOrder(patchGate(g, f, v))
  <2> DEFINE r == reconcileFinancialSequence(h)
  <2>1. h \in Gate
    BY <1>1 DEF Gate, FieldValues
  <2>2. /\ h.made = g.made /\ h.couriered = g.couriered
        /\ h.signed = g.signed /\ h.letter = g.letter
    BY <1>1 DEF Gate
  <2>3. /\ r \in Gate /\ FinancialsInOrder(r)
        /\ r.made = g.made /\ r.couriered = g.couriered
        /\ r.signed = g.signed /\ r.letter = g.letter
    BY <2>1, <2>2, FinancialsHealed
  <2>4. LetterStatusAbreast(r)
    BY <2>3 DEF InOrder, LetterStatusAbreast
  <2>5. /\ reconcileLetterAgainstFinancials(r) \in Gate
        /\ InOrder(reconcileLetterAgainstFinancials(r))
    BY <2>3, <2>4, LetterHealed DEF InOrder, LetterInOrder
  <2>6. patchGate(g, f, v) = reconcileLetterAgainstFinancials(r)
    BY <1>1 DEF patchGate, syncLetterStatus, reconcileAfterWrite
  <2> QED BY <2>5, <2>6
<1>2. CASE f = "payment"
  <2>1. h = [g EXCEPT !.payment = v] /\ v \in {"Incomplete", "Completed"}
    BY <1>2 DEF FieldValues
  <2>2. h \in Gate
    BY <2>1 DEF Gate, FieldValues
  <2>3. FinancialsInOrder(h)
    BY <1>2, <2>1 DEF patchAllowed, InOrder, FinancialsInOrder, Gate,
       isCostingEmailSent, isProformaSatisfied, areFinancialsReady
  <2>4. /\ LetterStatusAbreast(h)
        /\ h.couriered = "dated" => h.made = "Yes"
        /\ h.signed = "Yes" => h.couriered = "dated"
    BY <2>1 DEF InOrder, LetterInOrder, LetterStatusAbreast, Gate
  <2>5. /\ reconcileLetterAgainstFinancials(h) \in Gate
        /\ InOrder(reconcileLetterAgainstFinancials(h))
    BY <2>2, <2>3, <2>4, LetterHealed
  <2>6. patchGate(g, f, v) = reconcileLetterAgainstFinancials(h)
    BY <1>2 DEF patchGate, syncLetterStatus, reconcileAfterWrite
  <2> QED BY <2>5, <2>6
<1>3. CASE f = "made"
  <2>1. h = [g EXCEPT !.made = v] /\ v \in {"No", "Yes"}
    BY <1>3 DEF FieldValues
  <2>2. reconcileAfterWrite(h, f) = reconcileDeliveryChain(h)
    BY <1>3 DEF reconcileAfterWrite
  <2>3. CASE v = "Yes"
    <3>1. reconcileDeliveryChain(h) = h
      BY <2>1, <2>3 DEF reconcileDeliveryChain, InOrder, LetterInOrder, Gate, FieldValues
    <3>2. patchGate(g, f, v) =
            IF g.letter \in {"couriered", "signed_received"} THEN h
            ELSE [h EXCEPT !.letter = "made"]
      BY <1>3, <2>1, <2>2, <2>3, <3>1 DEF patchGate, syncLetterStatus, Gate
    <3>3. CASE g.letter \in {"couriered", "signed_received"}
      BY <2>1, <2>3, <3>2, <3>3 DEF InOrder, FinancialsInOrder, LetterInOrder,
          LetterStatusAbreast, Gate, FieldValues, LetterStatus, isCostingEmailSent,
          isProformaSatisfied, areFinancialsReady
    <3>4. CASE g.letter \notin {"couriered", "signed_received"}
      BY <2>1, <2>3, <3>2, <3>4 DEF InOrder, FinancialsInOrder, LetterInOrder,
          LetterStatusAbreast, Gate, FieldValues, LetterStatus, isCostingEmailSent,
          isProformaSatisfied, areFinancialsReady
    <3> QED BY <3>3, <3>4
  <2>4. CASE v = "No"
    <3>1. patchGate(g, f, v) = reconcileDeliveryChain(h)
      BY <1>3, <2>2, <2>4 DEF patchGate, syncLetterStatus
    <3>2. CASE g.couriered = "blank"
      <4>1. patchGate(g, f, v) = h /\ g.signed = "No"
        BY <2>1, <2>4, <3>1, <3>2 DEF reconcileDeliveryChain, InOrder,
           LetterInOrder, Gate, FieldValues
      <4> QED BY <2>1, <2>4, <3>2, <4>1 DEF InOrder, FinancialsInOrder, LetterInOrder,
          LetterStatusAbreast, Gate, FieldValues, LetterStatus, isCostingEmailSent,
          isProformaSatisfied, areFinancialsReady
    <3>3. CASE g.couriered = "dated"
      <4>1. patchGate(g, f, v) = [h EXCEPT !.signed = "No", !.couriered = "blank",
                                           !.letter = "none"]
        BY <2>1, <2>4, <3>1, <3>3 DEF reconcileDeliveryChain, letterAfterRollback,
           Gate, FieldValues
      <4> QED BY <2>1, <2>4, <3>3, <4>1 DEF InOrder, FinancialsInOrder, LetterInOrder,
          LetterStatusAbreast, Gate, FieldValues, LetterStatus, isCostingEmailSent,
          isProformaSatisfied, areFinancialsReady
    <3> QED BY <3>2, <3>3 DEF Gate, FieldValues
  <2> QED BY <2>1, <2>3, <2>4
<1>5. CASE f = "couriered"
  <2>1. h = [g EXCEPT !.couriered = v] /\ v \in {"blank", "dated"}
    BY <1>5 DEF FieldValues
  <2>2. reconcileAfterWrite(h, f) = reconcileDeliveryChain(h)
    BY <1>5 DEF reconcileAfterWrite
  <2>3. CASE v = "dated"
    <3>1. g.made = "Yes" /\ areFinancialsReady(g)
      BY <1>5, <2>3 DEF patchAllowed
    <3>2. reconcileDeliveryChain(h) = h
      BY <2>1, <2>3, <3>1 DEF reconcileDeliveryChain, InOrder, LetterInOrder, Gate, FieldValues
    <3>3. patchGate(g, f, v) =
            IF g.letter # "signed_received" THEN [h EXCEPT !.letter = "couriered"]
            ELSE h
      BY <1>5, <2>1, <2>2, <2>3, <3>2 DEF patchGate, syncLetterStatus, Gate
    <3>4. CASE g.letter = "signed_received"
      <4>1. patchGate(g, f, v) = h
        BY <3>3, <3>4
      <4>2. h \in Gate
        BY <2>1 DEF Gate, FieldValues
      <4>3. g.couriered = "dated"
        BY <3>4 DEF InOrder, LetterInOrder, LetterStatusAbreast
      <4>4. h = g
        BY <2>1, <2>3, <4>3 DEF Gate
      <4> QED BY <4>1, <4>4
    <3>5. CASE g.letter # "signed_received"
      <4> DEFINE p == [g EXCEPT !.couriered = "dated", !.letter = "couriered"]
      <4>1. patchGate(g, f, v) = p
        BY <2>1, <2>3, <3>3, <3>5 DEF Gate
      <4>2. p \in Gate
        BY DEF Gate, FieldValues, LetterStatus
      <4>3. /\ p.costing = g.costing /\ p.proforma = g.proforma /\ p.payment = g.payment
            /\ p.made = g.made /\ p.signed = g.signed
            /\ p.couriered = "dated" /\ p.letter = "couriered"
        BY DEF Gate
      <4>4. FinancialsInOrder(p)
        BY <4>3 DEF InOrder, FinancialsInOrder, isCostingEmailSent,
           isProformaSatisfied, areFinancialsReady
      <4>5. areFinancialsReady(p)
        BY <3>1, <4>3 DEF isCostingEmailSent, isProformaSatisfied, areFinancialsReady
      <4>6. LetterInOrder(p) /\ LetterStatusAbreast(p)
        BY <3>1, <3>5, <4>3, <4>5 DEF InOrder, LetterInOrder, LetterStatusAbreast
      <4> HIDE DEF p
      <4> QED BY <4>1, <4>2, <4>4, <4>6 DEF InOrder
    <3> QED BY <3>4, <3>5
  <2>4. CASE v = "blank"
    <3>1. patchGate(g, f, v) = reconcileDeliveryChain(h)
      BY <1>5, <2>2, <2>4 DEF patchGate, syncLetterStatus
    <3>2. CASE g.signed = "No"
      <4>1. patchGate(g, f, v) = h
        BY <2>1, <2>4, <3>1, <3>2 DEF reconcileDeliveryChain, Gate, FieldValues
      <4> QED BY <2>1, <2>4, <3>2, <4>1 DEF InOrder, FinancialsInOrder, LetterInOrder,
          LetterStatusAbreast, Gate, FieldValues, LetterStatus, isCostingEmailSent,
          isProformaSatisfied, areFinancialsReady
    <3>3. CASE g.signed = "Yes"
      <4>1. g.made = "Yes"
        BY <3>3 DEF InOrder, LetterInOrder
      <4>2. patchGate(g, f, v) = [h EXCEPT !.signed = "No", !.letter = "made"]
        BY <2>1, <2>4, <3>1, <3>3, <4>1 DEF reconcileDeliveryChain,
           letterAfterRollback, Gate, FieldValues
      <4> QED BY <2>1, <2>4, <3>3, <4>1, <4>2 DEF InOrder, FinancialsInOrder, LetterInOrder,
          LetterStatusAbreast, Gate, FieldValues, LetterStatus, isCostingEmailSent,
          isProformaSatisfied, areFinancialsReady
    <3> QED BY <3>2, <3>3 DEF Gate, FieldValues
  <2> QED BY <2>1, <2>3, <2>4
<1>4. CASE f = "signed"
  BY <1>4 DEF patchAllowed, InOrder, FinancialsInOrder, LetterInOrder,
       LetterStatusAbreast, Gate, FieldValues, LetterStatus, patchGate,
       syncLetterStatus, reconcileAfterWrite, letterAfterRollback,
       isCostingEmailSent, isProformaSatisfied, areFinancialsReady
<1> QED BY <1>1, <1>2, <1>3, <1>4, <1>5, GateFieldNames

\* With an ordered gate, no confirm blocker means the evidence is complete,
\* though the blockers look at confirmation_status and not at the letter's rows.
LEMMA UnblockedIsBacked ==
  ASSUME NEW e, e.gate \in Gate, InOrder(e.gate),
         blockersForTransition(e, "confirmed") = {}
  PROVE  areFinancialsReady(e.gate) /\ e.gate.made = "Yes" /\ e.gate.signed = "Yes"
<1> DEFINE g == e.gate
<1>1. isPaymentGateSatisfied(g)
  BY DEF blockersForTransition
<1>2. g.letter \notin {"none", "made", "couriered"}
  BY DEF blockersForTransition
<1>3. g.letter = "signed_received"
  BY <1>2 DEF Gate, LetterStatus
<1> QED BY <1>1, <1>3 DEF InOrder, FinancialsInOrder, LetterInOrder,
     LetterStatusAbreast, isPaymentGateSatisfied
=============================================================================
