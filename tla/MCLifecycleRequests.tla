------------------------- MODULE MCLifecycleRequests -------------------------
(***************************************************************************)
(* LifecycleRequests with two workers.  The events start at milestones of  *)
(* a booking, each reached by permitted edits of a new event.              *)
(***************************************************************************)
EXTENDS LifecycleRequests

CONSTANTS w1, w2

TwoSlots == {w1, w2}

edited(g, f, v) == IF patchAllowed(g, f, v) THEN patchGate(g, f, v) ELSE g

Costed    == edited(SeededGate, "costing", "Yes")
Paid      == edited(edited(Costed, "proforma", "NotApplicable"), "payment", "Completed")
Couriered == edited(edited(Paid, "made", "Yes"), "couriered", "dated")
Signed    == edited(Couriered, "signed", "Yes")

Enquiry(g) == [gate |-> g, status |-> "enquiry", from |-> "none"]
Confirmed  == [gate |-> Signed, status |-> "confirmed", from |-> "enquiry"]

PaidOnProforma == edited(edited(Costed, "proforma", "Sent"), "payment", "Completed")

Milestones == {Enquiry(PaidOnProforma), Enquiry(Paid), Enquiry(Couriered), Enquiry(Signed), Confirmed}

Patch(f, v) == [kind |-> "patch", field |-> f, value |-> v]
Post(to)    == [kind |-> "post", to |-> to]
Get         == [kind |-> "get"]
PatchOther  == [kind |-> "patch_other"]

\* Every gate edit, another edit, the read, confirming and cancelling.
AllOffers ==
  UNION { { Patch(f, v) : v \in FieldValues[f] } : f \in GateField }
    \cup {PatchOther, Get, Post("confirmed"), Post("cancelled")}

\* A signature arriving while the costing email is withdrawn, and the costing
\* and payment put right afterwards.
SignedStart  == {Enquiry(Couriered)}
SignedOffers == {Patch("signed", "Yes"), Patch("costing", "No"), Patch("costing", "Yes"),
                 Patch("payment", "Completed"), Post("confirmed")}

\* A regression of a Confirmed event while a manager cancels it.
ConfirmedStart == {Confirmed}
CancelOffers   == {Patch("costing", "No"), Post("cancelled")}

\* A regression while the event is being confirmed.
ReadyStart     == {Enquiry(Signed)}
ConfirmOffers  == {Patch("costing", "No"), Post("confirmed")}
=============================================================================
