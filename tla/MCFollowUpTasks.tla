-------------------------- MODULE MCFollowUpTasks --------------------------
(* FollowUpTasks for TLC: one scenario per rule or pair of rules, each with *)
(* the fields that drive it and the requests that can disturb it.           *)
EXTENDS FollowUpTasks, TLC

\* Everything signed: only taking Signed back demotes.
SignedGate ==
  [costing |-> "Yes", proforma |-> "Sent", payment |-> "Completed", made |-> "Yes",
   couriered |-> "dated", signed |-> "Yes", letter |-> "signed_received"]

\* Made, and the money still to come.
MadeGate == [SignedGate EXCEPT !.payment = "Incomplete", !.couriered = "blank",
                               !.signed = "No", !.letter = "made"]

AllOf(f) == [x \in {f} |-> FieldValues[x]]

Date == {"blank", "dated"}

blank(F) == [f \in F |-> "blank"]

dates(F) == [f \in F |-> Date]

Base == [tasks |-> {}, gate |-> SignedGate, field |-> <<>>, offers |-> AllOf("signed"),
         forms |-> {<<>>}, status |-> "tentative", day |-> "upcoming",
         statuses |-> {"tentative", "confirmed", "cancelled"}, windows |-> {FALSE},
         days |-> {"undated", "upcoming", "over"},
         moves |-> {"day", "user", "form", "close"}]

Letter == [Base EXCEPT !.tasks = {"confirmation_make", "confirmation_letter"},
                       !.gate = SeededGate, !.offers = FieldValues,
                       !.moves = {"user"}]

ApprovalScenario ==
  [Base EXCEPT !.tasks = {"approval_followup", "manual"},
     !.field = [approval_required |-> "Not Required", approval_status |-> "not_required"] @@
               blank({"approval_sent_on", "approval_received_on"}),
     !.offers = [approval_required |-> {"Not Required", "Required"}] @@
                dates({"approval_sent_on", "approval_received_on"}),
     !.statuses = Status, !.moves = {"archive", "close"}]

Onstage ==
  [Base EXCEPT !.tasks = {"onstage"},
     !.field = [onstage_required |-> "Required"] @@
               blank({"onstage_asked_client", "onstage_received_from_client"}),
     !.offers = @ @@ [onstage_required |-> {"Not Required", "Required"}] @@
                dates({"onstage_asked_client", "onstage_received_from_client"})]

Feedback ==
  [Base EXCEPT !.tasks = {"feedback"},
     !.field = blank({"feedback_sent", "feedback_received"}),
     !.offers = @ @@ dates({"feedback_sent", "feedback_received"})]

Tds ==
  [Base EXCEPT !.tasks = {"tds_send_to_accounts"},
     !.field = blank({"tds_received_from_client_date", "tds_certificate_sent_to_accounts"}),
     !.offers = @ @@ dates({"tds_received_from_client_date", "tds_certificate_sent_to_accounts"})]

\* The journeys overlap in the middle one, so each scenario keeps a bit of the other.
Journeys(K, F) ==
  [Base EXCEPT !.tasks = K, !.field = blank(F), !.offers = @ @@ dates(F),
     !.status = "confirmed", !.day = "over", !.windows = BOOLEAN, !.moves = {"close"}]

Edit1 == Journeys({"accounts_file_sent", "send_back_edit_1", "accounts_file_edit_1"},
                  {"file_sent_to_accounts", "file_received_back_edit_1",
                   "file_sent_back_after_edit_1", "final_file_received"})

Edit2 == Journeys({"accounts_file_edit_1", "send_back_edit_2", "accounts_file_edit_2"},
                  {"file_sent_back_after_edit_1", "file_received_back_edit_2",
                   "file_sent_back_after_edit_2", "final_file_received"})

Reminder ==
  [Base EXCEPT !.tasks = {"send_file_to_accounts"},
     !.field = blank({"file_sent_to_accounts", "file_received_back_edit_1", "final_file_received"}),
     !.offers = @ @@ dates({"file_sent_to_accounts", "file_received_back_edit_1",
                            "final_file_received"})]

Instalment ==
  [Base EXCEPT !.tasks = {"instalment"}, !.gate = MadeGate,
     !.field = [instalment |-> "No", expected |-> "blank", received |-> "No"],
     !.offers = AllOf("signed") @@ AllOf("payment") @@ AllOf("couriered") @@ AllOf("proforma") @@
                [instalment |-> {"No", "Yes"}, expected |-> {"blank", "later", "due"},
                 received |-> {"No", "Yes"}],
     !.moves = {"user", "close"}]

forms(f, V) == {f :> v : v \in V}

Payment ==
  [Base EXCEPT !.tasks = {"payment_followup"}, !.gate = MadeGate,
     !.field = [booking |-> "tentative"],
     !.offers = AllOf("signed") @@ AllOf("payment") @@ AllOf("couriered"),
     !.forms = forms("booking", {"none", "tentative", "confirmed"})]

Readiness ==
  [Base EXCEPT !.tasks = {"readiness"}, !.field = [section |-> "incomplete"],
     !.offers = @ @@ [section |-> {"incomplete", "complete"}],
     !.forms = forms("section", {"incomplete", "complete"})]

Poc ==
  [Base EXCEPT !.tasks = {"poc_incomplete"}, !.field = [poc |-> "incomplete"],
     !.offers = @ @@ [poc |-> {"incomplete", "complete"}],
     !.forms = forms("poc", {"incomplete", "complete"})]

Refund == [Base EXCEPT !.tasks = {"refund_review", "manual"}]

MCScenarios == {Letter, ApprovalScenario, Onstage, Feedback, Tds, Edit1, Edit2, Reminder,
                Instalment, Payment, Readiness, Poc, Refund}

RefundScenario == {Refund}
=============================================================================
