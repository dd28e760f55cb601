--------------------------- MODULE FollowUpTasks ---------------------------
(***************************************************************************)
(* The automatic tasks of one event: one row of `tasks` per idempotency    *)
(* key, opened, completed, cancelled and reopened by the reconcilers that  *)
(* each request, and the cron worker, runs after its own write.            *)
(*                                                                         *)
(* The rules do not read each other's rows, so a behaviour follows the     *)
(* few tasks its scenario tracks and the fields those rules read.          *)
(*   e      the event: status, day (where today stands to the show dates), *)
(*          archived, closed (File Closed has a date), gate, and field,    *)
(*          the other checklist values, bookings and form sections         *)
(*   tasks  each tracked key to [st, note]: st is "none", "open" (that is,  *)
(*          open or in_progress), "completed" or "cancelled"               *)
(*   byUser the keys whose status a person wrote last                      *)
(*   owed   the automatic tasks a cancellation or regret closed and nobody *)
(*          has touched since                                              *)
(* A completion note is kept up to the comparisons made with it: "auto" is *)
(* any other text beginning "Completed automatically", "moot" any other    *)
(* text, "user" what a person wrote.                                       *)
(***************************************************************************)
EXTENDS ConfirmationGate

CONSTANT Scenarios

Day == {"undated", "upcoming", "running", "over"}

\* What a field outside the gate may say, up to what the rules tell apart.
valuesOf(f) ==
  CASE f \in {"poc", "section"} -> {"incomplete", "complete"}
    [] f = "booking" -> {"none", "tentative", "confirmed"}
    [] f \in {"instalment", "received"} -> {"No", "Yes"}
    [] f = "expected" -> {"blank", "later", "due"}
    [] f \in {"approval_required", "onstage_required"} -> {"Not Required", "Required"}
    [] f = "approval_status" -> ApprovalStatus
    [] OTHER -> {"blank", "dated"}

\* What the event form writes of them.
FormField == {"booking", "section", "poc"}

\* The fields a rule cannot be followed without.
neededBy(k) ==
  CASE k = "poc_incomplete" -> {"poc"}
    [] k = "readiness" -> {"section"}
    [] k = "payment_followup" -> {"booking"}
    [] k = "instalment" -> {"instalment", "expected", "received"}
    [] k = "send_file_to_accounts" -> {"file_sent_to_accounts"}
    [] OTHER -> {}

\* A scenario starts from an event that still runs, with its gate in order, and
\* tracks no task without the fields its rule reads.
ASSUME ScenariosAssumption ==
  \A s \in Scenarios :
    /\ s.status \in Status \ {"cancelled", "regret"} /\ s.day \in Day /\ s.days \subseteq Day
    /\ s.gate \in Gate /\ InOrder(s.gate)
    /\ s.field = [f \in DOMAIN s.field |-> s.field[f]]
    /\ \A f \in DOMAIN s.field : f \notin GateField /\ s.field[f] \in valuesOf(f)
    /\ \A f \in DOMAIN s.offers :
         s.offers[f] \subseteq IF f \in GateField THEN FieldValues[f] ELSE valuesOf(f)
    /\ \A form \in s.forms :
         DOMAIN form \subseteq FormField /\ \A f \in DOMAIN form : form[f] \in valuesOf(f)
    /\ \A k \in s.tasks : neededBy(k) \subseteq DOMAIN s.field

VARIABLES scenario, e, tasks, byUser, owed

vars == <<scenario, e, tasks, byUser, owed>>

AutoNote == {"auto", "settled", "booking_confirmed"}

Note == AutoNote \cup {"none", "user", "became", "phase", "closed", "not_due",
                       "booking_gone", "moot"}

terminal(ev) == ev.status \in {"cancelled", "regret"}

-----------------------------------------------------------------------------
(* Workflow phases (lifecycle-workflow-phase.ts).                          *)

getActiveWorkflowPhase(ev) ==
  IF terminal(ev) THEN "terminal"
  ELSE IF ev.status # "confirmed" THEN "confirm"
  ELSE IF ev.closed THEN "complete"
  ELSE CASE ev.day \in {"undated", "upcoming"} -> "event"
         [] ev.day = "running"                 -> "duringEvent"
         [] OTHER                              -> "accounts"

AccountsFileTask == {"accounts_file_sent", "send_back_edit_1", "accounts_file_edit_1",
                     "send_back_edit_2", "accounts_file_edit_2"}

workflowPhaseForTaskRule(k) ==
  CASE k \in {"poc_incomplete", "approval_followup", "confirmation_letter",
              "confirmation_make", "instalment", "payment_followup"} -> "confirm"
    [] k \in {"readiness", "onstage"} -> "event"
    [] k \in AccountsFileTask \cup {"feedback", "send_file_to_accounts",
             "tds_send_to_accounts", "refund_review"} -> "accounts"
    [] OTHER -> "none"

canGenerateTaskForPhase(k, phase) ==
  /\ phase \notin {"terminal", "complete"}
  /\ IF k \in {"instalment", "payment_followup"}
     THEN phase \in {"confirm", "event", "duringEvent"}
     ELSE workflowPhaseForTaskRule(k) \in {phase, "none"}

-----------------------------------------------------------------------------
(* What one UPDATE does to the rows of the keys K.                         *)

isOpen(t) == t.st = "open"

complete(T, K, note) ==
  [k \in DOMAIN T |-> IF k \in K /\ isOpen(T[k])
                      THEN [st |-> "completed", note |-> note] ELSE T[k]]

\* completion_note = COALESCE(completion_note, ...): a note left behind by an
\* earlier life of the task is kept.
settle(T, K) ==
  [k \in DOMAIN T |-> IF k \in K /\ isOpen(T[k])
                      THEN [st   |-> "completed",
                            note |-> IF T[k].note = "none" THEN "auto" ELSE T[k].note]
                      ELSE T[k]]

cancel(T, K, note) ==
  [k \in DOMAIN T |-> IF k \in K /\ isOpen(T[k])
                      THEN [st |-> "cancelled", note |-> note] ELSE T[k]]

\* Rows of K with status st and a note in N are opened again.
reopen(T, K, st, N) ==
  [k \in DOMAIN T |-> IF k \in K /\ T[k].st = st /\ T[k].note \in N
                      THEN [st |-> "open", note |-> "none"] ELSE T[k]]

\* An INSERT whose conflict clause leaves the status of an existing row alone.
insertNew(T, K) ==
  [k \in DOMAIN T |-> IF k \in K /\ T[k].st = "none"
                      THEN [st |-> "open", note |-> "none"] ELSE T[k]]

\* An INSERT whose conflict clause opens an existing row, or one not completed.
upsert(T, K) ==
  [k \in DOMAIN T |-> IF k \in K THEN [st |-> "open", note |-> "none"] ELSE T[k]]

upsertUnlessCompleted(T, K) ==
  [k \in DOMAIN T |-> IF k \in K /\ T[k].st # "completed"
                      THEN [st |-> "open", note |-> "none"] ELSE T[k]]

completeTasksForSourceRules(T, K) == complete(T, K, "auto")

reopenAutomaticallyCompletedTasks(ev, T, K) ==
  IF terminal(ev) THEN T ELSE reopen(T, K, "completed", AutoNote)

automatic(T) == DOMAIN T \ {"manual"}

\* Slip: the scan that cancels outside the phase forgets the payment rules.
cancelOutsidePhaseButPayment(ev, T) ==
  IF ev.archived THEN T
  ELSE cancel(T, {k \in automatic(T) \ {"poc_incomplete", "instalment", "payment_followup"} :
                    ~canGenerateTaskForPhase(k, getActiveWorkflowPhase(ev))}, "phase")

reconcileWorkflowPhaseTasks(ev, T) ==
  IF ev.archived THEN T
  ELSE cancel(T, {k \in automatic(T) \ {"poc_incomplete"} :
                    ~canGenerateTaskForPhase(k, getActiveWorkflowPhase(ev))}, "phase")

-----------------------------------------------------------------------------
(* The reconcilers, one per rule.                                          *)

\* The value of a checklist field, wherever it is kept.
value(ev, f) == IF f \in GateField THEN ev.gate[f] ELSE ev.field[f]

fieldsOf(ev) == GateField \cup DOMAIN ev.field

has(ev, f, v) == f \in fieldsOf(ev) /\ value(ev, f) = v

dated(ev, f) == has(ev, f, "dated")

TriggeredBy ==
  [approval_sent_on |-> "approval_followup", costing |-> "confirmation_make",
   couriered |-> "confirmation_letter",      onstage_asked_client |-> "onstage",
   feedback_sent |-> "feedback",
   tds_received_from_client_date |-> "tds_send_to_accounts",
   file_sent_to_accounts |-> "accounts_file_sent",
   file_received_back_edit_1 |-> "send_back_edit_1",
   file_sent_back_after_edit_1 |-> "accounts_file_edit_1",
   file_received_back_edit_2 |-> "send_back_edit_2",
   file_sent_back_after_edit_2 |-> "accounts_file_edit_2"]

AccountsFileFields == {"file_sent_to_accounts", "file_received_back_edit_1",
  "file_sent_back_after_edit_1", "file_received_back_edit_2",
  "file_sent_back_after_edit_2", "final_file_received"}

\* The task that waits for the date in this field (accounts file journeys).
AnsweredBy ==
  [file_received_back_edit_1 |-> "accounts_file_sent",
   file_sent_back_after_edit_1 |-> "send_back_edit_1",
   file_received_back_edit_2 |-> "accounts_file_edit_1",
   file_sent_back_after_edit_2 |-> "send_back_edit_2"]

\* Slip: a task is created although the final file is back.
createForFieldIgnoringFinal(ev, T, f, within) ==
  IF /\ f \in DOMAIN TriggeredBy \cap fieldsOf(ev)
     /\ value(ev, f) # "blank"
     /\ ev.archived \/ canGenerateTaskForPhase(TriggeredBy[f], getActiveWorkflowPhase(ev))
  THEN insertNew(T, {TriggeredBy[f]})
  ELSE T

\* within: Edit 1 came back within the follow-up window of the file's sending.
\* An archived event has no active phase, and then the phase is not asked.
maybeCreateTaskForChecklistItem(ev, T, f, within) ==
  IF /\ f \in DOMAIN TriggeredBy \cap fieldsOf(ev)
     /\ value(ev, f) # "blank"
     /\ ev.archived \/ canGenerateTaskForPhase(TriggeredBy[f], getActiveWorkflowPhase(ev))
     /\ TriggeredBy[f] \in AccountsFileTask => ~dated(ev, "final_file_received")
  THEN IF f = "file_sent_to_accounts" /\ dated(ev, "file_received_back_edit_1") /\ within
       THEN cancel(T, {"accounts_file_sent"}, "moot")
       ELSE insertNew(T, {TriggeredBy[f]})
  ELSE T

createForAllFields(ev, T, within) ==
  LET made == [f \in DOMAIN TriggeredBy |->
                 maybeCreateTaskForChecklistItem(ev, T, f, within)]
      of(k) == CHOOSE f \in DOMAIN TriggeredBy : TriggeredBy[f] = k
  IN  [k \in DOMAIN T |-> IF \E f \in DOMAIN TriggeredBy : TriggeredBy[f] = k
                          THEN made[of(k)][k] ELSE T[k]]

reconcilePocTask(ev, T) ==
  IF ev.archived \/ ~("poc" \in DOMAIN ev.field) THEN T
  ELSE CASE terminal(ev) -> cancel(T, {"poc_incomplete"}, "moot")
         [] ~terminal(ev) /\ ev.field.poc = "complete" -> complete(T, {"poc_incomplete"}, "auto")
         [] OTHER -> upsertUnlessCompleted(T, {"poc_incomplete"})

\* A row that is opened or reopened loses the note that closed it.
awaitPayment(T) ==
  LET K == {"payment_followup"}
      R == reopen(reopen(insertNew(T, K), K, "cancelled", {"booking_gone"}),
                  K, "completed", {"booking_confirmed"})
  IN  [k \in DOMAIN R |-> IF k \in K /\ R[k].note \in {"booking_gone", "booking_confirmed"}
                          THEN [R[k] EXCEPT !.note = "none"] ELSE R[k]]

dropRow(T, K) ==
  [k \in DOMAIN T |-> IF k \in K THEN [st |-> "none", note |-> "none"] ELSE T[k]]

\* The task of a booking that is gone is cancelled; the next booking has a key
\* of its own, so the row of the old one is then dropped here.
reconcileTentativeVenuePaymentTasks(ev, T) ==
  LET K == {"payment_followup"}
  IN  IF ~("booking" \in DOMAIN ev.field) THEN T
      ELSE IF ev.field.booking = "none" THEN dropRow(T, K)
      ELSE IF ev.archived \/ terminal(ev) THEN cancel(T, K, "booking_gone")
      ELSE IF ev.field.booking = "confirmed" THEN complete(T, K, "booking_confirmed")
      ELSE IF ev.gate.payment = "Completed" THEN complete(T, K, "settled")
      ELSE awaitPayment(T)

reconcileReadinessTasks(ev, T) ==
  IF ev.archived \/ ~("section" \in DOMAIN ev.field) THEN T
  ELSE CASE terminal(ev) -> cancel(T, {"readiness"}, "moot")
         [] ~terminal(ev) /\ ev.field.section = "complete" -> complete(T, {"readiness"}, "auto")
         [] ~terminal(ev) /\ ev.field.section # "complete" /\ getActiveWorkflowPhase(ev) # "event" ->
              cancel(T, {"readiness"}, "moot")
         [] OTHER -> upsert(T, {"readiness"})

reconcileFileToAccountsReminder(ev, T) ==
  LET K == {"send_file_to_accounts"} IN
  IF /\ ~ev.archived /\ getActiveWorkflowPhase(ev) = "accounts"
     /\ "file_sent_to_accounts" \in DOMAIN ev.field /\ ~dated(ev, "file_sent_to_accounts")
  THEN reopen(insertNew(T, K), K, "cancelled", {"not_due"})
  ELSE cancel(T, K, "not_due")

\* expected: blank, later (after today) or due.
reconcileInstalmentTasks(ev, T) ==
  LET K == {"instalment"}
      expects == ev.field.instalment = "Yes" /\ ev.field.received # "Yes"
  IN  IF ~("instalment" \in DOMAIN ev.field) THEN T
      ELSE IF ev.gate.payment = "Completed" THEN complete(T, K, "settled")
      ELSE IF ev.field.instalment = "Yes" /\ ev.field.received = "Yes" THEN complete(T, K, "auto")
      ELSE IF ~expects \/ ev.field.expected # "due" THEN cancel(T, K, "moot")
      ELSE IF ev.archived \/ canGenerateTaskForPhase("instalment", getActiveWorkflowPhase(ev))
           THEN insertNew(T, K) ELSE T

-----------------------------------------------------------------------------
(* The follow-ups of the checklist, healed after every edit and read.      *)

reconcileConfirmationLetterTasks(ev, T) ==
  LET make == {"confirmation_make"}
      sign == {"confirmation_letter"}
      T1   == CASE ev.gate.made = "Yes" -> settle(T, make)
                [] ev.gate.made # "Yes" /\ ev.gate.costing = "Yes" ->
                     reopen(T, make, "completed", Note)
                [] OTHER -> T
  IN  CASE ev.gate.signed = "Yes" -> settle(T1, sign)
        [] ev.gate.signed # "Yes" /\ (ev.gate.couriered = "blank" \/ ev.gate.made # "Yes") ->
             cancel(T1, sign, "moot")
        [] OTHER -> T1

\* The approval, OnStage and feedback follow-ups, each with its condition.
satisfied(ev, k) ==
  CASE k = "approval_followup" ->
         has(ev, "approval_required", "Not Required") \/ dated(ev, "approval_received_on")
    [] k = "onstage" ->
         has(ev, "onstage_required", "Not Required") \/ dated(ev, "onstage_received_from_client")
    [] k = "feedback" -> dated(ev, "feedback_received")
    [] OTHER -> FALSE

reconcileFollowUpTasks(ev, T) ==
  LET T1 == reconcileConfirmationLetterTasks(ev, T)
  IN  settle(T1, {k \in DOMAIN T : satisfied(ev, k)})

\* The task completed by field f, and the values of f that complete it.
CompletionByField ==
  [approval_required |-> "approval_followup", approval_received_on |-> "approval_followup",
   signed |-> "confirmation_letter",          onstage_required |-> "onstage",
   onstage_received_from_client |-> "onstage", feedback_received |-> "feedback",
   file_sent_to_accounts |-> "send_file_to_accounts",
   tds_certificate_sent_to_accounts |-> "tds_send_to_accounts"]

completes(f, v) ==
  IF f \in {"approval_required", "onstage_required"} THEN v = "Not Required"
  ELSE IF f = "signed" THEN v = "Yes" ELSE v = "dated"

\* The received box of an instalment reopens its task whatever the event's
\* status: that UPDATE has no terminal guard.
maybeCompleteTasksForChecklistUpdate(ev, T, f, v) ==
  CASE f = "final_file_received" ->
         IF v = "dated" THEN completeTasksForSourceRules(T, AccountsFileTask)
         ELSE reopenAutomaticallyCompletedTasks(ev, T, AccountsFileTask)
    [] f \in DOMAIN AnsweredBy /\ v = "dated" -> complete(T, {AnsweredBy[f]}, "auto")
    [] f = "payment" /\ v = "Completed" ->
         complete(T, {"instalment", "payment_followup"}, "settled")
    [] f = "received" ->
         IF v = "Yes" THEN complete(T, {"instalment"}, "auto")
         ELSE reopen(T, {"instalment"}, "completed", AutoNote)
    [] f \in DOMAIN CompletionByField ->
         IF completes(f, v) THEN completeTasksForSourceRules(T, {CompletionByField[f]})
         ELSE reopenAutomaticallyCompletedTasks(ev, T, {CompletionByField[f]})
    [] OTHER -> T

-----------------------------------------------------------------------------
(* Changes of status.                                                      *)

taskRulesCompletedByLifecycleTransition(from, to) ==
  IF from = "confirmed" THEN {}
  ELSE {k \in {"approval_followup", "confirmation_letter"} :
          \/ k = "approval_followup" /\ to \in {"approved", "confirmed"}
          \/ k = "confirmation_letter" /\ to = "confirmed"}

createConfirmedCancellationRefundTask(T) ==
  reopen(insertNew(T, {"refund_review"}), {"refund_review"}, "cancelled", Note)

\* Slip: the tasks closed with the event are closed without a note of why.
transitionWithoutNote(ev, T, from, to) ==
  CASE to \in {"cancelled", "regret"} -> cancel(T, DOMAIN T, "moot")
    [] from \in {"cancelled", "regret"} -> reopen(T, automatic(T), "cancelled", {"became"})
    [] OTHER -> completeTasksForSourceRules(T, taskRulesCompletedByLifecycleTransition(from, to))

reconcileTasksForLifecycleTransition(ev, T, from, to) ==
  IF to \in {"cancelled", "regret"}
  THEN IF from = "confirmed" /\ to = "cancelled"
       THEN createConfirmedCancellationRefundTask(cancel(T, DOMAIN T, "became"))
       ELSE cancel(T, DOMAIN T, "became")
  ELSE completeTasksForSourceRules(
         IF from \in {"cancelled", "regret"}
         THEN reopen(T, automatic(T), "cancelled", {"became"}) ELSE T,
         taskRulesCompletedByLifecycleTransition(from, to))

\* What POST status runs once the new status is written.
afterStatusChange(ev, T, from) ==
  reconcileWorkflowPhaseTasks(ev,
    reconcilePocTask(ev,
      reconcileFileToAccountsReminder(ev,
        reconcileReadinessTasks(ev,
          reconcileTentativeVenuePaymentTasks(ev,
            reconcileTasksForLifecycleTransition(ev, T, from, ev.status))))))

withBooking(ev, from, to) ==
  IF has(ev, "booking", from) THEN [ev EXCEPT !.field["booking"] = to] ELSE ev

row(ev) ==
  [eventType |-> IF "approval_status" \in DOMAIN ev.field THEN "VFH" ELSE "other",
   approval  |-> IF "approval_status" \in DOMAIN ev.field
                 THEN ev.field.approval_status ELSE "not_required",
   showDate  |-> ev.day # "undated",
   poc       |-> ~has(ev, "poc", "incomplete"),
   gate      |-> ev.gate]

\* reconcileConfirmedStatusForBlockers; a transition out of confirmed into the
\* pipeline completes and reopens nothing by itself.
demote(ev, T, target) ==
  IF /\ ev.status = "confirmed" /\ ~ev.archived
     /\ blockersForTransition(row(ev), "confirmed") # {}
  THEN LET d == withBooking([ev EXCEPT !.status = target], "confirmed", "tentative")
       IN  [e |-> d,
            T |-> reconcileWorkflowPhaseTasks(d, reconcilePocTask(d,
                    reconcileReadinessTasks(d, reconcileTentativeVenuePaymentTasks(d, T))))]
  ELSE [e |-> ev, T |-> T]

-----------------------------------------------------------------------------
Init ==
  /\ scenario \in Scenarios
  /\ e = [status |-> scenario.status, day |-> scenario.day, archived |-> FALSE,
          closed |-> FALSE, gate |-> scenario.gate, field |-> scenario.field]
  /\ tasks = reconcileReadinessTasks(e, reconcileTentativeVenuePaymentTasks(e,
               reconcilePocTask(e, [k \in scenario.tasks |->
                 [st |-> IF k = "manual" THEN "open" ELSE "none", note |-> "none"]])))
  /\ byUser = {}
  /\ owed = {}

\* A person's hold on a task ends when a reconciler writes its status.
Remember ==
  /\ byUser' = {k \in byUser : tasks'[k].st = tasks[k].st}
  /\ owed' = IF terminal(e') THEN owed ELSE {}
  /\ UNCHANGED scenario

\* approval_status as syncEventFieldsFromChecklist leaves it.
syncApprovalStatus(ev, f, v) ==
  LET s == IF "approval_status" \in DOMAIN ev.field THEN ev.field.approval_status ELSE "none"
      to(x) == [ev EXCEPT !.field["approval_status"] = x]
  IN  CASE f = "approval_required" /\ v = "Not Required" -> to("not_required")
        [] f = "approval_required" /\ v = "Required" /\ s # "received" -> to("pending")
        [] f = "approval_sent_on" /\ v = "dated" /\ s # "received" -> to("sent")
        [] f = "approval_received_on" /\ v = "dated" -> to("received")
        [] OTHER -> ev

written(f, v) ==
  IF f \in GateField THEN [e EXCEPT !.gate = patchGate(e.gate, f, v)]
  ELSE syncApprovalStatus([e EXCEPT !.field[f] = v], f, v)

AccountsModule == AccountsFileFields \cup {"tds_received_from_client_date",
                                           "tds_certificate_sent_to_accounts"}

\* Slip: the heals that follow every edit are left out.
EditWithoutHealing(ev, f, v, within, target) ==
  LET T1 == reconcilePocTask(ev, tasks)
      T2 == IF f \in {"instalment", "expected", "received"}
            THEN reconcileInstalmentTasks(ev, T1)
            ELSE maybeCreateTaskForChecklistItem(ev, T1, f, within)
      d  == demote(ev, maybeCompleteTasksForChecklistUpdate(ev, T2, f, v), target)
  IN  e' = d.e /\ tasks' = d.T

\* The task side of updateChecklistItem for any field but file_closed, from the
\* event as the write and its gate reconcilers left it.
AfterEdit(ev, f, v, within, target) ==
  LET fell == f # "payment" /\ e.gate.payment = "Completed" /\ ev.gate.payment # "Completed"
      back == /\ f \in {"costing", "proforma", "payment"}
              /\ <<e.gate.couriered, e.gate.signed>> # <<ev.gate.couriered, ev.gate.signed>>
      T1 == IF fell THEN reopenAutomaticallyCompletedTasks(ev, tasks, {"instalment"}) ELSE tasks
      T2 == IF back THEN reopenAutomaticallyCompletedTasks(ev, T1, {"confirmation_letter"}) ELSE T1
      T3 == reconcilePocTask(ev, T2)
      T4 == IF f \in {"instalment", "expected", "received"}
            THEN reconcileInstalmentTasks(ev, T3)
            ELSE maybeCreateTaskForChecklistItem(ev, T3, f, within)
      T5 == maybeCompleteTasksForChecklistUpdate(ev, T4, f, v)
      T6 == reconcileFollowUpTasks(ev, T5)
      T7 == IF f = "feedback_sent" \/ f \in AccountsModule
            THEN reconcileWorkflowPhaseTasks(ev, T6) ELSE T6
      d  == demote(ev, T7, target)
  IN  e' = d.e /\ tasks' = d.T

\* PATCH of a checklist item.
PatchChecklist(f, v, within, target) ==
  /\ f \in GateField => patchAllowed(e.gate, f, v)
  /\ AfterEdit(written(f, v), f, v, within, target)
  /\ Remember

\* What getFileCloseBlockers asks of the fields a scenario keeps.
mayClose ==
  /\ \A f \in {"feedback_sent", "feedback_received", "file_sent_to_accounts",
               "final_file_received"} \cap DOMAIN e.field : dated(e, f)
  /\ "file_sent_to_accounts" \in DOMAIN e.field =>
       dated(e, "file_received_back_edit_1") \/ dated(e, "file_received_back_edit_2")

\* PATCH of file_closed with a date.
CloseFile(target) ==
  /\ "close" \in scenario.moves /\ mayClose
  /\ LET ev == [e EXCEPT !.closed = TRUE]
         T1 == reconcileFollowUpTasks(ev, reconcilePocTask(ev, tasks))
         T2 == reconcileWorkflowPhaseTasks(ev, T1)
         d  == demote(ev, cancel(T2, automatic(T2), "closed"), target)
     IN  e' = d.e /\ tasks' = d.T
  /\ Remember

rescheduleAutomaticTasks(ev, T, within) ==
  reconcileWorkflowPhaseTasks(ev, reconcileFileToAccountsReminder(ev,
    reconcileFollowUpTasks(ev, reconcileInstalmentTasks(ev, createForAllFields(ev, T, within)))))

\* Slip: reopening the file only reschedules.
ReopenFileByRescheduling(within, target) ==
  /\ e.closed
  /\ LET ev == [e EXCEPT !.closed = FALSE]
         T1 == reconcileFollowUpTasks(ev, reconcilePocTask(ev, tasks))
         T2 == reconcileWorkflowPhaseTasks(ev, T1)
         d  == demote(ev, rescheduleAutomaticTasks(ev, T2, within), target)
     IN  e' = d.e /\ tasks' = d.T
  /\ Remember

\* PATCH of a closed file_closed that takes its date away.
ReopenFile(within, target) ==
  /\ e.closed
  /\ LET ev == [e EXCEPT !.closed = FALSE]
         T1 == reconcileFollowUpTasks(ev, reconcilePocTask(ev, tasks))
         T2 == reopen(reconcileWorkflowPhaseTasks(ev, T1), automatic(T1), "cancelled", {"closed"})
         d  == demote(ev, rescheduleAutomaticTasks(ev, T2, within), target)
     IN  e' = d.e /\ tasks' = d.T
  /\ Remember

\* GET checklist.
ReadChecklist ==
  /\ tasks' = reconcileFollowUpTasks(e, tasks)
  /\ UNCHANGED e
  /\ Remember

\* PATCH /tasks/:id.  A status and a note are both optional.
PatchTask(k, st, noted) ==
  /\ "user" \in scenario.moves /\ tasks[k].st # "none"
  /\ tasks' = [tasks EXCEPT ![k] = [st |-> st, note |-> IF noted THEN "user" ELSE @.note]]
  /\ byUser' = byUser \cup {k}
  /\ owed' = owed \ {k}
  /\ UNCHANGED <<scenario, e>>

\* PUT: the form's dates, booking, section and contact, any of them left out.
EditEvent(day, form) ==
  /\ "form" \in scenario.moves /\ ~e.archived
  /\ e' = [e EXCEPT !.day = day, !.field = [f \in DOMAIN @ |->
            IF f \in DOMAIN form THEN form[f] ELSE @[f]]]
  /\ tasks' = reconcileReadinessTasks(e', reconcileTentativeVenuePaymentTasks(e',
                reconcilePocTask(e', IF day = e.day THEN tasks
                                     ELSE reconcileFileToAccountsReminder(e', tasks))))
  /\ Remember

\* POST status, accepted.
StatusChange(to) ==
  /\ to \in scenario.statuses
  /\ canTransition(e.status, to)
  /\ to = "confirmed" => canConfirm(row(e))
  /\ blockersForTransition(row(e), to) = {}
  /\ LET moved == [e EXCEPT !.status = to]
     IN  e' = IF to = "confirmed" THEN withBooking(moved, "tentative", "confirmed") ELSE moved
  /\ tasks' = afterStatusChange(e', tasks, e.status)
  /\ byUser' = {k \in byUser : tasks'[k].st = tasks[k].st}
  /\ owed' = IF to \in {"cancelled", "regret"} /\ ~terminal(e)
             THEN {k \in automatic(tasks) : isOpen(tasks[k])} ELSE {}
  /\ UNCHANGED scenario

Archive ==
  /\ "archive" \in scenario.moves /\ ~e.archived
  /\ e' = [e EXCEPT !.archived = TRUE]
  /\ tasks' = [k \in DOMAIN tasks |-> IF isOpen(tasks[k])
                                      THEN [tasks[k] EXCEPT !.st = "cancelled"] ELSE tasks[k]]
  /\ Remember

\* Midnight: the show begins, ends, or an expected instalment becomes due.
DayPasses ==
  /\ \/ \E day \in {"running", "over"} :
          /\ "day" \in scenario.moves
          /\ <<e.day, day>> \in {<<"upcoming", "running">>, <<"upcoming", "over">>,
                                 <<"running", "over">>}
          /\ e' = [e EXCEPT !.day = day]
     \/ has(e, "expected", "later") /\ e' = [e EXCEPT !.field["expected"] = "due"]
  /\ UNCHANGED tasks
  /\ Remember

\* Slip: the cron worker does not look at bookings.
cronWithoutPayment(ev, T, within) ==
  LET T1   == createForAllFields(ev, T, within)
      live == ~ev.archived /\ ~terminal(ev)
      T2   == IF ev.status = "confirmed" \/ \E k \in DOMAIN T1 :
                   k = "send_file_to_accounts" /\ isOpen(T1[k])
              THEN reconcileFileToAccountsReminder(ev, T1) ELSE T1
  IN  IF live
      THEN reconcileInstalmentTasks(ev, reconcileWorkflowPhaseTasks(ev,
             reconcileReadinessTasks(ev, reconcilePocTask(ev, T2))))
      ELSE T2

\* rescheduleAllAutomaticTasks, this event's part of it.
rescheduleAllAutomaticTasks(ev, T, within) ==
  LET T1   == createForAllFields(ev, T, within)
      live == ~ev.archived /\ ~terminal(ev)
      T2   == IF ev.status = "confirmed" \/ \E k \in DOMAIN T1 :
                   k = "send_file_to_accounts" /\ isOpen(T1[k])
              THEN reconcileFileToAccountsReminder(ev, T1) ELSE T1
  IN  IF live
      THEN reconcileInstalmentTasks(ev, reconcileWorkflowPhaseTasks(ev,
             reconcileReadinessTasks(ev, reconcileTentativeVenuePaymentTasks(ev,
               reconcilePocTask(ev, T2)))))
      ELSE T2

Cron(within) ==
  /\ tasks' = rescheduleAllAutomaticTasks(e, tasks, within)
  /\ UNCHANGED e
  /\ Remember

ChecklistEdit ==
  \E within \in scenario.windows, target \in scenario.statuses \cap {"tentative", "approved"} :
    \/ \E f \in DOMAIN scenario.offers : \E v \in scenario.offers[f] :
         PatchChecklist(f, v, within, target)
    \/ CloseFile(target)
    \/ ReopenFile(within, target)

Next ==
  \/ ChecklistEdit
  \/ ReadChecklist
  \/ \E k \in DOMAIN tasks, st \in {"open", "completed", "cancelled"}, noted \in BOOLEAN :
       PatchTask(k, st, noted)
  \/ \E day \in scenario.days, form \in scenario.forms : EditEvent(day, form)
  \/ \E to \in Status : StatusChange(to)
  \/ Archive
  \/ DayPasses
  \/ \E within \in scenario.windows : Cron(within)

Spec == Init /\ [][Next]_vars

-----------------------------------------------------------------------------
(* Properties.                                                             *)

letterPending(ev) == ev.gate.couriered = "dated" /\ ev.gate.signed = "No"

\* The rule of task k still asks for it on event ev: its phase has that work and
\* its own condition, read off the values and not off any row, holds.
due(ev, k) ==
  /\ k # "poc_incomplete" => canGenerateTaskForPhase(k, getActiveWorkflowPhase(ev))
  /\ CASE k = "poc_incomplete"   -> ev.field.poc = "incomplete"
       [] k = "readiness"        -> ev.field.section = "incomplete"
       [] k = "payment_followup" ->
            ev.field.booking = "tentative" /\ ev.gate.payment # "Completed"
       [] k = "instalment" ->
            /\ ev.field.instalment = "Yes" /\ ev.field.expected = "due"
            /\ ev.field.received = "No" /\ ev.gate.payment # "Completed"
       [] k = "send_file_to_accounts" -> ~dated(ev, "file_sent_to_accounts")
       [] OTHER -> TRUE

\* Whatever requests, days and people left behind, one run of the scheduler puts
\* the work list of a live event right: in every state it would leave open no
\* automatic task that is not due.
CronSettles ==
  ~e.archived /\ ~terminal(e) =>
    \A within \in scenario.windows :
      LET T == rescheduleAllAutomaticTasks(e, tasks, within)
      IN  \A k \in automatic(T) : isOpen(T[k]) => due(e, k)

\* A checklist edit or read leaves no follow-up open whose question has been
\* answered, not even one a person reopened or a reopened file brought back.
EditsAndReadsSettle ==
  [][ChecklistEdit \/ ReadChecklist =>
       \A k \in DOMAIN tasks' : isOpen(tasks'[k]) =>
         /\ ~satisfied(e', k)
         /\ k = "confirmation_make" => e'.gate.made = "No"
         /\ k = "confirmation_letter" => letterPending(e')]_vars

\* What a cancellation or regret closed comes back when the event is reopened,
\* as far as the phase it is reopened into has that work and its reason stands.
ReopeningRestores ==
  [][terminal(e) /\ ~terminal(e') /\ ~e.archived =>
       \A k \in owed :
         /\ canGenerateTaskForPhase(k, getActiveWorkflowPhase(e'))
         /\ k = "poc_incomplete" => e.field.poc = "incomplete"
         /\ k = "payment_followup" => e.field.booking = "tentative" /\ e.gate.payment # "Completed"
         => isOpen(tasks'[k])]_vars

\* The rules whose rows a machine may reopen on a cancelled event: un-ticking
\* Received or Made does not ask for the status, nor does reopening the file,
\* and the phase reconciler that follows it spares the contact reminder.
Unguarded == {"instalment", "confirmation_make", "poc_incomplete"}

\* While an event is cancelled or regretted nobody is sent after it: no request,
\* cron run or edit opens one of its tasks, but a person may.
TerminalIsQuiet ==
  terminal(e) /\ ~e.archived =>
    \A k \in DOMAIN tasks \ Unguarded : isOpen(tasks[k]) => k \in byUser

\* Task k is due and its question is open.
stillAsked(ev, k) ==
  /\ due(ev, k) /\ ~satisfied(ev, k)
  /\ k = "confirmation_make" => ev.gate.made = "No"
  /\ k = "confirmation_letter" => letterPending(ev)
  /\ k = "accounts_file_sent" => ~dated(ev, "file_received_back_edit_1")

\* Closing the file and reopening it are inverse on the work still asked for.
\* Closing puts each open task that the rules still ask for aside, with the note of
\* the closing; reopening brings each such task back, unless its question was
\* answered in between.  (For requests that demote nothing.)  What this covers
\* depends on the status: in the pipeline it is all the work of the event's phase,
\* but a Confirmed event with its file closed has no phase to work in, so the phase
\* reconciler, which runs first, takes its tasks away under its own note, and those
\* do NOT come back: there it covers the contact reminder alone.
ReopenedFileRestores ==
  [][~e.archived /\ e'.status = e.status =>
       \A k \in automatic(tasks) : stillAsked(e', k) =>
         /\ ~e.closed /\ e'.closed /\ ~terminal(e) /\ isOpen(tasks[k])
              => tasks'[k] = [st |-> "cancelled", note |-> "closed"]
         /\ e.closed /\ ~e'.closed /\ tasks[k] = [st |-> "cancelled", note |-> "closed"]
              => isOpen(tasks'[k])]_vars

\* Once the final file is back no journey of the file is followed up any more,
\* in whatever order its dates were entered and whatever the event went through.
\* (An archived event can be reopened by status, and then no phase is asked.)
FinalFileIsFinal ==
  ~e.archived /\ dated(e, "final_file_received") =>
    \A k \in AccountsFileTask \cap DOMAIN tasks : isOpen(tasks[k]) => k \in byUser

\* Stated by operations.test.ts:1244: cancelling a confirmed event creates an
\* Accounts refund review.
RefundReviewIsOpened ==
  [][e.status = "confirmed" /\ e'.status = "cancelled" =>
       isOpen(tasks'["refund_review"])]_vars
=============================================================================
