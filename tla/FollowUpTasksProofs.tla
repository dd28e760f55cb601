------------------------ MODULE FollowUpTasksProofs ------------------------
(***************************************************************************)
(* The automatic tasks of an event, for every scenario: any set of rules   *)
(* followed together, any fields, any requests, any days.                  *)
(*                                                                         *)
(* A request is a chain of reconcilers.  Each is shown to open no tasks    *)
(* but those of its own rule (Opens), and the chain then opens what its    *)
(* links open.                                                             *)
(***************************************************************************)
EXTENDS FollowUpTasks, ConfirmationGateProofs

Rows == [st : {"none", "open", "completed", "cancelled"}, note : Note]

\* From T to U no task outside K is opened, and none is closed with the file.
Opens(D, K, T, U) ==
  /\ T \in [D -> Rows] /\ U \in [D -> Rows]
  /\ \A k \in D : /\ isOpen(U[k]) => isOpen(T[k]) \/ k \in K
                  /\ U[k].note = "closed" => T[k].note = "closed"

LEMMA OpensChain ==
  ASSUME NEW D, NEW K, NEW T, NEW U, NEW V, Opens(D, K, T, U), Opens(D, K, U, V)
  PROVE  Opens(D, K, T, V)
  BY DEF Opens

LEMMA OpensNothing ==
  ASSUME NEW D, NEW K, NEW T \in [D -> Rows]
  PROVE  Opens(D, K, T, T)
  BY DEF Opens

-----------------------------------------------------------------------------
\* One UPDATE.

LEMMA UpdatesKeepRows ==
  ASSUME NEW D, NEW T \in [D -> Rows], NEW K, NEW note \in Note, NEW st, NEW N
  PROVE  /\ complete(T, K, note) \in [D -> Rows]
         /\ settle(T, K) \in [D -> Rows]
         /\ cancel(T, K, note) \in [D -> Rows]
         /\ dropRow(T, K) \in [D -> Rows]
         /\ reopen(T, K, st, N) \in [D -> Rows]
         /\ insertNew(T, K) \in [D -> Rows]
         /\ upsert(T, K) \in [D -> Rows]
         /\ upsertUnlessCompleted(T, K) \in [D -> Rows]
<1> USE DEF Rows, Note, AutoNote, isOpen
<1>1. complete(T, K, note) \in [D -> Rows] BY DEF complete
<1>2. settle(T, K) \in [D -> Rows] BY DEF settle
<1>3. cancel(T, K, note) \in [D -> Rows] BY DEF cancel
<1>4. dropRow(T, K) \in [D -> Rows] BY DEF dropRow
<1>5. reopen(T, K, st, N) \in [D -> Rows] BY DEF reopen
<1>6. insertNew(T, K) \in [D -> Rows] BY DEF insertNew
<1>7. upsert(T, K) \in [D -> Rows] BY DEF upsert
<1>8. upsertUnlessCompleted(T, K) \in [D -> Rows] BY DEF upsertUnlessCompleted
<1> QED BY <1>1, <1>2, <1>3, <1>4, <1>5, <1>6, <1>7, <1>8

\* Completing, cancelling and dropping open nothing.
LEMMA ClosingOpens ==
  ASSUME NEW D, NEW L, NEW T \in [D -> Rows], NEW K, NEW note \in Note \ {"closed"}
  PROVE  Opens(D, L, T, complete(T, K, note)) /\ Opens(D, L, T, cancel(T, K, note))
<1>0. complete(T, K, note) \in [D -> Rows] /\ cancel(T, K, note) \in [D -> Rows]
  BY UpdatesKeepRows
<1>1. Opens(D, L, T, complete(T, K, note)) BY <1>0 DEF Opens, complete, isOpen, Rows
<1>2. Opens(D, L, T, cancel(T, K, note)) BY <1>0 DEF Opens, cancel, isOpen, Rows
<1> QED BY <1>1, <1>2

LEMMA SettlingOpens ==
  ASSUME NEW D, NEW L, NEW T \in [D -> Rows], NEW K
  PROVE  Opens(D, L, T, settle(T, K)) /\ Opens(D, L, T, dropRow(T, K))
<1>0. settle(T, K) \in [D -> Rows] /\ dropRow(T, K) \in [D -> Rows]
  <2>1. "none" \in Note BY DEF Note
  <2> QED BY <2>1, UpdatesKeepRows
<1>1. Opens(D, L, T, settle(T, K)) BY <1>0 DEF Opens, settle, isOpen, Rows
<1>2. Opens(D, L, T, dropRow(T, K)) BY <1>0 DEF Opens, dropRow, isOpen, Rows
<1> QED BY <1>1, <1>2

\* The other UPDATEs open rows of K only.
LEMMA ReopenOpens ==
  ASSUME NEW D, NEW L, NEW T \in [D -> Rows], NEW K, K \subseteq L, NEW st, NEW N
  PROVE  Opens(D, L, T, reopen(T, K, st, N))
<1>1. "none" \in Note BY DEF Note
<1>2. reopen(T, K, st, N) \in [D -> Rows] BY <1>1, UpdatesKeepRows
<1> QED BY <1>2 DEF Opens, reopen, isOpen, Rows

LEMMA InsertOpens ==
  ASSUME NEW D, NEW L, NEW T \in [D -> Rows], NEW K, K \subseteq L
  PROVE  /\ Opens(D, L, T, insertNew(T, K))
         /\ Opens(D, L, T, upsert(T, K))
         /\ Opens(D, L, T, upsertUnlessCompleted(T, K))
<1>0. /\ insertNew(T, K) \in [D -> Rows] /\ upsert(T, K) \in [D -> Rows]
      /\ upsertUnlessCompleted(T, K) \in [D -> Rows]
  <2>1. "none" \in Note BY DEF Note
  <2> QED BY <2>1, UpdatesKeepRows
<1>1. Opens(D, L, T, insertNew(T, K))
  BY <1>0 DEF Opens, insertNew, isOpen, Rows
<1>2. Opens(D, L, T, upsert(T, K))
  BY <1>0 DEF Opens, upsert, isOpen, Rows
<1>3. Opens(D, L, T, upsertUnlessCompleted(T, K))
  BY <1>0 DEF Opens, upsertUnlessCompleted, isOpen, Rows
<1> QED BY <1>1, <1>2, <1>3

LEMMA AwaitingOpens ==
  ASSUME NEW D, NEW L, NEW T \in [D -> Rows], "payment_followup" \in L
  PROVE  Opens(D, L, T, awaitPayment(T))
<1> DEFINE K == {"payment_followup"}
           T1 == insertNew(T, K)
           T2 == reopen(T1, K, "cancelled", {"booking_gone"})
           T3 == reopen(T2, K, "completed", {"booking_confirmed"})
           V  == awaitPayment(T)
<1>1. Opens(D, L, T, T1) BY ReopenOpens, InsertOpens
<1>2. T1 \in [D -> Rows] BY <1>1 DEF Opens
<1> HIDE DEF T1
<1>3. Opens(D, L, T1, T2) BY <1>2, ReopenOpens, InsertOpens
<1>4. T2 \in [D -> Rows] BY <1>3 DEF Opens
<1> HIDE DEF T2
<1>5. Opens(D, L, T2, T3) BY <1>4, ReopenOpens, InsertOpens
<1>6. V = [k \in DOMAIN T3 |-> IF k \in K /\ T3[k].note \in {"booking_gone", "booking_confirmed"}
                               THEN [T3[k] EXCEPT !.note = "none"] ELSE T3[k]]
  BY DEF awaitPayment, T1, T2
<1>7. T3 \in [D -> Rows] BY <1>5 DEF Opens
<1> HIDE DEF T3, V
<1>8. V \in [D -> Rows] BY <1>6, <1>7 DEF Rows, Note
<1>9. Opens(D, L, T3, V) BY <1>6, <1>7, <1>8 DEF Opens, isOpen, Rows
<1>10. Opens(D, L, T, T2) BY <1>1, <1>3, OpensChain
<1>11. Opens(D, L, T, T3) BY <1>10, <1>5, OpensChain
<1> QED BY <1>11, <1>9, OpensChain DEF V

-----------------------------------------------------------------------------
\* One reconciler.

LEMMA PocOpens ==
  ASSUME NEW D, NEW L, NEW T \in [D -> Rows], NEW ev,
         ~terminal(ev) => "poc_incomplete" \in L
  PROVE  Opens(D, L, T, reconcilePocTask(ev, T))
<1> DEFINE K == {"poc_incomplete"}
           U == reconcilePocTask(ev, T)
<1>1. \/ U = T
      \/ U = cancel(T, K, "moot")
      \/ U = complete(T, K, "auto")
      \/ ~terminal(ev) /\ U = upsertUnlessCompleted(T, K)
  BY DEF reconcilePocTask, terminal
<1>2. {"moot", "auto"} \subseteq Note \ {"closed"} BY DEF Note, AutoNote
<1> QED BY <1>1, <1>2, OpensNothing, ClosingOpens, SettlingOpens, ReopenOpens, InsertOpens

LEMMA PaymentOpens ==
  ASSUME NEW D, NEW L, NEW T \in [D -> Rows], NEW ev,
         ~terminal(ev) => "payment_followup" \in L
  PROVE  Opens(D, L, T, reconcileTentativeVenuePaymentTasks(ev, T))
<1> DEFINE K == {"payment_followup"}
           U == reconcileTentativeVenuePaymentTasks(ev, T)
<1>1. \/ U = T
      \/ U = dropRow(T, K)
      \/ U = complete(T, K, "booking_confirmed")
      \/ U = cancel(T, K, "booking_gone")
      \/ U = complete(T, K, "settled")
      \/ ~terminal(ev) /\ U = awaitPayment(T)
  BY DEF reconcileTentativeVenuePaymentTasks
<1>2. {"booking_confirmed", "booking_gone", "settled"} \subseteq Note \ {"closed"} BY DEF Note, AutoNote
<1> QED BY <1>1, <1>2, OpensNothing, ClosingOpens, SettlingOpens, AwaitingOpens

LEMMA ReadinessOpens ==
  ASSUME NEW D, NEW L, NEW T \in [D -> Rows], NEW ev,
         ~terminal(ev) => "readiness" \in L
  PROVE  Opens(D, L, T, reconcileReadinessTasks(ev, T))
<1> DEFINE K == {"readiness"}
           U == reconcileReadinessTasks(ev, T)
<1>1. \/ U = T
      \/ U = cancel(T, K, "moot")
      \/ U = complete(T, K, "auto")
      \/ ~terminal(ev) /\ U = upsert(T, K)
  BY DEF reconcileReadinessTasks, terminal
<1>2. {"moot", "auto"} \subseteq Note \ {"closed"} BY DEF Note, AutoNote
<1> QED BY <1>1, <1>2, OpensNothing, ClosingOpens, SettlingOpens, ReopenOpens, InsertOpens

LEMMA TerminalPhase ==
  ASSUME NEW ev, terminal(ev)
  PROVE  /\ getActiveWorkflowPhase(ev) = "terminal"
         /\ \A k : ~canGenerateTaskForPhase(k, getActiveWorkflowPhase(ev))
<1>1. getActiveWorkflowPhase(ev) = "terminal" BY DEF getActiveWorkflowPhase, terminal
<1> QED BY <1>1 DEF canGenerateTaskForPhase

LEMMA ReminderOpens ==
  ASSUME NEW D, NEW L, NEW T \in [D -> Rows], NEW ev,
         ~terminal(ev) => "send_file_to_accounts" \in L
  PROVE  Opens(D, L, T, reconcileFileToAccountsReminder(ev, T))
<1> DEFINE K == {"send_file_to_accounts"}
           U == reconcileFileToAccountsReminder(ev, T)
           I == insertNew(T, K)
<1>1. \/ U = cancel(T, K, "not_due")
      \/ getActiveWorkflowPhase(ev) = "accounts" /\ U = reopen(I, K, "cancelled", {"not_due"})
  BY DEF reconcileFileToAccountsReminder
<1>2. "not_due" \in Note \ {"closed"} BY DEF Note
<1>3. getActiveWorkflowPhase(ev) = "accounts" => ~terminal(ev) BY TerminalPhase
<1>4. CASE U = cancel(T, K, "not_due") BY <1>4, <1>2, ClosingOpens, SettlingOpens
<1>5. CASE getActiveWorkflowPhase(ev) = "accounts" /\ U = reopen(I, K, "cancelled", {"not_due"})
  <2>1. "send_file_to_accounts" \in L BY <1>3, <1>5
  <2>2. Opens(D, L, T, I) BY <2>1, ReopenOpens, InsertOpens
  <2>3. I \in [D -> Rows] BY <2>2 DEF Opens
  <2> HIDE DEF I
  <2>4. Opens(D, L, I, U) BY <2>1, <2>3, <1>5, ReopenOpens, InsertOpens
  <2> QED BY <2>2, <2>4, OpensChain
<1> QED BY <1>1, <1>4, <1>5 DEF U

LEMMA InstalmentOpens ==
  ASSUME NEW D, NEW L, NEW T \in [D -> Rows], NEW ev,
         ~terminal(ev) \/ ev.archived => "instalment" \in L
  PROVE  Opens(D, L, T, reconcileInstalmentTasks(ev, T))
<1> DEFINE K == {"instalment"}
           U == reconcileInstalmentTasks(ev, T)
<1>1. \/ U = T
      \/ U = complete(T, K, "settled")
      \/ U = complete(T, K, "auto")
      \/ U = cancel(T, K, "moot")
      \/ /\ ev.archived \/ canGenerateTaskForPhase("instalment", getActiveWorkflowPhase(ev))
         /\ U = insertNew(T, K)
  BY DEF reconcileInstalmentTasks
<1>2. {"settled", "auto", "moot"} \subseteq Note \ {"closed"} BY DEF Note, AutoNote
<1>3. ev.archived \/ canGenerateTaskForPhase("instalment", getActiveWorkflowPhase(ev))
        => "instalment" \in L
  BY TerminalPhase
<1> QED BY <1>1, <1>2, <1>3, OpensNothing, ClosingOpens, SettlingOpens, ReopenOpens, InsertOpens

LEMMA LetterUpdates ==
  ASSUME NEW ev, NEW T
  PROVE  \E V : /\ \/ V = settle(T, {"confirmation_make"})
                   \/ V = reopen(T, {"confirmation_make"}, "completed", Note)
                   \/ V = T
                /\ LET U == reconcileConfirmationLetterTasks(ev, T)
                   IN  \/ U = settle(V, {"confirmation_letter"})
                       \/ U = cancel(V, {"confirmation_letter"}, "moot")
                       \/ U = V
<1> DEFINE V == CASE ev.gate.made = "Yes" -> settle(T, {"confirmation_make"})
                  [] ev.gate.made # "Yes" /\ ev.gate.costing = "Yes" ->
                       reopen(T, {"confirmation_make"}, "completed", Note)
                  [] OTHER -> T
           W == CASE ev.gate.signed = "Yes" -> settle(V, {"confirmation_letter"})
                  [] ev.gate.signed # "Yes" /\ (ev.gate.couriered = "blank" \/ ev.gate.made # "Yes") ->
                       cancel(V, {"confirmation_letter"}, "moot")
                  [] OTHER -> V
<1>1. \/ V = settle(T, {"confirmation_make"})
      \/ V = reopen(T, {"confirmation_make"}, "completed", Note)
      \/ V = T
  OBVIOUS
<1>2. reconcileConfirmationLetterTasks(ev, T) = W
  BY DEF reconcileConfirmationLetterTasks
<1> HIDE DEF V
<1>3. \/ W = settle(V, {"confirmation_letter"})
      \/ W = cancel(V, {"confirmation_letter"}, "moot")
      \/ W = V
  OBVIOUS
<1> HIDE DEF W
<1> QED BY <1>1, <1>2, <1>3

LEMMA FollowUpsOpen ==
  ASSUME NEW D, NEW L, NEW T \in [D -> Rows], NEW ev, "confirmation_make" \in L
  PROVE  Opens(D, L, T, reconcileFollowUpTasks(ev, T))
<1> DEFINE U == reconcileConfirmationLetterTasks(ev, T)
<1>1. PICK V : /\ \/ V = settle(T, {"confirmation_make"})
                  \/ V = reopen(T, {"confirmation_make"}, "completed", Note)
                  \/ V = T
               /\ \/ U = settle(V, {"confirmation_letter"})
                  \/ U = cancel(V, {"confirmation_letter"}, "moot")
                  \/ U = V
  BY LetterUpdates
<1>2. "moot" \in Note \ {"closed"} BY DEF Note
<1>3. Opens(D, L, T, V) BY <1>1, <1>2, OpensNothing, ClosingOpens, SettlingOpens, ReopenOpens, InsertOpens
<1>4. V \in [D -> Rows] BY <1>3 DEF Opens
<1>5. Opens(D, L, V, U) BY <1>1, <1>2, <1>4, OpensNothing, ClosingOpens, SettlingOpens
<1>6. U \in [D -> Rows] BY <1>5 DEF Opens
<1> DEFINE W == settle(U, {k \in DOMAIN T : satisfied(ev, k)})
<1>7. reconcileFollowUpTasks(ev, T) = W BY DEF reconcileFollowUpTasks
<1>8. Opens(D, L, U, W) BY <1>2, <1>6, ClosingOpens, SettlingOpens
<1> HIDE DEF W
<1> QED BY <1>3, <1>5, <1>7, <1>8, OpensChain

LEMMA PhaseOpens ==
  ASSUME NEW D, NEW L, NEW T \in [D -> Rows], NEW ev
  PROVE  Opens(D, L, T, reconcileWorkflowPhaseTasks(ev, T))
<1>1. PICK K : \/ reconcileWorkflowPhaseTasks(ev, T) = T
               \/ reconcileWorkflowPhaseTasks(ev, T) = cancel(T, K, "phase")
  BY DEF reconcileWorkflowPhaseTasks
<1>2. "phase" \in Note \ {"closed"} BY DEF Note
<1> QED BY <1>1, <1>2, OpensNothing, ClosingOpens, SettlingOpens

\* What is out of phase is closed, but for the contact reminder.
LEMMA PhaseCloses ==
  ASSUME NEW D, NEW T \in [D -> Rows], NEW ev, ev.archived = FALSE,
         NEW k \in D, isOpen(reconcileWorkflowPhaseTasks(ev, T)[k])
  PROVE  \/ k \in {"manual", "poc_incomplete"}
         \/ canGenerateTaskForPhase(k, getActiveWorkflowPhase(ev))
  BY DEF reconcileWorkflowPhaseTasks, cancel, automatic, isOpen, Rows

LEMMA ReopeningOpens ==
  ASSUME NEW D, NEW L, NEW T \in [D -> Rows], NEW ev, NEW K, terminal(ev) \/ K \subseteq L
  PROVE  Opens(D, L, T, reopenAutomaticallyCompletedTasks(ev, T, K))
<1>1. \/ reopenAutomaticallyCompletedTasks(ev, T, K) = T
      \/ /\ ~terminal(ev)
         /\ reopenAutomaticallyCompletedTasks(ev, T, K) = reopen(T, K, "completed", AutoNote)
  BY DEF reopenAutomaticallyCompletedTasks
<1> QED BY <1>1, OpensNothing, ReopenOpens, InsertOpens

-----------------------------------------------------------------------------
\* The checklist's own rules: a field creates the task it triggers, and
\* completes or reopens the task it answers.

LEMMA TriggerNames ==
  /\ DOMAIN TriggeredBy =
       {"approval_sent_on", "costing", "couriered", "onstage_asked_client", "feedback_sent",
        "tds_received_from_client_date", "file_sent_to_accounts", "file_received_back_edit_1",
        "file_sent_back_after_edit_1", "file_received_back_edit_2", "file_sent_back_after_edit_2"}
  /\ \A f \in DOMAIN TriggeredBy :
       TriggeredBy[f] \in AccountsFileTask \cup
         {"approval_followup", "confirmation_make", "confirmation_letter", "onstage",
          "feedback", "tds_send_to_accounts"}
BY DEF TriggeredBy, AccountsFileTask

LEMMA CompletionNames ==
  \A f \in DOMAIN CompletionByField :
    CompletionByField[f] \in {"approval_followup", "confirmation_letter", "onstage", "feedback",
                              "send_file_to_accounts", "tds_send_to_accounts"}
BY DEF CompletionByField

\* A field may create its task: the event is live, or archived, and no final file is back.
MayCreate(ev, f) ==
  /\ ~terminal(ev) \/ ev.archived
  /\ TriggeredBy[f] \in AccountsFileTask => ~dated(ev, "final_file_received")

LEMMA CreatingUpdates ==
  ASSUME NEW ev, NEW T, NEW f, NEW within
  PROVE  LET U == maybeCreateTaskForChecklistItem(ev, T, f, within)
         IN  \/ U = T
             \/ /\ f \in DOMAIN TriggeredBy \cap fieldsOf(ev) /\ MayCreate(ev, f)
                /\ \/ U = insertNew(T, {TriggeredBy[f]})
                   \/ U = cancel(T, {"accounts_file_sent"}, "moot")
BY TerminalPhase DEF maybeCreateTaskForChecklistItem, MayCreate

LEMMA CreatingOpens ==
  ASSUME NEW D, NEW L, NEW T \in [D -> Rows], NEW ev, NEW f, NEW within,
         f \in DOMAIN TriggeredBy /\ MayCreate(ev, f) => TriggeredBy[f] \in L
  PROVE  Opens(D, L, T, maybeCreateTaskForChecklistItem(ev, T, f, within))
<1> DEFINE U == maybeCreateTaskForChecklistItem(ev, T, f, within)
<1>1. \/ U = T
      \/ /\ f \in DOMAIN TriggeredBy /\ MayCreate(ev, f)
         /\ \/ U = insertNew(T, {TriggeredBy[f]})
            \/ U = cancel(T, {"accounts_file_sent"}, "moot")
  BY CreatingUpdates
<1>2. "moot" \in Note \ {"closed"} BY DEF Note
<1>3. CASE U = T BY <1>3, OpensNothing
<1>4. CASE U = cancel(T, {"accounts_file_sent"}, "moot") BY <1>2, <1>4, ClosingOpens
<1>5. CASE TriggeredBy[f] \in L /\ U = insertNew(T, {TriggeredBy[f]}) BY <1>5, InsertOpens
<1> QED BY <1>1, <1>3, <1>4, <1>5

\* Row by row, the sweep over all fields does what one of them does.
LEMMA SweepRows ==
  ASSUME NEW D, NEW T \in [D -> Rows], NEW ev, NEW within, NEW k \in D
  PROVE  \/ createForAllFields(ev, T, within)[k] = T[k]
         \/ \E f \in DOMAIN TriggeredBy :
              /\ TriggeredBy[f] = k
              /\ createForAllFields(ev, T, within)[k]
                   = maybeCreateTaskForChecklistItem(ev, T, f, within)[k]
<1> DEFINE made == [f \in DOMAIN TriggeredBy |->
                      maybeCreateTaskForChecklistItem(ev, T, f, within)]
           g == CHOOSE f \in DOMAIN TriggeredBy : TriggeredBy[f] = k
           U == createForAllFields(ev, T, within)
<1>1. U[k] = IF \E f \in DOMAIN TriggeredBy : TriggeredBy[f] = k THEN made[g][k] ELSE T[k]
  BY DEF createForAllFields
<1> HIDE DEF U
<1>2. CASE \E f \in DOMAIN TriggeredBy : TriggeredBy[f] = k
  <2>1. g \in DOMAIN TriggeredBy /\ TriggeredBy[g] = k BY <1>2
  <2>2. made[g] = maybeCreateTaskForChecklistItem(ev, T, g, within) BY <2>1
  <2> HIDE DEF g, made
  <2>3. U[k] = maybeCreateTaskForChecklistItem(ev, T, g, within)[k] BY <1>1, <1>2, <2>2
  <2> QED BY <2>1, <2>3 DEF U
<1>3. CASE ~\E f \in DOMAIN TriggeredBy : TriggeredBy[f] = k
  BY <1>1, <1>3 DEF U
<1> QED BY <1>2, <1>3

LEMMA SweepOpens ==
  ASSUME NEW D, NEW L, NEW T \in [D -> Rows], NEW ev, NEW within,
         \A f \in DOMAIN TriggeredBy : MayCreate(ev, f) => TriggeredBy[f] \in L
  PROVE  Opens(D, L, T, createForAllFields(ev, T, within))
<1> DEFINE U == createForAllFields(ev, T, within)
           one(f) == maybeCreateTaskForChecklistItem(ev, T, f, within)
<1>1. \A f \in DOMAIN TriggeredBy : Opens(D, L, T, one(f)) BY CreatingOpens
<1>2. ASSUME NEW k \in D
      PROVE  U[k] = T[k] \/ \E f \in DOMAIN TriggeredBy : U[k] = one(f)[k]
  BY SweepRows
<1>3. DOMAIN U = D
  BY DEF createForAllFields
<1>4. U = [k \in D |-> U[k]]
  BY DEF createForAllFields
<1> HIDE DEF U, one
<1>5. \A k \in D : U[k] \in Rows BY <1>1, <1>2 DEF Opens
<1>6. U \in [D -> Rows] BY <1>4, <1>5
<1>7. Opens(D, L, T, U) BY <1>1, <1>2, <1>6 DEF Opens
<1> QED BY <1>7 DEF U

LEMMA AnsweringUpdates ==
  ASSUME NEW ev, NEW T, NEW f, NEW v
  PROVE  LET U == maybeCompleteTasksForChecklistUpdate(ev, T, f, v)
         IN  \/ U = T
             \/ \E K : U = complete(T, K, "auto")
             \/ \E K : U = complete(T, K, "settled")
             \/ U = reopen(T, {"instalment"}, "completed", AutoNote)
             \/ /\ f = "final_file_received" /\ v # "dated"
                /\ U = reopenAutomaticallyCompletedTasks(ev, T, AccountsFileTask)
             \/ /\ f \in DOMAIN CompletionByField
                /\ U = reopenAutomaticallyCompletedTasks(ev, T, {CompletionByField[f]})
<1> DEFINE U == maybeCompleteTasksForChecklistUpdate(ev, T, f, v)
<1>1. CASE f = "final_file_received" /\ v = "dated"
  <2>1. U = complete(T, AccountsFileTask, "auto")
    BY <1>1 DEF maybeCompleteTasksForChecklistUpdate, completeTasksForSourceRules, AnsweredBy, CompletionByField
  <2> QED BY <2>1
<1>2. CASE f = "final_file_received" /\ v # "dated"
  BY <1>2 DEF maybeCompleteTasksForChecklistUpdate, AnsweredBy, CompletionByField
<1>3. CASE f \in DOMAIN AnsweredBy /\ v = "dated"
  <2>1. U = complete(T, {AnsweredBy[f]}, "auto")
    BY <1>3 DEF maybeCompleteTasksForChecklistUpdate, AnsweredBy, CompletionByField
  <2> QED BY <2>1
<1>4. CASE f = "payment" /\ v = "Completed"
  <2>1. U = complete(T, {"instalment", "payment_followup"}, "settled")
    BY <1>4 DEF maybeCompleteTasksForChecklistUpdate, AnsweredBy, CompletionByField
  <2> QED BY <2>1
<1>5. CASE f = "received"
  <2>1. U = complete(T, {"instalment"}, "auto") \/ U = reopen(T, {"instalment"}, "completed", AutoNote)
    BY <1>5 DEF maybeCompleteTasksForChecklistUpdate, AnsweredBy, CompletionByField
  <2> QED BY <2>1
<1>6. CASE f \in DOMAIN CompletionByField
  <2>1. \/ U = complete(T, {CompletionByField[f]}, "auto")
        \/ U = reopenAutomaticallyCompletedTasks(ev, T, {CompletionByField[f]})
    <3>1. f \notin {"final_file_received", "payment", "received"} \cup DOMAIN AnsweredBy
      BY <1>6 DEF CompletionByField, AnsweredBy
    <3> QED BY <1>6, <3>1 DEF maybeCompleteTasksForChecklistUpdate, completeTasksForSourceRules
  <2> QED BY <1>6, <2>1
<1>7. CASE /\ f # "final_file_received" /\ ~(f \in DOMAIN AnsweredBy /\ v = "dated")
           /\ ~(f = "payment" /\ v = "Completed") /\ f # "received"
           /\ f \notin DOMAIN CompletionByField
  BY <1>7 DEF maybeCompleteTasksForChecklistUpdate
<1> QED BY <1>1, <1>2, <1>3, <1>4, <1>5, <1>6, <1>7

LEMMA AnsweringOpens ==
  ASSUME NEW D, NEW L, NEW T \in [D -> Rows], NEW ev, NEW f, NEW v,
         "instalment" \in L,
         ~terminal(ev) => \A g \in DOMAIN CompletionByField : CompletionByField[g] \in L,
         ~terminal(ev) /\ f = "final_file_received" /\ v # "dated" => AccountsFileTask \subseteq L
  PROVE  Opens(D, L, T, maybeCompleteTasksForChecklistUpdate(ev, T, f, v))
<1> DEFINE U == maybeCompleteTasksForChecklistUpdate(ev, T, f, v)
<1>1. \/ U = T
      \/ \E K : U = complete(T, K, "auto")
      \/ \E K : U = complete(T, K, "settled")
      \/ U = reopen(T, {"instalment"}, "completed", AutoNote)
      \/ /\ f = "final_file_received" /\ v # "dated"
         /\ U = reopenAutomaticallyCompletedTasks(ev, T, AccountsFileTask)
      \/ /\ f \in DOMAIN CompletionByField
         /\ U = reopenAutomaticallyCompletedTasks(ev, T, {CompletionByField[f]})
  BY AnsweringUpdates
<1>2. {"auto", "settled"} \subseteq Note \ {"closed"} BY DEF Note, AutoNote
<1>3. CASE U = T BY <1>3, OpensNothing
<1>4. CASE \E K : U = complete(T, K, "auto") BY <1>2, <1>4, ClosingOpens
<1>5. CASE \E K : U = complete(T, K, "settled") BY <1>2, <1>5, ClosingOpens
<1>6. CASE U = reopen(T, {"instalment"}, "completed", AutoNote) BY <1>6, ReopenOpens
<1>7. CASE /\ f = "final_file_received" /\ v # "dated"
           /\ U = reopenAutomaticallyCompletedTasks(ev, T, AccountsFileTask)
  BY <1>7, ReopeningOpens
<1>8. CASE /\ f \in DOMAIN CompletionByField
           /\ U = reopenAutomaticallyCompletedTasks(ev, T, {CompletionByField[f]})
  <2>1. terminal(ev) \/ {CompletionByField[f]} \subseteq L BY <1>8
  <2> QED BY <1>8, <2>1, ReopeningOpens
<1> QED BY <1>1, <1>3, <1>4, <1>5, <1>6, <1>7, <1>8

-----------------------------------------------------------------------------
\* Events.

Fields(F) == {g \in [F -> UNION {valuesOf(f) : f \in F}] : \A f \in F : g[f] \in valuesOf(f)}

Events(F) == [status : Status, day : Day, archived : BOOLEAN, closed : BOOLEAN,
              gate : Gate, field : Fields(F)]

LEMMA FieldWritten ==
  ASSUME NEW F, NEW g \in Fields(F), NEW f, NEW v \in valuesOf(f)
  PROVE  [g EXCEPT ![f] = v] \in Fields(F)
<1>1. \A x \in F : [g EXCEPT ![f] = v][x] \in valuesOf(x) BY DEF Fields
<1>2. [g EXCEPT ![f] = v] \in [F -> UNION {valuesOf(x) : x \in F}] BY <1>1 DEF Fields
<1> QED BY <1>1, <1>2 DEF Fields

Wrote(ev, f, v) == [ev EXCEPT !.field[f] = v]

LEMMA FieldChanged ==
  ASSUME NEW F, NEW ev \in Events(F), NEW f, NEW v \in valuesOf(f)
  PROVE  LET w == Wrote(ev, f, v)
         IN  /\ w \in Events(F)
             /\ w.status = ev.status /\ w.archived = ev.archived /\ w.closed = ev.closed
             /\ w.gate = ev.gate /\ w.day = ev.day
             /\ \A x \in F \ {f} : w.field[x] = ev.field[x]
<1> DEFINE w == Wrote(ev, f, v)
<1>1. w = [ev EXCEPT !.field = [ev.field EXCEPT ![f] = v]] BY DEF Events, Wrote
<1>2. ev.field \in Fields(F) BY DEF Events
<1>3. [ev.field EXCEPT ![f] = v] \in Fields(F) BY <1>2, FieldWritten
<1>4. \A x \in F \ {f} : [ev.field EXCEPT ![f] = v][x] = ev.field[x] BY <1>2 DEF Fields
<1> HIDE DEF w
<1>5. w.field = [ev.field EXCEPT ![f] = v] BY <1>1 DEF Events
<1>6. /\ w \in Events(F)
      /\ w.status = ev.status /\ w.archived = ev.archived /\ w.closed = ev.closed
      /\ w.gate = ev.gate /\ w.day = ev.day
  BY <1>1, <1>3 DEF Events
<1> QED BY <1>4, <1>5, <1>6 DEF w

LEMMA BookingValues ==
  valuesOf("booking") = {"none", "tentative", "confirmed"}
BY DEF valuesOf

LEMMA BookingChanged ==
  ASSUME NEW F, NEW ev \in Events(F), NEW from, NEW to \in {"tentative", "confirmed"}
  PROVE  LET w == withBooking(ev, from, to)
         IN  /\ w \in Events(F)
             /\ w.status = ev.status /\ w.archived = ev.archived /\ w.closed = ev.closed
             /\ w.gate = ev.gate /\ w.day = ev.day
             /\ \A x \in F \ {"booking"} : w.field[x] = ev.field[x]
<1>1. \/ withBooking(ev, from, to) = ev
      \/ withBooking(ev, from, to) = [ev EXCEPT !.field["booking"] = to]
  BY DEF withBooking
<1>2. to \in valuesOf("booking") BY BookingValues
<1> DEFINE w == Wrote(ev, "booking", to)
<1>3. /\ w \in Events(F)
      /\ w.status = ev.status /\ w.archived = ev.archived /\ w.closed = ev.closed
      /\ w.gate = ev.gate /\ w.day = ev.day
      /\ \A x \in F \ {"booking"} : w.field[x] = ev.field[x]
  BY <1>2, FieldChanged
<1> HIDE DEF w
<1>4. withBooking(ev, from, to) = ev \/ withBooking(ev, from, to) = w BY <1>1 DEF w, Wrote
<1> QED BY <1>3, <1>4

Demoted == {"poc_incomplete", "readiness", "payment_followup"}

\* A demotion moves a confirmed event to target, with its booking.
LEMMA DemotedEvent ==
  ASSUME NEW F, NEW ev \in Events(F), NEW T, NEW target \in {"tentative", "approved"}
  PROVE  LET d == demote(ev, T, target).e
         IN  /\ d \in Events(F)
             /\ d.archived = ev.archived /\ d.closed = ev.closed
             /\ d.gate = ev.gate /\ d.day = ev.day
             /\ \A x \in F \ {"booking"} : d.field[x] = ev.field[x]
             /\ d = ev \/ (ev.status = "confirmed" /\ d.status = target)
<1> DEFINE d == demote(ev, T, target).e
           m == [ev EXCEPT !.status = target]
           w == withBooking(m, "confirmed", "tentative")
           T4 == reconcileWorkflowPhaseTasks(w, reconcilePocTask(w,
                   reconcileReadinessTasks(w, reconcileTentativeVenuePaymentTasks(w, T))))
           c == /\ ev.status = "confirmed" /\ ~ev.archived
                /\ blockersForTransition(row(ev), "confirmed") # {}
           r == demote(ev, T, target)
<1>1. d = ev \/ (ev.status = "confirmed" /\ d = w)
  <2>1. CASE c
    <3>1. r = [e |-> w, T |-> T4] BY <2>1 DEF demote
    <3> HIDE DEF w, T4, r
    <3>2. r.e = w BY <3>1
    <3> QED BY <2>1, <3>2 DEF r
  <2>2. CASE ~c
    <3>1. r = [e |-> ev, T |-> T] BY <2>2 DEF demote
    <3> HIDE DEF r
    <3>2. r.e = ev BY <3>1
    <3> QED BY <3>2 DEF r
  <2> HIDE DEF c
  <2> QED BY <2>1, <2>2
<1>2. /\ m \in Events(F) /\ m.status = target /\ m.archived = ev.archived
      /\ m.closed = ev.closed /\ m.gate = ev.gate /\ m.day = ev.day /\ m.field = ev.field
  BY DEF Events, Status
<1> HIDE DEF m
<1>3. /\ w \in Events(F) /\ w.status = target /\ w.archived = ev.archived
      /\ w.closed = ev.closed /\ w.gate = ev.gate /\ w.day = ev.day
      /\ \A x \in F \ {"booking"} : w.field[x] = ev.field[x]
  BY <1>2, BookingChanged
<1> HIDE DEF d, w
<1>4. /\ d \in Events(F)
      /\ d.archived = ev.archived /\ d.closed = ev.closed
      /\ d.gate = ev.gate /\ d.day = ev.day
      /\ \A x \in F \ {"booking"} : d.field[x] = ev.field[x]
      /\ d = ev \/ (ev.status = "confirmed" /\ d.status = target)
  BY <1>1, <1>3
<1> QED BY <1>4 DEF d

\* It reconciles the three rules a demotion concerns, or leaves the tasks alone.
LEMMA DemotedTasks ==
  ASSUME NEW ev, NEW D, NEW T \in [D -> Rows], NEW target
  PROVE  /\ Opens(D, Demoted, T, demote(ev, T, target).T)
         /\ ev.status # "confirmed" => demote(ev, T, target).T = T
<1> DEFINE d == demote(ev, T, target)
           m == [ev EXCEPT !.status = target]
           w == withBooking(m, "confirmed", "tentative")
           T1 == reconcileTentativeVenuePaymentTasks(w, T)
           T2 == reconcileReadinessTasks(w, T1)
           T3 == reconcilePocTask(w, T2)
           T4 == reconcileWorkflowPhaseTasks(w, T3)
           c == /\ ev.status = "confirmed" /\ ~ev.archived
                /\ blockersForTransition(row(ev), "confirmed") # {}
<1>1. d.T = T \/ (ev.status = "confirmed" /\ d.T = T4)
  <2>1. CASE c
    <3>1. d = [e |-> w, T |-> T4] BY <2>1 DEF demote
    <3> HIDE DEF w, T4, d
    <3> QED BY <2>1, <3>1
  <2>2. CASE ~c
    <3>1. d = [e |-> ev, T |-> T] BY <2>2 DEF demote
    <3> HIDE DEF d
    <3> QED BY <3>1
  <2> HIDE DEF c
  <2> QED BY <2>1, <2>2
<1> HIDE DEF w
<1>2. Opens(D, Demoted, T, T1) BY PaymentOpens DEF Demoted
<1>3. T1 \in [D -> Rows] BY <1>2 DEF Opens
<1> HIDE DEF T1
<1>4. Opens(D, Demoted, T1, T2) BY <1>3, ReadinessOpens DEF Demoted
<1>5. T2 \in [D -> Rows] BY <1>4 DEF Opens
<1> HIDE DEF T2
<1>6. Opens(D, Demoted, T2, T3) BY <1>5, PocOpens DEF Demoted
<1>7. T3 \in [D -> Rows] BY <1>6 DEF Opens
<1> HIDE DEF T3
<1>8. Opens(D, Demoted, T3, T4) BY <1>7, PhaseOpens
<1> HIDE DEF T4
<1>9. Opens(D, Demoted, T, T4) BY <1>2, <1>4, <1>6, <1>8, OpensChain
<1> HIDE DEF d
<1>10. Opens(D, Demoted, T, d.T) /\ (ev.status # "confirmed" => d.T = T)
  BY <1>1, <1>9, OpensNothing
<1> QED BY <1>10 DEF d

-----------------------------------------------------------------------------
\* The types of a behaviour's states.

TypeInv ==
  /\ scenario \in Scenarios
  /\ e \in Events(DOMAIN scenario.field) /\ InOrder(e.gate)
  /\ tasks \in [scenario.tasks -> Rows]

LEMMA OpensMore ==
  ASSUME NEW D, NEW K, NEW L, NEW T, NEW U, Opens(D, K, T, U), K \subseteq L
  PROVE  Opens(D, L, T, U)
BY DEF Opens

\* The write of a checklist field, and the columns that follow it.
LEMMA WriteOfAField ==
  ASSUME TypeInv, NEW f \in DOMAIN scenario.offers, NEW v \in scenario.offers[f],
         f \in GateField => patchAllowed(e.gate, f, v)
  PROVE  LET ev == written(f, v)
         IN  /\ ev \in Events(DOMAIN scenario.field) /\ InOrder(ev.gate)
             /\ ev.status = e.status /\ ev.archived = e.archived /\ ev.closed = e.closed
             /\ ev.day = e.day
             /\ \A x \in DOMAIN scenario.field \ {f, "approval_status"} : ev.field[x] = e.field[x]
             /\ f \in DOMAIN scenario.field \ {"approval_status"} => ev.field[f] = v
<1> DEFINE F == DOMAIN scenario.field
           ev == written(f, v)
<1>1. v \in IF f \in GateField THEN FieldValues[f] ELSE valuesOf(f)
  BY ScenariosAssumption DEF TypeInv
<1>2. \A x \in F : x \notin GateField
  BY ScenariosAssumption DEF TypeInv
<1>3. e \in Events(F) /\ InOrder(e.gate) BY DEF TypeInv
<1>4. CASE f \in GateField
  <2>1. patchGate(e.gate, f, v) \in Gate /\ InOrder(patchGate(e.gate, f, v))
    <3>1. e.gate \in Gate BY <1>3 DEF Events
    <3>2. v \in FieldValues[f] BY <1>1, <1>4
    <3> QED BY <1>3, <1>4, <3>1, <3>2, PatchKeepsOrder
  <2> DEFINE g == patchGate(e.gate, f, v)
  <2>2. ev = [e EXCEPT !.gate = g] BY <1>4 DEF written
  <2> HIDE DEF g, ev
  <2>3. /\ ev \in Events(F) /\ ev.gate = g
        /\ ev.status = e.status /\ ev.archived = e.archived /\ ev.closed = e.closed
        /\ ev.day = e.day /\ ev.field = e.field
    BY <1>3, <2>1, <2>2 DEF Events, g
  <2>4. InOrder(ev.gate) BY <2>1, <2>3 DEF g
  <2> QED BY <1>2, <1>4, <2>3, <2>4 DEF ev
<1>5. CASE f \notin GateField
  <2> DEFINE w == Wrote(e, f, v)
  <2>1. v \in valuesOf(f) BY <1>1, <1>5
  <2>2. /\ w \in Events(F)
        /\ w.status = e.status /\ w.archived = e.archived /\ w.closed = e.closed
        /\ w.gate = e.gate /\ w.day = e.day
        /\ \A x \in F \ {f} : w.field[x] = e.field[x]
    BY <1>3, <2>1, FieldChanged
  <2>3. f \in F => w.field[f] = v BY <1>3 DEF Events, Fields, Wrote
  <2>4. ev = syncApprovalStatus(w, f, v) BY <1>5 DEF written, Wrote
  <2> HIDE DEF w, ev
  <2>5. PICK s \in ApprovalStatus : ev = w \/ ev = [w EXCEPT !.field["approval_status"] = s]
    <3>1. \/ ev = w \/ ev = [w EXCEPT !.field["approval_status"] = "not_required"]
          \/ ev = [w EXCEPT !.field["approval_status"] = "pending"]
          \/ ev = [w EXCEPT !.field["approval_status"] = "sent"]
          \/ ev = [w EXCEPT !.field["approval_status"] = "received"]
      BY <2>4 DEF syncApprovalStatus
    <3> QED BY <3>1 DEF ApprovalStatus
  <2>6. s \in valuesOf("approval_status") BY DEF valuesOf
  <2> DEFINE u == Wrote(w, "approval_status", s)
  <2>7. /\ u \in Events(F)
        /\ u.status = w.status /\ u.archived = w.archived /\ u.closed = w.closed
        /\ u.gate = w.gate /\ u.day = w.day
        /\ \A x \in F \ {"approval_status"} : u.field[x] = w.field[x]
    BY <2>2, <2>6, FieldChanged
  <2>8. ev = w \/ ev = u BY <2>5 DEF Wrote
  <2> HIDE DEF u
  <2> QED BY <1>3, <2>2, <2>3, <2>7, <2>8 DEF ev
<1> QED BY <1>4, <1>5

-----------------------------------------------------------------------------
\* One request, as the chain of its reconcilers.

\* What a demotion may open: nothing on a cancelled or regretted event.
Reconsidered(ev) == IF terminal(ev) THEN {} ELSE Demoted

LEMMA DemotionOpens ==
  ASSUME NEW ev, NEW D, NEW T \in [D -> Rows], NEW target
  PROVE  Opens(D, Reconsidered(ev), T, demote(ev, T, target).T)
<1>1. CASE terminal(ev)
  <2>1. demote(ev, T, target).T = T BY <1>1, DemotedTasks DEF terminal
  <2> QED BY <2>1, OpensNothing
<1>2. CASE ~terminal(ev)
  <2>1. Opens(D, Demoted, T, demote(ev, T, target).T) BY DemotedTasks
  <2> QED BY <1>2, <2>1 DEF Reconsidered
<1> QED BY <1>1, <1>2

\* What an edit of field f may open before its own rule is applied.
MayOpen(ev, f, L) ==
  /\ {"instalment", "confirmation_make"} \subseteq L
  /\ ~terminal(ev) => {"confirmation_letter", "poc_incomplete"} \subseteq L
  /\ f \in DOMAIN TriggeredBy /\ MayCreate(ev, f) => TriggeredBy[f] \in L

LEMMA EditChain ==
  ASSUME NEW D, NEW F, NEW L, tasks \in [D -> Rows], NEW ev \in Events(F),
         NEW f, NEW v, NEW within, NEW target \in {"tentative", "approved"},
         MayOpen(ev, f, L), AfterEdit(ev, f, v, within, target)
  PROVE  \E T : /\ Opens(D, L, tasks, T)
                /\ LET U == maybeCompleteTasksForChecklistUpdate(ev, T, f, v)
                   IN  U \in [D -> Rows] =>
                         Opens(D, Reconsidered(ev), reconcileFollowUpTasks(ev, U), tasks')
                /\ \E W : e' = demote(ev, W, target).e /\ W \in [D -> Rows]
<1> DEFINE fell == f # "payment" /\ e.gate.payment = "Completed" /\ ev.gate.payment # "Completed"
           back == /\ f \in {"costing", "proforma", "payment"}
                   /\ <<e.gate.couriered, e.gate.signed>> # <<ev.gate.couriered, ev.gate.signed>>
           T1 == IF fell THEN reopenAutomaticallyCompletedTasks(ev, tasks, {"instalment"}) ELSE tasks
           T2 == IF back THEN reopenAutomaticallyCompletedTasks(ev, T1, {"confirmation_letter"}) ELSE T1
           T3 == reconcilePocTask(ev, T2)
           T4 == IF f \in {"instalment", "expected", "received"}
                 THEN reconcileInstalmentTasks(ev, T3)
                 ELSE maybeCreateTaskForChecklistItem(ev, T3, f, within)
           T5 == maybeCompleteTasksForChecklistUpdate(ev, T4, f, v)
           T6 == reconcileFollowUpTasks(ev, T5)
           T7 == IF f = "feedback_sent" \/ f \in AccountsModule
                 THEN reconcileWorkflowPhaseTasks(ev, T6) ELSE T6
           d  == demote(ev, T7, target)
<1>1. e' = d.e /\ tasks' = d.T BY DEF AfterEdit
<1> HIDE DEF fell, back, d
<1>2. Opens(D, L, tasks, T1) BY ReopeningOpens, OpensNothing DEF MayOpen
<1>3. T1 \in [D -> Rows] BY <1>2 DEF Opens
<1> HIDE DEF T1
<1>4. Opens(D, L, T1, T2)
  <2>1. terminal(ev) \/ {"confirmation_letter"} \subseteq L BY DEF MayOpen
  <2> QED BY <1>3, <2>1, ReopeningOpens, OpensNothing
<1>5. T2 \in [D -> Rows] BY <1>4 DEF Opens
<1> HIDE DEF T2
<1>6. Opens(D, L, T2, T3) BY <1>5, PocOpens DEF MayOpen
<1>7. T3 \in [D -> Rows] BY <1>6 DEF Opens
<1> HIDE DEF T3
<1>8. Opens(D, L, T3, T4)
  <2>1. CASE f \in {"instalment", "expected", "received"}
    BY <1>7, <2>1, InstalmentOpens DEF MayOpen
  <2>2. CASE f \notin {"instalment", "expected", "received"}
    BY <1>7, <2>2, CreatingOpens DEF MayOpen
  <2> QED BY <2>1, <2>2
<1>9. Opens(D, L, tasks, T4) BY <1>2, <1>4, <1>6, <1>8, OpensChain
<1> HIDE DEF T4
<1>10. ASSUME T5 \in [D -> Rows] PROVE Opens(D, Reconsidered(ev), T6, tasks')
  <2>1. Opens(D, {"confirmation_make"}, T5, T6) BY <1>10, FollowUpsOpen
  <2>2. T6 \in [D -> Rows] BY <2>1 DEF Opens
  <2> HIDE DEF T6
  <2>3. Opens(D, Reconsidered(ev), T6, T7) BY <2>2, PhaseOpens, OpensNothing
  <2>4. T7 \in [D -> Rows] BY <2>3 DEF Opens
  <2> HIDE DEF T7
  <2>5. Opens(D, Reconsidered(ev), T7, tasks') BY <1>1, <2>4, DemotionOpens DEF d
  <2> QED BY <2>3, <2>5, OpensChain
<1>11. T7 \in [D -> Rows]
  <2>1. T4 \in [D -> Rows] BY <1>9 DEF Opens
  <2> DEFINE A == {"instalment"} \cup AccountsFileTask \cup {CompletionByField[g] : g \in DOMAIN CompletionByField}
  <2>2. Opens(D, A, T4, T5) BY <2>1, AnsweringOpens
  <2>3. T5 \in [D -> Rows] BY <2>2 DEF Opens
  <2> HIDE DEF T5
  <2>4. Opens(D, {"confirmation_make"}, T5, T6) BY <2>3, FollowUpsOpen
  <2>5. T6 \in [D -> Rows] BY <2>4 DEF Opens
  <2> HIDE DEF T6
  <2>6. Opens(D, {}, T6, T7) BY <2>5, PhaseOpens, OpensNothing
  <2> QED BY <2>6 DEF Opens
<1>12. e' = demote(ev, T7, target).e BY <1>1 DEF d
<1> HIDE DEF T7
<1> QED BY <1>9, <1>10, <1>11, <1>12

\* The event with its file closed, or open again.
FileClosed(c) == [e EXCEPT !.closed = c]

LEMMA CloseChain ==
  ASSUME TypeInv, NEW target \in {"tentative", "approved"},
         CloseFile(target)
  PROVE  LET ev == FileClosed(TRUE)
             D  == scenario.tasks
         IN  \E T, U : /\ Opens(D, {"confirmation_make"}, reconcilePocTask(ev, tasks), T)
                       /\ T = reconcileFollowUpTasks(ev, reconcilePocTask(ev, tasks))
                       /\ U = reconcileWorkflowPhaseTasks(ev, T)
                       /\ e' = demote(ev, cancel(U, automatic(U), "closed"), target).e
                       /\ tasks' = demote(ev, cancel(U, automatic(U), "closed"), target).T
<1> DEFINE ev == FileClosed(TRUE)
           D == scenario.tasks
           P == reconcilePocTask(ev, tasks)
           T == reconcileFollowUpTasks(ev, P)
           U == reconcileWorkflowPhaseTasks(ev, T)
<1>1. Opens(D, {"poc_incomplete"}, tasks, P) BY PocOpens DEF TypeInv
<1>2. P \in [D -> Rows] BY <1>1 DEF Opens
<1>3. /\ e' = demote(ev, cancel(U, automatic(U), "closed"), target).e
      /\ tasks' = demote(ev, cancel(U, automatic(U), "closed"), target).T
  BY DEF CloseFile, FileClosed
<1> HIDE DEF P, ev
<1>4. Opens(D, {"confirmation_make"}, P, T) BY <1>2, FollowUpsOpen
<1> QED BY <1>3, <1>4 DEF P, ev

Restarted == {"instalment", "confirmation_make", "send_file_to_accounts"}
               \cup {TriggeredBy[f] : f \in DOMAIN TriggeredBy}

\* The tail of a reopening: the rules run once more, then the phase.
LEMMA RescheduleChain ==
  ASSUME NEW D, NEW T \in [D -> Rows], NEW ev, NEW within
  PROVE  \E U, V : /\ Opens(D, Restarted, T, U)
                   /\ Opens(D, {"send_file_to_accounts"}, reconcileFollowUpTasks(ev, U), V)
                   /\ rescheduleAutomaticTasks(ev, T, within) = reconcileWorkflowPhaseTasks(ev, V)
<1> DEFINE T1 == createForAllFields(ev, T, within)
           T2 == reconcileInstalmentTasks(ev, T1)
           T3 == reconcileFollowUpTasks(ev, T2)
           T4 == reconcileFileToAccountsReminder(ev, T3)
<1>1. rescheduleAutomaticTasks(ev, T, within) = reconcileWorkflowPhaseTasks(ev, T4)
  BY DEF rescheduleAutomaticTasks
<1>2. Opens(D, Restarted, T, T1) BY SweepOpens DEF Restarted
<1>3. T1 \in [D -> Rows] BY <1>2 DEF Opens
<1> HIDE DEF T1
<1>4. Opens(D, Restarted, T1, T2) BY <1>3, InstalmentOpens DEF Restarted
<1>5. T2 \in [D -> Rows] BY <1>4 DEF Opens
<1>6. Opens(D, Restarted, T, T2) BY <1>2, <1>4, OpensChain
<1> HIDE DEF T2
<1>7. Opens(D, {"confirmation_make"}, T2, T3) BY <1>5, FollowUpsOpen
<1>8. T3 \in [D -> Rows] BY <1>7 DEF Opens
<1>9. Opens(D, {"send_file_to_accounts"}, T3, T4)
  <2> HIDE DEF T3
  <2> QED BY <1>8, ReminderOpens
<1> HIDE DEF T4
<1> QED BY <1>1, <1>6, <1>9

\* What the closing of the file had cancelled is open again.
BroughtBack(ev, T) ==
  reopen(reconcileWorkflowPhaseTasks(ev, T), automatic(T), "cancelled", {"closed"})

LEMMA ReopenChain ==
  ASSUME TypeInv, NEW within, NEW target \in {"tentative", "approved"},
         ReopenFile(within, target)
  PROVE  LET ev == FileClosed(FALSE)
             D  == scenario.tasks
         IN  \E T, U, V :
               /\ T = reconcileFollowUpTasks(ev, reconcilePocTask(ev, tasks))
               /\ Opens(D, {"poc_incomplete", "confirmation_make"}, tasks, T)
               /\ U = BroughtBack(ev, T)
               /\ U \in [D -> Rows]
               /\ V = rescheduleAutomaticTasks(ev, U, within) /\ V \in [D -> Rows]
               /\ e' = demote(ev, V, target).e /\ tasks' = demote(ev, V, target).T
<1> DEFINE ev == FileClosed(FALSE)
           D == scenario.tasks
           P == reconcilePocTask(ev, tasks)
           T == reconcileFollowUpTasks(ev, P)
           Q == reconcileWorkflowPhaseTasks(ev, T)
           U == BroughtBack(ev, T)
           V == rescheduleAutomaticTasks(ev, U, within)
           K == {"poc_incomplete", "confirmation_make"}
<1>1. e' = demote(ev, V, target).e /\ tasks' = demote(ev, V, target).T
  BY DEF ReopenFile, FileClosed, BroughtBack
<1>2. tasks \in [D -> Rows] BY DEF TypeInv
<1> HIDE DEF ev
<1>3. Opens(D, K, tasks, P) BY <1>2, PocOpens
<1>4. P \in [D -> Rows] BY <1>3 DEF Opens
<1>5. Opens(D, K, P, T)
  <2> HIDE DEF P
  <2> QED BY <1>4, FollowUpsOpen
<1>6. Opens(D, K, tasks, T) BY <1>3, <1>5, OpensChain
<1>7. T \in [D -> Rows] BY <1>5 DEF Opens
<1>8. Q \in [D -> Rows]
  <2> HIDE DEF T
  <2>1. Opens(D, {}, T, Q) BY <1>7, PhaseOpens
  <2> QED BY <2>1 DEF Opens
<1>9. U \in [D -> Rows]
  <2>1. "none" \in Note BY DEF Note
  <2>2. reopen(Q, automatic(T), "cancelled", {"closed"}) \in [D -> Rows]
    <3> HIDE DEF Q, T
    <3> QED BY <1>8, <2>1, UpdatesKeepRows
  <2> QED BY <2>2 DEF BroughtBack
<1>10. V \in [D -> Rows]
  <2> HIDE DEF U
  <2>1. PICK X, Y : /\ Opens(D, Restarted, U, X)
                    /\ Opens(D, {"send_file_to_accounts"}, reconcileFollowUpTasks(ev, X), Y)
                    /\ V = reconcileWorkflowPhaseTasks(ev, Y)
    BY <1>9, RescheduleChain
  <2>2. Y \in [D -> Rows] BY <2>1 DEF Opens
  <2>3. Opens(D, {}, Y, V) BY <2>1, <2>2, PhaseOpens
  <2> QED BY <2>3 DEF Opens
<1>11. /\ T = reconcileFollowUpTasks(ev, reconcilePocTask(ev, tasks))
       /\ U = BroughtBack(ev, T)
       /\ V = rescheduleAutomaticTasks(ev, U, within)
  OBVIOUS
<1> HIDE DEF T, U, V
<1> QED BY <1>1, <1>6, <1>9, <1>10, <1>11 DEF ev

-----------------------------------------------------------------------------
\* The types are kept.

LEMMA EventMoved ==
  ASSUME NEW F, NEW ev \in Events(F), NEW c \in BOOLEAN, NEW s \in Status, NEW day \in Day
  PROVE  /\ [ev EXCEPT !.closed = c] \in Events(F)
         /\ [ev EXCEPT !.status = s] \in Events(F)
         /\ [ev EXCEPT !.day = day] \in Events(F)
         /\ [ev EXCEPT !.archived = c] \in Events(F)
BY DEF Events

LEMMA FileOfEvent ==
  ASSUME NEW F, e \in Events(F), NEW c \in BOOLEAN
  PROVE  /\ FileClosed(c) \in Events(F)
         /\ FileClosed(c).closed = c /\ FileClosed(c).status = e.status
         /\ FileClosed(c).archived = e.archived /\ FileClosed(c).day = e.day
         /\ FileClosed(c).gate = e.gate /\ FileClosed(c).field = e.field
BY DEF FileClosed, Events

\* What the edit of a field leaves of the event but for a demotion.
EventAfter(ev, target) ==
  /\ e'.archived = ev.archived /\ e'.closed = ev.closed /\ e'.gate = ev.gate
  /\ \A x \in DOMAIN scenario.field \ {"booking"} : e'.field[x] = ev.field[x]
  /\ e' = ev \/ (ev.status = "confirmed" /\ e'.status = target)

LEMMA EditTypes ==
  ASSUME TypeInv, NEW f \in DOMAIN scenario.offers, NEW v \in scenario.offers[f],
         NEW within, NEW target \in {"tentative", "approved"},
         PatchChecklist(f, v, within, target)
  PROVE  /\ TypeInv' /\ scenario' = scenario
         /\ EventAfter(written(f, v), target)
<1> DEFINE D == scenario.tasks
           F == DOMAIN scenario.field
           ev == written(f, v)
           L == {"instalment", "confirmation_make", "confirmation_letter", "poc_incomplete"}
                  \cup {TriggeredBy[g] : g \in DOMAIN TriggeredBy}
<1>1. ev \in Events(F) /\ InOrder(ev.gate) BY WriteOfAField DEF PatchChecklist
<1>2. AfterEdit(ev, f, v, within, target) /\ scenario' = scenario
  BY DEF PatchChecklist, Remember
<1>3. MayOpen(ev, f, L) BY DEF MayOpen
<1>4. tasks \in [D -> Rows] BY DEF TypeInv
<1> HIDE DEF ev, L
<1>5. PICK T : /\ Opens(D, L, tasks, T)
               /\ LET U == maybeCompleteTasksForChecklistUpdate(ev, T, f, v)
                  IN  U \in [D -> Rows] =>
                        Opens(D, Reconsidered(ev), reconcileFollowUpTasks(ev, U), tasks')
               /\ \E W : e' = demote(ev, W, target).e /\ W \in [D -> Rows]
  BY <1>1, <1>2, <1>3, <1>4, EditChain
<1>6. tasks' \in [D -> Rows]
  <2> DEFINE U == maybeCompleteTasksForChecklistUpdate(ev, T, f, v)
             A == {"instalment"} \cup AccountsFileTask \cup {CompletionByField[g] : g \in DOMAIN CompletionByField}
  <2>1. T \in [D -> Rows] BY <1>5 DEF Opens
  <2>2. Opens(D, A, T, U) BY <2>1, AnsweringOpens
  <2>3. U \in [D -> Rows] BY <2>2 DEF Opens
  <2> QED BY <1>5, <2>3 DEF Opens
<1>7. PICK W \in [D -> Rows] : e' = demote(ev, W, target).e BY <1>5
<1>8. e' \in Events(F) /\ EventAfter(ev, target)
  BY <1>1, <1>7, DemotedEvent DEF EventAfter
<1> QED BY <1>1, <1>2, <1>6, <1>8 DEF TypeInv, EventAfter, ev

LEMMA FileTypes ==
  ASSUME TypeInv, NEW within, NEW target \in {"tentative", "approved"},
         CloseFile(target) \/ ReopenFile(within, target)
  PROVE  /\ TypeInv' /\ scenario' = scenario
         /\ \E c \in BOOLEAN : EventAfter(FileClosed(c), target)
<1> DEFINE D == scenario.tasks
           F == DOMAIN scenario.field
<1>1. e \in Events(F) BY DEF TypeInv
<1>2. scenario' = scenario BY DEF CloseFile, ReopenFile, Remember
<1>3. ASSUME NEW c \in BOOLEAN, NEW W \in [D -> Rows],
             e' = demote(FileClosed(c), W, target).e,
             tasks' = demote(FileClosed(c), W, target).T
      PROVE  TypeInv' /\ EventAfter(FileClosed(c), target)
  <2> DEFINE ev == FileClosed(c)
  <2>1. ev \in Events(F) BY <1>1, FileOfEvent
  <2>2. ev.gate = e.gate BY <1>1, FileOfEvent
  <2> HIDE DEF ev
  <2>3. e' = demote(ev, W, target).e /\ tasks' = demote(ev, W, target).T BY <1>3 DEF ev
  <2>4. e' \in Events(F) /\ EventAfter(ev, target) BY <2>1, <2>3, DemotedEvent DEF EventAfter
  <2>5. tasks' \in [D -> Rows]
    <3>1. Opens(D, Reconsidered(ev), W, tasks') BY <2>3, DemotionOpens
    <3> QED BY <3>1 DEF Opens
  <2> QED BY <1>2, <2>2, <2>4, <2>5 DEF TypeInv, EventAfter, ev
<1>4. CASE CloseFile(target)
  <2> DEFINE ev == FileClosed(TRUE)
  <2>1. PICK T, U : /\ Opens(D, {"confirmation_make"}, reconcilePocTask(ev, tasks), T)
                    /\ U = reconcileWorkflowPhaseTasks(ev, T)
                    /\ e' = demote(ev, cancel(U, automatic(U), "closed"), target).e
                    /\ tasks' = demote(ev, cancel(U, automatic(U), "closed"), target).T
    BY <1>4, CloseChain
  <2>2. T \in [D -> Rows] BY <2>1 DEF Opens
  <2> DEFINE V == cancel(U, automatic(U), "closed")
  <2>3. U \in [D -> Rows]
    <3> HIDE DEF ev
    <3>1. Opens(D, {}, T, U) BY <2>1, <2>2, PhaseOpens
    <3> QED BY <3>1 DEF Opens
  <2>4. V \in [D -> Rows]
    <3>1. "closed" \in Note BY DEF Note
    <3> QED BY <2>3, <3>1, UpdatesKeepRows
  <2> HIDE DEF V
  <2>5. e' = demote(ev, V, target).e /\ tasks' = demote(ev, V, target).T BY <2>1 DEF V
  <2> QED BY <1>2, <1>3, <2>4, <2>5
<1>5. CASE ReopenFile(within, target)
  <2> DEFINE ev == FileClosed(FALSE)
  <2>1. PICK T, U, V :
          /\ T = reconcileFollowUpTasks(ev, reconcilePocTask(ev, tasks))
          /\ Opens(D, {"poc_incomplete", "confirmation_make"}, tasks, T)
          /\ U = BroughtBack(ev, T)
          /\ U \in [D -> Rows]
          /\ V = rescheduleAutomaticTasks(ev, U, within) /\ V \in [D -> Rows]
          /\ e' = demote(ev, V, target).e /\ tasks' = demote(ev, V, target).T
    BY <1>5, ReopenChain
  <2> QED BY <1>2, <1>3, <2>1
<1> QED BY <1>4, <1>5

\* What the rules that follow the form and the status may open.
FormRules == {"poc_incomplete", "payment_followup", "readiness", "send_file_to_accounts"}

Automatic(D) == D \ {"manual"}

LEMMA TransitionOpens ==
  ASSUME NEW D, NEW T \in [D -> Rows], NEW ev, NEW from, NEW to
  PROVE  Opens(D, Automatic(D), T, reconcileTasksForLifecycleTransition(ev, T, from, to))
<1> DEFINE L == Automatic(D)
           U == reconcileTasksForLifecycleTransition(ev, T, from, to)
           C == cancel(T, DOMAIN T, "became")
           R == reopen(T, automatic(T), "cancelled", {"became"})
           Q == taskRulesCompletedByLifecycleTransition(from, to)
           I == insertNew(C, {"refund_review"})
           O == reopen(I, {"refund_review"}, "cancelled", Note)
<1>1. U = C \/ U = O \/ U = complete(R, Q, "auto") \/ U = complete(T, Q, "auto")
  BY DEF reconcileTasksForLifecycleTransition, createConfirmedCancellationRefundTask,
         completeTasksForSourceRules
<1>2. {"became", "auto"} \subseteq Note \ {"closed"} BY DEF Note, AutoNote
<1>3. Opens(D, L, T, C) BY <1>2, ClosingOpens
<1>4. C \in [D -> Rows] BY <1>3 DEF Opens
<1>5. Opens(D, L, T, O)
  <2> HIDE DEF C
  <2>1. Opens(D, {"refund_review"}, C, I) BY <1>4, InsertOpens
  <2>2. I \in [D -> Rows] BY <2>1 DEF Opens
  <2> HIDE DEF I
  <2>3. Opens(D, {"refund_review"}, I, O) BY <2>2, ReopenOpens
  <2>4. Opens(D, L, C, O) BY <2>1, <2>3 DEF Opens, Automatic
  <2> HIDE DEF O
  <2> QED BY <1>3, <2>4, OpensChain
<1>6. Opens(D, L, T, complete(R, Q, "auto"))
  <2>1. Opens(D, L, T, R) BY ReopenOpens DEF automatic, Automatic
  <2>2. R \in [D -> Rows] BY <2>1 DEF Opens
  <2> HIDE DEF R, Q
  <2>3. Opens(D, L, R, complete(R, Q, "auto")) BY <1>2, <2>2, ClosingOpens
  <2> QED BY <2>1, <2>3, OpensChain
<1>7. Opens(D, L, T, complete(T, Q, "auto"))
  <2> HIDE DEF Q
  <2> QED BY <1>2, ClosingOpens
<1> HIDE DEF U, C, O, R, Q, L
<1>8. Opens(D, L, T, U) BY <1>1, <1>3, <1>5, <1>6, <1>7
<1> QED BY <1>8 DEF U, L

\* A cancellation or regret leaves nothing open but the refund review.
LEMMA TransitionCloses ==
  ASSUME NEW D, NEW T \in [D -> Rows], NEW ev, NEW from, NEW to \in {"cancelled", "regret"},
         NEW k \in D, isOpen(reconcileTasksForLifecycleTransition(ev, T, from, to)[k])
  PROVE  k = "refund_review"
<1> DEFINE C == cancel(T, DOMAIN T, "became")
           I == insertNew(C, {"refund_review"})
           O == reopen(I, {"refund_review"}, "cancelled", Note)
<1>1. ~isOpen(C[k]) BY DEF cancel, isOpen
<1>2. DOMAIN C = D BY DEF cancel
<1> HIDE DEF C
<1>3. k # "refund_review" => ~isOpen(I[k]) BY <1>1, <1>2 DEF insertNew, isOpen
<1>4. DOMAIN I = D BY <1>2 DEF insertNew
<1> HIDE DEF I
<1>5. k # "refund_review" => ~isOpen(O[k]) BY <1>3, <1>4 DEF reopen, isOpen
<1>6. reconcileTasksForLifecycleTransition(ev, T, from, to) \in {C, O}
  BY DEF reconcileTasksForLifecycleTransition, createConfirmedCancellationRefundTask, I, C
<1> HIDE DEF O
<1> QED BY <1>1, <1>5, <1>6

\* A change of status runs the rules it concerns, and the phase has the last word.
LEMMA StatusChain ==
  ASSUME TypeInv, NEW to \in Status, StatusChange(to)
  PROVE  LET D == scenario.tasks
         IN  /\ TypeInv' /\ scenario' = scenario
             /\ e'.status = to /\ e'.archived = e.archived /\ e'.closed = e.closed
             /\ e'.gate = e.gate
             /\ \A x \in DOMAIN scenario.field \ {"booking"} : e'.field[x] = e.field[x]
             /\ \E T : /\ Opens(D, Automatic(D), tasks, T)
                       /\ ~terminal(e) /\ ~terminal(e') => Opens(D, FormRules, tasks, T)
                       /\ terminal(e') /\ "manual" \in D => ~isOpen(T["manual"])
                       /\ tasks' = reconcileWorkflowPhaseTasks(e', T)
<1> DEFINE D == scenario.tasks
           F == DOMAIN scenario.field
           m == [e EXCEPT !.status = to]
<1>1. e \in Events(F) /\ InOrder(e.gate) /\ tasks \in [D -> Rows] BY DEF TypeInv
<1>2. /\ m \in Events(F) /\ m.status = to /\ m.archived = e.archived /\ m.closed = e.closed
      /\ m.gate = e.gate /\ m.day = e.day /\ m.field = e.field
  BY <1>1 DEF Events
<1>3. /\ e' = m \/ e' = withBooking(m, "tentative", "confirmed")
      /\ tasks' = afterStatusChange(e', tasks, e.status)
      /\ scenario' = scenario
  BY DEF StatusChange
<1> HIDE DEF m
<1>4. /\ e' \in Events(F) /\ e'.status = to /\ e'.archived = e.archived /\ e'.closed = e.closed
      /\ e'.gate = e.gate /\ \A x \in F \ {"booking"} : e'.field[x] = e.field[x]
  BY <1>2, <1>3, BookingChanged
<1> DEFINE T1 == reconcileTasksForLifecycleTransition(e', tasks, e.status, e'.status)
           T2 == reconcileTentativeVenuePaymentTasks(e', T1)
           T3 == reconcileReadinessTasks(e', T2)
           T4 == reconcileFileToAccountsReminder(e', T3)
           T5 == reconcilePocTask(e', T4)
           L == Automatic(D) \cup {"payment_followup", "readiness", "send_file_to_accounts", "poc_incomplete"}
<1>5. tasks' = reconcileWorkflowPhaseTasks(e', T5) BY <1>3 DEF afterStatusChange
<1>6. Opens(D, L, tasks, T1)
  <2>1. Opens(D, Automatic(D), tasks, T1) BY <1>1, TransitionOpens
  <2> HIDE DEF T1
  <2> QED BY <2>1, OpensMore
<1>25. ~terminal(e) /\ ~terminal(e') => Opens(D, FormRules, tasks, T1)
  <2>1. ASSUME ~terminal(e), ~terminal(e') PROVE Opens(D, FormRules, tasks, T1)
    <3> DEFINE Q == taskRulesCompletedByLifecycleTransition(e.status, e'.status)
    <3>1. T1 = complete(tasks, Q, "auto")
      BY <2>1 DEF reconcileTasksForLifecycleTransition, completeTasksForSourceRules, terminal
    <3>2. "auto" \in Note \ {"closed"} BY DEF Note, AutoNote
    <3> HIDE DEF Q
    <3> QED BY <1>1, <3>1, <3>2, ClosingOpens
  <2> QED BY <2>1
<1>7. T1 \in [D -> Rows] BY <1>6 DEF Opens
<1>20. terminal(e') /\ "manual" \in D => ~isOpen(T1["manual"])
  BY <1>1, TransitionCloses DEF terminal
<1> HIDE DEF T1
<1>8. Opens(D, L, T1, T2) /\ Opens(D, FormRules, T1, T2) BY <1>7, PaymentOpens DEF FormRules
<1>9. T2 \in [D -> Rows] BY <1>8 DEF Opens
<1> HIDE DEF T2
<1>10. Opens(D, L, T2, T3) /\ Opens(D, FormRules, T2, T3) BY <1>9, ReadinessOpens DEF FormRules
<1>11. T3 \in [D -> Rows] BY <1>10 DEF Opens
<1> HIDE DEF T3
<1>12. Opens(D, L, T3, T4) /\ Opens(D, FormRules, T3, T4) BY <1>11, ReminderOpens DEF FormRules
<1>13. T4 \in [D -> Rows] BY <1>12 DEF Opens
<1> HIDE DEF T4
<1>14. Opens(D, L, T4, T5) /\ Opens(D, FormRules, T4, T5) BY <1>13, PocOpens DEF FormRules
<1>15. T5 \in [D -> Rows] BY <1>14 DEF Opens
<1> HIDE DEF T5
<1>26. Opens(D, FormRules, T1, T5) BY <1>8, <1>10, <1>12, <1>14, OpensChain
<1> HIDE DEF T5, L
<1>16. Opens(D, L, tasks, T5) BY <1>6, <1>8, <1>10, <1>12, <1>14, OpensChain
<1>21. Opens(D, L, T1, T5) BY <1>8, <1>10, <1>12, <1>14, OpensChain
<1>22. "manual" \notin L BY DEF L, Automatic
<1>17. Opens(D, Automatic(D), tasks, T5) BY <1>16, <1>22 DEF Opens, Automatic
<1>24. ~terminal(e) /\ ~terminal(e') => Opens(D, FormRules, tasks, T5)
  <2>1. ASSUME ~terminal(e), ~terminal(e') PROVE Opens(D, FormRules, tasks, T5)
    <3>1. Opens(D, FormRules, tasks, T1) BY <1>1, <2>1, <1>25
    <3>2. Opens(D, FormRules, T1, T5) BY <1>26
    <3> QED BY <3>1, <3>2, OpensChain
  <2> QED BY <2>1
<1>23. terminal(e') /\ "manual" \in D => ~isOpen(T5["manual"]) BY <1>20, <1>21, <1>22 DEF Opens
<1>18. tasks' \in [D -> Rows]
  <2>1. Opens(D, {}, T5, tasks') BY <1>5, <1>15, PhaseOpens
  <2> QED BY <2>1 DEF Opens
<1>19. TypeInv' BY <1>1, <1>3, <1>4, <1>18 DEF TypeInv
<1> QED BY <1>3, <1>4, <1>5, <1>17, <1>19, <1>23, <1>24

\* The event form.
LEMMA FormChain ==
  ASSUME TypeInv, NEW day \in scenario.days, NEW form \in scenario.forms, EditEvent(day, form)
  PROVE  /\ TypeInv' /\ scenario' = scenario
         /\ e'.status = e.status /\ e'.archived = e.archived /\ e'.closed = e.closed
         /\ e'.gate = e.gate
         /\ \A x \in DOMAIN scenario.field \ FormField : e'.field[x] = e.field[x]
         /\ Opens(scenario.tasks, IF terminal(e') THEN {} ELSE FormRules, tasks, tasks')
<1> DEFINE D == scenario.tasks
           F == DOMAIN scenario.field
           g == [f \in F |-> IF f \in DOMAIN form THEN form[f] ELSE e.field[f]]
           L == IF terminal(e') THEN {} ELSE FormRules
<1>1. e \in Events(F) /\ InOrder(e.gate) /\ tasks \in [D -> Rows] BY DEF TypeInv
<1>2. /\ DOMAIN form \subseteq FormField /\ \A f \in DOMAIN form : form[f] \in valuesOf(f)
      /\ day \in Day
  BY ScenariosAssumption DEF TypeInv
<1>3. e.field \in Fields(F) BY <1>1 DEF Events
<1>4. g \in Fields(F)
  <2>1. \A f \in F : g[f] \in valuesOf(f) BY <1>2, <1>3 DEF Fields
  <2> HIDE DEF g
  <2>2. DOMAIN g = F /\ g = [f \in F |-> g[f]] BY DEF g
  <2> QED BY <2>1, <2>2 DEF Fields
<1>5. \A x \in F \ FormField : g[x] = e.field[x] BY <1>2
<1>6. e' = [e EXCEPT !.day = day, !.field = g]
  <2>1. DOMAIN e.field = F BY <1>3 DEF Fields
  <2> QED BY <2>1 DEF EditEvent
<1> HIDE DEF g
<1>7. /\ e' \in Events(F) /\ e'.gate = e.gate /\ e'.status = e.status /\ e'.archived = e.archived
      /\ e'.closed = e.closed /\ e'.field = g
  BY <1>1, <1>2, <1>4, <1>6 DEF Events
<1> DEFINE T1 == IF day = e.day THEN tasks ELSE reconcileFileToAccountsReminder(e', tasks)
           T2 == reconcilePocTask(e', T1)
           T3 == reconcileTentativeVenuePaymentTasks(e', T2)
           T4 == reconcileReadinessTasks(e', T3)
<1>8. tasks' = T4 /\ scenario' = scenario BY DEF EditEvent, Remember
<1>9. ~terminal(e') => FormRules \subseteq L OBVIOUS
<1>10. FormRules = {"poc_incomplete", "payment_followup", "readiness", "send_file_to_accounts"}
  BY DEF FormRules
<1> HIDE DEF L
<1>11. Opens(D, L, tasks, T1) BY <1>1, <1>9, <1>10, ReminderOpens, OpensNothing
<1>12. T1 \in [D -> Rows] BY <1>11 DEF Opens
<1> HIDE DEF T1
<1>13. Opens(D, L, T1, T2) BY <1>9, <1>10, <1>12, PocOpens
<1>14. T2 \in [D -> Rows] BY <1>13 DEF Opens
<1> HIDE DEF T2
<1>15. Opens(D, L, T2, T3) BY <1>9, <1>10, <1>14, PaymentOpens
<1>16. T3 \in [D -> Rows] BY <1>15 DEF Opens
<1> HIDE DEF T3
<1>17. Opens(D, L, T3, T4) BY <1>9, <1>10, <1>16, ReadinessOpens
<1>18. Opens(D, L, tasks, T4) BY <1>11, <1>13, <1>15, <1>17, OpensChain
<1>19. Opens(D, L, tasks, tasks') BY <1>8, <1>18
<1>20. tasks' \in [D -> Rows] BY <1>19 DEF Opens
<1> HIDE DEF T4
<1>21. TypeInv' BY <1>1, <1>7, <1>8, <1>20 DEF TypeInv
<1> QED BY <1>5, <1>7, <1>8, <1>19, <1>21 DEF L

\* What the scheduler may open on an event.
LEMMA CronOpens ==
  ASSUME NEW D, NEW L, NEW T \in [D -> Rows], NEW ev, NEW within,
         \A f \in DOMAIN TriggeredBy : MayCreate(ev, f) => TriggeredBy[f] \in L,
         ~terminal(ev) => FormRules \cup {"instalment"} \subseteq L
  PROVE  Opens(D, L, T, rescheduleAllAutomaticTasks(ev, T, within))
<1> DEFINE T1 == createForAllFields(ev, T, within)
           live == ~ev.archived /\ ~terminal(ev)
           c == ev.status = "confirmed" \/ \E k \in DOMAIN T1 :
                  k = "send_file_to_accounts" /\ isOpen(T1[k])
           T2 == IF c THEN reconcileFileToAccountsReminder(ev, T1) ELSE T1
           T3 == reconcilePocTask(ev, T2)
           T4 == reconcileTentativeVenuePaymentTasks(ev, T3)
           T5 == reconcileReadinessTasks(ev, T4)
           T6 == reconcileWorkflowPhaseTasks(ev, T5)
           T7 == reconcileInstalmentTasks(ev, T6)
<1>1. rescheduleAllAutomaticTasks(ev, T, within) = IF live THEN T7 ELSE T2
  BY DEF rescheduleAllAutomaticTasks
<1>2. ~terminal(ev) => {"poc_incomplete", "payment_followup", "readiness",
                        "send_file_to_accounts", "instalment"} \subseteq L
  BY DEF FormRules
<1> HIDE DEF c
<1>3. Opens(D, L, T, T1) BY SweepOpens
<1>4. T1 \in [D -> Rows] BY <1>3 DEF Opens
<1> HIDE DEF T1
<1>5. Opens(D, L, T1, T2) BY <1>2, <1>4, ReminderOpens, OpensNothing
<1>6. T2 \in [D -> Rows] BY <1>5 DEF Opens
<1> HIDE DEF T2
<1>7. Opens(D, L, T2, T3) BY <1>2, <1>6, PocOpens
<1>8. T3 \in [D -> Rows] BY <1>7 DEF Opens
<1> HIDE DEF T3
<1>9. Opens(D, L, T3, T4) BY <1>2, <1>8, PaymentOpens
<1>10. T4 \in [D -> Rows] BY <1>9 DEF Opens
<1> HIDE DEF T4
<1>11. Opens(D, L, T4, T5) BY <1>2, <1>10, ReadinessOpens
<1>12. T5 \in [D -> Rows] BY <1>11 DEF Opens
<1> HIDE DEF T5
<1>13. Opens(D, L, T5, T6) BY <1>12, PhaseOpens
<1>14. T6 \in [D -> Rows] BY <1>13 DEF Opens
<1> HIDE DEF T6
<1>15. live => Opens(D, L, T6, T7) BY <1>2, <1>14, InstalmentOpens
<1> HIDE DEF T7
<1>16. Opens(D, L, T, T2) BY <1>3, <1>5, OpensChain
<1>17. live => Opens(D, L, T, T7) BY <1>16, <1>7, <1>9, <1>11, <1>13, <1>15, OpensChain
<1> QED BY <1>1, <1>16, <1>17

LEMMA CronTypes ==
  ASSUME TypeInv, NEW within, Cron(within)
  PROVE  TypeInv' /\ scenario' = scenario /\ e' = e
<1> DEFINE D == scenario.tasks
           L == {TriggeredBy[f] : f \in DOMAIN TriggeredBy} \cup FormRules \cup {"instalment"}
<1>1. tasks \in [D -> Rows] BY DEF TypeInv
<1>2. /\ tasks' = rescheduleAllAutomaticTasks(e, tasks, within)
      /\ e' = e /\ scenario' = scenario
  BY DEF Cron, Remember
<1>3. Opens(D, L, tasks, tasks') BY <1>1, <1>2, CronOpens
<1>4. tasks' \in [D -> Rows] BY <1>3 DEF Opens
<1> QED BY <1>2, <1>4 DEF TypeInv

LEMMA ReadTypes ==
  ASSUME TypeInv, ReadChecklist
  PROVE  /\ TypeInv' /\ scenario' = scenario /\ e' = e
         /\ Opens(scenario.tasks, {"confirmation_make"}, tasks, tasks')
<1> DEFINE D == scenario.tasks
<1>1. tasks \in [D -> Rows] BY DEF TypeInv
<1>2. tasks' = reconcileFollowUpTasks(e, tasks) /\ e' = e /\ scenario' = scenario
  BY DEF ReadChecklist, Remember
<1>3. Opens(D, {"confirmation_make"}, tasks, tasks') BY <1>1, <1>2, FollowUpsOpen
<1>4. tasks' \in [D -> Rows] BY <1>3 DEF Opens
<1> QED BY <1>2, <1>3, <1>4 DEF TypeInv

LEMMA PersonTypes ==
  ASSUME TypeInv, NEW k \in DOMAIN tasks, NEW st \in {"open", "completed", "cancelled"},
         NEW noted \in BOOLEAN, PatchTask(k, st, noted)
  PROVE  /\ TypeInv' /\ scenario' = scenario /\ e' = e
         /\ \A j \in scenario.tasks \ {k} : tasks'[j] = tasks[j]
         /\ tasks'[k].note \in {"user", tasks[k].note}
<1> DEFINE D == scenario.tasks
<1>1. tasks \in [D -> Rows] /\ k \in D BY DEF TypeInv
<1>2. /\ tasks' = [tasks EXCEPT ![k] = [st |-> st, note |-> IF noted THEN "user" ELSE tasks[k].note]]
      /\ e' = e /\ scenario' = scenario
  BY DEF PatchTask
<1>3. [st |-> st, note |-> IF noted THEN "user" ELSE tasks[k].note] \in Rows
  BY <1>1 DEF Rows, Note
<1>4. tasks' \in [D -> Rows] BY <1>1, <1>2, <1>3
<1>5. /\ \A j \in D \ {k} : tasks'[j] = tasks[j]
      /\ tasks'[k].note \in {"user", tasks[k].note}
  BY <1>1, <1>2
<1> QED BY <1>2, <1>4, <1>5 DEF TypeInv

LEMMA ArchiveTypes ==
  ASSUME TypeInv, Archive
  PROVE  TypeInv' /\ scenario' = scenario /\ e'.archived = TRUE
<1> DEFINE D == scenario.tasks
<1>1. tasks \in [D -> Rows] /\ e \in Events(DOMAIN scenario.field) BY DEF TypeInv
<1>2. e' = [e EXCEPT !.archived = TRUE] /\ scenario' = scenario BY DEF Archive, Remember
<1>3. tasks' \in [D -> Rows] BY <1>1 DEF Archive, Rows
<1>4. e' \in Events(DOMAIN scenario.field) /\ e'.gate = e.gate /\ e'.archived = TRUE
  BY <1>1, <1>2 DEF Events
<1> QED BY <1>2, <1>3, <1>4 DEF TypeInv

LEMMA DayTypes ==
  ASSUME TypeInv, DayPasses
  PROVE  /\ TypeInv' /\ scenario' = scenario /\ tasks' = tasks
         /\ e'.status = e.status /\ e'.archived = e.archived /\ e'.closed = e.closed
         /\ e'.gate = e.gate
         /\ \A x \in DOMAIN scenario.field \ {"expected"} : e'.field[x] = e.field[x]
<1> DEFINE F == DOMAIN scenario.field
<1>1. e \in Events(F) /\ InOrder(e.gate) BY DEF TypeInv
<1>2. scenario' = scenario /\ tasks' = tasks BY DEF DayPasses, Remember
<1>3. \/ \E day \in {"running", "over"} : e' = [e EXCEPT !.day = day]
      \/ e' = Wrote(e, "expected", "due")
  BY DEF DayPasses, Wrote
<1>4. "due" \in valuesOf("expected") BY DEF valuesOf
<1>5. /\ e' \in Events(F) /\ e'.status = e.status /\ e'.archived = e.archived
      /\ e'.closed = e.closed /\ e'.gate = e.gate
      /\ \A x \in F \ {"expected"} : e'.field[x] = e.field[x]
  <2>1. ASSUME NEW day \in {"running", "over"}, e' = [e EXCEPT !.day = day]
        PROVE  /\ e' \in Events(F) /\ e'.status = e.status /\ e'.archived = e.archived
               /\ e'.closed = e.closed /\ e'.gate = e.gate /\ e'.field = e.field
    BY <1>1, <2>1 DEF Events, Day
  <2>2. CASE e' = Wrote(e, "expected", "due")
    BY <1>1, <1>4, <2>2, FieldChanged
  <2> QED BY <1>3, <2>1, <2>2
<1> QED BY <1>1, <1>2, <1>5 DEF TypeInv

LEMMA InitTypes ==
  ASSUME Init
  PROVE  /\ TypeInv /\ ~terminal(e)
         /\ \E T \in [scenario.tasks -> Rows] :
              /\ \A k \in scenario.tasks : T[k].note = "none" /\ (isOpen(T[k]) => k = "manual")
              /\ Opens(scenario.tasks, Demoted, T, tasks)
<1> DEFINE D == scenario.tasks
           F == DOMAIN scenario.field
           T == [k \in D |-> [st |-> IF k = "manual" THEN "open" ELSE "none", note |-> "none"]]
           T1 == reconcilePocTask(e, T)
           T2 == reconcileTentativeVenuePaymentTasks(e, T1)
           T3 == reconcileReadinessTasks(e, T2)
<1>1. /\ scenario.status \in Status \ {"cancelled", "regret"} /\ scenario.day \in Day
      /\ scenario.gate \in Gate /\ InOrder(scenario.gate)
      /\ scenario.field = [f \in F |-> scenario.field[f]]
      /\ \A f \in F : scenario.field[f] \in valuesOf(f)
      /\ scenario \in Scenarios
  BY ScenariosAssumption DEF Init
<1>2. scenario.field \in Fields(F) BY <1>1 DEF Fields
<1>3. e \in Events(F) /\ InOrder(e.gate) /\ ~terminal(e)
  BY <1>1, <1>2 DEF Init, Events, terminal
<1>4. tasks = T3 BY DEF Init
<1>5. /\ T \in [D -> Rows]
      /\ \A k \in D : T[k].note = "none" /\ (isOpen(T[k]) => k = "manual")
  BY DEF Rows, Note, isOpen
<1> HIDE DEF T
<1>6. Opens(D, Demoted, T, T1) BY <1>5, PocOpens DEF Demoted
<1>7. T1 \in [D -> Rows] BY <1>6 DEF Opens
<1> HIDE DEF T1
<1>8. Opens(D, Demoted, T1, T2) BY <1>7, PaymentOpens DEF Demoted
<1>9. T2 \in [D -> Rows] BY <1>8 DEF Opens
<1> HIDE DEF T2
<1>10. Opens(D, Demoted, T2, T3) BY <1>9, ReadinessOpens DEF Demoted
<1> HIDE DEF T3
<1>11. Opens(D, Demoted, T, tasks) BY <1>4, <1>6, <1>8, <1>10, OpensChain
<1>12. tasks \in [D -> Rows] BY <1>11 DEF Opens
<1> QED BY <1>1, <1>3, <1>5, <1>11, <1>12 DEF TypeInv

Targets == {"tentative", "approved"}

\* The types are kept, and an archived event stays archived.
LEMMA StepTypes ==
  ASSUME TypeInv, [Next]_vars
  PROVE  TypeInv' /\ scenario' = scenario /\ (e.archived => e'.archived)
<1>1. CASE ChecklistEdit
  <2>1. PICK within \in scenario.windows, target \in Targets :
          \/ \E f \in DOMAIN scenario.offers : \E v \in scenario.offers[f] :
               PatchChecklist(f, v, within, target)
          \/ CloseFile(target) \/ ReopenFile(within, target)
    BY <1>1 DEF ChecklistEdit, Targets
  <2>2. ASSUME NEW f \in DOMAIN scenario.offers, NEW v \in scenario.offers[f],
               PatchChecklist(f, v, within, target)
        PROVE  TypeInv' /\ scenario' = scenario /\ (e.archived => e'.archived)
    <3>1. written(f, v).archived = e.archived BY <2>2, WriteOfAField DEF PatchChecklist
    <3> QED BY <2>2, <3>1, EditTypes DEF EventAfter, Targets
  <2>3. CASE CloseFile(target) \/ ReopenFile(within, target)
    <3>1. e \in Events(DOMAIN scenario.field) BY DEF TypeInv
    <3> QED BY <2>3, <3>1, FileTypes, FileOfEvent DEF EventAfter, Targets
  <2> QED BY <2>1, <2>2, <2>3
<1>2. CASE ReadChecklist BY <1>2, ReadTypes
<1>3. CASE \E k \in DOMAIN tasks, st \in {"open", "completed", "cancelled"}, noted \in BOOLEAN :
             PatchTask(k, st, noted)
  BY <1>3, PersonTypes
<1>4. CASE \E day \in scenario.days, form \in scenario.forms : EditEvent(day, form)
  BY <1>4, FormChain
<1>5. CASE \E to \in Status : StatusChange(to) BY <1>5, StatusChain
<1>6. CASE Archive BY <1>6, ArchiveTypes
<1>7. CASE DayPasses BY <1>7, DayTypes
<1>8. CASE \E within \in scenario.windows : Cron(within) BY <1>8, CronTypes
<1>9. CASE UNCHANGED vars BY <1>9 DEF vars, TypeInv
<1> QED BY <1>1, <1>2, <1>3, <1>4, <1>5, <1>6, <1>7, <1>8, <1>9 DEF Next

\* Whatever a request, a day or a cron run does, it leaves rows, an event and a gate
\* of the shape the reconcilers of the next one expect: the gate in order, a field
\* with one of its values, a row for each task that is followed.
THEOREM TypesAreKept == Spec => []TypeInv
<1>1. Init => TypeInv BY InitTypes
<1>2. TypeInv /\ [Next]_vars => TypeInv' BY StepTypes
<1> QED BY <1>1, <1>2, PTL DEF Spec

-----------------------------------------------------------------------------
\* While an event is cancelled or regretted nobody is sent after it.

Quiet == TypeInv /\ TerminalIsQuiet

\* A request that opens only unguarded rules keeps a terminal event quiet.
LEMMA QuietStep ==
  ASSUME Quiet, Remember, terminal(e), ~e.archived,
         Opens(scenario.tasks, Unguarded, tasks, tasks')
  PROVE  TerminalIsQuiet'
<1> DEFINE D == scenario.tasks
<1>1. tasks \in [D -> Rows] /\ tasks' \in [D -> Rows] BY DEF Opens
<1>2. \A k \in D : isOpen(tasks'[k]) => isOpen(tasks[k]) \/ k \in Unguarded BY DEF Opens
<1>3. \A k \in D \ Unguarded : isOpen(tasks[k]) => k \in byUser
  BY <1>1 DEF Quiet, TerminalIsQuiet
<1>4. byUser' = {k \in byUser : tasks'[k].st = tasks[k].st} BY DEF Remember
<1>5. \A k \in D \ Unguarded : isOpen(tasks'[k]) => k \in byUser'
  BY <1>2, <1>3, <1>4 DEF isOpen
<1>6. DOMAIN tasks' = D BY <1>1
<1> QED BY <1>5, <1>6 DEF TerminalIsQuiet, Unguarded

\* On a terminal event an edit opens only unguarded rules.
LEMMA QuietEdit ==
  ASSUME TypeInv, terminal(e), ~e.archived,
         NEW f \in DOMAIN scenario.offers, NEW v \in scenario.offers[f],
         NEW within, NEW target \in Targets, PatchChecklist(f, v, within, target)
  PROVE  Opens(scenario.tasks, Unguarded, tasks, tasks')
<1> DEFINE D == scenario.tasks
           F == DOMAIN scenario.field
           ev == written(f, v)
           L == Unguarded
<1>1. /\ ev \in Events(F) /\ ev.status = e.status /\ ev.archived = e.archived
  BY WriteOfAField DEF PatchChecklist
<1>2. AfterEdit(ev, f, v, within, target) BY DEF PatchChecklist
<1> HIDE DEF ev
<1>3. terminal(ev) /\ ~ev.archived BY <1>1 DEF terminal
<1>4. MayOpen(ev, f, L) BY <1>3 DEF MayOpen, MayCreate, Unguarded
<1>5. tasks \in [D -> Rows] BY DEF TypeInv
<1> HIDE DEF L
<1>6. PICK T : /\ Opens(D, L, tasks, T)
               /\ LET U == maybeCompleteTasksForChecklistUpdate(ev, T, f, v)
                  IN  U \in [D -> Rows] =>
                        Opens(D, Reconsidered(ev), reconcileFollowUpTasks(ev, U), tasks')
               /\ \E W : e' = demote(ev, W, target).e /\ W \in [D -> Rows]
  BY <1>1, <1>2, <1>4, <1>5, EditChain DEF Targets
<1> DEFINE U == maybeCompleteTasksForChecklistUpdate(ev, T, f, v)
           V == reconcileFollowUpTasks(ev, U)
<1>7. Opens(D, L, T, U)
  <2>1. T \in [D -> Rows] BY <1>6 DEF Opens
  <2>2. "instalment" \in L BY DEF L, Unguarded
  <2> QED BY <1>3, <2>1, <2>2, AnsweringOpens
<1>8. U \in [D -> Rows] BY <1>7 DEF Opens
<1>9. Opens(D, {}, V, tasks') BY <1>3, <1>6, <1>8 DEF Reconsidered
<1> HIDE DEF U
<1>10. "confirmation_make" \in L BY DEF L, Unguarded
<1>11. Opens(D, L, U, V) BY <1>8, <1>10, FollowUpsOpen
<1>12. Opens(D, L, V, tasks') BY <1>9, OpensMore
<1> HIDE DEF V
<1>13. Opens(D, L, tasks, tasks') BY <1>6, <1>7, <1>11, <1>12, OpensChain
<1> QED BY <1>13 DEF L

LEMMA CancelOpensNone ==
  ASSUME NEW D, NEW T \in [D -> Rows], NEW K, NEW note \in Note
  PROVE  /\ cancel(T, K, note) \in [D -> Rows]
         /\ \A k \in D : isOpen(cancel(T, K, note)[k]) => isOpen(T[k])
<1>1. cancel(T, K, note) \in [D -> Rows] BY UpdatesKeepRows
<1> QED BY <1>1 DEF cancel, isOpen

\* Closing the file of a terminal event opens nothing, reopening it at most the
\* contact reminder.
LEMMA QuietFile ==
  ASSUME Quiet, terminal(e), ~e.archived, NEW within, NEW target \in Targets,
         CloseFile(target) \/ ReopenFile(within, target)
  PROVE  \A k \in scenario.tasks \ Unguarded : isOpen(tasks'[k]) => isOpen(tasks[k])
<1> DEFINE D == scenario.tasks
           F == DOMAIN scenario.field
<1>1. tasks \in [D -> Rows] /\ e \in Events(F) BY DEF Quiet, TypeInv
<1>2. CASE CloseFile(target)
  <2> DEFINE ev == FileClosed(TRUE)
             P == reconcilePocTask(ev, tasks)
  <2>1. PICK T, U : /\ Opens(D, {"confirmation_make"}, P, T)
                    /\ U = reconcileWorkflowPhaseTasks(ev, T)
                    /\ tasks' = demote(ev, cancel(U, automatic(U), "closed"), target).T
    BY <1>2, CloseChain DEF Quiet, Targets
  <2>2. terminal(ev) /\ ev.status # "confirmed" BY <1>1, FileOfEvent DEF terminal
  <2> HIDE DEF ev
  <2>3. Opens(D, {}, tasks, P) BY <1>1, <2>2, PocOpens
  <2> HIDE DEF P
  <2>4. T \in [D -> Rows] BY <2>1 DEF Opens
  <2>5. Opens(D, {}, T, U) BY <2>1, <2>4, PhaseOpens
  <2>6. U \in [D -> Rows] BY <2>5 DEF Opens
  <2> DEFINE V == cancel(U, automatic(U), "closed")
  <2>7. V \in [D -> Rows] /\ \A k \in D : isOpen(V[k]) => isOpen(U[k])
    <3>1. "closed" \in Note BY DEF Note
    <3> QED BY <2>6, <3>1, CancelOpensNone
  <2>8. tasks' = V
    <3>1. tasks' = demote(ev, V, target).T BY <2>1
    <3> HIDE DEF V
    <3> QED BY <2>2, <2>7, <3>1, DemotedTasks
  <2> HIDE DEF V
  <2> QED BY <2>1, <2>3, <2>5, <2>7, <2>8 DEF Opens, Unguarded
<1>3. CASE ReopenFile(within, target)
  <2> DEFINE ev == FileClosed(FALSE)
             K == {"poc_incomplete", "confirmation_make"}
  <2>1. PICK T, U, V :
          /\ T = reconcileFollowUpTasks(ev, reconcilePocTask(ev, tasks))
          /\ Opens(D, K, tasks, T)
          /\ U = BroughtBack(ev, T)
          /\ U \in [D -> Rows]
          /\ V = rescheduleAutomaticTasks(ev, U, within) /\ V \in [D -> Rows]
          /\ e' = demote(ev, V, target).e /\ tasks' = demote(ev, V, target).T
    BY <1>3, ReopenChain DEF Quiet, Targets
  <2>2. terminal(ev) /\ ev.archived = FALSE /\ ev.status # "confirmed"
    BY <1>1, FileOfEvent DEF terminal, Events
  <2> HIDE DEF ev
  <2>3. PICK X, Y : /\ Opens(D, Restarted, U, X)
                    /\ Opens(D, {"send_file_to_accounts"}, reconcileFollowUpTasks(ev, X), Y)
                    /\ V = reconcileWorkflowPhaseTasks(ev, Y)
    BY <2>1, RescheduleChain
  <2>4. tasks' = V BY <2>1, <2>2, DemotedTasks
  <2>5. Y \in [D -> Rows] /\ X \in [D -> Rows] /\ T \in [D -> Rows] BY <2>1, <2>3 DEF Opens
  <2>6. ASSUME NEW k \in D, isOpen(tasks'[k]) PROVE k \in {"manual", "poc_incomplete"}
    <3>1. isOpen(reconcileWorkflowPhaseTasks(ev, Y)[k]) BY <2>3, <2>4, <2>6
    <3> QED BY <2>2, <2>5, <3>1, PhaseCloses, TerminalPhase
  <2>7. ASSUME "manual" \in D, isOpen(tasks'["manual"]) PROVE isOpen(tasks["manual"])
    <3> DEFINE Q == reconcileWorkflowPhaseTasks(ev, T)
    <3>1. Opens(D, {}, Y, V) BY <2>3, <2>5, PhaseOpens
    <3>2. isOpen(Y["manual"]) BY <2>4, <2>7, <3>1 DEF Opens
    <3>3. isOpen(reconcileFollowUpTasks(ev, X)["manual"]) BY <2>3, <2>7, <3>2 DEF Opens
    <3>4. Opens(D, {"confirmation_make"}, X, reconcileFollowUpTasks(ev, X))
      BY <2>5, FollowUpsOpen
    <3>5. isOpen(X["manual"]) BY <2>7, <3>3, <3>4 DEF Opens
    <3>6. "manual" \notin Restarted BY TriggerNames DEF Restarted, AccountsFileTask
    <3>7. isOpen(U["manual"]) BY <2>3, <2>7, <3>5, <3>6 DEF Opens
    <3>8. Opens(D, {}, T, Q) BY <2>5, PhaseOpens
    <3>9. Q \in [D -> Rows] BY <3>8 DEF Opens
    <3>10. Opens(D, automatic(T), Q, U)
      <4>1. U = reopen(Q, automatic(T), "cancelled", {"closed"}) BY <2>1 DEF BroughtBack
      <4> HIDE DEF Q
      <4> QED BY <3>9, <4>1, ReopenOpens
    <3> HIDE DEF Q
    <3>11. isOpen(Q["manual"]) BY <2>7, <3>7, <3>10 DEF Opens, automatic
    <3>12. isOpen(T["manual"]) BY <2>7, <3>8, <3>11 DEF Opens
    <3> QED BY <2>1, <2>7, <3>12 DEF Opens
  <2> QED BY <2>6, <2>7 DEF Unguarded
<1> QED BY <1>2, <1>3

\* The inductive step.
LEMMA QuietKept ==
  ASSUME Quiet, [Next]_vars
  PROVE  TerminalIsQuiet'
<1> DEFINE D == scenario.tasks
           F == DOMAIN scenario.field
<1>1. TypeInv /\ TypeInv' /\ scenario' = scenario /\ (e.archived => e'.archived)
  BY StepTypes DEF Quiet
<1>2. tasks \in [D -> Rows] /\ tasks' \in [D -> Rows] /\ e \in Events(F) /\ e' \in Events(F)
  BY <1>1 DEF TypeInv
<1>3. SUFFICES ASSUME terminal(e'), ~e'.archived PROVE TerminalIsQuiet'
  BY DEF TerminalIsQuiet
<1>4. ~e.archived BY <1>1, <1>3
<1>5. CASE ChecklistEdit
  <2>1. PICK within \in scenario.windows, target \in Targets :
          \/ \E f \in DOMAIN scenario.offers : \E v \in scenario.offers[f] :
               PatchChecklist(f, v, within, target)
          \/ CloseFile(target) \/ ReopenFile(within, target)
    BY <1>5 DEF ChecklistEdit, Targets
  <2>2. ASSUME NEW f \in DOMAIN scenario.offers, NEW v \in scenario.offers[f],
               PatchChecklist(f, v, within, target)
        PROVE  TerminalIsQuiet'
    <3>1. EventAfter(written(f, v), target) BY <1>1, <2>2, EditTypes DEF Targets
    <3>2. written(f, v).status = e.status BY <1>1, <2>2, WriteOfAField DEF PatchChecklist
    <3>3. terminal(e) BY <1>3, <3>1, <3>2 DEF EventAfter, terminal, Targets
    <3>4. Opens(D, Unguarded, tasks, tasks') BY <1>1, <1>4, <2>2, <3>3, QuietEdit
    <3> QED BY <1>4, <2>2, <3>3, <3>4, QuietStep DEF PatchChecklist
  <2>3. CASE CloseFile(target) \/ ReopenFile(within, target)
    <3>1. PICK c \in BOOLEAN : EventAfter(FileClosed(c), target)
      BY <1>1, <2>3, FileTypes DEF Targets
    <3>2. FileClosed(c).status = e.status BY <1>2, FileOfEvent
    <3>3. terminal(e) BY <1>3, <3>1, <3>2 DEF EventAfter, terminal, Targets
    <3>4. \A k \in D \ Unguarded : isOpen(tasks'[k]) => isOpen(tasks[k])
      BY <1>4, <2>3, <3>3, QuietFile
    <3>5. byUser' = {k \in byUser : tasks'[k].st = tasks[k].st}
      BY <2>3 DEF CloseFile, ReopenFile, Remember
    <3>6. \A k \in D \ Unguarded : isOpen(tasks[k]) => k \in byUser
      BY <1>2, <1>4, <3>3 DEF Quiet, TerminalIsQuiet
    <3>7. \A k \in D \ Unguarded : isOpen(tasks'[k]) => k \in byUser'
      BY <3>4, <3>5, <3>6 DEF isOpen
    <3> QED BY <1>2, <3>7 DEF TerminalIsQuiet, Unguarded
  <2> QED BY <2>1, <2>2, <2>3
<1>6. CASE ReadChecklist
  <2>1. e' = e /\ Opens(D, {"confirmation_make"}, tasks, tasks') BY <1>1, <1>6, ReadTypes
  <2>2. Opens(D, Unguarded, tasks, tasks') BY <2>1, OpensMore DEF Unguarded
  <2> QED BY <1>3, <1>4, <1>6, <2>1, <2>2, QuietStep DEF ReadChecklist
<1>7. ASSUME NEW k \in DOMAIN tasks, NEW st \in {"open", "completed", "cancelled"},
             NEW noted \in BOOLEAN, PatchTask(k, st, noted)
      PROVE  TerminalIsQuiet'
  <2>1. e' = e /\ \A j \in D \ {k} : tasks'[j] = tasks[j] BY <1>1, <1>7, PersonTypes
  <2>2. byUser' = byUser \cup {k} BY <1>7 DEF PatchTask
  <2>3. \A j \in D \ Unguarded : isOpen(tasks[j]) => j \in byUser
    BY <1>2, <1>3, <1>4, <2>1 DEF Quiet, TerminalIsQuiet
  <2>4. \A j \in D \ Unguarded : isOpen(tasks'[j]) => j \in byUser'
    BY <2>1, <2>2, <2>3
  <2> QED BY <1>2, <2>4 DEF TerminalIsQuiet, Unguarded
<1>8. ASSUME NEW day \in scenario.days, NEW form \in scenario.forms, EditEvent(day, form)
      PROVE  TerminalIsQuiet'
  <2>1. /\ e'.status = e.status
        /\ Opens(D, IF terminal(e') THEN {} ELSE FormRules, tasks, tasks')
    BY <1>1, <1>8, FormChain
  <2>2. terminal(e) BY <1>3, <2>1 DEF terminal
  <2>3. Opens(D, Unguarded, tasks, tasks') BY <1>3, <2>1, OpensMore
  <2> QED BY <1>4, <1>8, <2>2, <2>3, QuietStep DEF EditEvent
<1>9. ASSUME NEW to \in Status, StatusChange(to) PROVE TerminalIsQuiet'
  <2>1. PICK T : /\ Opens(D, Automatic(D), tasks, T)
                 /\ terminal(e') /\ "manual" \in D => ~isOpen(T["manual"])
                 /\ tasks' = reconcileWorkflowPhaseTasks(e', T)
    BY <1>1, <1>9, StatusChain
  <2>2. T \in [D -> Rows] BY <2>1 DEF Opens
  <2>3. e'.archived = FALSE BY <1>2, <1>3 DEF Events
  <2>4. ASSUME NEW k \in D, isOpen(tasks'[k]) PROVE k = "poc_incomplete"
    <3>1. isOpen(reconcileWorkflowPhaseTasks(e', T)[k]) BY <2>1, <2>4
    <3>2. k \in {"manual", "poc_incomplete"}
      BY <1>3, <2>2, <2>3, <3>1, PhaseCloses, TerminalPhase
    <3>3. Opens(D, {}, T, tasks') BY <2>1, <2>2, PhaseOpens
    <3> QED BY <1>3, <2>1, <2>4, <3>2, <3>3 DEF Opens
  <2> QED BY <1>2, <2>4 DEF TerminalIsQuiet, Unguarded
<1>10. CASE Archive BY <1>1, <1>3, <1>10, ArchiveTypes
<1>11. CASE DayPasses
  <2>1. tasks' = tasks /\ e'.status = e.status BY <1>1, <1>11, DayTypes
  <2>2. terminal(e) BY <1>3, <2>1 DEF terminal
  <2>3. Opens(D, Unguarded, tasks, tasks') BY <1>2, <2>1, OpensNothing
  <2> QED BY <1>4, <1>11, <2>2, <2>3, QuietStep DEF DayPasses
<1>12. ASSUME NEW within, Cron(within) PROVE TerminalIsQuiet'
  <2>1. e' = e /\ tasks' = rescheduleAllAutomaticTasks(e, tasks, within) BY <1>12 DEF Cron
  <2>2. terminal(e) BY <1>3, <2>1
  <2>3. \A f \in DOMAIN TriggeredBy : ~MayCreate(e, f) BY <1>4, <2>2 DEF MayCreate
  <2>4. Opens(D, Unguarded, tasks, tasks') BY <1>2, <2>1, <2>2, <2>3, CronOpens
  <2> QED BY <1>4, <1>12, <2>2, <2>4, QuietStep DEF Cron
<1>13. CASE UNCHANGED vars
  BY <1>13 DEF vars, TerminalIsQuiet, terminal, Quiet, Unguarded, isOpen
<1> QED BY <1>5, <1>6, <1>7, <1>8, <1>9, <1>10, <1>11, <1>12, <1>13 DEF Next

\* Nobody is sent after a cancelled or regretted event: whatever was requested, in
\* whatever order, no request, cron run or edit has left one of its tasks open, but
\* those of the three rules that do not look at the status, or that a person opened.
THEOREM NobodyIsSentAfterIt == Spec => []TerminalIsQuiet
<1>1. Init => Quiet
  BY InitTypes DEF Quiet, TerminalIsQuiet
<1>2. Quiet /\ [Next]_vars => Quiet' BY StepTypes, QuietKept DEF Quiet
<1>3. Quiet => TerminalIsQuiet BY DEF Quiet
<1> QED BY <1>1, <1>2, <1>3, PTL DEF Spec

-----------------------------------------------------------------------------
\* One run of the scheduler leaves open only what is due.

LEMMA FieldTypes ==
  ASSUME NEW F, NEW ev \in Events(F)
  PROVE  /\ DOMAIN ev.field = F
         /\ "poc" \in F => ev.field.poc \in {"incomplete", "complete"}
         /\ "section" \in F => ev.field.section \in {"incomplete", "complete"}
         /\ "booking" \in F => ev.field.booking \in {"none", "tentative", "confirmed"}
         /\ "instalment" \in F => ev.field.instalment \in {"No", "Yes"}
         /\ "received" \in F => ev.field.received \in {"No", "Yes"}
<1>1. DOMAIN ev.field = F /\ \A f \in F : ev.field[f] \in valuesOf(f) BY DEF Events, Fields
<1>2. /\ valuesOf("poc") = {"incomplete", "complete"}
      /\ valuesOf("section") = {"incomplete", "complete"}
      /\ valuesOf("booking") = {"none", "tentative", "confirmed"}
      /\ valuesOf("instalment") = {"No", "Yes"}
      /\ valuesOf("received") = {"No", "Yes"}
  BY DEF valuesOf
<1> QED BY <1>1, <1>2

LEMMA ClosedByUpdates ==
  ASSUME NEW D, NEW T \in [D -> Rows], NEW K, NEW k \in D, k \in K, NEW note
  PROVE  /\ ~isOpen(complete(T, K, note)[k]) /\ ~isOpen(cancel(T, K, note)[k])
         /\ ~isOpen(settle(T, K)[k]) /\ ~isOpen(dropRow(T, K)[k])
<1>1. ~isOpen(complete(T, K, note)[k]) BY DEF complete, isOpen
<1>2. ~isOpen(cancel(T, K, note)[k]) BY DEF cancel, isOpen
<1>3. ~isOpen(settle(T, K)[k]) BY DEF settle, isOpen
<1>4. ~isOpen(dropRow(T, K)[k]) BY DEF dropRow, isOpen
<1> QED BY <1>1, <1>2, <1>3, <1>4

\* What each reconciler leaves of its own task.
LEMMA PocSettles ==
  ASSUME NEW F, NEW ev \in Events(F), NEW D, NEW T \in [D -> Rows], "poc_incomplete" \in D,
         ev.archived = FALSE, "poc" \in F, isOpen(reconcilePocTask(ev, T)["poc_incomplete"])
  PROVE  ~terminal(ev) /\ ev.field.poc = "incomplete"
<1> DEFINE K == {"poc_incomplete"}
           U == reconcilePocTask(ev, T)
<1>1. DOMAIN ev.field = F /\ ev.field.poc \in {"incomplete", "complete"} BY FieldTypes
<1>2. CASE terminal(ev)
  <2>1. U = cancel(T, K, "moot") BY <1>1, <1>2 DEF reconcilePocTask
  <2> QED BY <2>1, ClosedByUpdates
<1>3. CASE ~terminal(ev) /\ ev.field.poc = "complete"
  <2>1. U = complete(T, K, "auto") BY <1>1, <1>3 DEF reconcilePocTask
  <2> QED BY <2>1, ClosedByUpdates
<1> QED BY <1>1, <1>2, <1>3

LEMMA PaymentSettles ==
  ASSUME NEW F, NEW ev \in Events(F), NEW D, NEW T \in [D -> Rows], "payment_followup" \in D,
         "booking" \in F, isOpen(reconcileTentativeVenuePaymentTasks(ev, T)["payment_followup"])
  PROVE  ev.field.booking = "tentative" /\ ev.gate.payment # "Completed"
<1> DEFINE K == {"payment_followup"}
           U == reconcileTentativeVenuePaymentTasks(ev, T)
<1>1. DOMAIN ev.field = F /\ ev.field.booking \in {"none", "tentative", "confirmed"} BY FieldTypes
<1>2. CASE ev.field.booking = "none"
  <2>1. U = dropRow(T, K) BY <1>1, <1>2 DEF reconcileTentativeVenuePaymentTasks
  <2> QED BY <2>1, ClosedByUpdates
<1>3. CASE ev.field.booking = "confirmed"
  <2>1. U = cancel(T, K, "booking_gone") \/ U = complete(T, K, "booking_confirmed")
    BY <1>1, <1>3 DEF reconcileTentativeVenuePaymentTasks
  <2> QED BY <2>1, ClosedByUpdates
<1>4. CASE ev.field.booking = "tentative" /\ ev.gate.payment = "Completed"
  <2>1. U = cancel(T, K, "booking_gone") \/ U = complete(T, K, "settled")
    BY <1>1, <1>4 DEF reconcileTentativeVenuePaymentTasks
  <2> QED BY <2>1, ClosedByUpdates
<1> QED BY <1>1, <1>2, <1>3, <1>4

LEMMA ReadinessSettles ==
  ASSUME NEW F, NEW ev \in Events(F), NEW D, NEW T \in [D -> Rows], "readiness" \in D,
         ev.archived = FALSE, "section" \in F, isOpen(reconcileReadinessTasks(ev, T)["readiness"])
  PROVE  ev.field.section = "incomplete"
<1> DEFINE K == {"readiness"}
           U == reconcileReadinessTasks(ev, T)
<1>1. DOMAIN ev.field = F /\ ev.field.section \in {"incomplete", "complete"} BY FieldTypes
<1>2. CASE terminal(ev)
  <2>1. U = cancel(T, K, "moot") BY <1>1, <1>2 DEF reconcileReadinessTasks
  <2> QED BY <2>1, ClosedByUpdates
<1>3. CASE ~terminal(ev) /\ ev.field.section = "complete"
  <2>1. U = complete(T, K, "auto") BY <1>1, <1>3 DEF reconcileReadinessTasks
  <2> QED BY <2>1, ClosedByUpdates
<1> QED BY <1>1, <1>2, <1>3

LEMMA InstalmentSettles ==
  ASSUME NEW F, NEW ev \in Events(F), NEW D, NEW T \in [D -> Rows], "instalment" \in D,
         {"instalment", "expected", "received"} \subseteq F,
         isOpen(reconcileInstalmentTasks(ev, T)["instalment"])
  PROVE  /\ ev.field.instalment = "Yes" /\ ev.field.expected = "due"
         /\ ev.field.received = "No" /\ ev.gate.payment # "Completed"
         /\ \/ ev.archived \/ canGenerateTaskForPhase("instalment", getActiveWorkflowPhase(ev))
            \/ isOpen(T["instalment"])
<1> DEFINE K == {"instalment"}
           U == reconcileInstalmentTasks(ev, T)
           expects == ev.field.instalment = "Yes" /\ ev.field.received # "Yes"
<1>1. /\ DOMAIN ev.field = F /\ ev.field.instalment \in {"No", "Yes"}
      /\ ev.field.received \in {"No", "Yes"}
  BY FieldTypes
<1>2. CASE ev.gate.payment = "Completed"
  <2>1. U = complete(T, K, "settled") BY <1>1, <1>2 DEF reconcileInstalmentTasks
  <2> QED BY <2>1, ClosedByUpdates
<1>3. CASE ev.gate.payment # "Completed" /\ ev.field.instalment = "Yes" /\ ev.field.received = "Yes"
  <2>1. U = complete(T, K, "auto") BY <1>1, <1>3 DEF reconcileInstalmentTasks
  <2> QED BY <2>1, ClosedByUpdates
<1>4. CASE /\ ev.gate.payment # "Completed"
           /\ ~(ev.field.instalment = "Yes" /\ ev.field.received = "Yes")
           /\ ~expects \/ ev.field.expected # "due"
  <2>1. U = cancel(T, K, "moot") BY <1>1, <1>4 DEF reconcileInstalmentTasks
  <2> QED BY <2>1, ClosedByUpdates
<1>5. CASE ev.gate.payment # "Completed" /\ expects /\ ev.field.expected = "due"
  <2>1. \/ ev.archived \/ canGenerateTaskForPhase("instalment", getActiveWorkflowPhase(ev))
        \/ U = T
    BY <1>1, <1>5 DEF reconcileInstalmentTasks
  <2> QED BY <1>1, <1>5, <2>1
<1> QED BY <1>1, <1>2, <1>3, <1>4, <1>5

LEMMA ReminderSettles ==
  ASSUME NEW F, NEW ev \in Events(F), NEW D, NEW T \in [D -> Rows], "send_file_to_accounts" \in D,
         isOpen(reconcileFileToAccountsReminder(ev, T)["send_file_to_accounts"])
  PROVE  ~dated(ev, "file_sent_to_accounts")
<1> DEFINE K == {"send_file_to_accounts"}
           U == reconcileFileToAccountsReminder(ev, T)
<1>1. CASE dated(ev, "file_sent_to_accounts")
  <2>1. U = cancel(T, K, "not_due") BY <1>1 DEF reconcileFileToAccountsReminder
  <2> QED BY <2>1, ClosedByUpdates
<1> QED BY <1>1

LEMMA SchedulerSettles ==
  ASSUME TypeInv, ~terminal(e), ~e.archived, NEW within,
         NEW k \in scenario.tasks, k # "manual",
         isOpen(rescheduleAllAutomaticTasks(e, tasks, within)[k])
  PROVE  due(e, k)
<1> DEFINE D == scenario.tasks
           F == DOMAIN scenario.field
           T == tasks
           ev == e
           T1 == createForAllFields(ev, T, within)
           live == ~ev.archived /\ ~terminal(ev)
           c == ev.status = "confirmed" \/ \E j \in DOMAIN T1 :
                  j = "send_file_to_accounts" /\ isOpen(T1[j])
           T2 == IF c THEN reconcileFileToAccountsReminder(ev, T1) ELSE T1
           T3 == reconcilePocTask(ev, T2)
           T4 == reconcileTentativeVenuePaymentTasks(ev, T3)
           T5 == reconcileReadinessTasks(ev, T4)
           T6 == reconcileWorkflowPhaseTasks(ev, T5)
           T7 == reconcileInstalmentTasks(ev, T6)
           all == {TriggeredBy[f] : f \in DOMAIN TriggeredBy}
<1>1. rescheduleAllAutomaticTasks(ev, T, within) = IF live THEN T7 ELSE T2
  BY DEF rescheduleAllAutomaticTasks
<1>2. isOpen(T7[k]) BY <1>1
<1>3. /\ ev \in Events(F) /\ T \in [D -> Rows] /\ ev.archived = FALSE
      /\ \A j \in D : neededBy(j) \subseteq F
  BY ScenariosAssumption DEF TypeInv, Events
<1> HIDE DEF ev, T
<1>4. Opens(D, all, T, T1) BY <1>3, SweepOpens
<1>5. T1 \in [D -> Rows] BY <1>4 DEF Opens
<1> HIDE DEF T1
<1>6. k = "send_file_to_accounts" /\ isOpen(T2[k]) => ~dated(ev, "file_sent_to_accounts")
  BY <1>3, <1>5, ReminderSettles
<1>7. Opens(D, {"send_file_to_accounts"}, T1, T2)
  <2> HIDE DEF c
  <2> QED BY <1>5, ReminderOpens, OpensNothing
<1>8. T2 \in [D -> Rows] BY <1>7 DEF Opens
<1> HIDE DEF T2
<1>9. Opens(D, {"poc_incomplete"}, T2, T3) BY <1>8, PocOpens
<1>10. T3 \in [D -> Rows] BY <1>9 DEF Opens
<1>11. k = "poc_incomplete" /\ isOpen(T3[k]) => ev.field.poc = "incomplete"
  <2>1. k = "poc_incomplete" => "poc" \in F BY <1>3 DEF neededBy
  <2> QED BY <1>3, <1>8, <2>1, PocSettles
<1> HIDE DEF T3
<1>12. Opens(D, {"payment_followup"}, T3, T4) BY <1>10, PaymentOpens
<1>13. T4 \in [D -> Rows] BY <1>12 DEF Opens
<1>14. k = "payment_followup" /\ isOpen(T4[k]) =>
         ev.field.booking = "tentative" /\ ev.gate.payment # "Completed"
  <2>1. k = "payment_followup" => "booking" \in F BY <1>3 DEF neededBy
  <2> QED BY <1>3, <1>10, <2>1, PaymentSettles
<1> HIDE DEF T4
<1>15. Opens(D, {"readiness"}, T4, T5) BY <1>13, ReadinessOpens
<1>16. T5 \in [D -> Rows] BY <1>15 DEF Opens
<1>17. k = "readiness" /\ isOpen(T5[k]) => ev.field.section = "incomplete"
  <2>1. k = "readiness" => "section" \in F BY <1>3 DEF neededBy
  <2> QED BY <1>3, <1>13, <2>1, ReadinessSettles
<1> HIDE DEF T5
<1>18. Opens(D, {}, T5, T6) BY <1>16, PhaseOpens
<1>19. T6 \in [D -> Rows] BY <1>18 DEF Opens
<1>20. isOpen(T6[k]) /\ k # "poc_incomplete" =>
         canGenerateTaskForPhase(k, getActiveWorkflowPhase(ev))
  BY <1>3, <1>16, PhaseCloses
<1> HIDE DEF T6
<1>21. Opens(D, {"instalment"}, T6, T7) BY <1>19, InstalmentOpens
<1>22. k = "instalment" =>
         /\ ev.field.instalment = "Yes" /\ ev.field.expected = "due"
         /\ ev.field.received = "No" /\ ev.gate.payment # "Completed"
         /\ canGenerateTaskForPhase(k, getActiveWorkflowPhase(ev))
  <2>1. k = "instalment" => {"instalment", "expected", "received"} \subseteq F
    BY <1>3 DEF neededBy
  <2> QED BY <1>2, <1>3, <1>19, <1>20, <2>1, InstalmentSettles
<1> HIDE DEF T7
<1>23. k # "instalment" => isOpen(T6[k]) BY <1>2, <1>21 DEF Opens
<1>24. k # "instalment" => isOpen(T5[k]) BY <1>18, <1>23 DEF Opens
<1>25. k \notin {"instalment", "readiness"} => isOpen(T4[k]) BY <1>15, <1>24 DEF Opens
<1>26. k \notin {"instalment", "readiness", "payment_followup"} => isOpen(T3[k])
  BY <1>12, <1>25 DEF Opens
<1>27. k \notin {"instalment", "readiness", "payment_followup", "poc_incomplete"} => isOpen(T2[k])
  BY <1>9, <1>26 DEF Opens
<1>28. k # "poc_incomplete" => canGenerateTaskForPhase(k, getActiveWorkflowPhase(ev))
  BY <1>20, <1>22, <1>23
<1>29. CASE k = "poc_incomplete" BY <1>11, <1>26, <1>29 DEF due, ev
<1>30. CASE k = "payment_followup" BY <1>14, <1>25, <1>28, <1>30 DEF due, ev
<1>31. CASE k = "readiness" BY <1>17, <1>24, <1>28, <1>31 DEF due, ev
<1>32. CASE k = "instalment" BY <1>22, <1>28, <1>32 DEF due, ev
<1>33. CASE k = "send_file_to_accounts" BY <1>6, <1>27, <1>28, <1>33 DEF due, ev
<1>34. CASE k \notin {"poc_incomplete", "payment_followup", "readiness", "instalment",
                      "send_file_to_accounts"}
  BY <1>28, <1>34 DEF due, ev
<1> QED BY <1>29, <1>30, <1>31, <1>32, <1>33, <1>34

\* One run of the scheduler puts the work list of a live event right, whatever
\* requests, days and people left behind: no automatic task that is not due is open.
THEOREM SchedulerPutsItRight == Spec => []CronSettles
<1>1. TypeInv => CronSettles
  <2>1. SUFFICES ASSUME TypeInv, ~e.archived, ~terminal(e), NEW within \in scenario.windows,
                        NEW k \in automatic(rescheduleAllAutomaticTasks(e, tasks, within)),
                        isOpen(rescheduleAllAutomaticTasks(e, tasks, within)[k])
                 PROVE  due(e, k)
    BY DEF CronSettles
  <2> DEFINE D == scenario.tasks
             U == rescheduleAllAutomaticTasks(e, tasks, within)
             L == {TriggeredBy[f] : f \in DOMAIN TriggeredBy} \cup FormRules \cup {"instalment"}
  <2>2. Opens(D, L, tasks, U) BY <2>1, CronOpens DEF TypeInv
  <2>3. DOMAIN U = D BY <2>2 DEF Opens
  <2>4. k \in D /\ k # "manual" BY <2>1, <2>3 DEF automatic
  <2> QED BY <2>1, <2>4, SchedulerSettles
<1> QED BY <1>1, TypesAreKept, PTL

-----------------------------------------------------------------------------
\* Once the final file is back, nobody is sent after it.

OtherRules == {"poc_incomplete", "payment_followup", "readiness", "send_file_to_accounts",
               "instalment", "confirmation_make", "confirmation_letter", "approval_followup",
               "onstage", "feedback", "tds_send_to_accounts"}

\* On a live event no journey of the file is ever closed with the file: the phase
\* reconciler has cancelled it before.
ClosedApart ==
  ~e.archived => \A k \in AccountsFileTask \cap scenario.tasks : tasks[k].note # "closed"

Final == TypeInv /\ ClosedApart /\ FinalFileIsFinal

LEMMA OtherRulesAreApart ==
  /\ OtherRules \cap AccountsFileTask = {}
  /\ FormRules \subseteq OtherRules /\ Demoted \subseteq OtherRules
  /\ \A g \in DOMAIN CompletionByField : CompletionByField[g] \in OtherRules
BY CompletionNames DEF OtherRules, AccountsFileTask, FormRules, Demoted

LEMMA FinalDated ==
  ASSUME NEW F, NEW ev \in Events(F)
  PROVE  dated(ev, "final_file_received") <=>
           "final_file_received" \in F /\ ev.field["final_file_received"] = "dated"
<1>1. DOMAIN ev.field = F BY FieldTypes
<1>2. "final_file_received" \notin GateField BY GateFieldNames
<1> QED BY <1>1, <1>2 DEF dated, has, fieldsOf, value

\* With the final file back, no field creates a journey.
LEMMA NoJourneyIsCreated ==
  ASSUME NEW ev, dated(ev, "final_file_received"), NEW f \in DOMAIN TriggeredBy, MayCreate(ev, f)
  PROVE  TriggeredBy[f] \in OtherRules
BY TriggerNames DEF MayCreate, OtherRules

LEMMA ClosedApartStep ==
  ASSUME Final, TypeInv', scenario' = scenario, e.archived => e'.archived,
         NEW K, Opens(scenario.tasks, K, tasks, tasks')
  PROVE  ClosedApart'
BY DEF Final, ClosedApart, Opens

\* The part of the step that is about open rows.
LEMMA FinalStep ==
  ASSUME Final, TypeInv', scenario' = scenario, ~e.archived,
         byUser' = {k \in byUser : tasks'[k].st = tasks[k].st}, dated(e, "final_file_received"),
         \A k \in AccountsFileTask \cap scenario.tasks : isOpen(tasks'[k]) => isOpen(tasks[k])
  PROVE  FinalFileIsFinal'
<1> DEFINE D == scenario.tasks
<1>1. tasks \in [D -> Rows] /\ tasks' \in [D -> Rows] BY DEF Final, TypeInv
<1>2. \A k \in AccountsFileTask \cap D : isOpen(tasks[k]) => k \in byUser
  BY <1>1 DEF Final, FinalFileIsFinal
<1>4. \A k \in AccountsFileTask \cap D : isOpen(tasks'[k]) => k \in byUser'
  BY <1>2 DEF isOpen
<1>5. DOMAIN tasks' = D BY <1>1
<1> QED BY <1>4, <1>5 DEF FinalFileIsFinal

LEMMA FinalEdit ==
  ASSUME Final, ~e.archived, NEW f \in DOMAIN scenario.offers, NEW v \in scenario.offers[f],
         NEW within, NEW target \in Targets, PatchChecklist(f, v, within, target)
  PROVE  /\ ClosedApart' /\ FinalFileIsFinal'
<1> DEFINE D == scenario.tasks
           F == DOMAIN scenario.field
           ev == written(f, v)
           L == OtherRules
           M == OtherRules \cup AccountsFileTask
<1>1. /\ ev \in Events(F) /\ ev.archived = e.archived
      /\ \A x \in F \ {f, "approval_status"} : ev.field[x] = e.field[x]
      /\ f \in F \ {"approval_status"} => ev.field[f] = v
  BY WriteOfAField DEF Final, PatchChecklist
<1>2. /\ TypeInv' /\ scenario' = scenario /\ EventAfter(ev, target)
  BY EditTypes DEF Final, Targets
<1>3. AfterEdit(ev, f, v, within, target) /\ Remember BY DEF PatchChecklist
<1>4. tasks \in [D -> Rows] /\ e \in Events(F) BY DEF Final, TypeInv
<1> HIDE DEF ev
<1>5. dated(e', "final_file_received") <=> dated(ev, "final_file_received")
  <2>1. e' \in Events(F) BY <1>2 DEF TypeInv
  <2> QED BY <1>1, <1>2, <2>1, FinalDated DEF EventAfter
<1>6. \A g \in DOMAIN TriggeredBy : TriggeredBy[g] \in M
  BY TriggerNames DEF OtherRules
<1>7. MayOpen(ev, f, M) BY <1>6 DEF MayOpen, OtherRules
<1>8. PICK T : /\ Opens(D, M, tasks, T)
               /\ LET U == maybeCompleteTasksForChecklistUpdate(ev, T, f, v)
                  IN  U \in [D -> Rows] =>
                        Opens(D, Reconsidered(ev), reconcileFollowUpTasks(ev, U), tasks')
               /\ \E W : e' = demote(ev, W, target).e /\ W \in [D -> Rows]
  BY <1>1, <1>3, <1>4, <1>7, EditChain DEF Targets
<1>9. ASSUME NEW K, NEW X, Opens(D, K, tasks, X),
             \A g \in DOMAIN CompletionByField : CompletionByField[g] \in K,
             "instalment" \in K, "confirmation_make" \in K, Demoted \subseteq K,
             f = "final_file_received" /\ v # "dated" => AccountsFileTask \subseteq K,
             LET U == maybeCompleteTasksForChecklistUpdate(ev, X, f, v)
             IN  U \in [D -> Rows] =>
                   Opens(D, Reconsidered(ev), reconcileFollowUpTasks(ev, U), tasks')
      PROVE  /\ Opens(D, K, tasks, tasks')
             /\ Opens(D, K, maybeCompleteTasksForChecklistUpdate(ev, X, f, v), tasks')
  <2> DEFINE U == maybeCompleteTasksForChecklistUpdate(ev, X, f, v)
             V == reconcileFollowUpTasks(ev, U)
  <2>1. X \in [D -> Rows] BY <1>9 DEF Opens
  <2>2. Opens(D, K, X, U) BY <1>9, <2>1, AnsweringOpens
  <2>3. U \in [D -> Rows] BY <2>2 DEF Opens
  <2>4. Opens(D, Reconsidered(ev), V, tasks') BY <1>9, <2>3
  <2> HIDE DEF U
  <2>5. Opens(D, K, U, V) BY <1>9, <2>3, FollowUpsOpen
  <2> HIDE DEF V
  <2>6. Opens(D, K, V, tasks') BY <1>9, <2>4, OpensMore DEF Reconsidered
  <2>7. Opens(D, K, U, tasks') BY <2>5, <2>6, OpensChain
  <2>8. Opens(D, K, tasks, tasks') BY <1>9, <2>2, <2>7, OpensChain
  <2> QED BY <2>7, <2>8 DEF U
<1>10. /\ \A g \in DOMAIN CompletionByField : CompletionByField[g] \in L
       /\ "instalment" \in L /\ "confirmation_make" \in L /\ Demoted \subseteq L
       /\ L \subseteq M /\ L \cap AccountsFileTask = {} /\ AccountsFileTask \subseteq M
  BY OtherRulesAreApart DEF OtherRules
<1>11. ClosedApart'
  <2>1. Opens(D, M, tasks, tasks') BY <1>8, <1>9, <1>10
  <2>2. e.archived => e'.archived BY <1>1, <1>2 DEF EventAfter
  <2> QED BY <1>2, <2>1, <2>2, ClosedApartStep
<1>12. FinalFileIsFinal'
  <2>1. SUFFICES ASSUME dated(ev, "final_file_received") PROVE FinalFileIsFinal'
    BY <1>5 DEF FinalFileIsFinal
  <2>2. CASE f = "final_file_received"
    <3>1. v = "dated" BY <1>1, <2>1, <2>2, FinalDated
    <3> DEFINE U == maybeCompleteTasksForChecklistUpdate(ev, T, f, v)
    <3>2. U = complete(T, AccountsFileTask, "auto")
      BY <2>2, <3>1
      DEF maybeCompleteTasksForChecklistUpdate, completeTasksForSourceRules, AnsweredBy,
          CompletionByField
    <3>3. T \in [D -> Rows] BY <1>8 DEF Opens
    <3>4. \A k \in AccountsFileTask \cap D : ~isOpen(U[k])
      BY <3>2, <3>3, ClosedByUpdates
    <3>5. Opens(D, L, U, tasks')
      <4>1. U \in [D -> Rows]
        <5>1. "auto" \in Note \ {"closed"} BY DEF Note, AutoNote
        <5> HIDE DEF U
        <5>2. Opens(D, {}, T, U) BY <3>2, <3>3, <5>1, ClosingOpens
        <5> QED BY <5>2 DEF Opens
      <4> DEFINE V == reconcileFollowUpTasks(ev, U)
      <4>2. Opens(D, Reconsidered(ev), V, tasks') BY <1>8, <4>1
      <4> HIDE DEF U
      <4>3. Opens(D, L, U, V) BY <1>10, <4>1, FollowUpsOpen
      <4> HIDE DEF V
      <4>4. Opens(D, L, V, tasks') BY <1>10, <4>2, OpensMore DEF Reconsidered
      <4> QED BY <4>3, <4>4, OpensChain
    <3>6. \A k \in AccountsFileTask \cap D : ~isOpen(tasks'[k]) BY <1>10, <3>4, <3>5 DEF Opens
    <3>7. DOMAIN tasks' = D BY <1>2 DEF TypeInv
    <3> QED BY <3>6, <3>7 DEF FinalFileIsFinal
  <2>3. CASE f # "final_file_received"
    <3>1. dated(e, "final_file_received") BY <1>1, <1>4, <2>1, <2>3, FinalDated
    <3>2. f \in DOMAIN TriggeredBy /\ MayCreate(ev, f) => TriggeredBy[f] \in L
      BY <2>1, NoJourneyIsCreated
    <3>3. MayOpen(ev, f, L) BY <3>2 DEF MayOpen, OtherRules
    <3>4. PICK X : /\ Opens(D, L, tasks, X)
                   /\ LET U == maybeCompleteTasksForChecklistUpdate(ev, X, f, v)
                      IN  U \in [D -> Rows] =>
                            Opens(D, Reconsidered(ev), reconcileFollowUpTasks(ev, U), tasks')
                   /\ \E W : e' = demote(ev, W, target).e /\ W \in [D -> Rows]
      BY <1>1, <1>3, <1>4, <3>3, EditChain DEF Targets
    <3>5. Opens(D, L, tasks, tasks') BY <1>9, <1>10, <2>3, <3>4
    <3>6. \A k \in AccountsFileTask \cap D : isOpen(tasks'[k]) => isOpen(tasks[k])
      BY <1>10, <3>5 DEF Opens
    <3> QED BY <1>2, <1>3, <3>1, <3>6, FinalStep DEF Remember
  <2> QED BY <2>2, <2>3
<1> QED BY <1>11, <1>12

\* Out of the accounts phase a journey is not asked for.
LEMMA JourneyPhase ==
  ASSUME NEW F, NEW ev \in Events(F), NEW k \in AccountsFileTask,
         canGenerateTaskForPhase(k, getActiveWorkflowPhase(ev))
  PROVE  ev.status = "confirmed" /\ ~ev.closed
<1>1. workflowPhaseForTaskRule(k) = "accounts"
  BY DEF workflowPhaseForTaskRule, AccountsFileTask
<1>2. k \notin {"instalment", "payment_followup"} BY DEF AccountsFileTask
<1>3. getActiveWorkflowPhase(ev) = "accounts" BY <1>1, <1>2 DEF canGenerateTaskForPhase
<1> QED BY <1>3 DEF getActiveWorkflowPhase

LEMMA RescheduleOpens ==
  ASSUME NEW D, NEW L, NEW T \in [D -> Rows], NEW ev, NEW within,
         \A f \in DOMAIN TriggeredBy : MayCreate(ev, f) => TriggeredBy[f] \in L,
         {"instalment", "confirmation_make", "send_file_to_accounts"} \subseteq L
  PROVE  Opens(D, L, T, rescheduleAutomaticTasks(ev, T, within))
<1> DEFINE T1 == createForAllFields(ev, T, within)
           T2 == reconcileInstalmentTasks(ev, T1)
           T3 == reconcileFollowUpTasks(ev, T2)
           T4 == reconcileFileToAccountsReminder(ev, T3)
           T5 == reconcileWorkflowPhaseTasks(ev, T4)
<1>1. rescheduleAutomaticTasks(ev, T, within) = T5 BY DEF rescheduleAutomaticTasks
<1>2. Opens(D, L, T, T1) BY SweepOpens
<1>3. T1 \in [D -> Rows] BY <1>2 DEF Opens
<1> HIDE DEF T1
<1>4. Opens(D, L, T1, T2) BY <1>3, InstalmentOpens
<1>5. T2 \in [D -> Rows] BY <1>4 DEF Opens
<1> HIDE DEF T2
<1>6. Opens(D, L, T2, T3) BY <1>5, FollowUpsOpen
<1>7. T3 \in [D -> Rows] BY <1>6 DEF Opens
<1> HIDE DEF T3
<1>8. Opens(D, L, T3, T4) BY <1>7, ReminderOpens
<1>9. T4 \in [D -> Rows] BY <1>8 DEF Opens
<1> HIDE DEF T4
<1>10. Opens(D, L, T4, T5) BY <1>9, PhaseOpens
<1> HIDE DEF T5
<1> QED BY <1>1, <1>2, <1>4, <1>6, <1>8, <1>10, OpensChain

LEMMA FinalClose ==
  ASSUME Final, ~e.archived, NEW target \in Targets, CloseFile(target)
  PROVE  ClosedApart' /\ FinalFileIsFinal'
<1> DEFINE D == scenario.tasks
           F == DOMAIN scenario.field
           ev == FileClosed(TRUE)
           P == reconcilePocTask(ev, tasks)
<1>1. tasks \in [D -> Rows] /\ e \in Events(F) BY DEF Final, TypeInv
<1>2. PICK T, U : /\ Opens(D, {"confirmation_make"}, P, T)
                  /\ T = reconcileFollowUpTasks(ev, P)
                  /\ U = reconcileWorkflowPhaseTasks(ev, T)
                  /\ e' = demote(ev, cancel(U, automatic(U), "closed"), target).e
                  /\ tasks' = demote(ev, cancel(U, automatic(U), "closed"), target).T
  BY CloseChain DEF Final, Targets
<1>3. ev \in Events(F) /\ ev.closed /\ ev.archived = FALSE /\ ev.field = e.field
  BY <1>1, FileOfEvent DEF Events
<1> HIDE DEF ev
<1>4. Opens(D, {"poc_incomplete"}, tasks, P) BY <1>1, PocOpens
<1> HIDE DEF P
<1>5. T \in [D -> Rows] BY <1>2 DEF Opens
<1>6. Opens(D, {}, T, U) BY <1>2, <1>5, PhaseOpens
<1>7. U \in [D -> Rows] BY <1>6 DEF Opens
<1>8. \A k \in AccountsFileTask \cap D : ~isOpen(U[k])
  <2>1. ASSUME NEW k \in AccountsFileTask \cap D, isOpen(U[k]) PROVE FALSE
    <3>1. isOpen(reconcileWorkflowPhaseTasks(ev, T)[k]) BY <1>2, <2>1
    <3>2. k \in {"manual", "poc_incomplete"}
            \/ canGenerateTaskForPhase(k, getActiveWorkflowPhase(ev))
      BY <1>3, <1>5, <3>1, PhaseCloses
    <3>3. k \notin {"manual", "poc_incomplete"} BY DEF AccountsFileTask
    <3> QED BY <1>3, <3>2, <3>3, JourneyPhase
  <2> QED BY <2>1
<1> DEFINE V == cancel(U, automatic(U), "closed")
<1>9. V \in [D -> Rows] /\ \A k \in AccountsFileTask \cap D : V[k] = U[k]
  <2>1. "closed" \in Note BY DEF Note
  <2>2. V \in [D -> Rows] BY <1>7, <2>1, CancelOpensNone
  <2> QED BY <1>7, <1>8, <2>2 DEF cancel
<1>10. e' = demote(ev, V, target).e /\ tasks' = demote(ev, V, target).T BY <1>2
<1> HIDE DEF V
<1>11. Opens(D, Demoted, V, tasks') BY <1>9, <1>10, DemotedTasks
<1>12. Demoted \cap AccountsFileTask = {} BY OtherRulesAreApart
<1>13. \A k \in AccountsFileTask \cap D :
         ~isOpen(tasks'[k]) /\ (tasks'[k].note = "closed" => tasks[k].note = "closed")
  BY <1>2, <1>4, <1>6, <1>8, <1>9, <1>11, <1>12 DEF Opens
<1>14. scenario' = scenario /\ DOMAIN tasks' = D
  BY <1>11 DEF CloseFile, Remember, Opens
<1> QED BY <1>13, <1>14 DEF ClosedApart, FinalFileIsFinal, Final

LEMMA FinalReopen ==
  ASSUME Final, ~e.archived, NEW within, NEW target \in Targets, ReopenFile(within, target)
  PROVE  ClosedApart' /\ FinalFileIsFinal'
<1> DEFINE D == scenario.tasks
           F == DOMAIN scenario.field
           ev == FileClosed(FALSE)
           K == {"poc_incomplete", "confirmation_make"}
           M == OtherRules \cup AccountsFileTask
<1>1. tasks \in [D -> Rows] /\ e \in Events(F) BY DEF Final, TypeInv
<1>2. PICK T, U, V :
        /\ T = reconcileFollowUpTasks(ev, reconcilePocTask(ev, tasks))
        /\ Opens(D, K, tasks, T)
        /\ U = BroughtBack(ev, T)
        /\ U \in [D -> Rows]
        /\ V = rescheduleAutomaticTasks(ev, U, within) /\ V \in [D -> Rows]
        /\ e' = demote(ev, V, target).e /\ tasks' = demote(ev, V, target).T
  BY ReopenChain DEF Final, Targets
<1>3. ev \in Events(F) /\ ev.archived = FALSE /\ ev.field = e.field
  BY <1>1, FileOfEvent DEF Events
<1>4. TypeInv' /\ scenario' = scenario /\ Remember
  BY FileTypes DEF Final, Targets, ReopenFile
<1> HIDE DEF ev
<1>5. T \in [D -> Rows] BY <1>2 DEF Opens
<1> DEFINE Q == reconcileWorkflowPhaseTasks(ev, T)
<1>6. Opens(D, {}, T, Q) BY <1>5, PhaseOpens
<1>7. U = reopen(Q, automatic(T), "cancelled", {"closed"}) BY <1>2 DEF BroughtBack
<1> HIDE DEF Q
<1>8. Opens(D, D, Q, U)
  <2>1. Q \in [D -> Rows] BY <1>6 DEF Opens
  <2>2. automatic(T) \subseteq D BY <1>5 DEF automatic
  <2> QED BY <1>7, <2>1, <2>2, ReopenOpens
<1>9. \A k \in AccountsFileTask \cap D : Q[k].note # "closed"
  BY <1>2, <1>6 DEF Opens, Final, ClosedApart
<1>10. \A k \in AccountsFileTask \cap D : isOpen(U[k]) => isOpen(Q[k])
  BY <1>6, <1>7, <1>9 DEF reopen, isOpen, Opens
<1>11. Opens(D, Demoted, V, tasks') BY <1>2, DemotedTasks
<1>12. ClosedApart'
  <2>1. Opens(D, M \cup D, tasks, T) BY <1>2 DEF Opens, OtherRules
  <2>2. Opens(D, M \cup D, T, Q) BY <1>6, OpensMore
  <2>3. Opens(D, M \cup D, Q, U) BY <1>8, OpensMore
  <2>4. Opens(D, M \cup D, U, V)
    <3>1. \A f \in DOMAIN TriggeredBy : TriggeredBy[f] \in M \cup D
      BY TriggerNames DEF OtherRules
    <3>2. {"instalment", "confirmation_make", "send_file_to_accounts"} \subseteq M \cup D
      BY DEF OtherRules
    <3> HIDE DEF M
    <3> QED BY <1>2, <3>1, <3>2, RescheduleOpens
  <2>5. Opens(D, M \cup D, V, tasks') BY <1>11, OtherRulesAreApart, OpensMore
  <2>6. Opens(D, M \cup D, tasks, tasks') BY <2>1, <2>2, <2>3, <2>4, <2>5, OpensChain
  <2> QED BY <1>4, <2>6, ClosedApartStep
<1>13. FinalFileIsFinal'
  <2>1. dated(e', "final_file_received") <=> dated(e, "final_file_received")
    <3>1. e' \in Events(F) BY <1>4 DEF TypeInv
    <3>2. \A x \in F \ {"booking"} : e'.field[x] = e.field[x]
      BY <1>2, <1>3, DemotedEvent DEF Targets
    <3> QED BY <1>1, <3>1, <3>2, FinalDated
  <2>2. SUFFICES ASSUME dated(e, "final_file_received") PROVE FinalFileIsFinal'
    BY <2>1 DEF FinalFileIsFinal
  <2>3. dated(ev, "final_file_received") BY <1>1, <1>3, <2>2, FinalDated
  <2>4. Opens(D, OtherRules, U, V)
    <3>1. \A f \in DOMAIN TriggeredBy : MayCreate(ev, f) => TriggeredBy[f] \in OtherRules
      BY <2>3, NoJourneyIsCreated
    <3>2. {"instalment", "confirmation_make", "send_file_to_accounts"} \subseteq OtherRules
      BY DEF OtherRules
    <3> QED BY <1>2, <3>1, <3>2, RescheduleOpens
  <2>5. K \cap AccountsFileTask = {} BY OtherRulesAreApart DEF OtherRules
  <2>6. \A k \in AccountsFileTask \cap D : isOpen(tasks'[k]) => isOpen(tasks[k])
    BY <1>2, <1>6, <1>10, <1>11, <2>4, <2>5, OtherRulesAreApart DEF Opens
  <2> QED BY <1>4, <2>2, <2>6, FinalStep DEF Remember
<1> QED BY <1>12, <1>13

LEMMA FinalStatus ==
  ASSUME Final, ~e.archived, NEW to \in Status, StatusChange(to)
  PROVE  ClosedApart' /\ FinalFileIsFinal'
<1> DEFINE D == scenario.tasks
           F == DOMAIN scenario.field
<1>1. TypeInv /\ tasks \in [D -> Rows] /\ e \in Events(F) BY DEF Final, TypeInv
<1>2. /\ TypeInv' /\ scenario' = scenario /\ e'.status = to /\ e'.archived = e.archived
      /\ \A x \in F \ {"booking"} : e'.field[x] = e.field[x]
  BY <1>1, StatusChain
<1>3. PICK T : /\ Opens(D, Automatic(D), tasks, T)
               /\ ~terminal(e) /\ ~terminal(e') => Opens(D, FormRules, tasks, T)
               /\ tasks' = reconcileWorkflowPhaseTasks(e', T)
  BY <1>1, StatusChain
<1>4. T \in [D -> Rows] BY <1>3 DEF Opens
<1>5. Opens(D, {}, T, tasks') BY <1>3, <1>4, PhaseOpens
<1>6. ClosedApart'
  <2>1. Opens(D, Automatic(D), T, tasks') BY <1>5, OpensMore
  <2>2. Opens(D, Automatic(D), tasks, tasks') BY <1>3, <2>1, OpensChain
  <2> QED BY <1>2, <2>2, ClosedApartStep
<1>7. FinalFileIsFinal'
  <2>1. e' \in Events(F) BY <1>2 DEF TypeInv
  <2>2. dated(e', "final_file_received") <=> dated(e, "final_file_received")
    BY <1>1, <1>2, <2>1, FinalDated
  <2>3. SUFFICES ASSUME dated(e, "final_file_received") PROVE FinalFileIsFinal'
    BY <2>2 DEF FinalFileIsFinal
  <2>4. ASSUME NEW k \in AccountsFileTask \cap D, isOpen(tasks'[k]) PROVE isOpen(tasks[k])
    <3>1. e'.archived = FALSE BY <1>1, <1>2 DEF Events
    <3>2. k \notin {"manual", "poc_incomplete"} BY DEF AccountsFileTask
    <3>3. isOpen(reconcileWorkflowPhaseTasks(e', T)[k]) BY <1>3, <2>4
    <3>4. canGenerateTaskForPhase(k, getActiveWorkflowPhase(e'))
      BY <1>4, <3>1, <3>2, <3>3, PhaseCloses
    <3>5. to = "confirmed" BY <1>2, <2>1, <3>4, JourneyPhase
    <3>6. ~terminal(e) /\ ~terminal(e')
      <4>1. canTransition(e.status, to) BY DEF StatusChange
      <4>2. e.status \in Status BY <1>1 DEF Events
      <4> QED BY <1>2, <3>5, <4>1, <4>2 DEF canTransition, Transitions, Status, terminal
    <3>7. isOpen(T[k]) BY <1>5, <2>4 DEF Opens
    <3>8. k \notin FormRules BY OtherRulesAreApart
    <3> QED BY <1>3, <3>6, <3>7, <3>8 DEF Opens
  <2>5. byUser' = {k \in byUser : tasks'[k].st = tasks[k].st} BY DEF StatusChange
  <2> QED BY <1>2, <2>3, <2>4, <2>5, FinalStep
<1> QED BY <1>6, <1>7

LEMMA FinalForm ==
  ASSUME Final, ~e.archived, NEW day \in scenario.days, NEW form \in scenario.forms,
         EditEvent(day, form)
  PROVE  ClosedApart' /\ FinalFileIsFinal'
<1> DEFINE D == scenario.tasks
           F == DOMAIN scenario.field
           L == IF terminal(e') THEN {} ELSE FormRules
<1>1. TypeInv /\ e \in Events(F) BY DEF Final, TypeInv
<1>2. /\ TypeInv' /\ scenario' = scenario /\ e'.archived = e.archived
      /\ \A x \in F \ FormField : e'.field[x] = e.field[x]
      /\ Opens(D, L, tasks, tasks')
  BY <1>1, FormChain
<1>3. L \cap AccountsFileTask = {} BY OtherRulesAreApart
<1> HIDE DEF L
<1>4. e' \in Events(F) BY <1>2 DEF TypeInv
<1>5. "final_file_received" \notin FormField BY DEF FormField
<1>6. dated(e', "final_file_received") <=> dated(e, "final_file_received")
  BY <1>1, <1>2, <1>4, <1>5, FinalDated
<1>7. \A k \in AccountsFileTask \cap D : isOpen(tasks'[k]) => isOpen(tasks[k])
  BY <1>2, <1>3 DEF Opens
<1>8. ClosedApart' BY <1>2, ClosedApartStep
<1>9. FinalFileIsFinal'
  <2>1. SUFFICES ASSUME dated(e, "final_file_received") PROVE FinalFileIsFinal'
    BY <1>6 DEF FinalFileIsFinal
  <2> QED BY <1>2, <1>7, <2>1, FinalStep DEF EditEvent, Remember
<1> QED BY <1>8, <1>9

LEMMA FinalCron ==
  ASSUME Final, ~e.archived, NEW within, Cron(within)
  PROVE  ClosedApart' /\ FinalFileIsFinal'
<1> DEFINE D == scenario.tasks
           L == OtherRules
           M == OtherRules \cup AccountsFileTask
<1>1. tasks \in [D -> Rows] /\ TypeInv BY DEF Final, TypeInv
<1>2. TypeInv' /\ scenario' = scenario /\ e' = e BY <1>1, CronTypes
<1>3. tasks' = rescheduleAllAutomaticTasks(e, tasks, within) BY DEF Cron
<1>4. FormRules \cup {"instalment"} \subseteq L BY OtherRulesAreApart DEF OtherRules
<1>5. \A f \in DOMAIN TriggeredBy : TriggeredBy[f] \in M BY TriggerNames DEF OtherRules
<1>6. Opens(D, M, tasks, tasks') BY <1>1, <1>3, <1>4, <1>5, CronOpens
<1>7. ClosedApart' BY <1>2, <1>6, ClosedApartStep
<1>8. FinalFileIsFinal'
  <2>1. SUFFICES ASSUME dated(e, "final_file_received") PROVE FinalFileIsFinal'
    BY <1>2 DEF FinalFileIsFinal
  <2>2. \A f \in DOMAIN TriggeredBy : MayCreate(e, f) => TriggeredBy[f] \in L
    BY <2>1, NoJourneyIsCreated
  <2>3. Opens(D, L, tasks, tasks') BY <1>1, <1>3, <1>4, <2>2, CronOpens
  <2>4. \A k \in AccountsFileTask \cap D : isOpen(tasks'[k]) => isOpen(tasks[k])
    BY <2>3, OtherRulesAreApart DEF Opens
  <2> QED BY <1>2, <2>1, <2>4, FinalStep DEF Cron, Remember
<1> QED BY <1>7, <1>8

\* The inductive step.
LEMMA FinalKept ==
  ASSUME Final, [Next]_vars
  PROVE  ClosedApart' /\ FinalFileIsFinal'
<1> DEFINE D == scenario.tasks
           F == DOMAIN scenario.field
<1>1. TypeInv /\ TypeInv' /\ scenario' = scenario /\ (e.archived => e'.archived)
  BY StepTypes DEF Final
<1>2. tasks \in [D -> Rows] /\ tasks' \in [D -> Rows] /\ e \in Events(F) /\ e' \in Events(F)
  BY <1>1 DEF TypeInv
<1>3. SUFFICES ASSUME ~e'.archived PROVE ClosedApart' /\ FinalFileIsFinal'
  BY DEF ClosedApart, FinalFileIsFinal
<1>4. ~e.archived BY <1>1, <1>3
<1>5. CASE ChecklistEdit
  <2>1. PICK within \in scenario.windows, target \in Targets :
          \/ \E f \in DOMAIN scenario.offers : \E v \in scenario.offers[f] :
               PatchChecklist(f, v, within, target)
          \/ CloseFile(target) \/ ReopenFile(within, target)
    BY <1>5 DEF ChecklistEdit, Targets
  <2> QED BY <1>4, <2>1, FinalEdit, FinalClose, FinalReopen
<1>6. CASE ReadChecklist
  <2>1. e' = e /\ Opens(D, {"confirmation_make"}, tasks, tasks') BY <1>1, <1>6, ReadTypes
  <2>2. ClosedApart' BY <1>1, <2>1, ClosedApartStep
  <2>3. \A k \in AccountsFileTask \cap D : isOpen(tasks'[k]) => isOpen(tasks[k])
    BY <2>1 DEF Opens, AccountsFileTask
  <2>4. dated(e, "final_file_received") => FinalFileIsFinal'
    BY <1>1, <1>4, <1>6, <2>3, FinalStep DEF ReadChecklist, Remember
  <2> QED BY <2>1, <2>2, <2>4 DEF FinalFileIsFinal
<1>7. ASSUME NEW k \in DOMAIN tasks, NEW st \in {"open", "completed", "cancelled"},
             NEW noted \in BOOLEAN, PatchTask(k, st, noted)
      PROVE  ClosedApart' /\ FinalFileIsFinal'
  <2>1. /\ e' = e /\ \A j \in D \ {k} : tasks'[j] = tasks[j]
        /\ tasks'[k].note \in {"user", tasks[k].note}
    BY <1>1, <1>7, PersonTypes
  <2>2. byUser' = byUser \cup {k} BY <1>7 DEF PatchTask
  <2>3. ClosedApart' BY <1>1, <1>4, <2>1 DEF Final, ClosedApart
  <2>4. \A j \in AccountsFileTask \cap D :
          dated(e, "final_file_received") /\ isOpen(tasks[j]) => j \in byUser
    BY <1>2, <1>4 DEF Final, FinalFileIsFinal
  <2>5. \A j \in AccountsFileTask \cap D :
          dated(e', "final_file_received") /\ isOpen(tasks'[j]) => j \in byUser'
    BY <2>1, <2>2, <2>4
  <2>6. DOMAIN tasks' = D BY <1>2
  <2> QED BY <2>3, <2>5, <2>6 DEF FinalFileIsFinal
<1>8. ASSUME NEW day \in scenario.days, NEW form \in scenario.forms, EditEvent(day, form)
      PROVE  ClosedApart' /\ FinalFileIsFinal'
  BY <1>4, <1>8, FinalForm
<1>9. ASSUME NEW to \in Status, StatusChange(to) PROVE ClosedApart' /\ FinalFileIsFinal'
  BY <1>4, <1>9, FinalStatus
<1>10. CASE Archive BY <1>1, <1>3, <1>10, ArchiveTypes
<1>11. CASE DayPasses
  <2>1. tasks' = tasks /\ \A x \in F \ {"expected"} : e'.field[x] = e.field[x]
    BY <1>1, <1>11, DayTypes
  <2>2. Opens(D, {}, tasks, tasks') BY <1>2, <2>1, OpensNothing
  <2>3. ClosedApart' BY <1>1, <2>2, ClosedApartStep
  <2>4. dated(e', "final_file_received") <=> dated(e, "final_file_received")
    BY <1>2, <2>1, FinalDated
  <2>5. dated(e, "final_file_received") => FinalFileIsFinal'
    BY <1>1, <1>4, <1>11, <2>1, FinalStep DEF DayPasses, Remember
  <2> QED BY <2>3, <2>4, <2>5 DEF FinalFileIsFinal
<1>12. ASSUME NEW within, Cron(within) PROVE ClosedApart' /\ FinalFileIsFinal'
  BY <1>4, <1>12, FinalCron
<1>13. CASE UNCHANGED vars
  BY <1>13 DEF vars, Final, ClosedApart, FinalFileIsFinal, dated, has, fieldsOf, value, isOpen
<1> QED BY <1>5, <1>6, <1>7, <1>8, <1>9, <1>10, <1>11, <1>12, <1>13 DEF Next

\* Once the final file is back no journey of the file is followed up on a live event,
\* in whatever order its dates were entered, whatever the event went through and
\* however often its file was closed and reopened, unless a person asks for it.
THEOREM FinalFileEndsTheJourneys == Spec => []FinalFileIsFinal
<1>1. Init => Final
  <2>1. SUFFICES ASSUME Init PROVE Final OBVIOUS
  <2> DEFINE D == scenario.tasks
  <2>2. TypeInv BY <2>1, InitTypes
  <2>3. PICK T \in [D -> Rows] :
          /\ \A k \in D : T[k].note = "none" /\ (isOpen(T[k]) => k = "manual")
          /\ Opens(D, Demoted, T, tasks)
    BY <2>1, InitTypes
  <2>4. ASSUME NEW k \in AccountsFileTask \cap D
        PROVE  ~isOpen(tasks[k]) /\ tasks[k].note # "closed"
    <3>1. k # "manual" /\ k \notin Demoted BY <2>4, OtherRulesAreApart DEF AccountsFileTask
    <3> QED BY <2>3, <2>4, <3>1 DEF Opens
  <2>5. DOMAIN tasks = D BY <2>2 DEF TypeInv
  <2> QED BY <2>2, <2>4, <2>5 DEF Final, ClosedApart, FinalFileIsFinal
<1>2. Final /\ [Next]_vars => Final' BY StepTypes, FinalKept DEF Final
<1>3. Final => FinalFileIsFinal BY DEF Final
<1> QED BY <1>1, <1>2, <1>3, PTL DEF Spec

-----------------------------------------------------------------------------
\* An edit or a read leaves open no follow-up whose question is answered.

\* An open row of key k is still waiting for its answer.
Waiting(ev, k) ==
  /\ ~satisfied(ev, k)
  /\ k = "confirmation_make" => ev.gate.made = "No"
  /\ k = "confirmation_letter" => letterPending(ev)

FollowUp == {"approval_followup", "onstage", "feedback", "confirmation_make",
             "confirmation_letter"}

LEMMA FollowUpsSettle ==
  ASSUME NEW D, NEW T \in [D -> Rows], NEW ev, ev.gate \in Gate,
         NEW k \in D, isOpen(reconcileFollowUpTasks(ev, T)[k])
  PROVE  Waiting(ev, k)
<1> DEFINE make == {"confirmation_make"}
           sign == {"confirmation_letter"}
           V == CASE ev.gate.made = "Yes" -> settle(T, make)
                  [] ev.gate.made # "Yes" /\ ev.gate.costing = "Yes" ->
                       reopen(T, make, "completed", Note)
                  [] OTHER -> T
           U == CASE ev.gate.signed = "Yes" -> settle(V, sign)
                  [] ev.gate.signed # "Yes" /\ (ev.gate.couriered = "blank" \/ ev.gate.made # "Yes") ->
                       cancel(V, sign, "moot")
                  [] OTHER -> V
           W == settle(U, {j \in DOMAIN T : satisfied(ev, j)})
<1>1. reconcileFollowUpTasks(ev, T) = W
  BY DEF reconcileFollowUpTasks, reconcileConfirmationLetterTasks
<1>2. /\ ev.gate.made \in {"No", "Yes"} /\ ev.gate.signed \in {"No", "Yes"}
      /\ ev.gate.couriered \in {"blank", "dated"}
  BY DEF Gate, FieldValues
<1>3. V = settle(T, make) \/ V = reopen(T, make, "completed", Note) \/ V = T
  OBVIOUS
<1>4. V \in [D -> Rows]
  <2>1. "none" \in Note BY DEF Note
  <2> HIDE DEF V
  <2> QED BY <1>3, <2>1, UpdatesKeepRows
<1>5. k = "confirmation_make" /\ ev.gate.made = "Yes" => ~isOpen(V[k])
  <2>1. SUFFICES ASSUME k = "confirmation_make", ev.gate.made = "Yes" PROVE ~isOpen(V[k])
    OBVIOUS
  <2>2. V = settle(T, make) BY <2>1
  <2> HIDE DEF V
  <2> QED BY <2>1, <2>2, ClosedByUpdates
<1> HIDE DEF V
<1>6. U = settle(V, sign) \/ U = cancel(V, sign, "moot") \/ U = V
  OBVIOUS
<1>7. Opens(D, {}, V, U)
  <2>1. "moot" \in Note \ {"closed"} BY DEF Note
  <2> HIDE DEF U
  <2> QED BY <1>4, <1>6, <2>1, ClosingOpens, SettlingOpens, OpensNothing
<1>8. k = "confirmation_letter" /\ ~letterPending(ev) => ~isOpen(U[k])
  <2>1. SUFFICES ASSUME k = "confirmation_letter", ~letterPending(ev) PROVE ~isOpen(U[k])
    OBVIOUS
  <2>2. CASE ev.gate.signed = "Yes"
    <3>1. U = settle(V, sign) BY <2>2
    <3> HIDE DEF U
    <3> QED BY <1>4, <2>1, <3>1, ClosedByUpdates
  <2>3. CASE ev.gate.signed # "Yes" /\ (ev.gate.couriered = "blank" \/ ev.gate.made # "Yes")
    <3>1. U = cancel(V, sign, "moot") BY <2>3
    <3> HIDE DEF U
    <3> QED BY <1>4, <2>1, <3>1, ClosedByUpdates
  <2> QED BY <1>2, <2>1, <2>2, <2>3 DEF letterPending
<1>9. U \in [D -> Rows] BY <1>7 DEF Opens
<1> HIDE DEF U
<1>10. Opens(D, {}, U, W) BY <1>9, SettlingOpens
<1>11. satisfied(ev, k) => ~isOpen(W[k])
  <2>1. k \in DOMAIN T OBVIOUS
  <2>2. ASSUME satisfied(ev, k) PROVE ~isOpen(W[k])
    <3>1. k \in {j \in DOMAIN T : satisfied(ev, j)} BY <2>1, <2>2
    <3> QED BY <1>9, <3>1, ClosedByUpdates
  <2> QED BY <2>2
<1>12. isOpen(W[k]) BY <1>1
<1> HIDE DEF W
<1>13. isOpen(U[k]) /\ isOpen(V[k]) BY <1>7, <1>10, <1>12 DEF Opens
<1>14. ~satisfied(ev, k) BY <1>11, <1>12
<1>15. k = "confirmation_make" => ev.gate.made = "No" BY <1>2, <1>5, <1>13
<1>16. k = "confirmation_letter" => letterPending(ev) BY <1>8, <1>13
<1> QED BY <1>14, <1>15, <1>16 DEF Waiting

\* What another rule's task, or another booking, cannot change.
LEMMA OthersWait ==
  ASSUME NEW ev, NEW k, k \notin FollowUp
  PROVE  Waiting(ev, k)
BY DEF Waiting, FollowUp, satisfied

LEMMA StillWaiting ==
  ASSUME NEW F, NEW ev \in Events(F), NEW d \in Events(F), d.gate = ev.gate,
         \A x \in F \ {"booking"} : d.field[x] = ev.field[x], NEW k, Waiting(ev, k)
  PROVE  Waiting(d, k)
<1>1. DOMAIN ev.field = F /\ DOMAIN d.field = F BY FieldTypes
<1>2. \A f \in {"approval_required", "approval_received_on", "onstage_required",
                "onstage_received_from_client", "feedback_received"} :
        f \notin GateField /\ f # "booking"
  BY GateFieldNames
<1>3. \A f \in {"approval_required", "approval_received_on", "onstage_required",
                "onstage_received_from_client", "feedback_received"} :
        \A v : has(d, f, v) <=> has(ev, f, v)
  BY <1>1, <1>2 DEF has, fieldsOf, value
<1>4. satisfied(d, k) <=> satisfied(ev, k) BY <1>3 DEF satisfied, dated
<1> QED BY <1>4 DEF Waiting, letterPending

\* Opening other rules' tasks leaves what waits waiting.
LEMMA SettledKept ==
  ASSUME NEW D, NEW K, K \cap FollowUp = {}, NEW ev, NEW T, NEW U,
         \A k \in D : isOpen(T[k]) => Waiting(ev, k),
         \A k \in D : isOpen(U[k]) => isOpen(T[k]) \/ k \in K
  PROVE  \A k \in D : isOpen(U[k]) => Waiting(ev, k)
BY OthersWait

LEMMA DemotionKeepsSettled ==
  ASSUME NEW F, NEW ev \in Events(F), NEW D, NEW T \in [D -> Rows], NEW target \in Targets,
         \A k \in D : isOpen(T[k]) => Waiting(ev, k)
  PROVE  LET r == demote(ev, T, target)
         IN  \A k \in D : isOpen(r.T[k]) => Waiting(r.e, k)
<1> DEFINE r == demote(ev, T, target)
<1>1. /\ r.e \in Events(F) /\ r.e.gate = ev.gate
      /\ \A x \in F \ {"booking"} : r.e.field[x] = ev.field[x]
  BY DemotedEvent DEF Targets
<1>2. Opens(D, Demoted, T, r.T) BY DemotedTasks
<1> HIDE DEF r
<1>3. Demoted \cap FollowUp = {} BY DEF Demoted, FollowUp
<1>4. \A k \in D : isOpen(r.T[k]) => Waiting(ev, k)
  BY <1>2, <1>3, SettledKept DEF Opens
<1>5. \A k \in D : isOpen(r.T[k]) => Waiting(r.e, k) BY <1>1, <1>4, StillWaiting
<1> QED BY <1>5 DEF r

LEMMA EditSettles ==
  ASSUME TypeInv, NEW f \in DOMAIN scenario.offers, NEW v \in scenario.offers[f],
         NEW within, NEW target \in Targets, PatchChecklist(f, v, within, target)
  PROVE  \A k \in scenario.tasks : isOpen(tasks'[k]) => Waiting(e', k)
<1> DEFINE D == scenario.tasks
           F == DOMAIN scenario.field
           ev == written(f, v)
           M == OtherRules \cup AccountsFileTask \cup {"poc_incomplete"}
<1>1. ev \in Events(F) BY WriteOfAField DEF PatchChecklist
<1>2. TypeInv' /\ scenario' = scenario /\ EventAfter(ev, target) BY EditTypes DEF Targets
<1>3. AfterEdit(ev, f, v, within, target) BY DEF PatchChecklist
<1>4. tasks \in [D -> Rows] BY DEF TypeInv
<1> HIDE DEF ev
<1>5. \A g \in DOMAIN TriggeredBy : TriggeredBy[g] \in M BY TriggerNames DEF OtherRules
<1>6. MayOpen(ev, f, M) BY <1>5 DEF MayOpen, OtherRules
<1>7. PICK T : /\ Opens(D, M, tasks, T)
               /\ LET U == maybeCompleteTasksForChecklistUpdate(ev, T, f, v)
                  IN  U \in [D -> Rows] =>
                        Opens(D, Reconsidered(ev), reconcileFollowUpTasks(ev, U), tasks')
               /\ \E W : e' = demote(ev, W, target).e /\ W \in [D -> Rows]
  BY <1>1, <1>3, <1>4, <1>6, EditChain DEF Targets
<1> DEFINE U == maybeCompleteTasksForChecklistUpdate(ev, T, f, v)
           V == reconcileFollowUpTasks(ev, U)
<1>8. U \in [D -> Rows]
  <2>1. T \in [D -> Rows] BY <1>7 DEF Opens
  <2>2. "instalment" \in M /\ AccountsFileTask \subseteq M
        /\ \A g \in DOMAIN CompletionByField : CompletionByField[g] \in M
    BY OtherRulesAreApart DEF OtherRules
  <2> HIDE DEF M
  <2>3. Opens(D, M, T, U) BY <2>1, <2>2, AnsweringOpens
  <2> QED BY <2>3 DEF Opens
<1>9. Opens(D, Reconsidered(ev), V, tasks') BY <1>7, <1>8
<1> HIDE DEF U
<1>10. \A k \in D : isOpen(V[k]) => Waiting(ev, k)
  <2>1. ev.gate \in Gate BY <1>1 DEF Events
  <2> QED BY <1>8, <2>1, FollowUpsSettle
<1> HIDE DEF V
<1>11. Reconsidered(ev) \cap FollowUp = {} BY DEF Reconsidered, Demoted, FollowUp
<1>12. \A k \in D : isOpen(tasks'[k]) => isOpen(V[k]) \/ k \in Reconsidered(ev)
  BY <1>9 DEF Opens
<1>13. \A k \in D : isOpen(tasks'[k]) => Waiting(ev, k)
  BY <1>10, <1>11, <1>12, SettledKept
<1>14. /\ e' \in Events(F) /\ e'.gate = ev.gate
       /\ \A x \in F \ {"booking"} : e'.field[x] = ev.field[x]
  BY <1>2 DEF TypeInv, EventAfter
<1> QED BY <1>1, <1>13, <1>14, StillWaiting

LEMMA CloseSettles ==
  ASSUME TypeInv, NEW target \in Targets, CloseFile(target)
  PROVE  \A k \in scenario.tasks : isOpen(tasks'[k]) => Waiting(e', k)
<1> DEFINE D == scenario.tasks
           F == DOMAIN scenario.field
           ev == FileClosed(TRUE)
           P == reconcilePocTask(ev, tasks)
<1>1. tasks \in [D -> Rows] /\ e \in Events(F) BY DEF TypeInv
<1>2. PICK T, U : /\ Opens(D, {"confirmation_make"}, P, T)
                  /\ T = reconcileFollowUpTasks(ev, P)
                  /\ U = reconcileWorkflowPhaseTasks(ev, T)
                  /\ e' = demote(ev, cancel(U, automatic(U), "closed"), target).e
                  /\ tasks' = demote(ev, cancel(U, automatic(U), "closed"), target).T
  BY CloseChain DEF Targets
<1>3. ev \in Events(F) /\ ev.gate \in Gate BY <1>1, FileOfEvent DEF Events
<1> HIDE DEF ev
<1>4. P \in [D -> Rows] BY <1>2 DEF Opens
<1> HIDE DEF P
<1>5. \A k \in D : isOpen(T[k]) => Waiting(ev, k) BY <1>2, <1>3, <1>4, FollowUpsSettle
<1>6. T \in [D -> Rows] BY <1>2 DEF Opens
<1>7. Opens(D, {}, T, U) BY <1>2, <1>6, PhaseOpens
<1>8. U \in [D -> Rows] BY <1>7 DEF Opens
<1> DEFINE V == cancel(U, automatic(U), "closed")
<1>9. V \in [D -> Rows] /\ \A k \in D : isOpen(V[k]) => isOpen(U[k])
  <2>1. "closed" \in Note BY DEF Note
  <2> QED BY <1>8, <2>1, CancelOpensNone
<1>10. e' = demote(ev, V, target).e /\ tasks' = demote(ev, V, target).T BY <1>2
<1> HIDE DEF V
<1>11. \A k \in D : isOpen(V[k]) => Waiting(ev, k) BY <1>5, <1>7, <1>9 DEF Opens
<1> QED BY <1>3, <1>9, <1>10, <1>11, DemotionKeepsSettled

LEMMA ReopenSettles ==
  ASSUME TypeInv, NEW within, NEW target \in Targets, ReopenFile(within, target)
  PROVE  \A k \in scenario.tasks : isOpen(tasks'[k]) => Waiting(e', k)
<1> DEFINE D == scenario.tasks
           F == DOMAIN scenario.field
           ev == FileClosed(FALSE)
           K == {"poc_incomplete", "confirmation_make"}
<1>1. tasks \in [D -> Rows] /\ e \in Events(F) BY DEF TypeInv
<1>2. PICK T, U, V :
        /\ T = reconcileFollowUpTasks(ev, reconcilePocTask(ev, tasks))
        /\ Opens(D, K, tasks, T)
        /\ U = BroughtBack(ev, T)
        /\ U \in [D -> Rows]
        /\ V = rescheduleAutomaticTasks(ev, U, within) /\ V \in [D -> Rows]
        /\ e' = demote(ev, V, target).e /\ tasks' = demote(ev, V, target).T
  BY ReopenChain DEF Targets
<1>3. ev \in Events(F) /\ ev.gate \in Gate BY <1>1, FileOfEvent DEF Events
<1> HIDE DEF ev
<1>4. PICK X, Y : /\ Opens(D, Restarted, U, X)
                  /\ Opens(D, {"send_file_to_accounts"}, reconcileFollowUpTasks(ev, X), Y)
                  /\ V = reconcileWorkflowPhaseTasks(ev, Y)
  BY <1>2, RescheduleChain
<1>5. X \in [D -> Rows] /\ Y \in [D -> Rows] BY <1>4 DEF Opens
<1> DEFINE W == reconcileFollowUpTasks(ev, X)
<1>6. \A k \in D : isOpen(W[k]) => Waiting(ev, k) BY <1>3, <1>5, FollowUpsSettle
<1>7. Opens(D, {"send_file_to_accounts"}, W, Y) BY <1>4
<1> HIDE DEF W
<1>8. {"send_file_to_accounts"} \cap FollowUp = {} BY DEF FollowUp
<1>9. \A k \in D : isOpen(Y[k]) => isOpen(W[k]) \/ k \in {"send_file_to_accounts"}
  BY <1>7 DEF Opens
<1>10. \A k \in D : isOpen(Y[k]) => Waiting(ev, k) BY <1>6, <1>8, <1>9, SettledKept
<1>11. Opens(D, {}, Y, V) BY <1>4, <1>5, PhaseOpens
<1>12. \A k \in D : isOpen(V[k]) => Waiting(ev, k) BY <1>10, <1>11 DEF Opens
<1> QED BY <1>2, <1>3, <1>12, DemotionKeepsSettled

\* No edit and no read, on any event, leaves a follow-up open whose question has been
\* answered: not one a person opened, nor one the reopened file brought back, nor one
\* the same edit created.
THEOREM NothingAnsweredIsLeftOpen == Spec => EditsAndReadsSettle
<1>1. TypeInv /\ (ChecklistEdit \/ ReadChecklist) =>
        \A k \in DOMAIN tasks' : isOpen(tasks'[k]) => Waiting(e', k)
  <2>1. SUFFICES ASSUME TypeInv, ChecklistEdit \/ ReadChecklist
                 PROVE  \A k \in DOMAIN tasks' : isOpen(tasks'[k]) => Waiting(e', k)
    OBVIOUS
  <2>2. TypeInv' /\ scenario' = scenario
    <3>1. Next BY <2>1 DEF Next
    <3> QED BY <2>1, <3>1, StepTypes
  <2>3. DOMAIN tasks' = scenario.tasks BY <2>2 DEF TypeInv
  <2>4. CASE ChecklistEdit
    <3>1. PICK within \in scenario.windows, target \in Targets :
            \/ \E f \in DOMAIN scenario.offers : \E v \in scenario.offers[f] :
                 PatchChecklist(f, v, within, target)
            \/ CloseFile(target) \/ ReopenFile(within, target)
      BY <2>4 DEF ChecklistEdit, Targets
    <3> QED BY <2>1, <2>3, <3>1, EditSettles, CloseSettles, ReopenSettles
  <2>5. CASE ReadChecklist
    <3>1. tasks' = reconcileFollowUpTasks(e, tasks) /\ e' = e BY <2>5 DEF ReadChecklist
    <3>2. e.gate \in Gate /\ tasks \in [scenario.tasks -> Rows] BY <2>1 DEF TypeInv, Events
    <3> QED BY <2>3, <3>1, <3>2, FollowUpsSettle
  <2> QED BY <2>1, <2>4, <2>5
<1>2. TypeInv /\ [Next]_vars =>
        [ChecklistEdit \/ ReadChecklist =>
           \A k \in DOMAIN tasks' : isOpen(tasks'[k]) =>
             /\ ~satisfied(e', k)
             /\ k = "confirmation_make" => e'.gate.made = "No"
             /\ k = "confirmation_letter" => letterPending(e')]_vars
  BY <1>1 DEF Waiting
<1> QED BY <1>2, TypesAreKept, PTL DEF Spec, EditsAndReadsSettle

-----------------------------------------------------------------------------
\* What a cancellation or regret closed sleeps until the event is reopened.

Became == [st |-> "cancelled", note |-> "became"]

\* The row of a payment follow-up goes with its booking, and a new one is inserted.
Dormant(k, r) == r = Became \/ (k = "payment_followup" /\ r.st = "none")

\* From T to U no row that sleeps is woken.
Rests(D, T, U) ==
  /\ T \in [D -> Rows] /\ U \in [D -> Rows]
  /\ \A k \in D : Dormant(k, T[k]) => Dormant(k, U[k])

LEMMA RestsChain ==
  ASSUME NEW D, NEW T, NEW U, NEW V, Rests(D, T, U), Rests(D, U, V)
  PROVE  Rests(D, T, V)
BY DEF Rests

LEMMA RestsSame ==
  ASSUME NEW D, NEW T \in [D -> Rows]
  PROVE  Rests(D, T, T)
BY DEF Rests

LEMMA ClosingRests ==
  ASSUME NEW D, NEW T \in [D -> Rows], NEW K, NEW note \in Note
  PROVE  /\ Rests(D, T, complete(T, K, note)) /\ Rests(D, T, cancel(T, K, note))
         /\ Rests(D, T, settle(T, K))
<1>0. /\ complete(T, K, note) \in [D -> Rows] /\ cancel(T, K, note) \in [D -> Rows]
      /\ settle(T, K) \in [D -> Rows]
  BY UpdatesKeepRows
<1>1. Rests(D, T, complete(T, K, note)) BY <1>0 DEF Rests, complete, isOpen, Dormant, Became
<1>2. Rests(D, T, cancel(T, K, note)) BY <1>0 DEF Rests, cancel, isOpen, Dormant, Became
<1>3. Rests(D, T, settle(T, K)) BY <1>0 DEF Rests, settle, isOpen, Dormant, Became
<1> QED BY <1>1, <1>2, <1>3

LEMMA ReopeningRests ==
  ASSUME NEW D, NEW T \in [D -> Rows], NEW K, NEW N, "became" \notin N, NEW M
  PROVE  /\ Rests(D, T, reopen(T, K, "completed", M))
         /\ Rests(D, T, reopen(T, K, "cancelled", N))
<1>0. /\ reopen(T, K, "completed", M) \in [D -> Rows]
      /\ reopen(T, K, "cancelled", N) \in [D -> Rows]
  <2>1. "none" \in Note BY DEF Note
  <2> QED BY <2>1, UpdatesKeepRows
<1>1. Rests(D, T, reopen(T, K, "completed", M)) BY <1>0 DEF Rests, reopen, Dormant, Became
<1>2. Rests(D, T, reopen(T, K, "cancelled", N)) BY <1>0 DEF Rests, reopen, Dormant, Became
<1> QED BY <1>1, <1>2

LEMMA InsertingRests ==
  ASSUME NEW D, NEW T \in [D -> Rows], NEW K
  PROVE  /\ "payment_followup" \notin K => Rests(D, T, insertNew(T, K))
         /\ Rests(D, T, dropRow(T, {"payment_followup"}))
<1>0. "none" \in Note BY DEF Note
<1>1. insertNew(T, K) \in [D -> Rows] /\ dropRow(T, {"payment_followup"}) \in [D -> Rows]
  BY <1>0, UpdatesKeepRows
<1>2. "payment_followup" \notin K => Rests(D, T, insertNew(T, K))
  BY <1>1 DEF Rests, insertNew, Dormant, Became
<1>3. Rests(D, T, dropRow(T, {"payment_followup"}))
  BY <1>1 DEF Rests, dropRow, Dormant, Became
<1> QED BY <1>2, <1>3

\* The rules that look at the status leave a terminal event's rows asleep.
LEMMA FormRulesRest ==
  ASSUME NEW D, NEW T \in [D -> Rows], NEW ev, terminal(ev)
  PROVE  /\ Rests(D, T, reconcilePocTask(ev, T))
         /\ Rests(D, T, reconcileTentativeVenuePaymentTasks(ev, T))
         /\ Rests(D, T, reconcileReadinessTasks(ev, T))
<1>1. {"moot", "auto", "booking_confirmed", "booking_gone", "settled"} \subseteq Note
  BY DEF Note, AutoNote
<1>2. Rests(D, T, reconcilePocTask(ev, T))
  <2>1. \/ reconcilePocTask(ev, T) = T
        \/ reconcilePocTask(ev, T) = cancel(T, {"poc_incomplete"}, "moot")
    BY DEF reconcilePocTask, terminal
  <2> QED BY <1>1, <2>1, RestsSame, ClosingRests
<1>3. Rests(D, T, reconcileTentativeVenuePaymentTasks(ev, T))
  <2> DEFINE U == reconcileTentativeVenuePaymentTasks(ev, T)
             K == {"payment_followup"}
  <2>1. U = T \/ U = dropRow(T, K) \/ U = cancel(T, K, "booking_gone")
    BY DEF reconcileTentativeVenuePaymentTasks
  <2> HIDE DEF U
  <2>2. Rests(D, T, U) BY <1>1, <2>1, RestsSame, ClosingRests, InsertingRests
  <2> QED BY <2>2 DEF U
<1>4. Rests(D, T, reconcileReadinessTasks(ev, T))
  <2>1. \/ reconcileReadinessTasks(ev, T) = T
        \/ reconcileReadinessTasks(ev, T) = cancel(T, {"readiness"}, "moot")
    BY DEF reconcileReadinessTasks, terminal
  <2> QED BY <1>1, <2>1, RestsSame, ClosingRests
<1> QED BY <1>2, <1>3, <1>4

\* The others leave them asleep whatever the status.
LEMMA ReminderRests ==
  ASSUME NEW D, NEW T \in [D -> Rows], NEW ev
  PROVE  Rests(D, T, reconcileFileToAccountsReminder(ev, T))
<1> DEFINE K == {"send_file_to_accounts"}
           U == reconcileFileToAccountsReminder(ev, T)
           I == insertNew(T, K)
<1>1. U = cancel(T, K, "not_due") \/ U = reopen(I, K, "cancelled", {"not_due"})
  BY DEF reconcileFileToAccountsReminder
<1>2. "not_due" \in Note BY DEF Note
<1>3. Rests(D, T, I) BY InsertingRests
<1>4. I \in [D -> Rows] BY <1>3 DEF Rests
<1> HIDE DEF U, I
<1>5. U = cancel(T, K, "not_due") => Rests(D, T, U) BY <1>2, ClosingRests
<1>6. U = reopen(I, K, "cancelled", {"not_due"}) => Rests(D, T, U)
  <2>1. U = reopen(I, K, "cancelled", {"not_due"}) => Rests(D, I, U) BY <1>4, ReopeningRests
  <2> QED BY <1>3, <2>1, RestsChain
<1>7. Rests(D, T, U) BY <1>1, <1>5, <1>6
<1> QED BY <1>7 DEF U

LEMMA InstalmentRests ==
  ASSUME NEW D, NEW T \in [D -> Rows], NEW ev
  PROVE  Rests(D, T, reconcileInstalmentTasks(ev, T))
<1> DEFINE K == {"instalment"}
           U == reconcileInstalmentTasks(ev, T)
<1>1. \/ U = T \/ U = complete(T, K, "settled") \/ U = complete(T, K, "auto")
      \/ U = cancel(T, K, "moot") \/ U = insertNew(T, K)
  BY DEF reconcileInstalmentTasks
<1>2. {"settled", "auto", "moot"} \subseteq Note BY DEF Note, AutoNote
<1> HIDE DEF U
<1>3. Rests(D, T, U) BY <1>1, <1>2, RestsSame, ClosingRests, InsertingRests
<1> QED BY <1>3 DEF U

LEMMA FollowUpsRest ==
  ASSUME NEW D, NEW T \in [D -> Rows], NEW ev
  PROVE  Rests(D, T, reconcileFollowUpTasks(ev, T))
<1> DEFINE U == reconcileConfirmationLetterTasks(ev, T)
<1>1. PICK V : /\ \/ V = settle(T, {"confirmation_make"})
                  \/ V = reopen(T, {"confirmation_make"}, "completed", Note)
                  \/ V = T
               /\ \/ U = settle(V, {"confirmation_letter"})
                  \/ U = cancel(V, {"confirmation_letter"}, "moot")
                  \/ U = V
  BY LetterUpdates
<1>2. "moot" \in Note BY DEF Note
<1>3. Rests(D, T, V)
  <2>1. "became" \notin {} OBVIOUS
  <2> QED BY <1>1, <1>2, <2>1, RestsSame, ClosingRests, ReopeningRests
<1>4. V \in [D -> Rows] BY <1>3 DEF Rests
<1>5. Rests(D, V, U) BY <1>1, <1>2, <1>4, RestsSame, ClosingRests
<1>6. U \in [D -> Rows] BY <1>5 DEF Rests
<1> DEFINE W == settle(U, {k \in DOMAIN T : satisfied(ev, k)})
<1>7. reconcileFollowUpTasks(ev, T) = W BY DEF reconcileFollowUpTasks
<1>8. Rests(D, U, W) BY <1>2, <1>6, ClosingRests
<1> HIDE DEF W, U
<1> QED BY <1>3, <1>5, <1>7, <1>8, RestsChain

LEMMA PhaseRests ==
  ASSUME NEW D, NEW T \in [D -> Rows], NEW ev
  PROVE  Rests(D, T, reconcileWorkflowPhaseTasks(ev, T))
<1>1. PICK K : \/ reconcileWorkflowPhaseTasks(ev, T) = T
               \/ reconcileWorkflowPhaseTasks(ev, T) = cancel(T, K, "phase")
  BY DEF reconcileWorkflowPhaseTasks
<1>2. "phase" \in Note BY DEF Note
<1> QED BY <1>1, <1>2, RestsSame, ClosingRests

LEMMA ReopeningKeepsAsleep ==
  ASSUME NEW D, NEW T \in [D -> Rows], NEW ev, NEW K
  PROVE  Rests(D, T, reopenAutomaticallyCompletedTasks(ev, T, K))
<1>1. \/ reopenAutomaticallyCompletedTasks(ev, T, K) = T
      \/ reopenAutomaticallyCompletedTasks(ev, T, K) = reopen(T, K, "completed", AutoNote)
  BY DEF reopenAutomaticallyCompletedTasks
<1>2. "became" \notin {} OBVIOUS
<1> QED BY <1>1, <1>2, RestsSame, ReopeningRests

LEMMA CreatingRests ==
  ASSUME NEW D, NEW T \in [D -> Rows], NEW ev, NEW f, NEW within
  PROVE  Rests(D, T, maybeCreateTaskForChecklistItem(ev, T, f, within))
<1> DEFINE U == maybeCreateTaskForChecklistItem(ev, T, f, within)
<1>1. \/ U = T
      \/ /\ f \in DOMAIN TriggeredBy /\ MayCreate(ev, f)
         /\ \/ U = insertNew(T, {TriggeredBy[f]})
            \/ U = cancel(T, {"accounts_file_sent"}, "moot")
  BY CreatingUpdates
<1>2. "moot" \in Note BY DEF Note
<1>3. f \in DOMAIN TriggeredBy => TriggeredBy[f] # "payment_followup"
  BY TriggerNames DEF AccountsFileTask
<1> HIDE DEF U
<1>4. Rests(D, T, U)
  <2>1. CASE f \in DOMAIN TriggeredBy /\ U = insertNew(T, {TriggeredBy[f]})
    <3>1. "payment_followup" \notin {TriggeredBy[f]} BY <1>3, <2>1
    <3> QED BY <2>1, <3>1, InsertingRests
  <2> QED BY <1>1, <1>2, <2>1, RestsSame, ClosingRests
<1> QED BY <1>4 DEF U

LEMMA SweepRests ==
  ASSUME NEW D, NEW T \in [D -> Rows], NEW ev, NEW within
  PROVE  Rests(D, T, createForAllFields(ev, T, within))
<1> DEFINE U == createForAllFields(ev, T, within)
           L == {TriggeredBy[f] : f \in DOMAIN TriggeredBy}
<1>1. \A f \in DOMAIN TriggeredBy :
        Rests(D, T, maybeCreateTaskForChecklistItem(ev, T, f, within))
  BY CreatingRests
<1>2. \A k \in D : \/ U[k] = T[k]
                   \/ \E f \in DOMAIN TriggeredBy :
                        U[k] = maybeCreateTaskForChecklistItem(ev, T, f, within)[k]
  BY SweepRows
<1>3. Opens(D, L, T, U) BY SweepOpens
<1>4. U \in [D -> Rows] BY <1>3 DEF Opens
<1> HIDE DEF U
<1>5. Rests(D, T, U) BY <1>1, <1>2, <1>4 DEF Rests
<1> QED BY <1>5 DEF U

LEMMA AnsweringRests ==
  ASSUME NEW D, NEW T \in [D -> Rows], NEW ev, NEW f, NEW v
  PROVE  Rests(D, T, maybeCompleteTasksForChecklistUpdate(ev, T, f, v))
<1> DEFINE U == maybeCompleteTasksForChecklistUpdate(ev, T, f, v)
<1>1. \/ U = T
      \/ \E K : U = complete(T, K, "auto")
      \/ \E K : U = complete(T, K, "settled")
      \/ U = reopen(T, {"instalment"}, "completed", AutoNote)
      \/ U = reopenAutomaticallyCompletedTasks(ev, T, AccountsFileTask)
      \/ U = reopenAutomaticallyCompletedTasks(ev, T, {CompletionByField[f]})
  BY AnsweringUpdates
<1>2. {"auto", "settled"} \subseteq Note BY DEF Note, AutoNote
<1> HIDE DEF U
<1>3. U = T => Rests(D, T, U) BY RestsSame
<1>4. (\E K : U = complete(T, K, "auto")) \/ (\E K : U = complete(T, K, "settled"))
        => Rests(D, T, U)
  BY <1>2, ClosingRests
<1>5. U = reopen(T, {"instalment"}, "completed", AutoNote) => Rests(D, T, U)
  <2>1. "became" \notin {} OBVIOUS
  <2>2. Rests(D, T, reopen(T, {"instalment"}, "completed", AutoNote)) BY <2>1, ReopeningRests
  <2> QED BY <2>2
<1>6. \/ U = reopenAutomaticallyCompletedTasks(ev, T, AccountsFileTask)
      \/ U = reopenAutomaticallyCompletedTasks(ev, T, {CompletionByField[f]})
      => Rests(D, T, U)
  BY ReopeningKeepsAsleep
<1>7. Rests(D, T, U) BY <1>1, <1>3, <1>4, <1>5, <1>6
<1> QED BY <1>7 DEF U

\* On a terminal event no request but a reopening or a person wakes a row.
LEMMA DemotionRests ==
  ASSUME NEW D, NEW T \in [D -> Rows], NEW ev, terminal(ev), NEW target
  PROVE  Rests(D, T, demote(ev, T, target).T)
<1>1. demote(ev, T, target).T = T BY DemotedTasks DEF terminal
<1> QED BY <1>1, RestsSame

LEMMA EditRests ==
  ASSUME TypeInv, terminal(e), NEW f \in DOMAIN scenario.offers, NEW v \in scenario.offers[f],
         NEW within, NEW target \in Targets, PatchChecklist(f, v, within, target)
  PROVE  Rests(scenario.tasks, tasks, tasks')
<1> DEFINE D == scenario.tasks
           ev == written(f, v)
           fell == f # "payment" /\ e.gate.payment = "Completed" /\ ev.gate.payment # "Completed"
           back == /\ f \in {"costing", "proforma", "payment"}
                   /\ <<e.gate.couriered, e.gate.signed>> # <<ev.gate.couriered, ev.gate.signed>>
           T1 == IF fell THEN reopenAutomaticallyCompletedTasks(ev, tasks, {"instalment"}) ELSE tasks
           T2 == IF back THEN reopenAutomaticallyCompletedTasks(ev, T1, {"confirmation_letter"}) ELSE T1
           T3 == reconcilePocTask(ev, T2)
           T4 == IF f \in {"instalment", "expected", "received"}
                 THEN reconcileInstalmentTasks(ev, T3)
                 ELSE maybeCreateTaskForChecklistItem(ev, T3, f, within)
           T5 == maybeCompleteTasksForChecklistUpdate(ev, T4, f, v)
           T6 == reconcileFollowUpTasks(ev, T5)
           T7 == IF f = "feedback_sent" \/ f \in AccountsModule
                 THEN reconcileWorkflowPhaseTasks(ev, T6) ELSE T6
           d  == demote(ev, T7, target)
<1>1. tasks' = d.T BY DEF PatchChecklist, AfterEdit
<1>2. terminal(ev) /\ tasks \in [D -> Rows]
  BY WriteOfAField DEF PatchChecklist, terminal, TypeInv
<1> HIDE DEF fell, back, d, ev
<1>3. Rests(D, tasks, T1) BY <1>2, ReopeningKeepsAsleep, RestsSame
<1>4. T1 \in [D -> Rows] BY <1>3 DEF Rests
<1> HIDE DEF T1
<1>5. Rests(D, T1, T2) BY <1>4, ReopeningKeepsAsleep, RestsSame
<1>6. T2 \in [D -> Rows] BY <1>5 DEF Rests
<1> HIDE DEF T2
<1>7. Rests(D, T2, T3) BY <1>2, <1>6, FormRulesRest
<1>8. T3 \in [D -> Rows] BY <1>7 DEF Rests
<1> HIDE DEF T3
<1>9. Rests(D, T3, T4) BY <1>8, InstalmentRests, CreatingRests
<1>10. T4 \in [D -> Rows] BY <1>9 DEF Rests
<1> HIDE DEF T4
<1>11. Rests(D, T4, T5) BY <1>10, AnsweringRests
<1>12. T5 \in [D -> Rows] BY <1>11 DEF Rests
<1> HIDE DEF T5
<1>13. Rests(D, T5, T6) BY <1>12, FollowUpsRest
<1>14. T6 \in [D -> Rows] BY <1>13 DEF Rests
<1> HIDE DEF T6
<1>15. Rests(D, T6, T7) BY <1>14, PhaseRests, RestsSame
<1>16. T7 \in [D -> Rows] BY <1>15 DEF Rests
<1> HIDE DEF T7
<1>17. Rests(D, T7, d.T) BY <1>2, <1>16, DemotionRests DEF d
<1> QED BY <1>1, <1>3, <1>5, <1>7, <1>9, <1>11, <1>13, <1>15, <1>17, RestsChain

LEMMA RescheduleRests ==
  ASSUME NEW D, NEW T \in [D -> Rows], NEW ev, NEW within
  PROVE  Rests(D, T, rescheduleAutomaticTasks(ev, T, within))
<1> DEFINE T1 == createForAllFields(ev, T, within)
           T2 == reconcileInstalmentTasks(ev, T1)
           T3 == reconcileFollowUpTasks(ev, T2)
           T4 == reconcileFileToAccountsReminder(ev, T3)
           T5 == reconcileWorkflowPhaseTasks(ev, T4)
<1>1. rescheduleAutomaticTasks(ev, T, within) = T5 BY DEF rescheduleAutomaticTasks
<1>2. Rests(D, T, T1) BY SweepRests
<1>3. T1 \in [D -> Rows] BY <1>2 DEF Rests
<1> HIDE DEF T1
<1>4. Rests(D, T1, T2) BY <1>3, InstalmentRests
<1>5. T2 \in [D -> Rows] BY <1>4 DEF Rests
<1> HIDE DEF T2
<1>6. Rests(D, T2, T3) BY <1>5, FollowUpsRest
<1>7. T3 \in [D -> Rows] BY <1>6 DEF Rests
<1> HIDE DEF T3
<1>8. Rests(D, T3, T4) BY <1>7, ReminderRests
<1>9. T4 \in [D -> Rows] BY <1>8 DEF Rests
<1> HIDE DEF T4
<1>10. Rests(D, T4, T5) BY <1>9, PhaseRests
<1> HIDE DEF T5
<1> QED BY <1>1, <1>2, <1>4, <1>6, <1>8, <1>10, RestsChain

LEMMA CloseRests ==
  ASSUME TypeInv, terminal(e), NEW target \in Targets, CloseFile(target)
  PROVE  Rests(scenario.tasks, tasks, tasks')
<1> DEFINE D == scenario.tasks
           F == DOMAIN scenario.field
           ev == FileClosed(TRUE)
           P == reconcilePocTask(ev, tasks)
<1>1. tasks \in [D -> Rows] /\ e \in Events(F) BY DEF TypeInv
<1>2. PICK T, U : /\ T = reconcileFollowUpTasks(ev, P)
                  /\ U = reconcileWorkflowPhaseTasks(ev, T)
                  /\ tasks' = demote(ev, cancel(U, automatic(U), "closed"), target).T
  BY CloseChain DEF Targets
<1>3. terminal(ev) BY <1>1, FileOfEvent DEF terminal
<1> HIDE DEF ev
<1>4. Rests(D, tasks, P) BY <1>1, <1>3, FormRulesRest
<1>5. P \in [D -> Rows] BY <1>4 DEF Rests
<1> HIDE DEF P
<1>6. Rests(D, P, T) BY <1>2, <1>5, FollowUpsRest
<1>7. T \in [D -> Rows] BY <1>6 DEF Rests
<1>8. Rests(D, T, U) BY <1>2, <1>7, PhaseRests
<1>9. U \in [D -> Rows] BY <1>8 DEF Rests
<1> DEFINE V == cancel(U, automatic(U), "closed")
<1>10. Rests(D, U, V)
  <2>1. "closed" \in Note BY DEF Note
  <2> QED BY <1>9, <2>1, ClosingRests
<1>11. V \in [D -> Rows] BY <1>10 DEF Rests
<1>12. tasks' = demote(ev, V, target).T BY <1>2
<1> HIDE DEF V
<1>13. Rests(D, V, tasks') BY <1>3, <1>11, <1>12, DemotionRests
<1> QED BY <1>4, <1>6, <1>8, <1>10, <1>13, RestsChain

LEMMA FileReopeningRests ==
  ASSUME TypeInv, terminal(e), NEW within, NEW target \in Targets, ReopenFile(within, target)
  PROVE  Rests(scenario.tasks, tasks, tasks')
<1> DEFINE D == scenario.tasks
           F == DOMAIN scenario.field
           ev == FileClosed(FALSE)
           P == reconcilePocTask(ev, tasks)
<1>1. tasks \in [D -> Rows] /\ e \in Events(F) BY DEF TypeInv
<1>2. PICK T, U, V :
        /\ T = reconcileFollowUpTasks(ev, P)
        /\ Opens(D, {"poc_incomplete", "confirmation_make"}, tasks, T)
        /\ U = BroughtBack(ev, T)
        /\ U \in [D -> Rows]
        /\ V = rescheduleAutomaticTasks(ev, U, within) /\ V \in [D -> Rows]
        /\ e' = demote(ev, V, target).e /\ tasks' = demote(ev, V, target).T
  BY ReopenChain DEF Targets
<1>3. terminal(ev) BY <1>1, FileOfEvent DEF terminal
<1> HIDE DEF ev
<1>4. Rests(D, tasks, P) BY <1>1, <1>3, FormRulesRest
<1>5. P \in [D -> Rows] BY <1>4 DEF Rests
<1> HIDE DEF P
<1>6. Rests(D, P, T) BY <1>2, <1>5, FollowUpsRest
<1>7. T \in [D -> Rows] BY <1>6 DEF Rests
<1> DEFINE Q == reconcileWorkflowPhaseTasks(ev, T)
<1>8. Rests(D, T, Q) BY <1>7, PhaseRests
<1>9. U = reopen(Q, automatic(T), "cancelled", {"closed"}) BY <1>2 DEF BroughtBack
<1>10. Q \in [D -> Rows] BY <1>8 DEF Rests
<1> HIDE DEF Q
<1>11. Rests(D, Q, U) BY <1>9, <1>10, ReopeningRests
<1>12. U \in [D -> Rows] BY <1>11 DEF Rests
<1>13. Rests(D, U, V) BY <1>2, <1>12, RescheduleRests
<1>14. V \in [D -> Rows] BY <1>13 DEF Rests
<1>15. Rests(D, V, tasks') BY <1>2, <1>3, <1>14, DemotionRests
<1> QED BY <1>4, <1>6, <1>8, <1>11, <1>13, <1>15, RestsChain

LEMMA FormRests ==
  ASSUME TypeInv, terminal(e'), NEW day \in scenario.days, NEW form \in scenario.forms,
         EditEvent(day, form)
  PROVE  Rests(scenario.tasks, tasks, tasks')
<1> DEFINE D == scenario.tasks
           T1 == IF day = e.day THEN tasks ELSE reconcileFileToAccountsReminder(e', tasks)
           T2 == reconcilePocTask(e', T1)
           T3 == reconcileTentativeVenuePaymentTasks(e', T2)
           T4 == reconcileReadinessTasks(e', T3)
<1>1. tasks \in [D -> Rows] BY DEF TypeInv
<1>2. tasks' = T4 BY DEF EditEvent
<1>3. Rests(D, tasks, T1) BY <1>1, ReminderRests, RestsSame
<1>4. T1 \in [D -> Rows] BY <1>3 DEF Rests
<1> HIDE DEF T1
<1>5. Rests(D, T1, T2) BY <1>4, FormRulesRest
<1>6. T2 \in [D -> Rows] BY <1>5 DEF Rests
<1> HIDE DEF T2
<1>7. Rests(D, T2, T3) BY <1>6, FormRulesRest
<1>8. T3 \in [D -> Rows] BY <1>7 DEF Rests
<1> HIDE DEF T3
<1>9. Rests(D, T3, T4) BY <1>8, FormRulesRest
<1> HIDE DEF T4
<1> QED BY <1>2, <1>3, <1>5, <1>7, <1>9, RestsChain

LEMMA CronRests ==
  ASSUME NEW D, NEW T \in [D -> Rows], NEW ev, terminal(ev), NEW within
  PROVE  Rests(D, T, rescheduleAllAutomaticTasks(ev, T, within))
<1> DEFINE T1 == createForAllFields(ev, T, within)
           T2 == IF ev.status = "confirmed" \/ \E k \in DOMAIN T1 :
                      k = "send_file_to_accounts" /\ isOpen(T1[k])
                 THEN reconcileFileToAccountsReminder(ev, T1) ELSE T1
<1>1. rescheduleAllAutomaticTasks(ev, T, within) = T2 BY DEF rescheduleAllAutomaticTasks
<1>2. Rests(D, T, T1) BY SweepRests
<1>3. T1 \in [D -> Rows] BY <1>2 DEF Rests
<1> HIDE DEF T1
<1>4. Rests(D, T1, T2) BY <1>3, ReminderRests, RestsSame
<1> HIDE DEF T2
<1> QED BY <1>1, <1>2, <1>4, RestsChain

-----------------------------------------------------------------------------
\* What is due stays open: no reconciler closes a task its rule still asks for.

LEMMA OpenRowsStay ==
  ASSUME NEW D, NEW T \in [D -> Rows], NEW k \in D, isOpen(T[k]), NEW K, NEW note, NEW N
  PROVE  /\ isOpen(reopen(T, K, "cancelled", N)[k])
         /\ isOpen(reopen(T, K, "completed", N)[k])
         /\ isOpen(insertNew(T, K)[k]) /\ isOpen(upsert(T, K)[k])
         /\ isOpen(upsertUnlessCompleted(T, K)[k])
         /\ k \notin K => /\ isOpen(complete(T, K, note)[k]) /\ isOpen(cancel(T, K, note)[k])
                          /\ isOpen(settle(T, K)[k]) /\ isOpen(dropRow(T, K)[k])
<1>1. isOpen(reopen(T, K, "cancelled", N)[k]) /\ isOpen(reopen(T, K, "completed", N)[k])
  BY DEF isOpen, reopen
<1>2. isOpen(insertNew(T, K)[k]) BY DEF isOpen, insertNew
<1>3. isOpen(upsert(T, K)[k]) BY DEF isOpen, upsert
<1>4. isOpen(upsertUnlessCompleted(T, K)[k]) BY DEF isOpen, upsertUnlessCompleted
<1>5. k \notin K => isOpen(complete(T, K, note)[k]) /\ isOpen(cancel(T, K, note)[k])
  BY DEF isOpen, complete, cancel
<1>6. k \notin K => isOpen(settle(T, K)[k]) /\ isOpen(dropRow(T, K)[k])
  BY DEF isOpen, settle, dropRow
<1> QED BY <1>1, <1>2, <1>3, <1>4, <1>5, <1>6

LEMMA PocStays ==
  ASSUME NEW D, NEW T \in [D -> Rows], NEW ev, NEW k \in D, isOpen(T[k]),
         k = "poc_incomplete" => ~terminal(ev) /\ ev.field.poc = "incomplete"
  PROVE  isOpen(reconcilePocTask(ev, T)[k])
<1> DEFINE K == {"poc_incomplete"}
           U == reconcilePocTask(ev, T)
<1>1. \/ U = T \/ U = upsertUnlessCompleted(T, K)
      \/ /\ terminal(ev) \/ ev.field.poc = "complete"
         /\ U = cancel(T, K, "moot") \/ U = complete(T, K, "auto")
  BY DEF reconcilePocTask
<1> HIDE DEF U
<1>2. isOpen(U[k]) BY <1>1, OpenRowsStay
<1> QED BY <1>2 DEF U

LEMMA AwaitingStays ==
  ASSUME NEW D, NEW T \in [D -> Rows], NEW k \in D,
         isOpen(T[k]) \/ (k = "payment_followup" /\ T[k].st = "none")
  PROVE  isOpen(awaitPayment(T)[k])
<1> DEFINE K == {"payment_followup"}
           T1 == insertNew(T, K)
           T2 == reopen(T1, K, "cancelled", {"booking_gone"})
           T3 == reopen(T2, K, "completed", {"booking_confirmed"})
<1>1. isOpen(T1[k]) BY DEF isOpen, insertNew
<1>2. T1 \in [D -> Rows]
  <2>1. Opens(D, K, T, T1) BY InsertOpens
  <2> QED BY <2>1 DEF Opens
<1> HIDE DEF T1
<1>3. isOpen(T2[k]) BY <1>1, <1>2, OpenRowsStay
<1>4. T2 \in [D -> Rows]
  <2>1. Opens(D, K, T1, T2) BY <1>2, ReopenOpens
  <2> QED BY <2>1 DEF Opens
<1> HIDE DEF T2
<1>5. isOpen(T3[k]) BY <1>3, <1>4, OpenRowsStay
<1>6. T3 \in [D -> Rows]
  <2>1. Opens(D, K, T2, T3) BY <1>4, ReopenOpens
  <2> QED BY <2>1 DEF Opens
<1>7. awaitPayment(T)
        = [j \in DOMAIN T3 |-> IF j \in K /\ T3[j].note \in {"booking_gone", "booking_confirmed"}
                               THEN [T3[j] EXCEPT !.note = "none"] ELSE T3[j]]
  BY DEF awaitPayment, T1, T2
<1> HIDE DEF T3
<1>8. awaitPayment(T)[k].st = T3[k].st BY <1>6, <1>7 DEF Rows
<1> QED BY <1>5, <1>8 DEF isOpen

LEMMA PaymentStays ==
  ASSUME NEW D, NEW T \in [D -> Rows], NEW ev, NEW k \in D,
         isOpen(T[k]) \/ (k = "payment_followup" /\ T[k].st = "none"),
         k = "payment_followup" =>
           /\ ~terminal(ev) /\ ~ev.archived /\ "booking" \in DOMAIN ev.field
           /\ ev.field.booking = "tentative" /\ ev.gate.payment # "Completed"
  PROVE  isOpen(reconcileTentativeVenuePaymentTasks(ev, T)[k])
<1> DEFINE K == {"payment_followup"}
           U == reconcileTentativeVenuePaymentTasks(ev, T)
<1>1. CASE k = "payment_followup"
  <2>1. U = awaitPayment(T) BY <1>1 DEF reconcileTentativeVenuePaymentTasks
  <2> QED BY <2>1, AwaitingStays
<1>2. CASE k # "payment_followup"
  <2>1. \/ U = T
        \/ U = dropRow(T, K)
        \/ U = complete(T, K, "booking_confirmed")
        \/ U = cancel(T, K, "booking_gone")
        \/ U = complete(T, K, "settled")
        \/ U = awaitPayment(T)
    BY DEF reconcileTentativeVenuePaymentTasks
  <2> HIDE DEF U
  <2>2. isOpen(T[k]) /\ k \notin K BY <1>2
  <2>3. isOpen(U[k]) BY <2>1, <2>2, OpenRowsStay, AwaitingStays
  <2> QED BY <2>3 DEF U
<1> QED BY <1>1, <1>2

LEMMA ReadinessStays ==
  ASSUME NEW D, NEW T \in [D -> Rows], NEW ev, NEW k \in D, isOpen(T[k]), k # "readiness"
  PROVE  isOpen(reconcileReadinessTasks(ev, T)[k])
<1> DEFINE K == {"readiness"}
           U == reconcileReadinessTasks(ev, T)
<1>1. U = T \/ U = cancel(T, K, "moot") \/ U = complete(T, K, "auto") \/ U = upsert(T, K)
  BY DEF reconcileReadinessTasks
<1> HIDE DEF U
<1>2. isOpen(U[k]) BY <1>1, OpenRowsStay
<1> QED BY <1>2 DEF U

LEMMA ReminderStays ==
  ASSUME NEW D, NEW T \in [D -> Rows], NEW ev, NEW k \in D, isOpen(T[k]),
         k = "send_file_to_accounts" =>
           /\ ~ev.archived /\ getActiveWorkflowPhase(ev) = "accounts"
           /\ "file_sent_to_accounts" \in DOMAIN ev.field /\ ~dated(ev, "file_sent_to_accounts")
  PROVE  isOpen(reconcileFileToAccountsReminder(ev, T)[k])
<1> DEFINE K == {"send_file_to_accounts"}
           U == reconcileFileToAccountsReminder(ev, T)
           I == insertNew(T, K)
<1>1. \/ k # "send_file_to_accounts" /\ U = cancel(T, K, "not_due")
      \/ U = reopen(I, K, "cancelled", {"not_due"})
  BY DEF reconcileFileToAccountsReminder
<1>2. isOpen(I[k]) BY OpenRowsStay
<1>3. I \in [D -> Rows]
  <2>1. Opens(D, K, T, I) BY InsertOpens
  <2> QED BY <2>1 DEF Opens
<1> HIDE DEF U, I
<1>4. k # "send_file_to_accounts" => isOpen(cancel(T, K, "not_due")[k]) BY OpenRowsStay
<1>5. isOpen(reopen(I, K, "cancelled", {"not_due"})[k]) BY <1>2, <1>3, OpenRowsStay
<1>6. isOpen(U[k]) BY <1>1, <1>4, <1>5
<1> QED BY <1>6 DEF U

LEMMA InstalmentStays ==
  ASSUME NEW D, NEW T \in [D -> Rows], NEW ev, NEW k \in D, isOpen(T[k]),
         k = "instalment" =>
           /\ ev.field.instalment = "Yes" /\ ev.field.expected = "due"
           /\ ev.field.received = "No" /\ ev.gate.payment # "Completed"
  PROVE  isOpen(reconcileInstalmentTasks(ev, T)[k])
<1> DEFINE K == {"instalment"}
           U == reconcileInstalmentTasks(ev, T)
<1>1. CASE k = "instalment"
  <2>1. U = T \/ U = insertNew(T, K) BY <1>1 DEF reconcileInstalmentTasks
  <2> HIDE DEF U
  <2>2. isOpen(U[k]) BY <2>1, OpenRowsStay
  <2> QED BY <2>2 DEF U
<1>2. CASE k # "instalment"
  <2>1. \/ U = T \/ U = complete(T, K, "settled") \/ U = complete(T, K, "auto")
        \/ U = cancel(T, K, "moot") \/ U = insertNew(T, K)
    BY DEF reconcileInstalmentTasks
  <2> HIDE DEF U
  <2>2. isOpen(U[k]) BY <1>2, <2>1, OpenRowsStay
  <2> QED BY <2>2 DEF U
<1> QED BY <1>1, <1>2

LEMMA PhaseStays ==
  ASSUME NEW D, NEW T \in [D -> Rows], NEW ev, NEW k \in D, isOpen(T[k]),
         k \in {"manual", "poc_incomplete"}
           \/ canGenerateTaskForPhase(k, getActiveWorkflowPhase(ev))
  PROVE  isOpen(reconcileWorkflowPhaseTasks(ev, T)[k])
<1> DEFINE K == {j \in automatic(T) \ {"poc_incomplete"} :
                   ~canGenerateTaskForPhase(j, getActiveWorkflowPhase(ev))}
           U == reconcileWorkflowPhaseTasks(ev, T)
<1>1. U = T \/ U = cancel(T, K, "phase") BY DEF reconcileWorkflowPhaseTasks
<1>2. k \notin K BY DEF automatic
<1> HIDE DEF K, U
<1>3. isOpen(U[k]) BY <1>1, <1>2, OpenRowsStay
<1> QED BY <1>3 DEF U

LEMMA FollowUpsStay ==
  ASSUME NEW D, NEW T \in [D -> Rows], NEW ev, ev.gate \in Gate, InOrder(ev.gate),
         NEW k \in D, isOpen(T[k]), Waiting(ev, k)
  PROVE  isOpen(reconcileFollowUpTasks(ev, T)[k])
<1> DEFINE make == {"confirmation_make"}
           sign == {"confirmation_letter"}
           V == CASE ev.gate.made = "Yes" -> settle(T, make)
                  [] ev.gate.made # "Yes" /\ ev.gate.costing = "Yes" ->
                       reopen(T, make, "completed", Note)
                  [] OTHER -> T
           U == CASE ev.gate.signed = "Yes" -> settle(V, sign)
                  [] ev.gate.signed # "Yes" /\ (ev.gate.couriered = "blank" \/ ev.gate.made # "Yes") ->
                       cancel(V, sign, "moot")
                  [] OTHER -> V
           S == {j \in DOMAIN T : satisfied(ev, j)}
           W == settle(U, S)
<1>1. reconcileFollowUpTasks(ev, T) = W
  BY DEF reconcileFollowUpTasks, reconcileConfirmationLetterTasks
<1>2. /\ k \in make => ev.gate.made = "No"
      /\ k \in sign => ev.gate.couriered = "dated" /\ ev.gate.signed = "No" /\ ev.gate.made = "Yes"
      /\ k \notin S
  BY DEF Waiting, letterPending, InOrder, LetterInOrder
<1> HIDE DEF S
<1>3. \/ k \notin make /\ V = settle(T, make)
      \/ V = reopen(T, make, "completed", Note)
      \/ V = T
  BY <1>2
<1> HIDE DEF make
<1>4. V \in [D -> Rows]
  <2> HIDE DEF V
  <2>1. Opens(D, make, T, V) BY <1>3, SettlingOpens, ReopenOpens, OpensNothing
  <2> QED BY <2>1 DEF Opens
<1>5. isOpen(V[k])
  <2> HIDE DEF V
  <2> QED BY <1>3, OpenRowsStay
<1> HIDE DEF V
<1>6. \/ k \notin sign /\ U = settle(V, sign)
      \/ k \notin sign /\ U = cancel(V, sign, "moot")
      \/ U = V
  BY <1>2
<1> HIDE DEF sign
<1>7. U \in [D -> Rows]
  <2>1. "moot" \in Note \ {"closed"} BY DEF Note
  <2> HIDE DEF U
  <2>2. Opens(D, {}, V, U) BY <1>4, <1>6, <2>1, ClosingOpens, SettlingOpens, OpensNothing
  <2> QED BY <2>2 DEF Opens
<1>8. isOpen(U[k])
  <2> HIDE DEF U
  <2> QED BY <1>4, <1>5, <1>6, OpenRowsStay
<1> HIDE DEF U
<1>9. isOpen(W[k]) BY <1>2, <1>7, <1>8, OpenRowsStay
<1> QED BY <1>1, <1>9

-----------------------------------------------------------------------------
\* A reopened event is owed the tasks its cancellation closed.

\* All it is owed sleeps, but for a refund review, which the phase closes again.
OwedSleeps ==
  terminal(e) /\ ~e.archived =>
    \A k \in owed : /\ k \in Automatic(scenario.tasks)
                    /\ k = "refund_review" \/ Dormant(k, tasks[k])

Owing == TypeInv /\ OwedSleeps

LEMMA OwingStep ==
  ASSUME Owing, TypeInv', scenario' = scenario, terminal(e), ~e.archived, owed' \subseteq owed,
         Rests(scenario.tasks, tasks, tasks')
  PROVE  OwedSleeps'
BY DEF Owing, OwedSleeps, Rests, Automatic

\* A cancellation puts the open tasks to sleep.
LEMMA TransitionSleeps ==
  ASSUME NEW D, NEW T \in [D -> Rows], NEW ev, NEW from, NEW to \in {"cancelled", "regret"}
  PROVE  LET U == reconcileTasksForLifecycleTransition(ev, T, from, to)
         IN  /\ U \in [D -> Rows]
             /\ \A k \in D \ {"refund_review"} : isOpen(T[k]) => U[k] = Became
<1> DEFINE U == reconcileTasksForLifecycleTransition(ev, T, from, to)
           C == cancel(T, DOMAIN T, "became")
           I == insertNew(C, {"refund_review"})
           O == reopen(I, {"refund_review"}, "cancelled", Note)
<1>1. U = C \/ U = O
  BY DEF reconcileTasksForLifecycleTransition, createConfirmedCancellationRefundTask
<1>2. \A k \in D : isOpen(T[k]) => C[k] = Became BY DEF cancel, Became
<1>3. DOMAIN C = D BY DEF cancel
<1>4. U \in [D -> Rows]
  <2>1. Opens(D, Automatic(D), T, U) BY TransitionOpens
  <2> QED BY <2>1 DEF Opens
<1> HIDE DEF C
<1>5. DOMAIN I = D /\ \A k \in D \ {"refund_review"} : I[k] = C[k] BY <1>3 DEF insertNew
<1> HIDE DEF I
<1>6. \A k \in D \ {"refund_review"} : O[k] = I[k] BY <1>5 DEF reopen
<1> HIDE DEF O, U
<1>7. \A k \in D \ {"refund_review"} : isOpen(T[k]) => U[k] = Became
  BY <1>1, <1>2, <1>5, <1>6
<1> QED BY <1>4, <1>7 DEF U

LEMMA CancellationOwes ==
  ASSUME TypeInv, ~e.archived, NEW to \in Status, StatusChange(to), terminal(e')
  PROVE  OwedSleeps'
<1> DEFINE D == scenario.tasks
           T1 == reconcileTasksForLifecycleTransition(e', tasks, e.status, e'.status)
           T2 == reconcileTentativeVenuePaymentTasks(e', T1)
           T3 == reconcileReadinessTasks(e', T2)
           T4 == reconcileFileToAccountsReminder(e', T3)
           T5 == reconcilePocTask(e', T4)
           T6 == reconcileWorkflowPhaseTasks(e', T5)
<1>1. tasks \in [D -> Rows] BY DEF TypeInv
<1>2. TypeInv' /\ scenario' = scenario /\ e'.status = to BY StatusChain
<1>3. tasks' = T6 BY DEF StatusChange, afterStatusChange
<1>4. owed' \subseteq {k \in automatic(tasks) : isOpen(tasks[k])} BY DEF StatusChange
<1>5. e'.status \in {"cancelled", "regret"} BY DEF terminal
<1>6. /\ T1 \in [D -> Rows]
      /\ \A k \in D \ {"refund_review"} : isOpen(tasks[k]) => T1[k] = Became
  BY <1>1, <1>5, TransitionSleeps
<1> HIDE DEF T1
<1>7. Rests(D, T1, T2) BY <1>6, FormRulesRest
<1>8. T2 \in [D -> Rows] BY <1>7 DEF Rests
<1> HIDE DEF T2
<1>9. Rests(D, T2, T3) BY <1>8, FormRulesRest
<1>10. T3 \in [D -> Rows] BY <1>9 DEF Rests
<1> HIDE DEF T3
<1>11. Rests(D, T3, T4) BY <1>10, ReminderRests
<1>12. T4 \in [D -> Rows] BY <1>11 DEF Rests
<1> HIDE DEF T4
<1>13. Rests(D, T4, T5) BY <1>12, FormRulesRest
<1>14. T5 \in [D -> Rows] BY <1>13 DEF Rests
<1> HIDE DEF T5
<1>15. Rests(D, T5, T6) BY <1>14, PhaseRests
<1> HIDE DEF T6
<1>16. Rests(D, T1, tasks') BY <1>3, <1>7, <1>9, <1>11, <1>13, <1>15, RestsChain
<1>17. ASSUME NEW k \in owed'
       PROVE  k \in Automatic(D) /\ (k = "refund_review" \/ Dormant(k, tasks'[k]))
  <2>1. k \in Automatic(D) /\ isOpen(tasks[k]) BY <1>1, <1>4, <1>17 DEF automatic, Automatic
  <2>2. k # "refund_review" => Dormant(k, T1[k])
    BY <1>6, <2>1 DEF Automatic, Dormant
  <2> QED BY <1>16, <2>1, <2>2 DEF Rests, Automatic
<1> QED BY <1>2, <1>17 DEF OwedSleeps

\* Only a change of status ends a cancellation or regret.
LEMMA StatusMoves ==
  ASSUME TypeInv, [Next]_vars, terminal(e) # terminal(e')
  PROVE  \E to \in Status : StatusChange(to)
<1> DEFINE F == DOMAIN scenario.field
<1>1. e \in Events(F) BY DEF TypeInv
<1>2. ASSUME NEW f \in DOMAIN scenario.offers, NEW v \in scenario.offers[f],
             NEW within, NEW target \in Targets, PatchChecklist(f, v, within, target)
      PROVE  FALSE
  <2>1. EventAfter(written(f, v), target) BY <1>2, EditTypes DEF Targets
  <2>2. written(f, v).status = e.status BY <1>2, WriteOfAField DEF PatchChecklist
  <2> QED BY <2>1, <2>2 DEF EventAfter, terminal, Targets
<1>3. ASSUME NEW within, NEW target \in Targets, CloseFile(target) \/ ReopenFile(within, target)
      PROVE  FALSE
  <2>1. PICK c \in BOOLEAN : EventAfter(FileClosed(c), target) BY <1>3, FileTypes DEF Targets
  <2>2. FileClosed(c).status = e.status BY <1>1, FileOfEvent
  <2> QED BY <2>1, <2>2 DEF EventAfter, terminal, Targets
<1>4. CASE ChecklistEdit
  <2>1. PICK within \in scenario.windows, target \in Targets :
          \/ \E f \in DOMAIN scenario.offers : \E v \in scenario.offers[f] :
               PatchChecklist(f, v, within, target)
          \/ CloseFile(target) \/ ReopenFile(within, target)
    BY <1>4 DEF ChecklistEdit, Targets
  <2> QED BY <1>2, <1>3, <2>1
<1>5. CASE ReadChecklist BY <1>5, ReadTypes
<1>6. CASE \E k \in DOMAIN tasks, st \in {"open", "completed", "cancelled"}, noted \in BOOLEAN :
             PatchTask(k, st, noted)
  BY <1>6, PersonTypes
<1>7. CASE \E day \in scenario.days, form \in scenario.forms : EditEvent(day, form)
  BY <1>7, FormChain DEF terminal
<1>8. CASE Archive
  <2>1. e'.status = e.status BY <1>1, <1>8 DEF Archive, Events
  <2> QED BY <2>1 DEF terminal
<1>9. CASE DayPasses BY <1>9, DayTypes DEF terminal
<1>10. CASE \E within \in scenario.windows : Cron(within) BY <1>10, CronTypes
<1>11. CASE UNCHANGED vars BY <1>11 DEF vars
<1> QED BY <1>4, <1>5, <1>6, <1>7, <1>8, <1>9, <1>10, <1>11 DEF Next

LEMMA OwingKept ==
  ASSUME Owing, [Next]_vars
  PROVE  OwedSleeps'
<1> DEFINE D == scenario.tasks
<1>1. TypeInv /\ TypeInv' /\ scenario' = scenario /\ (e.archived => e'.archived)
  BY StepTypes DEF Owing
<1>2. tasks \in [D -> Rows] /\ tasks' \in [D -> Rows] BY <1>1 DEF TypeInv
<1>3. SUFFICES ASSUME terminal(e'), ~e'.archived PROVE OwedSleeps' BY DEF OwedSleeps
<1>4. ~e.archived BY <1>1, <1>3
<1>5. CASE \E to \in Status : StatusChange(to) BY <1>1, <1>3, <1>4, <1>5, CancellationOwes
<1>6. CASE ~\E to \in Status : StatusChange(to)
  <2>1. terminal(e) BY <1>1, <1>3, <1>6, StatusMoves DEF terminal
  <2>2. Remember => owed' \subseteq owed BY DEF Remember
  <2>3. CASE ChecklistEdit
    <3>1. PICK within \in scenario.windows, target \in Targets :
            \/ \E f \in DOMAIN scenario.offers : \E v \in scenario.offers[f] :
                 PatchChecklist(f, v, within, target)
            \/ CloseFile(target) \/ ReopenFile(within, target)
      BY <2>3 DEF ChecklistEdit, Targets
    <3>2. Rests(D, tasks, tasks') BY <1>1, <2>1, <3>1, EditRests, CloseRests, FileReopeningRests
    <3>3. Remember BY <3>1 DEF PatchChecklist, CloseFile, ReopenFile
    <3> QED BY <1>1, <1>4, <2>1, <2>2, <3>2, <3>3, OwingStep
  <2>4. CASE ReadChecklist
    <3>1. tasks' = reconcileFollowUpTasks(e, tasks) /\ Remember BY <2>4 DEF ReadChecklist
    <3>2. Rests(D, tasks, tasks') BY <1>2, <3>1, FollowUpsRest
    <3> QED BY <1>1, <1>4, <2>1, <2>2, <3>1, <3>2, OwingStep
  <2>5. ASSUME NEW k \in DOMAIN tasks, NEW st \in {"open", "completed", "cancelled"},
               NEW noted \in BOOLEAN, PatchTask(k, st, noted)
        PROVE  OwedSleeps'
    <3>1. \A j \in D \ {k} : tasks'[j] = tasks[j] BY <1>1, <2>5, PersonTypes
    <3>2. owed' = owed \ {k} BY <2>5 DEF PatchTask
    <3> QED BY <1>1, <1>4, <2>1, <3>1, <3>2 DEF Owing, OwedSleeps, Automatic
  <2>6. ASSUME NEW day \in scenario.days, NEW form \in scenario.forms, EditEvent(day, form)
        PROVE  OwedSleeps'
    <3>1. Rests(D, tasks, tasks') BY <1>1, <1>3, <2>6, FormRests
    <3>2. Remember BY <2>6 DEF EditEvent
    <3> QED BY <1>1, <1>4, <2>1, <2>2, <3>1, <3>2, OwingStep
  <2>7. CASE Archive BY <1>1, <1>3, <2>7, ArchiveTypes
  <2>8. CASE DayPasses
    <3>1. tasks' = tasks /\ Remember BY <2>8 DEF DayPasses
    <3>2. Rests(D, tasks, tasks') BY <1>2, <3>1, RestsSame
    <3> QED BY <1>1, <1>4, <2>1, <2>2, <3>1, <3>2, OwingStep
  <2>9. ASSUME NEW within, Cron(within) PROVE OwedSleeps'
    <3>1. tasks' = rescheduleAllAutomaticTasks(e, tasks, within) /\ Remember BY <2>9 DEF Cron
    <3>2. Rests(D, tasks, tasks') BY <1>2, <2>1, <3>1, CronRests
    <3> QED BY <1>1, <1>4, <2>1, <2>2, <3>1, <3>2, OwingStep
  <2>10. CASE UNCHANGED vars
    BY <2>10 DEF vars, Owing, OwedSleeps, terminal, Automatic, Dormant
  <2> QED BY <1>6, <2>3, <2>4, <2>5, <2>6, <2>7, <2>8, <2>9, <2>10 DEF Next
<1> QED BY <1>5, <1>6

LEMMA ReopeningWakes ==
  ASSUME Owing, ~e.archived, terminal(e), NEW to \in Status, StatusChange(to), ~terminal(e'),
         NEW k \in owed, canGenerateTaskForPhase(k, getActiveWorkflowPhase(e')),
         k = "poc_incomplete" => e.field.poc = "incomplete",
         k = "payment_followup" => e.field.booking = "tentative" /\ e.gate.payment # "Completed"
  PROVE  isOpen(tasks'[k])
<1> DEFINE D == scenario.tasks
           F == DOMAIN scenario.field
           Q == taskRulesCompletedByLifecycleTransition(e.status, e'.status)
           R == reopen(tasks, automatic(tasks), "cancelled", {"became"})
           T1 == complete(R, Q, "auto")
           T2 == reconcileTentativeVenuePaymentTasks(e', T1)
           T3 == reconcileReadinessTasks(e', T2)
           T4 == reconcileFileToAccountsReminder(e', T3)
           T5 == reconcilePocTask(e', T4)
           T6 == reconcileWorkflowPhaseTasks(e', T5)
<1>1. /\ tasks \in [D -> Rows] /\ e \in Events(F) /\ TypeInv
      /\ k \in Automatic(D) /\ (k = "refund_review" \/ Dormant(k, tasks[k]))
      /\ \A j \in D : neededBy(j) \subseteq F
  BY ScenariosAssumption DEF Owing, TypeInv, OwedSleeps
<1>2. /\ e' \in Events(F) /\ e'.status = to /\ e'.archived = FALSE
  <2>1. TypeInv' /\ scenario' = scenario /\ e'.status = to /\ e'.archived = e.archived
    BY <1>1, StatusChain
  <2> QED BY <1>1, <2>1 DEF TypeInv, Events
<1>3. to \in {"enquiry", "tentative"}
  <2>1. canTransition(e.status, to) BY DEF StatusChange
  <2> QED BY <2>1 DEF canTransition, Transitions, terminal
<1>4. e' = [e EXCEPT !.status = to] BY <1>3 DEF StatusChange
<1>5. e'.field = e.field /\ e'.gate = e.gate BY <1>1, <1>4 DEF Events
<1>6. getActiveWorkflowPhase(e') = "confirm" BY <1>2, <1>3 DEF getActiveWorkflowPhase
<1>7. k \notin {"readiness", "send_file_to_accounts", "refund_review"}
  <2>1. workflowPhaseForTaskRule("readiness") = "event"
        /\ workflowPhaseForTaskRule("send_file_to_accounts") = "accounts"
        /\ workflowPhaseForTaskRule("refund_review") = "accounts"
    BY DEF workflowPhaseForTaskRule, AccountsFileTask
  <2> QED BY <1>6, <2>1 DEF canGenerateTaskForPhase
<1>8. tasks' = T6
  <2>1. reconcileTasksForLifecycleTransition(e', tasks, e.status, e'.status) = T1
    BY <1>2, <1>3 DEF reconcileTasksForLifecycleTransition, completeTasksForSourceRules, terminal
  <2> HIDE DEF T1
  <2>2. tasks' = afterStatusChange(e', tasks, e.status) BY DEF StatusChange
  <2> QED BY <2>1, <2>2 DEF afterStatusChange
<1>9. R \in [D -> Rows]
  <2>1. "none" \in Note BY DEF Note
  <2> QED BY <1>1, <2>1, UpdatesKeepRows
<1>10. isOpen(R[k]) \/ (k = "payment_followup" /\ R[k].st = "none")
  <2>1. Dormant(k, tasks[k]) /\ k \in automatic(tasks)
    BY <1>1, <1>7 DEF Automatic, automatic
  <2> QED BY <1>1, <2>1 DEF Dormant, Became, reopen, isOpen, Automatic
<1> HIDE DEF R
<1>11. Q = {} BY <1>2, <1>3 DEF taskRulesCompletedByLifecycleTransition
<1>12. T1 \in [D -> Rows] /\ \A j \in D : T1[j] = R[j]
  <2>1. "auto" \in Note BY DEF Note, AutoNote
  <2>2. T1 \in [D -> Rows] BY <1>9, <2>1, UpdatesKeepRows
  <2> QED BY <1>9, <1>11, <2>2 DEF complete
<1> HIDE DEF Q, T1
<1>13. k \in D BY <1>1 DEF Automatic
<1>14. isOpen(T2[k])
  <2>1. k = "payment_followup" => "booking" \in DOMAIN e'.field
    BY <1>1, <1>2, <1>13, FieldTypes DEF neededBy
  <2> QED BY <1>2, <1>5, <1>10, <1>12, <1>13, <2>1, PaymentStays
<1>15. T2 \in [D -> Rows]
  <2>1. Opens(D, D \cup {"payment_followup"}, T1, T2) BY <1>12, PaymentOpens
  <2> QED BY <2>1 DEF Opens
<1> HIDE DEF T2
<1>16. isOpen(T3[k]) BY <1>7, <1>13, <1>14, <1>15, ReadinessStays
<1>17. T3 \in [D -> Rows]
  <2>1. Opens(D, D \cup {"readiness"}, T2, T3) BY <1>15, ReadinessOpens
  <2> QED BY <2>1 DEF Opens
<1> HIDE DEF T3
<1>18. isOpen(T4[k]) BY <1>7, <1>13, <1>16, <1>17, ReminderStays
<1>19. T4 \in [D -> Rows]
  <2>1. Opens(D, D \cup {"send_file_to_accounts"}, T3, T4) BY <1>17, ReminderOpens
  <2> QED BY <2>1 DEF Opens
<1> HIDE DEF T4
<1>20. isOpen(T5[k]) BY <1>5, <1>13, <1>18, <1>19, PocStays
<1>21. T5 \in [D -> Rows]
  <2>1. Opens(D, D \cup {"poc_incomplete"}, T4, T5) BY <1>19, PocOpens
  <2> QED BY <2>1 DEF Opens
<1> HIDE DEF T5
<1>22. isOpen(T6[k]) BY <1>13, <1>20, <1>21, PhaseStays
<1> QED BY <1>8, <1>22

\* What a cancellation or regret closed comes back with the event: whatever was edited,
\* read or scheduled meanwhile, nothing but a person's hand can lose it.
THEOREM ReopenedEventResumes == Spec => ReopeningRestores
<1>1. Init => Owing BY InitTypes DEF Owing, OwedSleeps
<1>2. Owing /\ [Next]_vars => Owing' BY StepTypes, OwingKept DEF Owing
<1>3. Owing /\ [Next]_vars =>
        [terminal(e) /\ ~terminal(e') /\ ~e.archived =>
           \A k \in owed :
             /\ canGenerateTaskForPhase(k, getActiveWorkflowPhase(e'))
             /\ k = "poc_incomplete" => e.field.poc = "incomplete"
             /\ k = "payment_followup" => e.field.booking = "tentative" /\ e.gate.payment # "Completed"
             => isOpen(tasks'[k])]_vars
  <2>1. SUFFICES ASSUME Owing, [Next]_vars, terminal(e), ~terminal(e'), ~e.archived,
                        NEW k \in owed,
                        canGenerateTaskForPhase(k, getActiveWorkflowPhase(e')),
                        k = "poc_incomplete" => e.field.poc = "incomplete",
                        k = "payment_followup" =>
                          e.field.booking = "tentative" /\ e.gate.payment # "Completed"
                 PROVE  isOpen(tasks'[k])
    OBVIOUS
  <2>2. terminal(e) # terminal(e') BY <2>1 DEF terminal
  <2>3. PICK to \in Status : StatusChange(to) BY <2>1, <2>2, StatusMoves DEF Owing
  <2> QED BY <2>1, <2>3, ReopeningWakes
<1> QED BY <1>1, <1>2, <1>3, PTL DEF Spec, ReopeningRestores

-----------------------------------------------------------------------------
\* A reopened file brings back what closing it cancelled.

ClosedWithFile == [st |-> "cancelled", note |-> "closed"]

\* The row can still be brought back, or needs not be.
Revivable(r) == isOpen(r) \/ r = ClosedWithFile

LEMMA ClosedRowsStay ==
  ASSUME NEW D, NEW T \in [D -> Rows], NEW k \in D, T[k] = ClosedWithFile,
         NEW K, NEW note, NEW N
  PROVE  /\ complete(T, K, note)[k] = T[k] /\ cancel(T, K, note)[k] = T[k]
         /\ settle(T, K)[k] = T[k] /\ reopen(T, K, "completed", N)[k] = T[k]
         /\ Revivable(upsertUnlessCompleted(T, K)[k])
<1>1. complete(T, K, note)[k] = T[k] /\ cancel(T, K, note)[k] = T[k]
  BY DEF complete, cancel, isOpen, ClosedWithFile
<1>2. settle(T, K)[k] = T[k] BY DEF settle, isOpen, ClosedWithFile
<1>3. reopen(T, K, "completed", N)[k] = T[k] BY DEF reopen, ClosedWithFile
<1>4. Revivable(upsertUnlessCompleted(T, K)[k])
  BY DEF upsertUnlessCompleted, Revivable, isOpen
<1> QED BY <1>1, <1>2, <1>3, <1>4

LEMMA PocRevives ==
  ASSUME NEW D, NEW T \in [D -> Rows], NEW ev, NEW k \in D, T[k] = ClosedWithFile
  PROVE  Revivable(reconcilePocTask(ev, T)[k])
<1> DEFINE K == {"poc_incomplete"}
           U == reconcilePocTask(ev, T)
<1>1. U = T \/ U = upsertUnlessCompleted(T, K) \/ U = cancel(T, K, "moot") \/ U = complete(T, K, "auto")
  BY DEF reconcilePocTask
<1> HIDE DEF U
<1>2. Revivable(U[k]) BY <1>1, ClosedRowsStay DEF Revivable
<1> QED BY <1>2 DEF U

LEMMA FollowUpsRevive ==
  ASSUME NEW D, NEW T \in [D -> Rows], NEW ev, ev.gate \in Gate, InOrder(ev.gate),
         NEW k \in D, Revivable(T[k]), Waiting(ev, k)
  PROVE  Revivable(reconcileFollowUpTasks(ev, T)[k])
<1>1. CASE isOpen(T[k]) BY <1>1, FollowUpsStay DEF Revivable
<1>2. CASE T[k] = ClosedWithFile
  <2> DEFINE U == reconcileConfirmationLetterTasks(ev, T)
             W == settle(U, {j \in DOMAIN T : satisfied(ev, j)})
  <2>1. PICK V : /\ \/ V = settle(T, {"confirmation_make"})
                    \/ V = reopen(T, {"confirmation_make"}, "completed", Note)
                    \/ V = T
                 /\ \/ U = settle(V, {"confirmation_letter"})
                    \/ U = cancel(V, {"confirmation_letter"}, "moot")
                    \/ U = V
    BY LetterUpdates
  <2>2. "moot" \in Note \ {"closed"} BY DEF Note
  <2> DEFINE L == {"confirmation_make"}
  <2>3. Opens(D, L, T, V) BY <2>1, SettlingOpens, ReopenOpens, OpensNothing
  <2>4. V \in [D -> Rows] BY <2>3 DEF Opens
  <2>5. V[k] = ClosedWithFile BY <1>2, <2>1, ClosedRowsStay
  <2>6. Opens(D, L, V, U) BY <2>1, <2>2, <2>4, ClosingOpens, SettlingOpens, OpensNothing
  <2>7. U \in [D -> Rows] BY <2>6 DEF Opens
  <2> HIDE DEF U
  <2>8. U[k] = ClosedWithFile BY <2>1, <2>4, <2>5, ClosedRowsStay
  <2>9. W[k] = ClosedWithFile BY <2>7, <2>8, ClosedRowsStay
  <2>10. reconcileFollowUpTasks(ev, T) = W BY DEF reconcileFollowUpTasks, U
  <2> HIDE DEF W
  <2> QED BY <2>9, <2>10 DEF Revivable
<1> QED BY <1>1, <1>2 DEF Revivable

LEMMA PhaseRevives ==
  ASSUME NEW D, NEW T \in [D -> Rows], NEW ev, NEW k \in D, Revivable(T[k]),
         k \in {"manual", "poc_incomplete"}
           \/ canGenerateTaskForPhase(k, getActiveWorkflowPhase(ev))
  PROVE  Revivable(reconcileWorkflowPhaseTasks(ev, T)[k])
<1>1. CASE isOpen(T[k]) BY <1>1, PhaseStays DEF Revivable
<1>2. CASE T[k] = ClosedWithFile
  <2>1. PICK K : \/ reconcileWorkflowPhaseTasks(ev, T) = T
                 \/ reconcileWorkflowPhaseTasks(ev, T) = cancel(T, K, "phase")
    BY DEF reconcileWorkflowPhaseTasks
  <2> QED BY <1>2, <2>1, ClosedRowsStay DEF Revivable
<1> QED BY <1>1, <1>2 DEF Revivable

LEMMA SweepStays ==
  ASSUME NEW D, NEW T \in [D -> Rows], NEW ev, NEW within, NEW k \in D, isOpen(T[k]),
         k = "accounts_file_sent" => ~dated(ev, "file_received_back_edit_1")
  PROVE  isOpen(createForAllFields(ev, T, within)[k])
<1> DEFINE U == createForAllFields(ev, T, within)
           one(f) == maybeCreateTaskForChecklistItem(ev, T, f, within)
<1>1. U[k] = T[k] \/ \E f \in DOMAIN TriggeredBy : U[k] = one(f)[k] BY SweepRows
<1>2. ASSUME NEW f PROVE isOpen(one(f)[k])
  <2>1. \/ one(f) = T \/ one(f) = insertNew(T, {TriggeredBy[f]})
        \/ /\ dated(ev, "file_received_back_edit_1")
           /\ one(f) = cancel(T, {"accounts_file_sent"}, "moot")
    BY DEF maybeCreateTaskForChecklistItem
  <2> HIDE DEF one
  <2> QED BY <2>1, OpenRowsStay
<1> HIDE DEF U, one
<1>3. isOpen(U[k]) BY <1>1, <1>2
<1> QED BY <1>3 DEF U

\* Rescheduling closes nothing that is due.
LEMMA RescheduleStays ==
  ASSUME NEW D, NEW T \in [D -> Rows], NEW F, NEW ev \in Events(F), InOrder(ev.gate),
         ev.archived = FALSE, NEW within, NEW k \in D, isOpen(T[k]), k # "manual",
         neededBy(k) \subseteq F, due(ev, k), Waiting(ev, k),
         k = "accounts_file_sent" => ~dated(ev, "file_received_back_edit_1")
  PROVE  isOpen(rescheduleAutomaticTasks(ev, T, within)[k])
<1> DEFINE T1 == createForAllFields(ev, T, within)
           T2 == reconcileInstalmentTasks(ev, T1)
           T3 == reconcileFollowUpTasks(ev, T2)
           T4 == reconcileFileToAccountsReminder(ev, T3)
           T5 == reconcileWorkflowPhaseTasks(ev, T4)
<1>1. rescheduleAutomaticTasks(ev, T, within) = T5 BY DEF rescheduleAutomaticTasks
<1>2. ev.gate \in Gate /\ DOMAIN ev.field = F BY FieldTypes DEF Events
<1>3. k # "poc_incomplete" => canGenerateTaskForPhase(k, getActiveWorkflowPhase(ev)) BY DEF due
<1>4. isOpen(T1[k]) BY SweepStays
<1>5. T1 \in [D -> Rows]
  <2>1. Rests(D, T, T1) BY SweepRests
  <2> QED BY <2>1 DEF Rests
<1> HIDE DEF T1
<1>6. isOpen(T2[k])
  <2>1. k = "instalment" =>
          /\ ev.field.instalment = "Yes" /\ ev.field.expected = "due"
          /\ ev.field.received = "No" /\ ev.gate.payment # "Completed"
    BY DEF due
  <2> QED BY <1>4, <1>5, <2>1, InstalmentStays
<1>7. T2 \in [D -> Rows]
  <2>1. Rests(D, T1, T2) BY <1>5, InstalmentRests
  <2> QED BY <2>1 DEF Rests
<1> HIDE DEF T2
<1>8. isOpen(T3[k]) BY <1>2, <1>6, <1>7, FollowUpsStay
<1>9. T3 \in [D -> Rows]
  <2>1. Rests(D, T2, T3) BY <1>7, FollowUpsRest
  <2> QED BY <2>1 DEF Rests
<1> HIDE DEF T3
<1>10. isOpen(T4[k])
  <2>1. k = "send_file_to_accounts" =>
          /\ ~ev.archived /\ getActiveWorkflowPhase(ev) = "accounts"
          /\ "file_sent_to_accounts" \in DOMAIN ev.field /\ ~dated(ev, "file_sent_to_accounts")
    <3>1. SUFFICES ASSUME k = "send_file_to_accounts"
                   PROVE  /\ getActiveWorkflowPhase(ev) = "accounts"
                          /\ "file_sent_to_accounts" \in F /\ ~dated(ev, "file_sent_to_accounts")
      BY <1>2
    <3>2. ~dated(ev, "file_sent_to_accounts") BY <3>1 DEF due
    <3>3. "file_sent_to_accounts" \in F BY <3>1 DEF neededBy
    <3>4. workflowPhaseForTaskRule(k) = "accounts"
      BY <3>1 DEF workflowPhaseForTaskRule, AccountsFileTask
    <3>5. getActiveWorkflowPhase(ev) = "accounts"
      BY <1>3, <3>1, <3>4 DEF canGenerateTaskForPhase
    <3> QED BY <3>2, <3>3, <3>5
  <2> QED BY <1>8, <1>9, <2>1, ReminderStays
<1>11. T4 \in [D -> Rows]
  <2>1. Rests(D, T3, T4) BY <1>9, ReminderRests
  <2> QED BY <2>1 DEF Rests
<1> HIDE DEF T4
<1>12. isOpen(T5[k]) BY <1>3, <1>10, <1>11, PhaseStays
<1> QED BY <1>1, <1>12

\* A request that leaves the status alone demoted nothing.
LEMMA DemotedNothing ==
  ASSUME NEW F, NEW ev \in Events(F), NEW T, NEW target \in Targets,
         demote(ev, T, target).e.status = ev.status
  PROVE  demote(ev, T, target).e = ev /\ demote(ev, T, target).T = T
<1> DEFINE d == demote(ev, T, target)
           m == [ev EXCEPT !.status = target]
           w == withBooking(m, "confirmed", "tentative")
           T4 == reconcileWorkflowPhaseTasks(w, reconcilePocTask(w,
                   reconcileReadinessTasks(w, reconcileTentativeVenuePaymentTasks(w, T))))
           c == /\ ev.status = "confirmed" /\ ~ev.archived
                /\ blockersForTransition(row(ev), "confirmed") # {}
<1>1. CASE c
  <2>1. d = [e |-> w, T |-> T4] BY <1>1 DEF demote
  <2>2. m \in Events(F) /\ m.status = target BY DEF Events, Status, Targets
  <2> HIDE DEF m
  <2>3. w.status = target BY <2>2, BookingChanged
  <2>4. d.e.status = ev.status OBVIOUS
  <2>5. ev.status = "confirmed" BY <1>1
  <2> HIDE DEF w, T4, d, c
  <2>6. d.e = w BY <2>1
  <2>7. FALSE BY <2>3, <2>4, <2>5, <2>6 DEF Targets
  <2> QED BY <2>7
<1>2. CASE ~c
  <2>1. d = [e |-> ev, T |-> T] BY <1>2 DEF demote
  <2> HIDE DEF d, c
  <2>2. d.e = ev /\ d.T = T BY <2>1
  <2> QED BY <2>2 DEF d
<1> QED BY <1>1, <1>2

LEMMA FileBringsBack ==
  ASSUME TypeInv, ~e.archived, NEW within, NEW target \in Targets, ReopenFile(within, target),
         e'.status = e.status,
         NEW k \in automatic(tasks), tasks[k] = ClosedWithFile,
         due(e', k), Waiting(e', k),
         k = "accounts_file_sent" => ~dated(e', "file_received_back_edit_1")
  PROVE  isOpen(tasks'[k])
<1> DEFINE D == scenario.tasks
           F == DOMAIN scenario.field
           ev == FileClosed(FALSE)
           P == reconcilePocTask(ev, tasks)
<1>1. /\ tasks \in [D -> Rows] /\ e \in Events(F) /\ InOrder(e.gate)
      /\ \A j \in D : neededBy(j) \subseteq F
  BY ScenariosAssumption DEF TypeInv
<1>2. PICK T, U, V :
        /\ T = reconcileFollowUpTasks(ev, P)
        /\ Opens(D, {"poc_incomplete", "confirmation_make"}, tasks, T)
        /\ U = BroughtBack(ev, T)
        /\ U \in [D -> Rows]
        /\ V = rescheduleAutomaticTasks(ev, U, within) /\ V \in [D -> Rows]
        /\ e' = demote(ev, V, target).e /\ tasks' = demote(ev, V, target).T
  BY ReopenChain DEF Targets
<1>3. /\ ev \in Events(F) /\ ev.archived = FALSE /\ ev.gate = e.gate /\ ev.gate \in Gate
      /\ ev.status = e.status
  BY <1>1, FileOfEvent DEF Events
<1> HIDE DEF ev
<1>4. e' = ev /\ tasks' = V BY <1>2, <1>3, DemotedNothing
<1>5. k \in D /\ k # "manual" BY <1>1 DEF automatic
<1>6. k = "poc_incomplete" \/ canGenerateTaskForPhase(k, getActiveWorkflowPhase(ev))
  BY <1>4 DEF due
<1>7. Revivable(P[k]) BY <1>1, <1>5, PocRevives
<1>8. P \in [D -> Rows]
  <2>1. Opens(D, D \cup {"poc_incomplete"}, tasks, P) BY <1>1, PocOpens
  <2> QED BY <2>1 DEF Opens
<1> HIDE DEF P
<1>9. Revivable(T[k]) BY <1>1, <1>2, <1>3, <1>4, <1>5, <1>7, <1>8, FollowUpsRevive
<1>10. T \in [D -> Rows] BY <1>2 DEF Opens
<1> DEFINE Q == reconcileWorkflowPhaseTasks(ev, T)
<1>11. Revivable(Q[k]) BY <1>5, <1>6, <1>9, <1>10, PhaseRevives
<1>12. Q \in [D -> Rows]
  <2>1. Opens(D, {}, T, Q) BY <1>10, PhaseOpens
  <2> QED BY <2>1 DEF Opens
<1>13. U = reopen(Q, automatic(T), "cancelled", {"closed"}) BY <1>2 DEF BroughtBack
<1>14. k \in automatic(T) BY <1>5, <1>10 DEF automatic
<1> HIDE DEF Q
<1>15. isOpen(U[k])
  BY <1>5, <1>11, <1>12, <1>13, <1>14 DEF Revivable, ClosedWithFile, reopen, isOpen
<1>16. isOpen(V[k]) BY <1>1, <1>2, <1>3, <1>4, <1>5, <1>15, RescheduleStays
<1> QED BY <1>4, <1>16

\* Closing the file sets what is still asked for aside, under its own note.
LEMMA FileSetsAside ==
  ASSUME TypeInv, ~e.archived, ~terminal(e), NEW target \in Targets, CloseFile(target),
         e'.status = e.status,
         NEW k \in automatic(tasks), isOpen(tasks[k]), due(e', k), Waiting(e', k)
  PROVE  tasks'[k] = ClosedWithFile
<1> DEFINE D == scenario.tasks
           F == DOMAIN scenario.field
           ev == FileClosed(TRUE)
           P == reconcilePocTask(ev, tasks)
<1>1. /\ tasks \in [D -> Rows] /\ e \in Events(F) /\ InOrder(e.gate)
      /\ \A j \in D : neededBy(j) \subseteq F
  BY ScenariosAssumption DEF TypeInv
<1>2. PICK T, U :
        /\ Opens(D, {"confirmation_make"}, P, T)
        /\ T = reconcileFollowUpTasks(ev, P)
        /\ U = reconcileWorkflowPhaseTasks(ev, T)
        /\ e' = demote(ev, cancel(U, automatic(U), "closed"), target).e
        /\ tasks' = demote(ev, cancel(U, automatic(U), "closed"), target).T
  BY CloseChain DEF Targets
<1>3. /\ ev \in Events(F) /\ ev.archived = FALSE /\ ev.gate = e.gate /\ ev.gate \in Gate
      /\ ev.status = e.status
  BY <1>1, FileOfEvent DEF Events
<1> HIDE DEF ev
<1>4. e' = ev /\ tasks' = cancel(U, automatic(U), "closed") BY <1>2, <1>3, DemotedNothing
<1>5. k \in D /\ k # "manual" BY <1>1 DEF automatic
<1>6. k = "poc_incomplete" \/ canGenerateTaskForPhase(k, getActiveWorkflowPhase(ev))
  BY <1>4 DEF due
<1>7. isOpen(P[k])
  <2>1. k = "poc_incomplete" => ~terminal(ev) /\ ev.field.poc = "incomplete"
    BY <1>3, <1>4 DEF due, terminal
  <2> QED BY <1>1, <1>5, <2>1, PocStays
<1>8. P \in [D -> Rows]
  <2>1. Opens(D, D \cup {"poc_incomplete"}, tasks, P) BY <1>1, PocOpens
  <2> QED BY <2>1 DEF Opens
<1> HIDE DEF P
<1>9. isOpen(T[k]) BY <1>1, <1>2, <1>3, <1>4, <1>5, <1>7, <1>8, FollowUpsStay
<1>10. T \in [D -> Rows] BY <1>2 DEF Opens
<1>11. isOpen(U[k]) BY <1>2, <1>5, <1>6, <1>9, <1>10, PhaseStays
<1>12. U \in [D -> Rows]
  <2>1. Opens(D, {}, T, U) BY <1>2, <1>10, PhaseOpens
  <2> QED BY <2>1 DEF Opens
<1>13. k \in automatic(U) BY <1>5, <1>12 DEF automatic
<1> QED BY <1>4, <1>5, <1>11, <1>12, <1>13 DEF cancel, ClosedWithFile

\* Only the reopening of the file takes its date away, only its closing puts one.
LEMMA FileMoves ==
  ASSUME TypeInv, [Next]_vars, e'.closed # e.closed
  PROVE  \E target \in Targets : \/ ~e.closed /\ CloseFile(target)
                                 \/ \E within : ReopenFile(within, target)
<1> DEFINE F == DOMAIN scenario.field
<1>1. e \in Events(F) BY DEF TypeInv
<1>2. ASSUME NEW f \in DOMAIN scenario.offers, NEW v \in scenario.offers[f],
             NEW within, NEW target \in Targets, PatchChecklist(f, v, within, target)
      PROVE  FALSE
  <2>1. EventAfter(written(f, v), target) BY <1>2, EditTypes DEF Targets
  <2>2. written(f, v).closed = e.closed BY <1>2, WriteOfAField DEF PatchChecklist
  <2> QED BY <2>1, <2>2 DEF EventAfter
<1>3. ASSUME NEW target \in Targets, CloseFile(target) PROVE e'.closed = TRUE
  <2> DEFINE ev == FileClosed(TRUE)
  <2>1. ev \in Events(F) /\ ev.closed = TRUE BY <1>1, FileOfEvent
  <2>2. PICK V : e' = demote(ev, V, target).e BY <1>3 DEF CloseFile, FileClosed
  <2>3. target \in {"tentative", "approved"} BY DEF Targets
  <2> HIDE DEF ev, F
  <2>4. EventAfter(ev, target)
    BY <2>1, <2>2, <2>3, DemotedEvent DEF EventAfter, F
  <2> QED BY <2>1, <2>4 DEF EventAfter
<1>4. CASE ChecklistEdit
  <2>1. PICK within \in scenario.windows, target \in Targets :
          \/ \E f \in DOMAIN scenario.offers : \E v \in scenario.offers[f] :
               PatchChecklist(f, v, within, target)
          \/ CloseFile(target) \/ ReopenFile(within, target)
    BY <1>4 DEF ChecklistEdit, Targets
  <2>2. e.closed \in BOOLEAN BY <1>1 DEF Events
  <2>3. CASE CloseFile(target)
    <3>1. ~e.closed BY <1>3, <2>2, <2>3
    <3> QED BY <2>3, <3>1
  <2>4. CASE ReopenFile(within, target) BY <2>4
  <2> QED BY <1>2, <2>1, <2>3, <2>4
<1>5. CASE ReadChecklist BY <1>5, ReadTypes
<1>6. CASE \E k \in DOMAIN tasks, st \in {"open", "completed", "cancelled"}, noted \in BOOLEAN :
             PatchTask(k, st, noted)
  BY <1>6, PersonTypes
<1>7. CASE \E day \in scenario.days, form \in scenario.forms : EditEvent(day, form)
  BY <1>7, FormChain
<1>8. CASE \E to \in Status : StatusChange(to) BY <1>8, StatusChain
<1>9. CASE Archive
  <2>1. e'.closed = e.closed BY <1>1, <1>9 DEF Archive, Events
  <2> QED BY <2>1
<1>10. CASE DayPasses BY <1>10, DayTypes
<1>11. CASE \E within \in scenario.windows : Cron(within) BY <1>11, CronTypes
<1>12. CASE UNCHANGED vars BY <1>12 DEF vars
<1> QED BY <1>4, <1>5, <1>6, <1>7, <1>8, <1>9, <1>10, <1>11, <1>12 DEF Next

\* Reopening the file opens it.
LEMMA FileReopened ==
  ASSUME TypeInv, NEW within, NEW target \in Targets, ReopenFile(within, target)
  PROVE  ~e'.closed
<1> DEFINE F == DOMAIN scenario.field
           ev == FileClosed(FALSE)
<1>1. ev \in Events(F) /\ ~ev.closed BY FileOfEvent DEF TypeInv
<1>2. PICK V : e' = demote(ev, V, target).e BY DEF ReopenFile, FileClosed
<1>3. target \in {"tentative", "approved"} BY DEF Targets
<1> HIDE DEF ev, F
<1>4. EventAfter(ev, target) BY <1>1, <1>2, <1>3, DemotedEvent DEF EventAfter, F
<1> QED BY <1>1, <1>4 DEF EventAfter

\* What one step does to a task that is still asked for, when the step closes or
\* reopens the file.
LEMMA FileStep ==
  ASSUME TypeInv, [Next]_vars, ~e.archived, e'.status = e.status,
         NEW k \in automatic(tasks), stillAsked(e', k)
  PROVE  /\ ~e.closed /\ e'.closed /\ ~terminal(e) /\ isOpen(tasks[k])
              => tasks'[k] = [st |-> "cancelled", note |-> "closed"]
         /\ e.closed /\ ~e'.closed /\ tasks[k] = [st |-> "cancelled", note |-> "closed"]
              => isOpen(tasks'[k])
<1>1. due(e', k) /\ Waiting(e', k) BY DEF stillAsked, Waiting
<1>2. k = "accounts_file_sent" => ~dated(e', "file_received_back_edit_1") BY DEF stillAsked
<1>3. ASSUME ~e.closed, e'.closed, ~terminal(e), isOpen(tasks[k])
      PROVE  tasks'[k] = ClosedWithFile
  <2>1. PICK target \in Targets : CloseFile(target) BY <1>3, FileMoves, FileReopened
  <2> QED BY <1>1, <1>3, <2>1, FileSetsAside
<1>4. ASSUME e.closed, ~e'.closed, tasks[k] = ClosedWithFile
      PROVE  isOpen(tasks'[k])
  <2>1. PICK target \in Targets : \E within : ReopenFile(within, target) BY <1>4, FileMoves
  <2>2. PICK within : ReopenFile(within, target) BY <2>1
  <2> QED BY <1>1, <1>2, <1>4, <2>2, FileBringsBack
<1> QED BY <1>3, <1>4 DEF ClosedWithFile

\* Closing the file sets aside each open task that is still asked for, and reopening it
\* brings each such task back if it is still asked for then: all the work of the phase of
\* an event in the pipeline, and the contact reminder alone of a Confirmed one, whose
\* other tasks the phase reconciler takes away before the closing can mark them.
THEOREM ReopenedFileResumes == Spec => ReopenedFileRestores
<1>1. TypeInv /\ [Next]_vars =>
        [~e.archived /\ e'.status = e.status =>
           \A k \in automatic(tasks) : stillAsked(e', k) =>
             /\ ~e.closed /\ e'.closed /\ ~terminal(e) /\ isOpen(tasks[k])
                  => tasks'[k] = [st |-> "cancelled", note |-> "closed"]
             /\ e.closed /\ ~e'.closed /\ tasks[k] = [st |-> "cancelled", note |-> "closed"]
                  => isOpen(tasks'[k])]_vars
  BY FileStep
<1> QED BY <1>1, TypesAreKept, PTL DEF Spec, ReopenedFileRestores
=============================================================================
