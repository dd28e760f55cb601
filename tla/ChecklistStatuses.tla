------------------------- MODULE ChecklistStatuses -------------------------
(***************************************************************************)
(* The statuses of the checklist rows that hang on a gate: a controller    *)
(* (Approval Required?, OnStage Required?, Emailer, Instalment, NOC Sent?, *)
(* TDS Certificate) and the rows it shows or hides.  Three programs write  *)
(* them: the edit of one row, the read of the whole checklist, which heals,*)
(* and the nightly job.  The browser guesses them once more.  One gate is  *)
(* looked at in a behaviour; no gate reads the rows of another.            *)
(*                                                                         *)
(* A date is kept relative to today: "due" (today or past) or "later".     *)
(***************************************************************************)
EXTENDS Integers, FiniteSets

CONSTANT Instalments   \* the numbers of the instalments looked at, of 1..5

ASSUME InstalmentsAssumption == Instalments \subseteq 1..5

VARIABLES
  gate,        \* the gate this behaviour is about
  rows,        \* checklist_items of the gate: row -> value and status
  completion,  \* events.overall_completion: rows done and rows that count
  settled,     \* a read or the nightly job has seen these dates today
  last         \* what happened last

statusVars == <<gate, rows, completion, settled, last>>

Statuses == {"not_started", "in_progress", "completed", "not_applicable"}
Gates == {"approval_required", "onstage_required", "emailer", "instalment",
          "noc_sent", "tds_certificate_from_client"}

Expected == {<<"expected", n>> : n \in Instalments}
Received == {<<"received", n>> : n \in Instalments}
row(name) == <<name, 0>>

\* One date stands for the dates of a gate that no rule tells apart.
Dependents(g) ==
  CASE g = "approval_required" -> {row("approval_received_on"), row("genre_head")}
    [] g = "onstage_required" -> {row("onstage_verified"), row("onstage_complete")}
    [] g = "emailer" -> {row("emailer_asked_client"), row("emailer_sent")}
    [] g = "instalment" -> Expected \cup Received
    [] g = "noc_sent" -> {row("noc_sent_on")}
    [] g = "tds_certificate_from_client" ->
         {row("tds_certificate_sent_to_accounts"), row("tds_accounts_refund_or_action"),
          row("tds_proof_sent_to_client")}
RowsOf(g) == Dependents(g) \cup {row(g)}

\* The options of each dropdown; every one can be cleared as well.
Options(r) ==
  CASE r[1] \in {"approval_required", "onstage_required"} -> {"Required", "Not Required"}
    [] r[1] \in {"emailer", "instalment"} -> {"Yes", "No"}
    [] r[1] = "noc_sent" -> {"Not Applicable", "Not sent", "Sent"}
    [] r[1] = "tds_certificate_from_client" -> {"N.A.", "Awaiting", "Received"}
    [] r[1] = "tds_accounts_refund_or_action" -> {"Awaiting", "Refunded", "N/A"}
    [] r[1] = "tds_proof_sent_to_client" -> {"Not Sent", "Sent"}
    [] r[1] = "genre_head" -> {"a genre head"}
    [] OTHER -> {}
fieldType(r) == IF r \in Received THEN "checkbox"
                ELSE IF Options(r) # {} THEN "dropdown" ELSE "date"
Values(r) == {"blank"} \cup (CASE fieldType(r) = "checkbox" -> {"true"}
                               [] fieldType(r) = "date" -> {"due", "later"}
                               [] OTHER -> Options(r))
defaultValue(r) ==
  CASE r[1] = "approval_required" -> "Not Required"
    [] r[1] = "onstage_required" -> "Required"
    [] r[1] \in {"emailer", "instalment"} -> "No"
    [] r[1] = "noc_sent" -> "Not sent"
    [] r[1] = "tds_certificate_from_client" -> "N.A."
    [] r[1] = "tds_accounts_refund_or_action" -> "Awaiting"
    [] r[1] = "tds_proof_sent_to_client" -> "Not Sent"
    [] OTHER -> "blank"

\* The word a controller must say for its rows to be shown.
OpensOn(g) == CASE g \in {"approval_required", "onstage_required"} -> "Required"
                [] g \in {"emailer", "instalment"} -> "Yes"
                [] g = "noc_sent" -> "Sent"
                [] g = "tds_certificate_from_client" -> "Received"

isChecklistFieldVisible(g, rs, r) ==
  r = row(g) \/ rs[row(g)].value = OpensOn(g)

-----------------------------------------------------------------------------
\* The status of one value.

NOT_APPLICABLE_VALUES == {"Not Required", "N/A", "N.A.", "Not Applicable"}
DONE_VALUES == {"Yes", "Sent", "Received", "Refunded"}
NOT_DONE_VALUES == {"No", "Not sent", "Not Sent", "Awaiting"}

itemStatusForValue(type, v) ==
  CASE v = "blank" -> "not_started"
    [] v \in NOT_APPLICABLE_VALUES -> "not_applicable"
    [] type = "dropdown" /\ v \in DONE_VALUES -> "completed"
    [] type = "dropdown" /\ v \in NOT_DONE_VALUES -> "not_started"
    [] type = "dropdown" /\ v \notin NOT_APPLICABLE_VALUES \cup DONE_VALUES \cup NOT_DONE_VALUES \cup {"blank"} ->
         "in_progress"
    [] type = "date" /\ v = "later" -> "in_progress"
    [] type = "date" /\ v = "due" -> "completed"
    [] type = "checkbox" /\ v = "true" -> "completed"

receivedOf(r) == <<"received", r[2]>>
expectedOf(r) == <<"expected", r[2]>>

instalmentExpectedDateStatus(date, received) ==
  CASE received = "true" -> "completed"
    [] received # "true" /\ date # "blank" -> "in_progress"
    [] received # "true" /\ date = "blank" -> "not_started"

\* Required and its last date set, or Required and waiting.
requiredStatus(v, finished) ==
  CASE v = "Not Required" -> "not_applicable"
    [] v = "Required" -> IF finished # "blank" THEN "completed" ELSE "in_progress"
    [] OTHER -> "not_started"

genreHeadStatus(v, required) ==
  IF required = "Not Required" THEN "not_applicable"
  ELSE IF v # "blank" THEN "completed" ELSE "not_started"

emailerGateStatus(v, sent) ==
  CASE v \in {"blank", "No"} -> "not_applicable"
    [] v = "Yes" -> IF sent # "blank" THEN "completed" ELSE "in_progress"
    [] OTHER -> "not_started"

instalmentGateStatus(v, rs) ==
  LET dated == {r \in Expected : rs[r].value # "blank"}
  IN  CASE v \in {"blank", "No"} -> "not_applicable"
        [] v = "Yes" -> IF dated # {} /\ \A r \in dated : rs[receivedOf(r)].value = "true"
                        THEN "completed" ELSE "in_progress"
        [] OTHER -> "not_started"

\* Rows whose status is their controller's own rule.
gateControllerRows(g) ==
  CASE g \in {"onstage_required", "emailer", "instalment"} -> {row(g)}
    [] g = "approval_required" -> {row(g), row("genre_head")}
    [] OTHER -> {}

gateControllerStatus(g, rs, r) ==
  LET v == rs[row(g)].value
  IN  CASE r = row("genre_head") -> genreHeadStatus(rs[r].value, v)
        [] r # row("genre_head") /\ g = "approval_required" ->
             requiredStatus(v, rs[row("approval_received_on")].value)
        [] g = "onstage_required" -> requiredStatus(v, rs[row("onstage_complete")].value)
        [] g = "emailer" -> emailerGateStatus(v, rs[row("emailer_sent")].value)
        [] g = "instalment" -> instalmentGateStatus(v, rs)

syncGateControllerStatuses(g, rs) ==
  [r \in DOMAIN rs |-> IF r \in gateControllerRows(g)
                       THEN [rs[r] EXCEPT !.status = gateControllerStatus(g, rs, r)]
                       ELSE rs[r]]

-----------------------------------------------------------------------------
\* The server.

syncInstalmentStatuses(g, rs) ==
  IF g # "instalment" THEN rs
  ELSE [r \in DOMAIN rs |->
         IF r \in Expected
           THEN [rs[r] EXCEPT !.status =
                   instalmentExpectedDateStatus(rs[r].value, rs[receivedOf(r)].value)]
         ELSE IF r \in Received
           THEN [rs[r] EXCEPT !.status = IF rs[r].value = "true" THEN "completed" ELSE "not_started"]
         ELSE rs[r]]

\* sync...DependentChecklist.  Approval and OnStage hide on "Not Required";
\* the other gates open on their one word.  A NOC date is wiped, and reset.
hides(g, v) == IF g \in {"approval_required", "onstage_required"}
               THEN v = "Not Required" ELSE v # OpensOn(g)

syncDependents(g, rs, v) ==
  LET hidden == [r \in DOMAIN rs |->
        IF r \notin Dependents(g) THEN rs[r]
        ELSE [value |-> IF g = "noc_sent" THEN "blank" ELSE rs[r].value,
              status |-> "not_applicable"]]
      shown == [r \in DOMAIN rs |->
        IF r \notin Dependents(g) THEN rs[r]
        ELSE [rs[r] EXCEPT !.status =
                IF g = "noc_sent" THEN "not_started"
                ELSE itemStatusForValue(fieldType(r), rs[r].value)]]
  IN  IF hides(g, v) THEN hidden
      ELSE IF g = "instalment" THEN syncInstalmentStatuses(g, rs) ELSE shown

\* The rows that count and those of them that are done.  A date to come
\* counts once it is due or done.
recalculateEventCompletion(g, rs) ==
  LET counts == {r \in DOMAIN rs :
        /\ isChecklistFieldVisible(g, rs, r)
        /\ ~(fieldType(r) = "date" /\ rs[r].value = "later" /\ rs[r].status # "completed")
        /\ rs[r].status # "not_applicable"}
  IN  [done |-> Cardinality({r \in counts : rs[r].status = "completed"}),
       total |-> Cardinality(counts)]

statusOnEdit(rs, r, v) ==
  CASE r = row("genre_head") -> IF v # "blank" THEN "completed" ELSE "not_started"
    [] r \in Received -> IF v = "true" THEN "completed" ELSE "not_started"
    [] r \in Expected -> instalmentExpectedDateStatus(v, rs[receivedOf(r)].value)
    [] OTHER -> itemStatusForValue(fieldType(r), v)

\* Slip: the controllers' own statuses are left to the next read.
updateWithoutControllers(g, rs, r, v) ==
  LET written == [rs EXCEPT ![r] = [value |-> v, status |-> statusOnEdit(rs, r, v)]]
  IN  IF r = row(g) THEN syncDependents(g, written, v) ELSE written

\* updateChecklistItem, as far as the gate's rows go.
updateChecklistItem(g, rs, r, v) ==
  LET written == [rs EXCEPT ![r] = [value |-> v, status |-> statusOnEdit(rs, r, v)]]
      depended == IF r = row(g) THEN syncDependents(g, written, v) ELSE written
  IN  syncInstalmentStatuses(g, syncGateControllerStatuses(g, depended))

\* ensureChecklistForEvent heals and counts; then getChecklistItems derives
\* the instalments once more, whatever the gate says.
ensureChecklist(g, rs) ==
  syncGateControllerStatuses(g, syncDependents(g, rs, rs[row(g)].value))
getChecklistItems(g, rs) ==
  syncGateControllerStatuses(g, syncInstalmentStatuses(g, ensureChecklist(g, rs)))
completionAfterRead(g, rs) == recalculateEventCompletion(g, ensureChecklist(g, rs))

seededRows(g) ==
  [r \in RowsOf(g) |-> [value |-> defaultValue(r),
                        status |-> itemStatusForValue(fieldType(r), defaultValue(r))]]

-----------------------------------------------------------------------------
\* The browser's guess: applyOptimisticChecklistUpdate.

optimisticDone == {"Yes", "Sent", "Received"}
optimisticFieldStatus(type, v) ==
  CASE v = "blank" -> "not_started"
    [] type = "dropdown" /\ v \in NOT_APPLICABLE_VALUES -> "not_applicable"
    [] type = "dropdown" /\ v \in optimisticDone -> "completed"
    [] type = "dropdown" /\ v \in NOT_DONE_VALUES -> "not_started"
    [] type = "dropdown" /\ v \notin NOT_APPLICABLE_VALUES \cup optimisticDone \cup NOT_DONE_VALUES \cup {"blank"} ->
         "in_progress"
    [] type = "date" /\ v = "later" -> "in_progress"
    [] type = "date" /\ v = "due" -> "completed"
    [] type = "checkbox" /\ v = "true" -> "completed"

\* Slip: the expected date's badge is left to the server.
receivedAlone(rs, r, v) ==
  [rs EXCEPT ![r] = [value |-> v, status |-> optimisticFieldStatus("checkbox", v)]]

\* Ticking Received repaints the expected date as well.
optimisticReceived(rs, r, v) ==
  [rs EXCEPT ![r] = [value |-> v, status |-> optimisticFieldStatus("checkbox", v)],
             ![expectedOf(r)].status = instalmentExpectedDateStatus(rs[expectedOf(r)].value, v)]

applyOptimisticChecklistUpdate(g, rs, r, v) ==
  LET edited == IF r \in Received THEN optimisticReceived(rs, r, v)
                ELSE [rs EXCEPT ![r] = [value |-> v, status |->
                        IF r \in Expected
                        THEN instalmentExpectedDateStatus(v, rs[receivedOf(r)].value)
                        ELSE optimisticFieldStatus(fieldType(r), v)]]
      depended == IF r # row(g) THEN edited
                  ELSE [d \in DOMAIN edited |->
                         IF d \in Dependents(g)
                         THEN [edited[d] EXCEPT !.status =
                                 IF hides(g, v) THEN "not_applicable" ELSE "not_started"]
                         ELSE edited[d]]
  IN  syncGateControllerStatuses(g, depended)

-----------------------------------------------------------------------------
\* What the runs do.

StatusesInit ==
  /\ gate \in Gates
  /\ rows = ensureChecklist(gate, seededRows(gate))
  /\ completion = recalculateEventCompletion(gate, rows)
  /\ settled = TRUE /\ last = "seed"

\* PATCH of a row the page shows.
EditRow ==
  \E r \in RowsOf(gate) : \E v \in Values(r) :
    /\ isChecklistFieldVisible(gate, rows, r)
    /\ v # rows[r].value
    /\ rows' = updateChecklistItem(gate, rows, r, v)
    /\ completion' = recalculateEventCompletion(gate, rows')
    /\ last' = "edit" /\ UNCHANGED <<gate, settled>>

\* PATCH of any other row of the event: controllers and completion only.
EditElsewhere ==
  /\ rows' = syncGateControllerStatuses(gate, rows)
  /\ completion' = recalculateEventCompletion(gate, rows')
  /\ last' = "edit" /\ UNCHANGED <<gate, settled>>

ReadChecklist ==
  /\ rows' = getChecklistItems(gate, rows)
  /\ completion' = completionAfterRead(gate, rows)
  /\ settled' = TRUE /\ last' = "read" /\ UNCHANGED gate

\* runOperationalJobs: every date that is set, shown or hidden; then the
\* completion; then the instalments of an active event.
Nightly ==
  LET dated == [r \in DOMAIN rows |->
        IF fieldType(r) = "date" /\ r \notin Expected /\ rows[r].value # "blank"
        THEN [rows[r] EXCEPT !.status = itemStatusForValue("date", rows[r].value)]
        ELSE rows[r]]
  IN  /\ rows' = syncInstalmentStatuses(gate, dated)
      /\ completion' = IF \E r \in DOMAIN rows : fieldType(r) = "date" /\ rows[r].value # "blank"
                       THEN recalculateEventCompletion(gate, dated) ELSE completion
      /\ settled' = TRUE /\ last' = "night" /\ UNCHANGED gate

\* Midnight: a date to come may be today's.
Tomorrow ==
  \E arrived \in SUBSET {r \in DOMAIN rows : fieldType(r) = "date" /\ rows[r].value = "later"} :
    /\ arrived # {}
    /\ rows' = [r \in DOMAIN rows |-> IF r \in arrived THEN [rows[r] EXCEPT !.value = "due"] ELSE rows[r]]
    /\ settled' = FALSE /\ last' = "day" /\ UNCHANGED <<gate, completion>>

StatusesNext == EditRow \/ EditElsewhere \/ ReadChecklist \/ Nightly \/ Tomorrow

-----------------------------------------------------------------------------
\* What an edit leaves is what the page shows on the next read of that day: the
\* read, which heals, changes no status of a shown row and not the completion.
\* The NOC date is the exception: each read sets it back to not started.
EditAnticipatesRead ==
  last = "edit" /\ settled /\ gate # "noc_sent" =>
    /\ \A r \in DOMAIN rows : isChecklistFieldVisible(gate, rows, r) =>
         getChecklistItems(gate, rows)[r] = rows[r]
    /\ completionAfterRead(gate, rows) = completion

\* The badge the browser paints at once, on the edited row, on the gate and on
\* an instalment's date, is the one the server answers.  "Refunded" is the
\* exception: the browser's list of done words lacks it.
ScreenForetellsServer ==
  last = "read" =>
    \A r \in RowsOf(gate) : \A v \in Values(r) \ {"Refunded"} :
      isChecklistFieldVisible(gate, rows, r) =>
        LET screen == applyOptimisticChecklistUpdate(gate, rows, r, v)
            server == updateChecklistItem(gate, rows, r, v)
        IN  \A q \in {r, row(gate)} \cup (IF r \in Received THEN {expectedOf(r)} ELSE {}) :
              screen[q] = server[q]
=============================================================================
