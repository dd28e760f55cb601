---------------------------- MODULE BookingSaves ----------------------------
(***************************************************************************)
(* The venue bookings of one tentative event, edited as a whole list from  *)
(* two pages (the event form and the meeting form, each in a browser of    *)
(* its own) and saved by PUT /events/:id, which gives every booking a task *)
(* to follow up the payment.  A page knows a booking by its id; a line the *)
(* server has not answered for has none, here 0.                           *)
(*                                                                         *)
(* A browser keeps what GET answered: for some time as fresh, which it     *)
(* shows without asking, and for some minutes more as a stale copy, which  *)
(* it shows while it asks.                                                 *)
(***************************************************************************)
EXTENDS Integers, SequencesExt

CONSTANTS Pages,        \* the pages that may be open
          MeetingForms, \* those that are the meeting form
          Places,       \* the halls
          MaxLines,     \* bounds: lines of a page,
          MaxMade,  \*   bookings ever made,
          MaxEdits,     \*   changes of lines,
        MaxSaves      \*   and saves

ASSUME BookingsAssumption ==
  /\ MeetingForms \subseteq Pages /\ {MaxLines, MaxMade, MaxEdits, MaxSaves} \subseteq Nat

VARIABLES
  held,     \* venue_bookings: id -> [place, status]
  made,     \* number of bookings ever made, the last id
  tasks,    \* payment follow-ups: id of the booking -> [status, linked]
  shown,    \* the pages that are open
  lines,    \* each page's list of [id, place, status]
  copy,     \* each browser's copy of the bookings
  age,      \* of the copy: "none", "fresh", "stale", or "asked" with a GET on its way
  saving,   \* each page's save
  edits,    \* changes made to the lines
  saves,    \* saves begun
  crossed     \* history: saves overlapped or died, and none has run alone since

serverVars == <<held, made, tasks>>
pageVars == <<shown, lines>>
copyVars == <<copy, age>>
boundVars == <<edits, saves>>
bookingVars == <<serverVars, pageVars, copyVars, boundVars, saving, crossed>>

Blank == "blank"
BookingStatuses == {"tentative", "confirmed"}
NotSaving == [step |-> "idle"]

Unsettled == {p \in Pages : saving[p].step \notin {"idle", "done"}}

BookingsInit ==
  /\ held \in {<<>>} \cup {<<[place |-> h, status |-> "tentative"]>> : h \in Places}
  /\ made = Len(held)
  /\ tasks = [id \in 1 .. made |-> [status |-> "open", linked |-> TRUE]]
  /\ shown = {} /\ lines = [p \in Pages |-> <<>>]
  /\ copy = [p \in Pages |-> <<>>] /\ age = [p \in Pages |-> "none"]
  /\ saving = [p \in Pages |-> NotSaving]
  /\ edits = 0 /\ saves = 0 /\ crossed = FALSE

-----------------------------------------------------------------------------
\* hydrateEventFormFromDetail and hydrateBookings.  The event form shows one
\* blank line when there are no bookings.
inOrder(ids) ==
  [i \in 1 .. Cardinality(ids) |->
    CHOOSE id \in ids : Cardinality({other \in ids : other <= id}) = i]

pageLines(p, rows) ==
  LET ids == inOrder(DOMAIN rows)
      all == [i \in DOMAIN ids |-> [id |-> ids[i], place |-> rows[ids[i]].place,
                                    status |-> rows[ids[i]].status]]
  IN  IF all = <<>> /\ p \notin MeetingForms
      THEN <<[id |-> 0, place |-> Blank, status |-> "tentative"]>> ELSE all

\* The lines are taken once, from the copy if the browser has one; a stale one
\* is asked for again, behind the lines.
OpenPage(p) ==
  /\ p \notin shown /\ saves < MaxSaves
  /\ shown' = shown \cup {p}
  /\ LET source == IF age[p] = "none" THEN held ELSE copy[p]
     IN  /\ lines' = [lines EXCEPT ![p] = pageLines(p, source)]
         /\ copy' = [copy EXCEPT ![p] = source]
         /\ age' = [age EXCEPT ![p] = IF age[p] = "none" THEN "fresh"
                                      ELSE IF @ = "fresh" THEN "fresh" ELSE "asked"]
  /\ UNCHANGED <<serverVars, boundVars, saving, crossed>>

RefetchBookings(p) ==
  /\ age[p] = "asked"
  /\ copy' = [copy EXCEPT ![p] = held] /\ age' = [age EXCEPT ![p] = "fresh"]
  /\ UNCHANGED <<serverVars, pageVars, boundVars, saving, crossed>>

\* Thirty seconds.
GrowStale(p) ==
  /\ age[p] = "fresh" /\ age' = [age EXCEPT ![p] = "stale"]
  /\ UNCHANGED <<serverVars, pageVars, copy, boundVars, saving, crossed>>

\* The page is left unsaved; minutes later the copy is dropped.
LeavePage(p) ==
  /\ p \in shown /\ saving[p].step = "idle"
  /\ shown' = shown \ {p} /\ lines' = [lines EXCEPT ![p] = <<>>]
  /\ UNCHANGED <<serverVars, copyVars, boundVars, saving, crossed>>

ForgetCopy(p) ==
  /\ p \notin shown /\ age[p] = "stale"
  /\ copy' = [copy EXCEPT ![p] = <<>>] /\ age' = [age EXCEPT ![p] = "none"]
  /\ UNCHANGED <<serverVars, pageVars, boundVars, saving, crossed>>

\* VenueScheduleFields: add a line and say which hall, or remove or change one,
\* a save in progress or not.
ChangeLines(p) ==
  /\ p \in shown /\ edits < MaxEdits
  /\ \/ \E place \in Places \cup {Blank} :
        /\ Len(lines[p]) < MaxLines
        /\ lines' = [lines EXCEPT ![p] =
             Append(@, [id |-> 0, place |-> place, status |-> "tentative"])]
     \/ \E i \in DOMAIN lines[p] :
          \/ Len(lines[p]) > 1 /\ lines' = [lines EXCEPT ![p] = RemoveAt(@, i)]
          \/ \E place \in (Places \cup {Blank}) \ {lines[p][i].place} :
               lines' = [lines EXCEPT ![p][i].place = place]
          \/ \E s \in BookingStatuses \ {lines[p][i].status} :
               lines' = [lines EXCEPT ![p][i].status = s]
  /\ edits' = edits + 1
  /\ UNCHANGED <<serverVars, shown, copyVars, saves, saving, crossed>>

-----------------------------------------------------------------------------
\* prepareVenueBookingsForSave: a line without a hall is not sent.  The others
\* keep their order, here their places in the list.
preparedLines(list) == [i \in {j \in DOMAIN list : list[j].place # Blank} |-> list[i]]

\* Save, and on the event form stay there or go to the event.
SavePage(p, stay) ==
  /\ p \in shown /\ saving[p].step = "idle" /\ saves < MaxSaves
  /\ saves' = saves + 1
  /\ p \in MeetingForms => stay
  /\ saving' = [q \in Pages |->
       IF q = p THEN [step |-> "sent", sent |-> preparedLines(lines[p]), stay |-> stay,
                      alone |-> Unsettled = {}]
       ELSE IF q \in Unsettled THEN [saving[q] EXCEPT !.alone = FALSE] ELSE saving[q]]
  /\ crossed' = (crossed \/ Unsettled # {})
  /\ UNCHANGED <<serverVars, pageVars, copyVars, edits>>

sent(p) == ToSet(saving[p].sent)
keptIds(p) == {l.id : l \in sent(p)} \ {0}
newLines(p) == {i \in DOMAIN saving[p].sent : saving[p].sent[i].id = 0}
rowOf(l) == [place |-> l.place, status |-> l.status]

\* venueBookingSyncStatements reads which bookings there are.
ReadBookings(p) ==
  /\ saving[p].step = "sent" /\ keptIds(p) \subseteq DOMAIN held
  /\ saving' = [saving EXCEPT ![p] =
       [step |-> "read", sent |-> @.sent, stay |-> @.stay, alone |-> @.alone,
        known |-> DOMAIN held]]
  /\ UNCHANGED <<serverVars, pageVars, copyVars, boundVars, crossed>>

\* A line that names a booking there is not is refused; the page says so and
\* keeps its lines.
RefuseUnknown(p) ==
  /\ saving[p].step = "sent" /\ ~(keptIds(p) \subseteq DOMAIN held)
  /\ saving' = [saving EXCEPT ![p] = NotSaving]
  /\ UNCHANGED <<serverVars, pageVars, copyVars, boundVars, crossed>>

\* Slip: what goes is what the page knew and does not send any more.
removedFromPage(p) ==
  IF age[p] = "none" THEN {} ELSE DOMAIN copy[p] \ keptIds(p)

\* Whatever was read and is not kept goes.
removedIds(p) == saving[p].known \ keptIds(p)

\* The booking a line that is sent becomes: its own, or the next one made.
bookingOf(p, i) ==
  LET id == saving[p].sent[i].id
  IN  IF id # 0 THEN id ELSE made + Cardinality({j \in newLines(p) : j <= i})

\* One batch; the UPDATE of a booking that is gone finds no row.
WriteBatch(p) ==
  /\ saving[p].step = "read"
  /\ LET total == made + Cardinality(newLines(p))
         linesOf(id) == {i \in DOMAIN saving[p].sent : bookingOf(p, i) = id}
     IN  /\ total <= MaxMade
         /\ made' = total
         /\ held' = [id \in (DOMAIN held \ removedIds(p)) \cup made + 1 .. total |->
              IF linesOf(id) = {} THEN held[id]
              ELSE rowOf(saving[p].sent[CHOOSE i \in linesOf(id) : TRUE])]
  /\ tasks' = [id \in DOMAIN tasks |->
       IF id \in removedIds(p) THEN [tasks[id] EXCEPT !.linked = FALSE] ELSE tasks[id]]
  /\ saving' = [saving EXCEPT ![p].step = "written"]
  /\ UNCHANGED <<pageVars, copyVars, boundVars, crossed>>

\* A new schedule row of a booking that is gone refers to nothing, and the
\* whole batch fails.
FailBatch(p) ==
  /\ saving[p].step = "read" /\ ~(keptIds(p) \subseteq DOMAIN held)
  /\ saving' = [saving EXCEPT ![p] = NotSaving]
  /\ UNCHANGED <<serverVars, pageVars, copyVars, boundVars, crossed>>

-----------------------------------------------------------------------------
\* reconcileTentativeVenuePaymentTasksForEvent reads the bookings and the tasks.
ReadForTasks(p) ==
  /\ saving[p].step = "written"
  /\ saving' = [saving EXCEPT ![p] =
       [step |-> "tasks", stay |-> @.stay, alone |-> @.alone, rows |-> held, seen |-> tasks]]
  /\ UNCHANGED <<serverVars, pageVars, copyVars, boundVars, crossed>>

followUp(id, row) ==
  LET task == IF id \in DOMAIN tasks THEN tasks[id]
              ELSE [status |-> "none", linked |-> TRUE]
  IN  IF row.status = "confirmed"
      THEN IF task.status = "open" THEN [task EXCEPT !.status = "settled"] ELSE task
      ELSE [linked |-> TRUE,
            status |-> IF task.status = "done" THEN "done" ELSE "open"]

\* Slip: a task whose booking is gone is not looked for any more.
orphansLinked(seen, rows) == {id \in DOMAIN seen : seen[id].linked /\ id \notin DOMAIN rows}

\* The tasks of no booking that was read.
orphans(seen, rows) == {id \in DOMAIN seen : ~seen[id].linked \/ id \notin DOMAIN rows}

\* A statement for each booking, then one for each orphan, here at once.  A
\* task for a booking that is gone by now refers to nothing: the request fails
\* there, with the bookings before it done.
WriteTasks(p) ==
  /\ saving[p].step = "tasks"
  /\ LET rows == saving[p].rows
         gone == {id \in DOMAIN rows \ DOMAIN held : rows[id].status = "tentative"}
         reached == {id \in DOMAIN rows : \A g \in gone : id < g}
         kept == {id \in DOMAIN tasks \cup reached :
                    id \in DOMAIN tasks \/ rows[id].status = "tentative"}
         left == IF gone = {} THEN orphans(saving[p].seen, rows) ELSE {}
     IN  /\ tasks' = [id \in kept |->
              IF id \in reached THEN followUp(id, rows[id])
              ELSE IF id \in left /\ tasks[id].status = "open"
                   THEN [tasks[id] EXCEPT !.status = "cancelled"]
              ELSE tasks[id]]
         /\ saving' = [saving EXCEPT ![p] =
              IF gone = {} THEN [step |-> "done", stay |-> @.stay]
              ELSE NotSaving]
         /\ crossed' = (crossed /\ ~(saving[p].alone /\ gone = {}))
  /\ UNCHANGED <<held, made, pageVars, copyVars, boundVars>>

\* PATCH /tasks/:id.
CompleteByHand == \E id \in DOMAIN tasks :
  /\ tasks[id].status = "open"
  /\ tasks' = [tasks EXCEPT ![id].status = "done"]
  /\ UNCHANGED <<held, made, pageVars, copyVars, boundVars, saving, crossed>>

\* The worker is lost between two statements.
DieSaving(p) ==
  /\ p \in Unsettled
  /\ saving' = [saving EXCEPT ![p] = NotSaving] /\ crossed' = TRUE
  /\ UNCHANGED <<serverVars, pageVars, copyVars, boundVars>>

-----------------------------------------------------------------------------
\* The meeting form keeps its lines as they are, and asks again behind them.
AnswerMeeting(p) ==
  /\ saving[p].step = "done" /\ p \in MeetingForms
  /\ age' = [age EXCEPT ![p] = "asked"]
  /\ saving' = [saving EXCEPT ![p] = NotSaving]
  /\ UNCHANGED <<serverVars, pageVars, copy, boundVars, crossed>>

\* The event form takes its lines again from fetchQuery, which answers with the
\* copy as long as that is fresh; then it marks the copy as stale.
AnswerStay(p) ==
  /\ saving[p].step = "done" /\ p \notin MeetingForms /\ saving[p].stay
  /\ LET answer == IF age[p] = "fresh" THEN copy[p] ELSE held
     IN  /\ lines' = [lines EXCEPT ![p] = pageLines(p, answer)]
         /\ copy' = [copy EXCEPT ![p] = answer]
  /\ age' = [age EXCEPT ![p] = "asked"]
  /\ saving' = [saving EXCEPT ![p] = NotSaving]
  /\ UNCHANGED <<serverVars, shown, boundVars, crossed>>

\* The page is left; its copy stays what it was.
AnswerLeave(p) ==
  /\ saving[p].step = "done" /\ ~saving[p].stay
  /\ shown' = shown \ {p} /\ lines' = [lines EXCEPT ![p] = <<>>]
  /\ saving' = [saving EXCEPT ![p] = NotSaving]
  /\ UNCHANGED <<serverVars, copyVars, boundVars, crossed>>

\* The answer is lost: the page shows an error and may save again.
LoseAnswer(p) ==
  /\ saving[p].step = "done"
  /\ saving' = [saving EXCEPT ![p] = NotSaving]
  /\ UNCHANGED <<serverVars, pageVars, copyVars, boundVars, crossed>>

BookingsNext ==
  \/ \E p \in Pages :
       \/ OpenPage(p) \/ RefetchBookings(p) \/ GrowStale(p) \/ LeavePage(p) \/ ForgetCopy(p)
       \/ ChangeLines(p) \/ \E stay \in BOOLEAN : SavePage(p, stay)
       \/ ReadBookings(p) \/ RefuseUnknown(p) \/ WriteBatch(p) \/ FailBatch(p)
       \/ ReadForTasks(p) \/ WriteTasks(p) \/ DieSaving(p)
       \/ AnswerMeeting(p) \/ AnswerStay(p) \/ AnswerLeave(p) \/ LoseAnswer(p)
  \/ CompleteByHand

-----------------------------------------------------------------------------
\* A batch that meets the bookings its request read leaves exactly the lines
\* that were sent: a line with an id on the booking of that id, and one booking
\* for each other line.  So a save tried again after its answer was lost makes
\* no second booking, whatever ids the page never learnt.
SaveIsExact ==
  [][\A p \in Pages :
       (WriteBatch(p) /\ saving[p].known = DOMAIN held)
       => LET lineAt == saving[p].sent
          IN  /\ Cardinality(DOMAIN held') = Cardinality(DOMAIN lineAt)
              /\ \A i \in DOMAIN lineAt :
                   LET alike == {id \in DOMAIN held' : held'[id] = rowOf(lineAt[i])}
                   IN  /\ lineAt[i].id # 0 => lineAt[i].id \in alike
                       /\ Cardinality(alike) =
                            Cardinality({j \in DOMAIN lineAt : rowOf(lineAt[j]) = rowOf(lineAt[i])})
    ]_bookingVars

\* When no save is between its batch and its tasks, and the last save to run
\* alone came after any that overlapped or died, every tentative booking has
\* its follow-up, open or completed by hand, and no follow-up is open for a
\* booking that is confirmed or gone.
FollowUpsMatchBookings ==
  (~crossed /\ \A p \in Pages : saving[p].step \notin {"written", "tasks"})
  => /\ \A id \in DOMAIN held :
          held[id].status = "tentative" =>
            id \in DOMAIN tasks /\ tasks[id].linked /\ tasks[id].status \in {"open", "done"}
     /\ \A id \in DOMAIN tasks :
          tasks[id].status = "open" =>
            id \in DOMAIN held /\ held[id].status # "confirmed"
=============================================================================
