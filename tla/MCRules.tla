------------------------------ MODULE MCRules ------------------------------
(***************************************************************************)
(* Views that must agree with what they are views of: the checklist's      *)
(* statuses with its values, the calendars and the clash reports with the  *)
(* schedules, the event form with the checklist, the days of a schedule    *)
(* with its activities.  They share nothing here, so a behaviour is about  *)
(* one of them.                                                            *)
(***************************************************************************)
EXTENDS ChecklistStatuses, ShowCalendar, VenueClashes, EventForm, ScheduleDays

Parts == {"statuses", "calendar", "clashes", "form", "texts", "schedule"}

VARIABLE part

vars == <<part, statusVars, calendarVars, clashVars, formVars, scheduleVars>>

\* Hours of a row, 0 left blank.
AllSpans == (0..3) \X (0..3)

\* Bounds of the clashes: two events and any rows of a hall and a day, or three
\* events whose clashes fill the brief on two days or in two halls.  The first
\* event keeps its name.
FirstName == CHOOSE n \in Names : TRUE

TwoEvents ==
  /\ Cardinality(slots) <= 3
  /\ \A r \in slots : r.date = 1
  /\ \A e \in Shows : booked[e] \subseteq {1}
  /\ booked[3] = {} /\ standing[3] = "tentative" /\ names[3] = FirstName

FullBrief ==
  /\ \A r \in slots : r.span \in {<<1, 3>>, <<0, 0>>} /\ r.hall + r.date < 4
  /\ \A e \in Shows : standing[e] = "tentative"
  /\ names[2] = names[3] /\ names[2] # FirstName

\* Bounds of the form: two requests at once and values of one name, or one at a
\* time, none of which dies, and texts that may join two names.
ValuesAreSingle ==
  /\ \A i \in DOMAIN venues : Len(venues[i]) <= 1
  /\ \A q \in Requests :
       syncing[q].op \in {"event", "venues"} => Len(syncing[q].value) <= 1
OneAtATime ==
  /\ Cardinality({q \in Requests : syncing[q].op # "none"}) <= 1 /\ ~overlapped
  /\ section \notin Verdicts

\* A part that is not looked at starts anyhow and stays there.
Init ==
  /\ part \in Parts
  /\ StatusesInit /\ CalendarInit /\ ClashInit /\ FormInit /\ ScheduleInit
  /\ part \notin {"form", "texts"} => key = "crew_cards"
  /\ part # "statuses" => gate = "emailer"
  /\ part # "schedule" => startDate = 0 /\ activities = <<>> /\ shows = 0
  /\ names[1] = FirstName
  /\ IF part = "clashes" THEN TwoEvents \/ FullBrief ELSE names = [e \in Shows |-> FirstName]

Next ==
  /\ UNCHANGED part
  /\ \/ /\ part = "statuses" /\ StatusesNext
        /\ UNCHANGED <<calendarVars, clashVars, formVars, scheduleVars>>
     \/ /\ part = "calendar" /\ CalendarNext
        /\ UNCHANGED <<statusVars, clashVars, formVars, scheduleVars>>
     \/ /\ part = "clashes" /\ ClashNext /\ names[1]' = FirstName /\ (TwoEvents \/ FullBrief)'
        /\ UNCHANGED <<statusVars, calendarVars, formVars, scheduleVars>>
     \/ /\ \/ part = "form" /\ FormNext /\ ValuesAreSingle'
           \/ part = "texts" /\ key = "decorator_name" /\ FormNext /\ OneAtATime'
        /\ UNCHANGED <<statusVars, calendarVars, clashVars, scheduleVars>>
     \/ /\ part = "schedule" /\ ScheduleNext
        /\ UNCHANGED <<statusVars, calendarVars, clashVars, formVars>>

\* Venues are interchangeable, and so are requests.
Symmetry == Permutations(Venues) \cup Permutations(Requests)

Spec == Init /\ [][Next]_vars
=============================================================================
