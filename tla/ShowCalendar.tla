---------------------------- MODULE ShowCalendar ----------------------------
(***************************************************************************)
(* Which calendar an event is on.  The lifecycle calendar has one card for *)
(* each event that is not confirmed, at the day it took its status; the    *)
(* show calendar has a confirmed event's schedule, or, in a month that has *)
(* none of it, cards for its operating window.  The edits are those of     *)
(* PUT /events/:id with the rules of event-date-policy.ts, the status      *)
(* changes those of state-machine.ts and of the demotion.                  *)
(*                                                                         *)
(* One event; the gates that are not about dates may pass or not.          *)
(***************************************************************************)
EXTENDS Integers, FiniteSets

CONSTANTS Venues,
          LastDay,      \* days are numbered 1..LastDay
          DaysPerMonth,
          MaxEntries    \* bound: schedule rows of the event

ASSUME CalendarAssumption ==
  /\ LastDay \in Nat \ {0} /\ DaysPerMonth \in Nat \ {0} /\ MaxEntries \in Nat

VARIABLES
  eventStatus, archived,
  start, end,      \* the operating window, 0 when there is no show date
  bookings,        \* venues booked
  entries,         \* schedule rows: venue, type and day
  since            \* day of the latest history row for the current status

calendarVars == <<eventStatus, archived, start, end, bookings, entries, since>>

EventStatuses == {"enquiry", "tentative", "approved", "confirmed", "regret", "cancelled"}
Days == 1..LastDay
ActivityTypes == {"setup", "show", "dismantling"}
enquiryDate == 1     \* written at creation, by nothing else
Entries == [venue : Venues, type : ActivityTypes, day : Days]

TRANSITIONS ==
  [enquiry |-> {"tentative", "approved", "confirmed", "regret", "cancelled"},
   tentative |-> {"approved", "confirmed", "regret", "cancelled"},
   approved |-> {"confirmed", "regret", "cancelled"},
   confirmed |-> {"cancelled"},
   regret |-> {},
   cancelled |-> {"enquiry", "tentative"}]

\* getEventDateIssues finds none.
noDateIssues(s, e, rows) ==
  /\ e >= s
  /\ s # 0 => \A r \in rows :
       /\ r.type # "dismantling" => r.day <= e
       /\ r.type # "setup" => r.day >= s

CalendarInit ==
  /\ eventStatus = "enquiry" /\ archived = FALSE
  /\ start = 0 /\ end = 0 /\ bookings = {} /\ entries = {}
  /\ since = enquiryDate

-----------------------------------------------------------------------------
\* PUT /events/:id, one change of the form at a time.
Save(s, e, booked, rows) ==
  /\ ~archived /\ noDateIssues(s, e, rows)
  /\ start' = s /\ end' = e /\ bookings' = booked /\ entries' = rows
  /\ UNCHANGED <<eventStatus, archived, since>>

SetDates == \E s \in Days : \E e \in s..LastDay : Save(s, e, bookings, entries)

\* An unusable show date stores neither date.
ClearDates == start # 0 /\ Save(0, 0, bookings, entries)

BookVenue == \E v \in Venues \ bookings : Save(start, end, bookings \cup {v}, entries)

\* A booking that left the form goes with its schedule.
DropVenue == \E v \in bookings :
  Save(start, end, bookings \ {v}, {r \in entries : r.venue # v})

AddEntry == \E r \in Entries \ entries :
  /\ r.venue \in bookings /\ Cardinality(entries) < MaxEntries
  /\ Save(start, end, bookings, entries \cup {r})

DropEntry == \E r \in entries : Save(start, end, bookings, entries \ {r})

\* The new status and the history row the calendar reads its day from: any day
\* from the last one on, for time has passed.
takeStatus(to) ==
  /\ eventStatus' = to /\ since' \in since..LastDay
  /\ UNCHANGED <<archived, start, end, bookings, entries>>

\* POST /events/:id/status.  It does not look at is_archived.
ChangeStatus == \E to \in TRANSITIONS[eventStatus] :
  /\ to \in {"approved", "confirmed"} => start # 0
  /\ takeStatus(to)

\* A checklist edit finds a confirmation blocker again, a missing show date
\* among them.
Demote == /\ eventStatus = "confirmed" /\ ~archived
          /\ \E to \in {"enquiry", "tentative", "approved"} : takeStatus(to)

Archive == /\ ~archived /\ archived' = TRUE
           /\ UNCHANGED <<eventStatus, start, end, bookings, entries, since>>

CalendarNext ==
  \/ SetDates \/ ClearDates \/ BookVenue \/ DropVenue \/ AddEntry \/ DropEntry
  \/ ChangeStatus \/ Demote \/ Archive

-----------------------------------------------------------------------------
\* The two calendars, a month at a time.

Months == {[from |-> d, to |-> d + DaysPerMonth - 1] :
            d \in {x \in Days : x % DaysPerMonth = 1 % DaysPerMonth}}
inMonth(d, m) == m.from <= d /\ d <= m.to

\* GET /calendar/lifecycle with a range: an enquiry at its enquiry date, any
\* other status at its latest history row.
lifecycleCards(m) ==
  {d \in {IF eventStatus = "enquiry" THEN enquiryDate ELSE since} :
     /\ ~archived /\ eventStatus \in {"enquiry", "tentative", "approved", "cancelled"}
     /\ inMonth(d, m)}

\* Slip: any schedule row suppresses the window cards, whatever its month.
scheduledAtAll(m) == entries # {}

scheduleDateInRangeExists(m) == \E r \in entries : inMonth(r.day, m)

scheduleCards(m) ==
  {r.day : r \in {r \in entries : ~archived /\ eventStatus = "confirmed" /\ inMonth(r.day, m)}}

\* GET /calendar's date-anchored rows: the later of the month's first day and
\* the show date.
windowCards(m) ==
  {d \in {IF start > m.from THEN start ELSE m.from} :
     /\ ~archived /\ eventStatus = "confirmed"
     /\ start # 0 /\ end >= m.from /\ start <= m.to
     /\ ~scheduleDateInRangeExists(m)}

-----------------------------------------------------------------------------
lifecycleMonths == {m \in Months : lifecycleCards(m) # {}}
showMonths == {m \in Months : scheduleCards(m) \cup windowCards(m) # {}}

\* Every event but a regretted one is on exactly one calendar.  Before it is
\* confirmed, and once it is cancelled, it has one lifecycle card over all months
\* and no show card; a confirmed event is on the show calendar in every month its
\* window touches, by its schedule or by its window and never by both.  Two events
\* are on neither: a confirmed one whose show date was cleared, until a checklist
\* edit demotes it, and a regretted one, for good, although the comments at
\* calendar.ts:84 and 286 leave regret on the lifecycle calendar.
AllButRegretAreOnOneCalendar ==
  LET touched == {m \in Months : start # 0 /\ start <= m.to /\ m.from <= end}
  IN  /\ ~archived /\ eventStatus \notin {"confirmed", "regret"} =>
           Cardinality(lifecycleMonths) = 1 /\ showMonths = {}
      /\ ~archived /\ eventStatus = "confirmed" =>
           lifecycleMonths = {} /\ touched \subseteq showMonths
      /\ eventStatus = "regret" => lifecycleMonths = {} /\ showMonths = {}
      /\ \A m \in Months :
           /\ scheduleCards(m) = {} \/ windowCards(m) = {}
           /\ \A d \in scheduleCards(m) \cup windowCards(m) : inMonth(d, m)
=============================================================================
