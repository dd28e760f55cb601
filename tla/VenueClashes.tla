---------------------------- MODULE VenueClashes ----------------------------
(***************************************************************************)
(* Two views of venue clashes.  The morning brief joins the schedules of   *)
(* all events, one slot for each event, venue and day, and lists the first *)
(* clashes of its window (findConflicts); an event's own page lists the    *)
(* schedule rows of other events at its venues on its days                 *)
(* (GET /events/:id/conflicts).  Both read the tables at one moment; what  *)
(* they must cope with is any history of edits.                            *)
(***************************************************************************)
EXTENDS Integers, FiniteSetsExt

CONSTANTS Shows,       \* the events, by id
          Names,       \* title and organisation, trimmed and in lower case
          Halls,       \* the halls, numbered in the order of their names
          Dates,       \* days, numbered
          Spans,       \* <<start, end>> of a row; 0 is a time left blank
          WindowDays,  \* conflict_window_days: how far ahead the brief looks
          BriefLimit,  \* 20 in the code
          MaxRows      \* bound: schedule rows of all events

MinutesPerDay == 24 * 60

ASSUME ClashAssumption ==
  /\ Shows \subseteq Nat /\ Halls \subseteq Nat /\ Dates \subseteq Nat
  /\ WindowDays \in Nat /\ BriefLimit \in Nat /\ MaxRows \in Nat
  /\ Spans \subseteq (0 .. MinutesPerDay) \X (0 .. MinutesPerDay)

VARIABLES
  standing,  \* status of each event: what the queries tell apart
  names,     \* title and organisation of each event
  booked,    \* venue_bookings: the halls of each event
  slots      \* schedule_entries with the hall of their booking

clashVars == <<standing, names, booked, slots>>

Rows == [event : Shows, hall : Halls, date : Dates, span : Spans]

ClashInit == /\ standing = [e \in Shows |-> "tentative"]
             /\ names \in [Shows -> Names]
             /\ booked = [e \in Shows |-> {}]
             /\ slots = {}

\* Saves of the event form.  Nothing compares a row's end with its start: a row
\* that runs past midnight ends before it starts.
AddRow == \E r \in Rows \ slots :
  /\ r.hall \in booked[r.event] /\ Cardinality(slots) < MaxRows
  /\ slots' = slots \cup {r} /\ UNCHANGED <<standing, names, booked>>

RemoveRow == \E r \in slots :
  slots' = slots \ {r} /\ UNCHANGED <<standing, names, booked>>

\* A booking is added without a schedule, and goes with the one it has.
BookHall == \E e \in Shows : \E hall \in Halls \ booked[e] :
  /\ booked' = [booked EXCEPT ![e] = @ \cup {hall}] /\ UNCHANGED <<standing, names, slots>>

LeaveHall == \E e \in Shows : \E hall \in booked[e] :
  /\ booked' = [booked EXCEPT ![e] = @ \ {hall}]
  /\ slots' = {r \in slots : r.event # e \/ r.hall # hall}
  /\ UNCHANGED <<standing, names>>

Rename == \E e \in Shows, n \in Names :
  /\ names' = [names EXCEPT ![e] = n] /\ UNCHANGED <<standing, booked, slots>>

\* The lifecycle, the demotion and the archive, as far as the queries see them:
\* "gone" is cancelled, regretted or archived.
TakeStanding == \E e \in Shows, s \in {"tentative", "confirmed", "gone"} :
  /\ s # standing[e] /\ standing' = [standing EXCEPT ![e] = s]
  /\ UNCHANGED <<names, booked, slots>>

ClashNext == AddRow \/ RemoveRow \/ BookHall \/ LeaveHall \/ Rename \/ TakeStanding

-----------------------------------------------------------------------------
live(e) == standing[e] # "gone"
starts(r) == r.span[1]
ends(r) == r.span[2]

\* MIN and MAX skip blank times; without any they are NULL, here 0.
earliest(times) == IF times \subseteq {0} THEN 0 ELSE Min(times \ {0})
latest(times) == IF times = {} THEN 0 ELSE Max(times)

lastEnd(rows) == latest({ends(r) : r \in rows})
firstStart(rows) == earliest({starts(r) : r \in rows})

\* GROUP BY activity_date, venue, event.
groupOf(e, hall, date) == {r \in slots : r.event = e /\ r.hall = hall /\ r.date = date}

timesUnknown(rows) == firstStart(rows) = 0 \/ lastEnd(rows) = 0

\* What the join says of two events at a hall on a day.
clashLevel(a, b, hall, date) ==
  LET x == groupOf(a, hall, date)
      y == groupOf(b, hall, date)
      unknown == timesUnknown(x) \/ timesUnknown(y)
      overlap == firstStart(x) < lastEnd(y) /\ firstStart(y) < lastEnd(x)
  IN  IF \/ x = {} \/ y = {} \/ names[a] = names[b]
         \/ ~live(a) \/ ~live(b)
         \/ ~unknown /\ ~overlap
      THEN "none"
      ELSE IF ~unknown /\ standing[a] = "confirmed" /\ standing[b] = "confirmed"
      THEN "conflict" ELSE "potential"

Clash == [a : Shows, b : Shows, hall : Halls, date : Dates]
levelOf(c) == clashLevel(c.a, c.b, c.hall, c.date)

\* The clashes a brief made on day `from` chooses from.
clashes(from) ==
  {c \in Clash : /\ c.a < c.b /\ c.date \in from .. from + WindowDays
                 /\ levelOf(c) # "none"}

\* ORDER BY activity_date, venue.
comesBefore(c, d) == c.date < d.date \/ (c.date = d.date /\ c.hall < d.hall)

\* Slip: the limit cuts the list in whatever order the join gives it.
briefsUnordered(from) ==
  {B \in SUBSET clashes(from) :
     Cardinality(B) <= BriefLimit /\ (B # clashes(from) => Cardinality(B) = BriefLimit)}

\* The briefs that day: all the clashes, or the first BriefLimit of them.  The
\* query leaves the order of clashes at one hall on one day open.
briefs(from) ==
  {B \in SUBSET clashes(from) :
     /\ Cardinality(B) <= BriefLimit
     /\ B # clashes(from) => Cardinality(B) = BriefLimit
     /\ \A c \in clashes(from) \ B, d \in B : ~comesBefore(c, d)}

\* Slip: only confirmed events are looked for.
pageRowsOfConfirmed(e) ==
  {r \in slots : /\ r.event # e /\ standing[r.event] = "confirmed"
                 /\ r.hall \in booked[e]
                 /\ \E own \in slots : own.event = e /\ own.date = r.date}

\* The rows of other events that an event's page lists, and their level.
\* Neither the event's own standing nor the names are looked at.
pageRows(e) ==
  {r \in slots : /\ r.event # e /\ live(r.event)
                 /\ r.hall \in booked[e]
                 /\ \E own \in slots : own.event = e /\ own.date = r.date}
pageLevel(e, r) ==
  IF standing[e] = "confirmed" /\ standing[r.event] = "confirmed"
  THEN "conflict" ELSE "potential"

-----------------------------------------------------------------------------
\* The two rows are at one place and overlap in time.
rowsOverlap(r, q) ==
  /\ r.event # q.event /\ r.hall = q.hall /\ r.date = q.date
  /\ 0 < starts(r) /\ starts(r) < ends(q) /\ 0 < starts(q) /\ starts(q) < ends(r)
  /\ starts(r) < ends(r) /\ starts(q) < ends(q)

\* Two live events with different names whose rows overlap at a hall on a day of
\* the brief's window are in the brief, whatever other rows, blank times and edits
\* surround the two rows; unless the brief is full, and then every clash in it
\* is on an earlier day, or that day in a hall that does not come after.  Rows that
\* run past midnight are not promised: the brief misses them.
ClashesAreBriefed ==
  \A from \in Dates : \A B \in briefs(from) : \A r, q \in slots :
    /\ rowsOverlap(r, q) /\ r.date \in from .. from + WindowDays
    /\ live(r.event) /\ live(q.event) /\ names[r.event] # names[q.event]
    => \/ \E c \in B : /\ {c.a, c.b} = {r.event, q.event}
                       /\ c.hall = r.hall /\ c.date = r.date
       \/ Cardinality(B) = BriefLimit /\ \A c \in B : ~comesBefore(r, c)

\* What a brief reports is on the pages of both events, each with rows of the
\* other at that hall on that day, at a level no lower than the brief's: nobody
\* who follows the brief to an event finds nothing there.
BriefedClashesAreOnPages ==
  \A from \in Dates : \A B \in briefs(from) : \A c \in B :
    \A e, f \in {c.a, c.b} : e # f =>
      \E r \in pageRows(e) : /\ r.event = f /\ r.hall = c.hall /\ r.date = c.date
                             /\ levelOf(c) = "conflict" => pageLevel(e, r) = "conflict"
=============================================================================
