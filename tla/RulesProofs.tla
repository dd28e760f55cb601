---------------------------- MODULE RulesProofs -----------------------------
(***************************************************************************)
(* Views that agree with what they are views of: the two views of the      *)
(* schedule that ShowCalendar and VenueClashes model, for calendars of any *)
(* length, months of any number of days, any halls, dates and clock times, *)
(* the statuses of ChecklistStatuses, for any instalments, the form beside *)
(* the checklist in EventForm, for any words, bookings and requests, and a *)
(* schedule and its copy in the database in ScheduleDays, for any timings, *)
(* dates and activities, each after any sequence of edits.                 *)
(*                                                                         *)
(* A calendar and a clash report are judged in one state.  The statuses    *)
(* are not: what an edit leaves is what a read would show because every    *)
(* row an open gate shows has had the status of its value since a read or  *)
(* the night last looked at the dates, whoever wrote it.                   *)
(***************************************************************************)
EXTENDS ShowCalendar, VenueClashes, ChecklistStatuses, EventForm, ScheduleDays,
        FiniteSetTheorems, SequenceTheorems, WellFoundedInduction, TLAPS

CalendarSpec == CalendarInit /\ [][CalendarNext]_calendarVars
ClashSpec == ClashInit /\ [][ClashNext]_clashVars

-----------------------------------------------------------------------------
\* Numbers.

\* Division with remainder, and that there is only one.
LEMMA DivisionHasRemainder ==
  ASSUME NEW x \in Nat, NEW D \in Nat, D > 0
  PROVE  x = D * (x \div D) + (x % D) /\ x % D \in 0 .. D - 1 /\ x \div D \in Int
<1>1. x = D * (x \div D) + (x % D) BY SMT
<1>2. x % D \in 0 .. D - 1 BY SMT
<1>3. x \div D \in Int BY SMT
<1> QED BY <1>1, <1>2, <1>3

LEMMA RemainderIsUnique ==
  ASSUME NEW x \in Nat, NEW D \in Nat, D > 0, NEW q \in Int, NEW r \in 0 .. D - 1,
         x = D * q + r
  PROVE  r = x % D
  BY SMT

\* A month later the day has the same place in its month.
LEMMA PlaceRecurs ==
  ASSUME NEW x \in Nat, NEW D \in Nat, D > 0
  PROVE  (x + D) % D = x % D
<1> DEFINE q == x \div D
           r == x % D
<1>1. x = D * q + r /\ r \in 0 .. D - 1 /\ q \in Int BY DivisionHasRemainder
<1>2. D * (q + 1) = D * q + D BY <1>1
<1>3. x + D = D * (q + 1) + r
  <2> HIDE DEF q, r
  <2>1. D * q \in Int BY <1>1
  <2> QED BY <1>1, <1>2, <2>1
<1>4. x + D \in Nat /\ q + 1 \in Int
  <2> HIDE DEF q, r
  <2> QED BY <1>1
<1> HIDE DEF q
<1>5. r = (x + D) % D BY <1>1, <1>3, <1>4, RemainderIsUnique
<1> QED BY <1>5

\* Days with the same place are a month apart or the same.
LEMMA SamePlaceIsFar ==
  ASSUME NEW x \in Nat, NEW y \in Nat, NEW D \in Nat, D > 0,
         x % D = y % D, x < y
  PROVE  x + D <= y
<1> DEFINE q == x \div D
           p == y \div D
           r == x % D
<1>1. x = D * q + r /\ r \in 0 .. D - 1 /\ q \in Int BY DivisionHasRemainder
<1>2. y = D * p + r /\ p \in Int BY DivisionHasRemainder
<1> HIDE DEF q, p, r
<1>3. D * q \in Int /\ D * p \in Int /\ D * (q + 1) = D * q + D BY <1>1, <1>2
<1>4. CASE p <= q
  <2>1. D * (q - p) >= 0 BY <1>1, <1>2, <1>4
  <2>2. D * (q - p) = D * q - D * p BY <1>1, <1>2
  <2> QED BY <1>1, <1>2, <1>3, <2>1, <2>2
<1>5. CASE p >= q + 1
  <2>1. D * (p - (q + 1)) >= 0 BY <1>1, <1>2, <1>5
  <2>2. D * (p - (q + 1)) = D * p - D * (q + 1) BY <1>1, <1>2
  <2> QED BY <1>1, <1>2, <1>3, <2>1, <2>2
<1> QED BY <1>1, <1>2, <1>4, <1>5

\* A set of numbers that is not empty has a least one, and a bounded one a
\* greatest.
LEMMA LeastNumber ==
  ASSUME NEW S \in SUBSET Nat, S # {}
  PROVE  \E n \in S : \A m \in S : n <= m
<1>1. PICK n \in S : \A m \in S : ~(<<m, n>> \in OpToRel(<, Nat))
  BY NatLessThanWellFounded, WFMin
<1>2. \A m \in S : ~(m < n) BY <1>1 DEF OpToRel
<1> QED BY <1>2

\* A set of numbers with zero, and with the next of each it has, has them all.
LEMMA AllNumbers ==
  ASSUME NEW S \in SUBSET Nat, 0 \in S, \A n \in S : n + 1 \in S
  PROVE  S = Nat
<1> SUFFICES ASSUME Nat \ S # {} PROVE FALSE
  OBVIOUS
<1>1. PICK m \in Nat \ S : \A n \in Nat \ S : m <= n
  BY LeastNumber
<1>2. m # 0 /\ m - 1 \in Nat /\ m - 1 \notin Nat \ S
  BY <1>1
<1>3. m - 1 \in S /\ (m - 1) + 1 = m
  BY <1>2
<1> QED BY <1>3

LEMMA GreatestNumber ==
  ASSUME NEW B \in Nat, NEW S \in SUBSET (0 .. B), S # {}
  PROVE  \E n \in S : \A m \in S : m <= n
<1> DEFINE T == {B - x : x \in S}
<1>1. T \in SUBSET Nat /\ T # {}
  <2>1. ASSUME NEW x \in S PROVE B - x \in Nat OBVIOUS
  <2> QED BY <2>1
<1>2. PICK t \in T : \A m \in T : t <= m
  <2> HIDE DEF T
  <2> QED BY <1>1, LeastNumber
<1>3. PICK n \in S : t = B - n BY <1>2
<1>4. ASSUME NEW m \in S PROVE m <= n
  <2>1. B - n <= B - m BY <1>2, <1>3
  <2> QED BY <2>1
<1> QED BY <1>4
-----------------------------------------------------------------------------
\* ShowCalendar.  The status is one there is; the day of the current status is a day of the calendar; a
\* window has both dates or neither, in order; rows lie on days.

CalendarInv ==
  /\ eventStatus \in EventStatuses
  /\ since \in Days
  /\ start \in 0 .. LastDay /\ end \in 0 .. LastDay
  /\ start # 0 => start <= end
  /\ entries \subseteq Entries

LEMMA CalendarInvHolds == CalendarSpec => []CalendarInv
<1> USE CalendarAssumption DEF Days, enquiryDate
<1>1. CalendarInit => CalendarInv BY DEF CalendarInit, CalendarInv, EventStatuses
<1>2. CalendarInv /\ [CalendarNext]_calendarVars => CalendarInv'
  <2> SUFFICES ASSUME CalendarInv, [CalendarNext]_calendarVars PROVE CalendarInv'
    OBVIOUS
  <2> USE DEF CalendarInv
  <2>1. ASSUME NEW s \in 0 .. LastDay, NEW e \in 0 .. LastDay, s # 0 => s <= e,
               NEW booked_, NEW rows_, rows_ \subseteq Entries, Save(s, e, booked_, rows_)
        PROVE  CalendarInv'
    BY <2>1 DEF Save
  <2>2. CASE SetDates BY <2>1, <2>2 DEF SetDates, Save
  <2>3. CASE ClearDates BY <2>3 DEF ClearDates, Save
  <2>4. CASE BookVenue BY <2>4 DEF BookVenue, Save
  <2>5. CASE DropVenue BY <2>5 DEF DropVenue, Save
  <2>6. CASE AddEntry BY <2>6 DEF AddEntry, Save
  <2>7. CASE DropEntry BY <2>7 DEF DropEntry, Save
  <2>8. ASSUME NEW to \in EventStatuses, takeStatus(to) PROVE CalendarInv' BY <2>8 DEF takeStatus
  <2>9. CASE ChangeStatus 
    <3>1. TRANSITIONS[eventStatus] \subseteq EventStatuses BY DEF TRANSITIONS, EventStatuses
    <3> QED BY <2>8, <2>9, <3>1 DEF ChangeStatus
  <2>10. CASE Demote BY <2>8, <2>10 DEF Demote, EventStatuses
  <2>11. CASE Archive BY <2>11 DEF Archive
  <2>12. CASE UNCHANGED calendarVars BY <2>12 DEF calendarVars
  <2> QED BY <2>2, <2>3, <2>4, <2>5, <2>6, <2>7, <2>9, <2>10, <2>11, <2>12
             DEF CalendarNext
<1> QED BY <1>1, <1>2, PTL DEF CalendarSpec

Opening(x) == x % DaysPerMonth = 1 % DaysPerMonth
MonthFrom(x) == [from |-> x, to |-> x + DaysPerMonth - 1]

LEMMA MonthsOpen ==
  /\ \A m \in Months : m.from \in Days /\ Opening(m.from) /\ m = MonthFrom(m.from)
  /\ \A x \in Days : Opening(x) => MonthFrom(x) \in Months
  BY DEF Months, Opening, MonthFrom

\* Every day is in one month.
LEMMA DayHasMonth ==
  ASSUME NEW d \in Days
  PROVE  \E m \in Months : \A n \in Months : inMonth(d, n) <=> n = m
<1> USE CalendarAssumption
<1> DEFINE S == {x \in 0 .. d : x \in Days /\ Opening(x)}
<1>1. 1 \in S BY DEF Days, Opening
<1>2. PICK x \in S : \A y \in S : y <= x
  <2>1. S \in SUBSET (0 .. d) /\ S # {} /\ d \in Nat BY <1>1 DEF Days
  <2> HIDE DEF S
  <2> QED BY <2>1, GreatestNumber
<1>3. x \in Days /\ Opening(x) /\ x <= d OBVIOUS
<1>4. d <= x + DaysPerMonth - 1
  <2> SUFFICES ASSUME x + DaysPerMonth <= d PROVE FALSE
    BY <1>3 DEF Days
  <2>1. x + DaysPerMonth \in Days /\ x + DaysPerMonth \in 0 .. d BY <1>3 DEF Days
  <2>2. (x + DaysPerMonth) % DaysPerMonth = x % DaysPerMonth
    <3>1. x \in Nat /\ DaysPerMonth \in Nat /\ DaysPerMonth > 0 BY <1>3 DEF Days
    <3> QED BY <3>1, PlaceRecurs
  <2>3. Opening(x + DaysPerMonth) BY <1>3, <2>2 DEF Opening
  <2>4. x + DaysPerMonth <= x BY <1>2, <2>1, <2>3
  <2> QED BY <1>3, <2>4 DEF Days
<1> DEFINE m == MonthFrom(x)
<1>5. m \in Months /\ inMonth(d, m) BY <1>3, <1>4, MonthsOpen DEF inMonth, MonthFrom
<1> HIDE DEF S
<1>6. ASSUME NEW n \in Months, inMonth(d, n) PROVE n = m
  <2> DEFINE y == n.from
  <2>1. y \in Days /\ Opening(y) /\ n = MonthFrom(y) BY MonthsOpen
  <2>2. y <= d /\ d <= y + DaysPerMonth - 1
    <3>1. n.to = y + DaysPerMonth - 1 BY <2>1 DEF MonthFrom
    <3> QED BY <1>6, <3>1 DEF inMonth
  <2> HIDE DEF y
  <2>3. x \in Nat /\ y \in Nat /\ x % DaysPerMonth = y % DaysPerMonth
    BY <1>3, <2>1 DEF Days, Opening
  <2>4. ~(x < y)
    <3> SUFFICES ASSUME x < y PROVE FALSE OBVIOUS
    <3>1. x + DaysPerMonth <= y BY <2>3, SamePlaceIsFar
    <3> QED BY <1>4, <2>2, <2>3, <3>1 DEF Days
  <2>5. ~(y < x)
    <3> SUFFICES ASSUME y < x PROVE FALSE OBVIOUS
    <3>1. y + DaysPerMonth <= x BY <2>3, SamePlaceIsFar
    <3> QED BY <1>3, <2>2, <2>3, <3>1 DEF Days
  <2> QED BY <2>1, <2>3, <2>4, <2>5
<1> QED BY <1>5, <1>6

\* The lifecycle calendar: one card over all months.
LEMMA OneLifecycleCard ==
  ASSUME CalendarInv, ~archived,
         eventStatus \in EventStatuses \ {"confirmed", "regret"}
  PROVE  Cardinality({m \in Months : lifecycleCards(m) # {}}) = 1
<1> DEFINE d == IF eventStatus = "enquiry" THEN enquiryDate ELSE since
<1>1. d \in Days BY CalendarAssumption DEF CalendarInv, Days, enquiryDate
<1>2. \A m \in Months : lifecycleCards(m) # {} <=> inMonth(d, m)
  BY DEF lifecycleCards, EventStatuses
<1>3. PICK m \in Months : \A n \in Months : inMonth(d, n) <=> n = m
  BY <1>1, DayHasMonth
<1> HIDE DEF d
<1>4. {n \in Months : lifecycleCards(n) # {}} = {m} BY <1>2, <1>3
<1> QED BY <1>4, FS_Singleton

\* The cards of one month of the show calendar.
LEMMA ShowCardsOfMonth ==
  ASSUME CalendarInv, NEW m \in Months
  PROVE  /\ scheduleCards(m) = {} \/ windowCards(m) = {}
         /\ \A d \in scheduleCards(m) \cup windowCards(m) : inMonth(d, m)
         /\ eventStatus # "confirmed" => scheduleCards(m) \cup windowCards(m) = {}
         /\ ~archived /\ eventStatus = "confirmed" /\ start # 0 /\ start <= m.to /\ m.from <= end
              => scheduleCards(m) \cup windowCards(m) # {}
<1>1. m.from \in Days /\ m.to = m.from + DaysPerMonth - 1
  BY MonthsOpen DEF MonthFrom
<1>2. scheduleCards(m) = {} \/ windowCards(m) = {}
  BY DEF scheduleCards, windowCards, scheduleDateInRangeExists
<1>3. ASSUME NEW d \in scheduleCards(m) PROVE inMonth(d, m)
  BY DEF scheduleCards
<1>4. ASSUME NEW d \in windowCards(m) PROVE inMonth(d, m)
  BY <1>1, CalendarAssumption DEF windowCards, inMonth, CalendarInv, Days
<1>5. eventStatus # "confirmed" => scheduleCards(m) \cup windowCards(m) = {}
  BY DEF scheduleCards, windowCards
<1>6. ASSUME ~archived, eventStatus = "confirmed", start # 0, start <= m.to, m.from <= end
      PROVE  scheduleCards(m) \cup windowCards(m) # {}
  <2>1. CASE scheduleDateInRangeExists(m)
    BY <1>6, <2>1 DEF scheduleCards, scheduleDateInRangeExists
  <2>2. CASE ~scheduleDateInRangeExists(m)
    BY <1>6, <2>2 DEF windowCards
  <2> QED BY <2>1, <2>2
<1> QED BY <1>2, <1>3, <1>4, <1>5, <1>6

\* Every event but a regretted one is on exactly one calendar: one lifecycle card
\* over all months before it is confirmed and once it is cancelled, and while it is
\* confirmed the show calendar in every month its window touches, by its schedule or
\* by its window and never by both; a regretted event is on neither (calendar.ts,
\* GET / and GET /lifecycle).
THEOREM CalendarsShareTheEvents == CalendarSpec => []AllButRegretAreOnOneCalendar
<1>1. CalendarInv => AllButRegretAreOnOneCalendar
  <2> SUFFICES ASSUME CalendarInv PROVE AllButRegretAreOnOneCalendar
    OBVIOUS
  <2> DEFINE touched == {m \in Months : start # 0 /\ start <= m.to /\ m.from <= end}
  <2>1. ASSUME ~archived, eventStatus \notin {"confirmed", "regret"}
        PROVE  Cardinality(lifecycleMonths) = 1 /\ showMonths = {}
    <3>1. eventStatus \in EventStatuses \ {"confirmed", "regret"}
      BY <2>1 DEF CalendarInv
    <3>2. Cardinality(lifecycleMonths) = 1 BY <2>1, <3>1, OneLifecycleCard DEF lifecycleMonths
    <3>3. showMonths = {} BY <2>1, ShowCardsOfMonth DEF showMonths
    <3> QED BY <3>2, <3>3
  <2>2. ASSUME ~archived, eventStatus = "confirmed"
        PROVE  lifecycleMonths = {} /\ touched \subseteq showMonths
    <3>1. lifecycleMonths = {} BY <2>2 DEF lifecycleCards, lifecycleMonths
    <3>2. touched \subseteq showMonths BY <2>2, ShowCardsOfMonth DEF showMonths
    <3> QED BY <3>1, <3>2
  <2>3. ASSUME eventStatus = "regret" PROVE lifecycleMonths = {} /\ showMonths = {}
    <3>1. lifecycleMonths = {} BY <2>3 DEF lifecycleCards, lifecycleMonths
    <3>2. showMonths = {} BY <2>3, ShowCardsOfMonth DEF showMonths
    <3> QED BY <3>1, <3>2
  <2>4. ASSUME NEW m \in Months
        PROVE  /\ scheduleCards(m) = {} \/ windowCards(m) = {}
               /\ \A d \in scheduleCards(m) \cup windowCards(m) : inMonth(d, m)
    BY ShowCardsOfMonth
  <2> QED BY <2>1, <2>2, <2>3, <2>4 DEF AllButRegretAreOnOneCalendar
<1> QED BY <1>1, CalendarInvHolds, PTL

-----------------------------------------------------------------------------
\* VenueClashes.  A row is at a hall its event has booked.

ClashInv ==
  /\ slots \subseteq Rows
  /\ booked \in [Shows -> SUBSET Halls]
  /\ \A r \in slots : r.hall \in booked[r.event]

LEMMA ClashInvHolds == ClashSpec => []ClashInv
<1>1. ClashInit => ClashInv BY DEF ClashInit, ClashInv
<1>2. ClashInv /\ [ClashNext]_clashVars => ClashInv'
  <2> SUFFICES ASSUME ClashInv, [ClashNext]_clashVars PROVE ClashInv'
    OBVIOUS
  <2> USE DEF ClashInv
  <2>1. CASE AddRow BY <2>1 DEF AddRow
  <2>2. CASE RemoveRow BY <2>2 DEF RemoveRow
  <2>3. CASE BookHall
    <3>0. PICK e \in Shows : \E hall \in Halls \ booked[e] :
          /\ booked' = [booked EXCEPT ![e] = @ \cup {hall}]
          /\ UNCHANGED <<standing, names, slots>>
      BY <2>3 DEF BookHall
    <3>1. \A s \in Shows : booked[s] \subseteq booked'[s] BY <3>0
    <3>2. \A r \in slots : r.event \in Shows BY DEF Rows
    <3> QED BY <3>0, <3>1, <3>2
  <2>4. CASE LeaveHall
    <3>0. PICK e \in Shows : \E hall \in booked[e] :
          /\ booked' = [booked EXCEPT ![e] = @ \ {hall}]
          /\ slots' = {r \in slots : r.event # e \/ r.hall # hall}
          /\ UNCHANGED <<standing, names>>
      BY <2>4 DEF LeaveHall
    <3>1. \A r \in slots : r.event \in Shows BY DEF Rows
    <3>2. \A r \in slots' : r.hall \in booked'[r.event] BY <3>0, <3>1
    <3> QED BY <3>0, <3>2
  <2>5. CASE Rename BY <2>5 DEF Rename
  <2>6. CASE TakeStanding BY <2>6 DEF TakeStanding
  <2>7. CASE UNCHANGED clashVars BY <2>7 DEF clashVars
  <2> QED BY <2>1, <2>2, <2>3, <2>4, <2>5, <2>6, <2>7 DEF ClashNext
<1> QED BY <1>1, <1>2, PTL DEF ClashSpec

LEMMA DayIsFinite == MinutesPerDay \in Nat
  BY DEF MinutesPerDay

LEMMA RowTimes ==
  ASSUME ClashInv, NEW r \in slots
  PROVE  starts(r) \in 0 .. MinutesPerDay /\ ends(r) \in 0 .. MinutesPerDay
<1>1. r.span \in (0 .. MinutesPerDay) \X (0 .. MinutesPerDay)
  BY ClashAssumption DEF ClashInv, Rows
<1> QED BY <1>1 DEF starts, ends

\* What MIN over the times that are set, and MAX over all, promise.
LEMMA EarliestIsBelow ==
  ASSUME NEW times \in SUBSET Nat, NEW x \in times, x # 0
  PROVE  earliest(times) \in Nat \ {0} /\ earliest(times) <= x
<1> DEFINE S == times \ {0}
<1>1. \E n \in S : \A m \in S : n <= m
  <2>1. S \in SUBSET Nat /\ S # {} OBVIOUS
  <2> HIDE DEF S
  <2> QED BY <2>1, LeastNumber
<1>2. Min(S) \in S /\ \A m \in S : Min(S) <= m
  <2> HIDE DEF S
  <2> QED BY <1>1 DEF Min
<1>3. earliest(times) = Min(S) BY DEF earliest
<1> QED BY <1>2, <1>3

LEMMA LatestIsAbove ==
  ASSUME NEW times \in SUBSET (0 .. MinutesPerDay), NEW x \in times
  PROVE  latest(times) \in Nat /\ x <= latest(times)
<1>1. \E n \in times : \A m \in times : m <= n
  <2>1. times # {} OBVIOUS
  <2> QED BY <2>1, DayIsFinite, GreatestNumber
<1>2. Max(times) \in times /\ \A m \in times : m <= Max(times)
  <2>1. PICK n \in times : \A m \in times : m <= n BY <1>1
  <2>2. \A m \in times : n >= m BY <2>1
  <2>3. Max(times) \in times /\ \A m \in times : Max(times) >= m BY <2>2 DEF Max
  <2> QED BY <2>3
<1>3. latest(times) = Max(times) BY DEF latest
<1>4. \A m \in times : m \in Nat BY DayIsFinite
<1> QED BY <1>2, <1>3, <1>4

\* A row with both times lies within its event's slot of the day.
LEMMA RowWithinSlot ==
  ASSUME ClashInv, NEW e \in Shows, NEW r \in slots, r.event = e,
         0 < starts(r), starts(r) < ends(r)
  PROVE  LET g == groupOf(e, r.hall, r.date)
         IN  /\ g # {} /\ ~timesUnknown(g)
             /\ firstStart(g) \in Nat /\ firstStart(g) <= starts(r)
             /\ lastEnd(g) \in Nat /\ ends(r) <= lastEnd(g)
<1> DEFINE g == groupOf(e, r.hall, r.date)
           from == {starts(q) : q \in g}
           until == {ends(q) : q \in g}
<1>1. r \in g BY DEF groupOf
<1>2. \A q \in g : starts(q) \in 0 .. MinutesPerDay /\ ends(q) \in 0 .. MinutesPerDay
  BY RowTimes DEF groupOf
<1>3. firstStart(g) \in Nat \ {0} /\ firstStart(g) <= starts(r)
  <2>1. from \in SUBSET Nat /\ starts(r) \in from /\ starts(r) # 0
    <3> HIDE DEF g
    <3> QED BY <1>1, <1>2, DayIsFinite
  <2>2. firstStart(g) = earliest(from) BY DEF firstStart
  <2> HIDE DEF from
  <2> QED BY <2>1, <2>2, EarliestIsBelow
<1>4. lastEnd(g) \in Nat /\ ends(r) <= lastEnd(g)
  <2>1. until \in SUBSET (0 .. MinutesPerDay) /\ ends(r) \in until
    <3> HIDE DEF g
    <3> QED BY <1>1, <1>2, DayIsFinite
  <2>2. lastEnd(g) = latest(until) BY DEF lastEnd
  <2> HIDE DEF until
  <2> QED BY <2>1, <2>2, LatestIsAbove
<1>5. ~timesUnknown(g)
  <2>1. starts(r) \in Nat /\ ends(r) \in Nat BY <1>1, <1>2, DayIsFinite
  <2> HIDE DEF g
  <2> QED BY <1>3, <1>4, <2>1 DEF timesUnknown
<1> QED BY <1>1, <1>3, <1>4, <1>5

\* Two live events with different names whose rows overlap clash.
LEMMA OverlapIsClash ==
  ASSUME ClashInv, NEW r \in slots, NEW q \in slots, rowsOverlap(r, q),
         live(r.event), live(q.event), names[r.event] # names[q.event]
  PROVE  clashLevel(r.event, q.event, r.hall, r.date) # "none"
<1> DEFINE x == groupOf(r.event, r.hall, r.date)
           y == groupOf(q.event, r.hall, r.date)
<1>1. r.event \in Shows /\ q.event \in Shows BY DEF ClashInv, Rows
<1>2. /\ x # {} /\ ~timesUnknown(x)
      /\ firstStart(x) \in Nat /\ firstStart(x) <= starts(r)
      /\ lastEnd(x) \in Nat /\ ends(r) <= lastEnd(x)
  BY <1>1, RowWithinSlot DEF rowsOverlap
<1>3. /\ y # {} /\ ~timesUnknown(y)
      /\ firstStart(y) \in Nat /\ firstStart(y) <= starts(q)
      /\ lastEnd(y) \in Nat /\ ends(q) <= lastEnd(y)
  <2>1. q.hall = r.hall /\ q.date = r.date BY DEF rowsOverlap
  <2>2. 0 < starts(q) /\ starts(q) < ends(q) BY DEF rowsOverlap
  <2> QED BY <1>1, <2>1, <2>2, RowWithinSlot
<1>4. /\ starts(r) \in Nat /\ ends(r) \in Nat /\ starts(q) \in Nat /\ ends(q) \in Nat
  <2>1. /\ starts(r) \in 0 .. MinutesPerDay /\ ends(r) \in 0 .. MinutesPerDay
        /\ starts(q) \in 0 .. MinutesPerDay /\ ends(q) \in 0 .. MinutesPerDay
    BY RowTimes
  <2> QED BY <2>1, DayIsFinite
<1>5. firstStart(x) < lastEnd(y) /\ firstStart(y) < lastEnd(x)
  <2> HIDE DEF x, y
  <2> QED BY <1>2, <1>3, <1>4 DEF rowsOverlap
<1> QED BY <1>2, <1>3, <1>5 DEF clashLevel

\* The overlap is one of the clashes a brief chooses from, the lower id first.
LEMMA OverlapIsChosenFrom ==
  ASSUME ClashInv, NEW r \in slots, NEW q \in slots, rowsOverlap(r, q),
         live(r.event), live(q.event), names[r.event] # names[q.event],
         NEW from, r.date \in from .. from + WindowDays
  PROVE  \E c \in clashes(from) : /\ {c.a, c.b} = {r.event, q.event}
                                  /\ c.hall = r.hall /\ c.date = r.date
<1>1. /\ r.event \in Shows /\ q.event \in Shows /\ r.hall \in Halls /\ r.date \in Dates
      /\ r.event # q.event /\ q.hall = r.hall /\ q.date = r.date
  BY DEF ClashInv, Rows, rowsOverlap
<1>2. r.event \in Nat /\ q.event \in Nat BY <1>1, ClashAssumption
<1>3. CASE r.event < q.event
  <2> DEFINE c == [a |-> r.event, b |-> q.event, hall |-> r.hall, date |-> r.date]
  <2>1. levelOf(c) # "none" BY OverlapIsClash DEF levelOf
  <2>2. c \in Clash BY <1>1 DEF Clash
  <2>3. c \in clashes(from) BY <1>3, <2>1, <2>2 DEF clashes
  <2> QED BY <2>3
<1>4. CASE q.event < r.event
  <2> DEFINE c == [a |-> q.event, b |-> r.event, hall |-> r.hall, date |-> r.date]
  <2>1. rowsOverlap(q, r) BY DEF rowsOverlap
  <2>2. levelOf(c) # "none" BY <1>1, <2>1, OverlapIsClash DEF levelOf
  <2>3. c \in Clash BY <1>1 DEF Clash
  <2>4. c \in clashes(from) BY <1>4, <2>2, <2>3 DEF clashes
  <2> QED BY <2>4
<1> QED BY <1>1, <1>2, <1>3, <1>4

\* Two live events with different names whose rows overlap at a hall on a day of the
\* brief's window are in the brief, whatever other rows, blank times and edits surround
\* the two, unless the brief is full of clashes none of which comes after theirs in the
\* order of the days and halls (brief.ts, findConflicts with its LIMIT).
THEOREM EveryClashIsBriefed == ClashSpec => []ClashesAreBriefed
<1>1. ClashInv => ClashesAreBriefed
  <2>1. SUFFICES ASSUME ClashInv, NEW from \in Dates, NEW B \in briefs(from),
                        NEW r \in slots, NEW q \in slots, rowsOverlap(r, q),
                        r.date \in from .. from + WindowDays,
                        live(r.event), live(q.event), names[r.event] # names[q.event]
                 PROVE  \/ \E c \in B : /\ {c.a, c.b} = {r.event, q.event}
                                        /\ c.hall = r.hall /\ c.date = r.date
                        \/ Cardinality(B) = BriefLimit /\ \A c \in B : ~comesBefore(r, c)
    BY DEF ClashesAreBriefed
  <2>2. PICK c \in clashes(from) : /\ {c.a, c.b} = {r.event, q.event}
                                   /\ c.hall = r.hall /\ c.date = r.date
    BY <2>1, OverlapIsChosenFrom
  <2>3. CASE c \in B BY <2>2, <2>3
  <2>4. CASE c \notin B
    <3>1. Cardinality(B) = BriefLimit /\ \A d \in B : ~comesBefore(c, d) BY <2>4 DEF briefs
    <3>2. \A d \in B : ~comesBefore(r, d) BY <2>2, <3>1 DEF comesBefore
    <3> QED BY <3>1, <3>2
  <2> QED BY <2>3, <2>4
<1> QED BY <1>1, ClashInvHolds, PTL

\* What a brief reports of two events is on the page of each, with rows of the other at
\* that hall on that day, at a level no lower (GET /events/:id/conflicts).
THEOREM BriefedClashesAreShown == ClashSpec => []BriefedClashesAreOnPages
<1>1. ClashInv => BriefedClashesAreOnPages
  <2>1. SUFFICES ASSUME ClashInv, NEW from \in Dates, NEW B \in briefs(from), NEW c \in B,
                        NEW e \in {c.a, c.b}, NEW f \in {c.a, c.b}, e # f
                 PROVE  \E r \in pageRows(e) :
                          /\ r.event = f /\ r.hall = c.hall /\ r.date = c.date
                          /\ levelOf(c) = "conflict" => pageLevel(e, r) = "conflict"
    BY DEF BriefedClashesAreOnPages
  <2>2. levelOf(c) # "none" BY DEF briefs, clashes
  <2>3. /\ groupOf(c.a, c.hall, c.date) # {} /\ groupOf(c.b, c.hall, c.date) # {}
        /\ live(c.a) /\ live(c.b)
        /\ levelOf(c) = "conflict" => standing[c.a] = "confirmed" /\ standing[c.b] = "confirmed"
    BY <2>2 DEF levelOf, clashLevel
  <2>4. PICK r \in slots : r.event = f /\ r.hall = c.hall /\ r.date = c.date
    BY <2>3 DEF groupOf
  <2>5. PICK own \in slots : own.event = e /\ own.hall = c.hall /\ own.date = c.date
    BY <2>3 DEF groupOf
  <2>6. r.hall \in booked[e] BY <2>1, <2>4, <2>5 DEF ClashInv
  <2>7. r \in pageRows(e) BY <2>1, <2>3, <2>4, <2>5, <2>6 DEF pageRows
  <2>8. levelOf(c) = "conflict" => pageLevel(e, r) = "conflict" BY <2>3, <2>4 DEF pageLevel
  <2> QED BY <2>4, <2>7, <2>8
<1> QED BY <1>1, ClashInvHolds, PTL

-----------------------------------------------------------------------------
\* ChecklistStatuses.

StatusesSpec == StatusesInit /\ [][StatusesNext]_statusVars

\* The rows of the gate, each a value and a status.
Shaped(g, rs) ==
  /\ DOMAIN rs = RowsOf(g)
  /\ \A r \in RowsOf(g) : rs[r] = [value |-> rs[r].value, status |-> rs[r].status]

SameValues(g, rs, other) == \A r \in RowsOf(g) : rs[r].value = other[r].value

opened(g, rs) == rs[row(g)].value = OpensOn(g)

\* The status of a row that the gate shows and no rule of its own decides.
shownStatus(rs, r) ==
  IF r \in Expected THEN instalmentExpectedDateStatus(rs[r].value, rs[receivedOf(r)].value)
  ELSE IF r \in Received THEN IF rs[r].value = "true" THEN "completed" ELSE "not_started"
  ELSE itemStatusForValue(fieldType(r), rs[r].value)

\* A date that came due at midnight, which nobody has looked at today.
unnoticed(rs, r) == /\ ~settled /\ rs[r].value = "due"
                    /\ fieldType(r) = "date" /\ r \notin Expected

\* A gate controller's status is its rule's, and so, once a read or the night
\* has seen today's dates, is that of every row an open gate shows.
StatusInv ==
  /\ gate \in Gates /\ Shaped(gate, rows)
  /\ \A r \in gateControllerRows(gate) : rows[r].status = gateControllerStatus(gate, rows, r)
  /\ gate # "noc_sent" /\ opened(gate, rows) =>
       \A r \in Dependents(gate) \ gateControllerRows(gate) :
         rows[r].status = shownStatus(rows, r) \/ unnoticed(rows, r)
  /\ last = "edit" => completion = recalculateEventCompletion(gate, rows)

LEMMA RowFacts ==
  ASSUME NEW g \in Gates
  PROVE  /\ row(g) \in RowsOf(g) /\ row(g) \notin Dependents(g) /\ RowsOf(g) = Dependents(g) \cup {row(g)}
         /\ row(g) \notin Expected \cup Received /\ fieldType(row(g)) = "dropdown"
         /\ gateControllerRows(g) \subseteq RowsOf(g)
         /\ gateControllerRows(g) \cap (Expected \cup Received) = {}
         /\ g # "instalment" => RowsOf(g) \cap (Expected \cup Received) = {}
         /\ g = "instalment" => Dependents(g) = Expected \cup Received
         /\ g = "noc_sent" => gateControllerRows(g) = {}
         /\ \A r \in gateControllerRows(g) : fieldType(r) = "dropdown"
         /\ row("genre_head") \in RowsOf(g) => row("genre_head") \in gateControllerRows(g)
<1>1. row(g) \notin Expected \cup Received BY DEF row, Expected, Received, Gates
<1>2. row(g) \notin Dependents(g) BY <1>1 DEF row, Dependents, Gates
<1>3. fieldType(row(g)) = "dropdown" BY <1>1 DEF fieldType, Options, row, Gates
<1>4. gateControllerRows(g) \subseteq RowsOf(g)
  BY DEF gateControllerRows, RowsOf, Dependents, Gates
<1>5. \A r \in gateControllerRows(g) : r = row(g) \/ r = row("genre_head")
  BY DEF gateControllerRows, Gates
<1>6. row("genre_head") \notin Expected \cup Received BY DEF row, Expected, Received
<1>7. g # "instalment" => Dependents(g) \cap (Expected \cup Received) = {}
  BY DEF Dependents, row, Expected, Received, Gates
<1>8. g = "instalment" => Dependents(g) = Expected \cup Received BY DEF Dependents
<1>9. g = "noc_sent" => gateControllerRows(g) = {} BY DEF gateControllerRows
<1>10. fieldType(row("genre_head")) = "dropdown" BY <1>6 DEF fieldType, Options, row
<1>11. row("genre_head") \in RowsOf(g) => row("genre_head") \in gateControllerRows(g)
  BY DEF RowsOf, Dependents, gateControllerRows, row, Gates, Expected, Received
<1> QED BY <1>1, <1>2, <1>3, <1>4, <1>5, <1>6, <1>7, <1>8, <1>9, <1>10, <1>11 DEF RowsOf

LEMMA InstalmentRows ==
  /\ Expected \cap Received = {}
  /\ \A r \in Expected : receivedOf(r) \in Received
  /\ \A r \in Received : expectedOf(r) \in Expected /\ receivedOf(expectedOf(r)) = r
  /\ \A r \in Expected : fieldType(r) = "date" /\ expectedOf(receivedOf(r)) = r
  /\ \A r \in Received : fieldType(r) = "checkbox" /\ Values(r) = {"blank", "true"}
<1>1. Expected \cap Received = {} BY DEF Expected, Received
<1>2. \A r \in Expected : receivedOf(r) \in Received BY DEF Expected, Received, receivedOf
<1>3. \A r \in Received : expectedOf(r) \in Expected /\ receivedOf(expectedOf(r)) = r
  BY DEF Expected, Received, receivedOf, expectedOf
<1>4. ASSUME NEW r \in Expected PROVE fieldType(r) = "date"
  <2>1. r \notin Received BY <1>1
  <2>2. r[1] = "expected" BY DEF Expected
  <2>3. Options(r) = {} BY <2>2 DEF Options
  <2> QED BY <2>1, <2>3 DEF fieldType
<1>5. \A r \in Received : fieldType(r) = "checkbox" /\ Values(r) = {"blank", "true"}
  BY DEF fieldType, Values
<1>6. \A r \in Expected : expectedOf(receivedOf(r)) = r
  BY DEF Expected, receivedOf, expectedOf
<1> QED BY <1>1, <1>2, <1>3, <1>4, <1>5, <1>6

\* An open gate hides nothing.
LEMMA OpenDoesNotHide ==
  ASSUME NEW g \in Gates PROVE ~hides(g, OpensOn(g))
  BY DEF hides, OpensOn, Gates

\* A controller's rule looks at values only, and at a date only for being set.
Alike(g, rs, other) ==
  \A r \in RowsOf(g) :
    \/ rs[r].value = other[r].value
    \/ fieldType(r) = "date" /\ rs[r].value # "blank" /\ other[r].value # "blank"

LEMMA RuleOfValues ==
  ASSUME NEW g \in Gates, NEW rs, NEW other, Alike(g, rs, other),
         NEW r \in gateControllerRows(g)
  PROVE  gateControllerStatus(g, rs, r) = gateControllerStatus(g, other, r)
<1> USE DEF Alike
<1>1. rs[row(g)].value = other[row(g)].value BY RowFacts
<1>2. r \in RowsOf(g) /\ rs[r].value = other[r].value BY RowFacts
<1>3. CASE g = "approval_required"
  <2>1. row("approval_received_on") \in RowsOf(g) BY <1>3 DEF RowsOf, Dependents
  <2>2. CASE r = row("genre_head")
    <3>1. \A t : gateControllerStatus(g, t, r) = genreHeadStatus(t[r].value, t[row(g)].value)
      BY <1>3, <2>2 DEF gateControllerStatus
    <3> QED BY <1>1, <1>2, <3>1
  <2>3. CASE r # row("genre_head")
    BY <1>1, <1>3, <2>1, <2>3 DEF gateControllerStatus, requiredStatus
  <2> QED BY <2>2, <2>3
<1>4. CASE g = "onstage_required"
  <2>1. row("onstage_complete") \in RowsOf(g) BY <1>4 DEF RowsOf, Dependents
  <2>2. r # row("genre_head") BY <1>4 DEF gateControllerRows, row
  <2> QED BY <1>1, <1>4, <2>1, <2>2 DEF gateControllerStatus, requiredStatus
<1>5. CASE g = "emailer"
  <2>1. row("emailer_sent") \in RowsOf(g) BY <1>5 DEF RowsOf, Dependents
  <2>2. r # row("genre_head") BY <1>5 DEF gateControllerRows, row
  <2> QED BY <1>1, <1>5, <2>1, <2>2 DEF gateControllerStatus, emailerGateStatus
<1>6. CASE g = "instalment"
  <2>1. r # row("genre_head") BY <1>6 DEF gateControllerRows, row
  <2>2. \A e \in Expected : /\ rs[e].value # "blank" <=> other[e].value # "blank"
                            /\ rs[receivedOf(e)].value = other[receivedOf(e)].value
    <3> SUFFICES ASSUME NEW e \in Expected
                 PROVE  /\ rs[e].value # "blank" <=> other[e].value # "blank"
                        /\ rs[receivedOf(e)].value = other[receivedOf(e)].value
      OBVIOUS
    <3>1. e \in RowsOf(g) /\ receivedOf(e) \in RowsOf(g) /\ fieldType(receivedOf(e)) = "checkbox"
      BY <1>6, RowFacts, InstalmentRows
    <3> QED BY <3>1
  <2>3. {e \in Expected : rs[e].value # "blank"} = {e \in Expected : other[e].value # "blank"}
    BY <2>2
  <2>4. instalmentGateStatus(rs[row(g)].value, rs) = instalmentGateStatus(other[row(g)].value, other)
    BY <1>1, <2>2, <2>3 DEF instalmentGateStatus
  <2> QED BY <1>6, <2>1, <2>4 DEF gateControllerStatus
<1>7. CASE g \in {"noc_sent", "tds_certificate_from_client"}
  BY <1>7 DEF gateControllerRows
<1> QED BY <1>3, <1>4, <1>5, <1>6, <1>7 DEF Gates

LEMMA SameIsAlike ==
  ASSUME NEW g, NEW rs, NEW other, SameValues(g, rs, other)
  PROVE  Alike(g, rs, other)
  BY DEF SameValues, Alike

\* And so does the status of a row that is shown.
LEMMA ShownOfValues ==
  ASSUME NEW g \in Gates, NEW rs, NEW other, SameValues(g, rs, other), NEW r \in RowsOf(g)
  PROVE  shownStatus(rs, r) = shownStatus(other, r)
<1>1. r \in Expected => receivedOf(r) \in RowsOf(g)
  BY RowFacts, InstalmentRows
<1> QED BY <1>1 DEF SameValues, shownStatus

\* What each reconciler does to the rows.
LEMMA ControllersDo ==
  ASSUME NEW g \in Gates, NEW rs, Shaped(g, rs)
  PROVE  LET out == syncGateControllerStatuses(g, rs)
         IN  /\ Shaped(g, out) /\ SameValues(g, out, rs)
             /\ \A r \in RowsOf(g) : out[r].status =
                  IF r \in gateControllerRows(g) THEN gateControllerStatus(g, rs, r)
                  ELSE rs[r].status
<1> DEFINE out == syncGateControllerStatuses(g, rs)
<1>1. out = [r \in RowsOf(g) |-> IF r \in gateControllerRows(g)
               THEN [rs[r] EXCEPT !.status = gateControllerStatus(g, rs, r)] ELSE rs[r]]
  BY DEF syncGateControllerStatuses, Shaped
<1> HIDE DEF out
<1>2. ASSUME NEW r \in RowsOf(g)
      PROVE  out[r] = [value |-> rs[r].value,
                       status |-> IF r \in gateControllerRows(g)
                                  THEN gateControllerStatus(g, rs, r) ELSE rs[r].status]
  <2>1. rs[r] = [value |-> rs[r].value, status |-> rs[r].status] BY DEF Shaped
  <2>2. CASE r \in gateControllerRows(g)
    <3> DEFINE s == gateControllerStatus(g, rs, r)
    <3> HIDE DEF s
    <3>1. out[r] = [rs[r] EXCEPT !.status = s] BY <1>1, <2>2 DEF s
    <3>2. out[r] = [value |-> rs[r].value, status |-> s] BY <2>1, <3>1
    <3> QED BY <2>2, <3>2 DEF s
  <2>3. CASE r \notin gateControllerRows(g) BY <1>1, <2>1, <2>3
  <2> QED BY <2>2, <2>3
<1>3. DOMAIN out = RowsOf(g) BY <1>1
<1> QED BY <1>2, <1>3 DEF Shaped, SameValues, out

LEMMA InstalmentsDo ==
  ASSUME NEW g \in Gates, NEW rs, Shaped(g, rs)
  PROVE  LET out == syncInstalmentStatuses(g, rs)
         IN  /\ Shaped(g, out) /\ SameValues(g, out, rs)
             /\ \A r \in RowsOf(g) : out[r].status =
                  IF r \in Expected \cup Received THEN shownStatus(rs, r) ELSE rs[r].status
<1> DEFINE out == syncInstalmentStatuses(g, rs)
<1>1. CASE g # "instalment"
  <2>1. out = rs BY <1>1 DEF syncInstalmentStatuses
  <2>2. RowsOf(g) \cap (Expected \cup Received) = {} BY <1>1, RowFacts
  <2> QED BY <2>1, <2>2 DEF SameValues
<1>2. CASE g = "instalment"
  <2>1. out = [r \in RowsOf(g) |->
         IF r \in Expected
           THEN [rs[r] EXCEPT !.status =
                   instalmentExpectedDateStatus(rs[r].value, rs[receivedOf(r)].value)]
         ELSE IF r \in Received
           THEN [rs[r] EXCEPT !.status = IF rs[r].value = "true" THEN "completed" ELSE "not_started"]
         ELSE rs[r]]
    BY <1>2 DEF syncInstalmentStatuses, Shaped
  <2> HIDE DEF out
  <2>2. ASSUME NEW r \in RowsOf(g)
        PROVE  out[r] = [value |-> rs[r].value,
                         status |-> IF r \in Expected \cup Received
                                    THEN shownStatus(rs, r) ELSE rs[r].status]
    <3>1. rs[r] = [value |-> rs[r].value, status |-> rs[r].status] BY DEF Shaped
    <3>2. CASE r \in Expected \cup Received
      <4> DEFINE s == shownStatus(rs, r)
      <4> HIDE DEF s
      <4>1. out[r] = [rs[r] EXCEPT !.status = s] BY <2>1, <3>2 DEF s, shownStatus
      <4>2. out[r] = [value |-> rs[r].value, status |-> s] BY <3>1, <4>1
      <4> QED BY <3>2, <4>2 DEF s
    <3>3. CASE r \notin Expected \cup Received BY <2>1, <3>1, <3>3
    <3> QED BY <3>2, <3>3
  <2>3. DOMAIN out = RowsOf(g) BY <2>1
  <2> QED BY <2>2, <2>3 DEF Shaped, SameValues, out
<1> QED BY <1>1, <1>2

LEMMA DependentsDo ==
  ASSUME NEW g \in Gates, NEW rs, Shaped(g, rs), NEW v
  PROVE  LET out == syncDependents(g, rs, v)
         IN  /\ Shaped(g, out) /\ out[row(g)] = rs[row(g)]
             /\ g # "noc_sent" => SameValues(g, out, rs)
             /\ g # "noc_sent" /\ ~hides(g, v) =>
                  \A r \in Dependents(g) : out[r].status = shownStatus(rs, r)
<1> DEFINE out == syncDependents(g, rs, v)
           hidden == [r \in RowsOf(g) |->
             IF r \notin Dependents(g) THEN rs[r]
             ELSE [value |-> IF g = "noc_sent" THEN "blank" ELSE rs[r].value,
                   status |-> "not_applicable"]]
           shown == [r \in RowsOf(g) |->
             IF r \notin Dependents(g) THEN rs[r]
             ELSE [rs[r] EXCEPT !.status =
                     IF g = "noc_sent" THEN "not_started"
                     ELSE itemStatusForValue(fieldType(r), rs[r].value)]]
<1>1. out = IF hides(g, v) THEN hidden
            ELSE IF g = "instalment" THEN syncInstalmentStatuses(g, rs) ELSE shown
  BY DEF syncDependents, Shaped
<1> HIDE DEF out
<1>2. \A r \in RowsOf(g) : rs[r] = [value |-> rs[r].value, status |-> rs[r].status]
  BY DEF Shaped
<1>3. row(g) \in RowsOf(g) /\ row(g) \notin Dependents(g) /\ Dependents(g) \subseteq RowsOf(g)
  BY RowFacts
<1>4. CASE hides(g, v)
  <2>1. out = hidden BY <1>1, <1>4
  <2>2. ASSUME NEW r \in RowsOf(g)
        PROVE  /\ out[r] = [value |-> out[r].value, status |-> out[r].status]
               /\ g # "noc_sent" => out[r].value = rs[r].value
    BY <1>2, <2>1
  <2>3. DOMAIN out = RowsOf(g) /\ out[row(g)] = rs[row(g)] BY <1>3, <2>1
  <2> QED BY <1>4, <2>2, <2>3 DEF out, Shaped, SameValues
<1>5. CASE ~hides(g, v) /\ g = "instalment"
  <2>1. out = syncInstalmentStatuses(g, rs) BY <1>1, <1>5
  <2>2. /\ Shaped(g, out) /\ SameValues(g, out, rs)
        /\ \A r \in RowsOf(g) : out[r].status =
             IF r \in Expected \cup Received THEN shownStatus(rs, r) ELSE rs[r].status
    BY <2>1, InstalmentsDo
  <2>3. row(g) \notin Expected \cup Received /\ Dependents(g) = Expected \cup Received
    BY <1>5, RowFacts
  <2>4. out[row(g)].status = rs[row(g)].status /\ out[row(g)].value = rs[row(g)].value
    BY <1>3, <2>2, <2>3 DEF SameValues
  <2>5. out[row(g)] = [value |-> out[row(g)].value, status |-> out[row(g)].status]
    BY <1>3, <2>2 DEF Shaped
  <2>6. out[row(g)] = rs[row(g)] BY <1>2, <1>3, <2>4, <2>5
  <2> QED BY <1>3, <2>2, <2>3, <2>6 DEF out
<1>6. CASE ~hides(g, v) /\ g # "instalment"
  <2>1. out = shown BY <1>1, <1>6
  <2>2. \A r \in RowsOf(g) \ Dependents(g) : out[r] = rs[r] BY <2>1
  <2>3. DOMAIN out = RowsOf(g) BY <2>1
  <2>4. ASSUME NEW r \in Dependents(g)
        PROVE  /\ out[r] = [value |-> out[r].value, status |-> out[r].status]
               /\ out[r].value = rs[r].value
               /\ g # "noc_sent" => out[r].status = shownStatus(rs, r)
    <3> DEFINE s == IF g = "noc_sent" THEN "not_started"
                    ELSE itemStatusForValue(fieldType(r), rs[r].value)
    <3>1. r \in RowsOf(g) /\ r \notin Expected \cup Received BY <1>3, <1>6, RowFacts
    <3>2. rs[r] = [value |-> rs[r].value, status |-> rs[r].status] BY <1>2, <3>1
    <3>3. out[r] = [rs[r] EXCEPT !.status = s] BY <2>1, <3>1
    <3>4. g # "noc_sent" => s = shownStatus(rs, r) BY <3>1 DEF shownStatus
    <3> HIDE DEF s, hidden, shown
    <3>5. out[r] = [value |-> rs[r].value, status |-> s] BY <3>2, <3>3
    <3> QED BY <3>4, <3>5
  <2> HIDE DEF hidden, shown
  <2>5. Shaped(g, out) BY <1>2, <2>2, <2>3, <2>4 DEF Shaped
  <2>6. SameValues(g, out, rs) BY <2>2, <2>4 DEF SameValues
  <2> QED BY <1>3, <2>2, <2>4, <2>5, <2>6 DEF out
<1> QED BY <1>4, <1>5, <1>6

\* What a read heals.
Healed(g, out, rs) ==
  /\ Shaped(g, out)
  /\ g # "noc_sent" => SameValues(g, out, rs)
  /\ \A r \in gateControllerRows(g) : out[r].status = gateControllerStatus(g, out, r)
  /\ row(g) \notin gateControllerRows(g) => out[row(g)] = rs[row(g)]
  /\ g # "noc_sent" /\ opened(g, rs) =>
       \A r \in Dependents(g) \ gateControllerRows(g) : out[r].status = shownStatus(rs, r)

LEMMA EnsureHeals ==
  ASSUME NEW g \in Gates, NEW rs, Shaped(g, rs)
  PROVE  Healed(g, ensureChecklist(g, rs), rs)
<1> DEFINE mid == syncDependents(g, rs, rs[row(g)].value)
           out == syncGateControllerStatuses(g, mid)
<1>1. ensureChecklist(g, rs) = out BY DEF ensureChecklist
<1>2. /\ Shaped(g, mid) /\ mid[row(g)] = rs[row(g)]
      /\ g # "noc_sent" => SameValues(g, mid, rs)
      /\ g # "noc_sent" /\ opened(g, rs) =>
           \A r \in Dependents(g) : mid[r].status = shownStatus(rs, r)
  BY DependentsDo, OpenDoesNotHide DEF opened
<1> HIDE DEF mid
<1>3. /\ Shaped(g, out) /\ SameValues(g, out, mid)
      /\ \A r \in RowsOf(g) : out[r].status =
           IF r \in gateControllerRows(g) THEN gateControllerStatus(g, mid, r) ELSE mid[r].status
  BY <1>2, ControllersDo
<1> HIDE DEF out
<1>4. g # "noc_sent" => SameValues(g, out, rs) BY <1>2, <1>3 DEF SameValues
<1>5. \A r \in gateControllerRows(g) : out[r].status = gateControllerStatus(g, out, r)
  BY <1>3, RowFacts, RuleOfValues, SameIsAlike
<1>6. row(g) \notin gateControllerRows(g) => out[row(g)] = rs[row(g)]
  <2>1. row(g) \in RowsOf(g) BY RowFacts
  <2>2. /\ out[row(g)] = [value |-> out[row(g)].value, status |-> out[row(g)].status]
        /\ mid[row(g)] = [value |-> mid[row(g)].value, status |-> mid[row(g)].status]
    BY <1>2, <1>3, <2>1 DEF Shaped
  <2>3. out[row(g)].value = mid[row(g)].value BY <1>3, <2>1 DEF SameValues
  <2> QED BY <1>2, <1>3, <2>1, <2>2, <2>3
<1>7. \A r \in Dependents(g) : r \in RowsOf(g) BY RowFacts
<1> QED BY <1>1, <1>2, <1>3, <1>4, <1>5, <1>6, <1>7 DEF Healed

LEMMA ReadHeals ==
  ASSUME NEW g \in Gates, NEW rs, Shaped(g, rs)
  PROVE  Healed(g, getChecklistItems(g, rs), rs)
<1> DEFINE first == ensureChecklist(g, rs)
           mid == syncInstalmentStatuses(g, first)
           out == syncGateControllerStatuses(g, mid)
<1>1. getChecklistItems(g, rs) = out BY DEF getChecklistItems
<1>2. Healed(g, first, rs) BY EnsureHeals
<1> HIDE DEF first
<1>3. /\ Shaped(g, mid) /\ SameValues(g, mid, first)
      /\ \A r \in RowsOf(g) : mid[r].status =
           IF r \in Expected \cup Received THEN shownStatus(first, r) ELSE first[r].status
  BY <1>2, InstalmentsDo DEF Healed
<1> HIDE DEF mid
<1>4. /\ Shaped(g, out) /\ SameValues(g, out, mid)
      /\ \A r \in RowsOf(g) : out[r].status =
           IF r \in gateControllerRows(g) THEN gateControllerStatus(g, mid, r) ELSE mid[r].status
  BY <1>3, ControllersDo
<1> HIDE DEF out
<1>5. SameValues(g, out, first) BY <1>3, <1>4 DEF SameValues
<1>6. g # "noc_sent" => SameValues(g, out, rs) BY <1>2, <1>5 DEF Healed, SameValues
<1>7. \A r \in gateControllerRows(g) : out[r].status = gateControllerStatus(g, out, r)
  BY <1>4, RowFacts, RuleOfValues, SameIsAlike
<1>8. row(g) \notin gateControllerRows(g) => out[row(g)] = rs[row(g)]
  <2>1. row(g) \in RowsOf(g) /\ row(g) \notin Expected \cup Received BY RowFacts
  <2>2. /\ out[row(g)] = [value |-> out[row(g)].value, status |-> out[row(g)].status]
        /\ first[row(g)] = [value |-> first[row(g)].value, status |-> first[row(g)].status]
    BY <1>2, <1>4, <2>1 DEF Shaped, Healed
  <2>3. out[row(g)].value = first[row(g)].value BY <1>5, <2>1 DEF SameValues
  <2> QED BY <1>2, <1>3, <1>4, <2>1, <2>2, <2>3 DEF Healed
<1>9. ASSUME g # "noc_sent", opened(g, rs), NEW r \in Dependents(g) \ gateControllerRows(g)
      PROVE  out[r].status = shownStatus(rs, r)
  <2>1. r \in RowsOf(g) BY RowFacts
  <2>2. first[r].status = shownStatus(rs, r) BY <1>2, <1>9 DEF Healed
  <2>3. shownStatus(first, r) = shownStatus(rs, r) BY <1>2, <1>9, <2>1, ShownOfValues DEF Healed
  <2> QED BY <1>3, <1>4, <1>9, <2>1, <2>2, <2>3
<1> QED BY <1>1, <1>4, <1>6, <1>7, <1>8, <1>9 DEF Healed

\* What an edit does.
Edited(g, rs, r, v) == [rs EXCEPT ![r] = [value |-> v, status |-> statusOnEdit(rs, r, v)]]

LEMMA EditedIsShaped ==
  ASSUME NEW g \in Gates, NEW rs, Shaped(g, rs), NEW r \in RowsOf(g), NEW v
  PROVE  /\ Shaped(g, Edited(g, rs, r, v))
         /\ Edited(g, rs, r, v)[r] = [value |-> v, status |-> statusOnEdit(rs, r, v)]
         /\ \A q \in RowsOf(g) \ {r} : Edited(g, rs, r, v)[q] = rs[q]
<1> DEFINE out == Edited(g, rs, r, v)
<1>1. /\ DOMAIN out = RowsOf(g) /\ out[r] = [value |-> v, status |-> statusOnEdit(rs, r, v)]
      /\ \A q \in RowsOf(g) \ {r} : out[q] = rs[q]
  BY DEF Edited, Shaped
<1> HIDE DEF out
<1>2. Shaped(g, out)
  <2>1. out[r] = [value |-> out[r].value, status |-> out[r].status] BY <1>1
  <2> QED BY <1>1, <2>1 DEF Shaped
<1> QED BY <1>1, <1>2 DEF out

LEMMA EditDoes ==
  ASSUME NEW g \in Gates, NEW rs, Shaped(g, rs), NEW r \in RowsOf(g), NEW v
  PROVE  LET out == updateChecklistItem(g, rs, r, v)
             written == Edited(g, rs, r, v)
         IN  /\ Shaped(g, out)
             /\ g # "noc_sent" \/ r # row(g) => SameValues(g, out, written)
             /\ out[row(g)].value = written[row(g)].value
             /\ \A q \in gateControllerRows(g) : out[q].status = gateControllerStatus(g, out, q)
             /\ row(g) \notin gateControllerRows(g) => out[row(g)].status = written[row(g)].status
             /\ \A q \in Expected \cup Received : q \in RowsOf(g) =>
                  out[q].status = shownStatus(out, q)
             /\ g # "noc_sent" /\ r = row(g) /\ ~hides(g, v) =>
                  \A q \in Dependents(g) \ gateControllerRows(g) : out[q].status = shownStatus(out, q)
             /\ r # row(g) =>
                  \A q \in RowsOf(g) \ (gateControllerRows(g) \cup Expected \cup Received) :
                    out[q].status = written[q].status
<1> DEFINE written == Edited(g, rs, r, v)
           depended == IF r = row(g) THEN syncDependents(g, written, v) ELSE written
           mid == syncGateControllerStatuses(g, depended)
           out == syncInstalmentStatuses(g, mid)
<1>1. updateChecklistItem(g, rs, r, v) = out BY DEF updateChecklistItem, Edited
<1>2. Shaped(g, written) BY EditedIsShaped
<1> HIDE DEF written
<1>3. /\ Shaped(g, depended) /\ depended[row(g)] = written[row(g)]
      /\ g # "noc_sent" \/ r # row(g) => SameValues(g, depended, written)
      /\ g # "noc_sent" /\ r = row(g) /\ ~hides(g, v) =>
           \A q \in Dependents(g) : depended[q].status = shownStatus(written, q)
      /\ r # row(g) => depended = written
  <2>1. CASE r = row(g) BY <1>2, <2>1, DependentsDo
  <2>2. CASE r # row(g) BY <1>2, <2>2 DEF SameValues
  <2> QED BY <2>1, <2>2
<1> HIDE DEF depended
<1>4. /\ Shaped(g, mid) /\ SameValues(g, mid, depended)
      /\ \A q \in RowsOf(g) : mid[q].status =
           IF q \in gateControllerRows(g) THEN gateControllerStatus(g, depended, q)
           ELSE depended[q].status
  BY <1>3, ControllersDo
<1> HIDE DEF mid
<1>5. /\ Shaped(g, out) /\ SameValues(g, out, mid)
      /\ \A q \in RowsOf(g) : out[q].status =
           IF q \in Expected \cup Received THEN shownStatus(mid, q) ELSE mid[q].status
  BY <1>4, InstalmentsDo
<1> HIDE DEF out
<1>6. SameValues(g, out, depended) BY <1>4, <1>5 DEF SameValues
<1>7. g # "noc_sent" \/ r # row(g) => SameValues(g, out, written)
  BY <1>3, <1>6 DEF SameValues
<1>8. /\ row(g) \in RowsOf(g) /\ row(g) \notin Expected \cup Received
      /\ gateControllerRows(g) \subseteq RowsOf(g) /\ Dependents(g) \subseteq RowsOf(g)
      /\ gateControllerRows(g) \cap (Expected \cup Received) = {}
  BY RowFacts
<1>9. out[row(g)].value = written[row(g)].value BY <1>3, <1>6, <1>8 DEF SameValues
<1>10. ASSUME NEW q \in gateControllerRows(g)
       PROVE  out[q].status = gateControllerStatus(g, out, q)
  <2>1. out[q].status = gateControllerStatus(g, depended, q) BY <1>4, <1>5, <1>8
  <2> QED BY <1>6, <2>1, RuleOfValues, SameIsAlike
<1>11. row(g) \notin gateControllerRows(g) => out[row(g)].status = written[row(g)].status
  BY <1>3, <1>4, <1>5, <1>8
<1>12. ASSUME NEW q \in Expected \cup Received, q \in RowsOf(g)
       PROVE  out[q].status = shownStatus(out, q)
  BY <1>5, <1>12, ShownOfValues
<1>13. ASSUME g # "noc_sent", r = row(g), ~hides(g, v),
              NEW q \in Dependents(g) \ gateControllerRows(g)
       PROVE  out[q].status = shownStatus(out, q)
  <2>1. CASE q \in Expected \cup Received BY <1>8, <1>12, <2>1
  <2>2. CASE q \notin Expected \cup Received
    <3>1. out[q].status = shownStatus(written, q) BY <1>3, <1>4, <1>5, <1>8, <1>13, <2>2
    <3> QED BY <1>7, <1>8, <1>13, <3>1, ShownOfValues
  <2> QED BY <2>1, <2>2
<1>14. r # row(g) =>
         \A q \in RowsOf(g) \ (gateControllerRows(g) \cup Expected \cup Received) :
           out[q].status = written[q].status
  BY <1>3, <1>4, <1>5
<1> QED BY <1>1, <1>5, <1>7, <1>9, <1>10, <1>11, <1>12, <1>13, <1>14 DEF written

\* What is shown decides what counts.
LEMMA SameCount ==
  ASSUME NEW g \in Gates, NEW rs, NEW other, Shaped(g, rs), Shaped(g, other),
         SameValues(g, rs, other),
         \A r \in RowsOf(g) : isChecklistFieldVisible(g, rs, r) => rs[r].status = other[r].status
  PROVE  recalculateEventCompletion(g, rs) = recalculateEventCompletion(g, other)
<1> DEFINE Counts(t) == {r \in RowsOf(g) :
        /\ isChecklistFieldVisible(g, t, r)
        /\ ~(fieldType(r) = "date" /\ t[r].value = "later" /\ t[r].status # "completed")
        /\ t[r].status # "not_applicable"}
           Done(t) == {r \in Counts(t) : t[r].status = "completed"}
<1>1. /\ recalculateEventCompletion(g, rs) =
           [done |-> Cardinality(Done(rs)), total |-> Cardinality(Counts(rs))]
      /\ recalculateEventCompletion(g, other) =
           [done |-> Cardinality(Done(other)), total |-> Cardinality(Counts(other))]
  BY DEF recalculateEventCompletion, Shaped
<1>2. rs[row(g)].value = other[row(g)].value BY RowFacts DEF SameValues
<1>3. \A r \in RowsOf(g) : isChecklistFieldVisible(g, rs, r) <=> isChecklistFieldVisible(g, other, r)
  BY <1>2 DEF isChecklistFieldVisible
<1>4. Counts(rs) = Counts(other) BY <1>3 DEF SameValues
<1>5. \A r \in Counts(rs) : rs[r].status = other[r].status BY <1>3
<1> HIDE DEF Counts
<1>6. Done(rs) = Done(other) BY <1>4, <1>5
<1> QED BY <1>1, <1>4, <1>6

-----------------------------------------------------------------------------
LEMMA StatusInvInit == StatusesInit => StatusInv
<1> SUFFICES ASSUME StatusesInit PROVE StatusInv
  OBVIOUS
<1> DEFINE seed == seededRows(gate)
<1>1. gate \in Gates /\ rows = ensureChecklist(gate, seed) /\ last = "seed"
  BY DEF StatusesInit
<1>2. Shaped(gate, seed) BY DEF Shaped, seededRows
<1> HIDE DEF seed
<1>3. Healed(gate, rows, seed) BY <1>1, <1>2, EnsureHeals
<1>4. ASSUME gate # "noc_sent", opened(gate, rows),
             NEW r \in Dependents(gate) \ gateControllerRows(gate)
      PROVE  rows[r].status = shownStatus(rows, r)
  <2>1. SameValues(gate, rows, seed) BY <1>3, <1>4 DEF Healed
  <2>2. opened(gate, seed) BY <1>1, <1>4, <2>1, RowFacts DEF opened, SameValues
  <2>3. rows[r].status = shownStatus(seed, r) BY <1>3, <1>4, <2>2 DEF Healed
  <2>4. r \in RowsOf(gate) BY <1>1, RowFacts
  <2> QED BY <1>1, <2>1, <2>3, <2>4, ShownOfValues
<1> QED BY <1>1, <1>3, <1>4 DEF StatusInv, Healed

LEMMA EditRowKeeps ==
  ASSUME StatusInv, EditRow PROVE StatusInv'
<1> USE DEF StatusInv
<1>0. PICK r \in RowsOf(gate) : \E v \in Values(r) :
        /\ isChecklistFieldVisible(gate, rows, r)
        /\ rows' = updateChecklistItem(gate, rows, r, v)
        /\ completion' = recalculateEventCompletion(gate, rows')
        /\ gate' = gate /\ settled' = settled
  BY DEF EditRow
<1>1. PICK v \in Values(r) :
        /\ isChecklistFieldVisible(gate, rows, r)
        /\ rows' = updateChecklistItem(gate, rows, r, v)
        /\ completion' = recalculateEventCompletion(gate, rows')
        /\ gate' = gate /\ settled' = settled
  BY <1>0
<1> DEFINE written == Edited(gate, rows, r, v)
<1>2. /\ written[r] = [value |-> v, status |-> statusOnEdit(rows, r, v)]
      /\ \A q \in RowsOf(gate) \ {r} : written[q] = rows[q]
  BY EditedIsShaped
<1>3. /\ Shaped(gate, rows')
      /\ gate # "noc_sent" \/ r # row(gate) => SameValues(gate, rows', written)
      /\ \A q \in gateControllerRows(gate) : rows'[q].status = gateControllerStatus(gate, rows', q)
      /\ \A q \in Expected \cup Received : q \in RowsOf(gate) =>
           rows'[q].status = shownStatus(rows', q)
      /\ gate # "noc_sent" /\ r = row(gate) /\ ~hides(gate, v) =>
           \A q \in Dependents(gate) \ gateControllerRows(gate) :
             rows'[q].status = shownStatus(rows', q)
      /\ r # row(gate) =>
           \A q \in RowsOf(gate) \ (gateControllerRows(gate) \cup Expected \cup Received) :
             rows'[q].status = written[q].status
  BY <1>1, EditDoes
<1> HIDE DEF written
<1>4. /\ row(gate) \in RowsOf(gate) /\ Dependents(gate) \subseteq RowsOf(gate)
      /\ row(gate) \notin Dependents(gate)
  BY RowFacts
<1>5. ASSUME gate # "noc_sent", opened(gate, rows'),
             NEW q \in Dependents(gate) \ gateControllerRows(gate)
      PROVE  rows'[q].status = shownStatus(rows', q) \/ unnoticed(rows, q)' 
  <2>1. SameValues(gate, rows', written) BY <1>3, <1>5
  <2>2. CASE r = row(gate)
    <3>1. v = OpensOn(gate) BY <1>2, <1>4, <1>5, <2>1, <2>2 DEF opened, SameValues
    <3> QED BY <1>3, <1>5, <2>2, <3>1, OpenDoesNotHide
  <2>3. CASE r # row(gate) /\ q \in Expected \cup Received
    BY <1>3, <1>4, <1>5, <2>3
  <2>4. CASE r # row(gate) /\ q \notin Expected \cup Received /\ q = r
    <3>1. q # row("genre_head") BY <1>4, <1>5, RowFacts
    <3>2. rows'[q].status = itemStatusForValue(fieldType(q), v)
      BY <1>2, <1>3, <1>4, <1>5, <2>4, <3>1 DEF statusOnEdit
    <3>3. rows'[q].value = v BY <1>2, <1>4, <1>5, <2>1, <2>4 DEF SameValues
    <3> QED BY <2>4, <3>2, <3>3 DEF shownStatus
  <2>5. CASE r # row(gate) /\ q \notin Expected \cup Received /\ q # r
    <3>1. rows'[q].status = rows[q].status /\ rows'[q].value = rows[q].value
      BY <1>2, <1>3, <1>4, <1>5, <2>1, <2>5 DEF SameValues
    <3>2. opened(gate, rows)
      BY <1>2, <1>4, <1>5, <2>1, <2>5 DEF opened, SameValues
    <3>3. rows[q].status = shownStatus(rows, q) \/ unnoticed(rows, q) BY <1>5, <3>2
    <3>4. shownStatus(rows', q) = shownStatus(rows, q) BY <2>5, <3>1 DEF shownStatus
    <3> QED BY <1>1, <3>1, <3>3, <3>4 DEF unnoticed
  <2> QED BY <2>2, <2>3, <2>4, <2>5
<1> QED BY <1>1, <1>3, <1>5

LEMMA EditElsewhereKeeps ==
  ASSUME StatusInv, EditElsewhere PROVE StatusInv'
<1> USE DEF StatusInv
<1>1. /\ rows' = syncGateControllerStatuses(gate, rows)
      /\ completion' = recalculateEventCompletion(gate, rows')
      /\ gate' = gate /\ settled' = settled
  BY DEF EditElsewhere
<1>2. /\ Shaped(gate, rows') /\ SameValues(gate, rows', rows)
      /\ \A r \in RowsOf(gate) : rows'[r].status =
           IF r \in gateControllerRows(gate) THEN gateControllerStatus(gate, rows, r)
           ELSE rows[r].status
  BY <1>1, ControllersDo
<1>3. /\ row(gate) \in RowsOf(gate) /\ Dependents(gate) \subseteq RowsOf(gate)
      /\ gateControllerRows(gate) \subseteq RowsOf(gate)
  BY RowFacts
<1>4. \A r \in gateControllerRows(gate) : rows'[r].status = gateControllerStatus(gate, rows', r)
  BY <1>2, <1>3, RuleOfValues, SameIsAlike
<1>5. ASSUME gate # "noc_sent", opened(gate, rows'),
             NEW q \in Dependents(gate) \ gateControllerRows(gate)
      PROVE  rows'[q].status = shownStatus(rows', q) \/ unnoticed(rows, q)'
  <2>1. opened(gate, rows) BY <1>2, <1>3, <1>5 DEF opened, SameValues
  <2>2. rows[q].status = shownStatus(rows, q) \/ unnoticed(rows, q) BY <1>5, <2>1
  <2>3. shownStatus(rows', q) = shownStatus(rows, q) BY <1>2, <1>3, ShownOfValues
  <2>4. rows'[q].status = rows[q].status /\ rows'[q].value = rows[q].value
    BY <1>2, <1>3, <1>5 DEF SameValues
  <2> QED BY <1>1, <2>2, <2>3, <2>4 DEF unnoticed
<1> QED BY <1>1, <1>2, <1>4, <1>5

LEMMA ReadChecklistKeeps ==
  ASSUME StatusInv, ReadChecklist PROVE StatusInv'
<1> USE DEF StatusInv
<1>1. rows' = getChecklistItems(gate, rows) /\ last' = "read" /\ gate' = gate
  BY DEF ReadChecklist
<1>2. Healed(gate, rows', rows) BY <1>1, ReadHeals
<1>3. ASSUME gate # "noc_sent", opened(gate, rows'),
             NEW q \in Dependents(gate) \ gateControllerRows(gate)
      PROVE  rows'[q].status = shownStatus(rows', q)
  <2>1. SameValues(gate, rows', rows) BY <1>2, <1>3 DEF Healed
  <2>2. opened(gate, rows) BY <1>3, <2>1, RowFacts DEF opened, SameValues
  <2>3. rows'[q].status = shownStatus(rows, q) BY <1>2, <1>3, <2>2 DEF Healed
  <2>4. q \in RowsOf(gate) BY RowFacts
  <2> QED BY <2>1, <2>3, <2>4, ShownOfValues
<1> QED BY <1>1, <1>2, <1>3 DEF Healed

LEMMA NightlyKeeps ==
  ASSUME StatusInv, Nightly PROVE StatusInv'
<1> USE DEF StatusInv
<1> DEFINE dated == [r \in DOMAIN rows |->
        IF fieldType(r) = "date" /\ r \notin Expected /\ rows[r].value # "blank"
        THEN [rows[r] EXCEPT !.status = itemStatusForValue("date", rows[r].value)]
        ELSE rows[r]]
<1>1. rows' = syncInstalmentStatuses(gate, dated) /\ last' = "night" /\ gate' = gate
  BY DEF Nightly
<1>2. DOMAIN rows = RowsOf(gate) /\ DOMAIN dated = RowsOf(gate) BY DEF Shaped
<1>3. ASSUME NEW r \in RowsOf(gate)
      PROVE  /\ dated[r] = [value |-> dated[r].value, status |-> dated[r].status]
             /\ dated[r].value = rows[r].value
             /\ dated[r].status =
                  IF fieldType(r) = "date" /\ r \notin Expected /\ rows[r].value # "blank"
                  THEN itemStatusForValue("date", rows[r].value) ELSE rows[r].status
  <2> DEFINE s == itemStatusForValue("date", rows[r].value)
             due == fieldType(r) = "date" /\ r \notin Expected /\ rows[r].value # "blank"
  <2>1. rows[r] = [value |-> rows[r].value, status |-> rows[r].status] BY DEF Shaped
  <2>2. dated[r] = IF due THEN [rows[r] EXCEPT !.status = s] ELSE rows[r] BY <1>2
  <2> HIDE DEF s, dated, due
  <2>3. CASE due
    <3>1. dated[r] = [value |-> rows[r].value, status |-> s] BY <2>1, <2>2, <2>3
    <3> QED BY <2>3, <3>1 DEF s, due
  <2>4. CASE ~due
    <3>1. dated[r] = [value |-> rows[r].value, status |-> rows[r].status] BY <2>1, <2>2, <2>4
    <3> QED BY <2>4, <3>1 DEF due
  <2> QED BY <2>3, <2>4
<1> HIDE DEF dated
<1>4. Shaped(gate, dated) /\ SameValues(gate, dated, rows)
  BY <1>2, <1>3 DEF Shaped, SameValues
<1>5. /\ Shaped(gate, rows') /\ SameValues(gate, rows', dated)
      /\ \A r \in RowsOf(gate) : rows'[r].status =
           IF r \in Expected \cup Received THEN shownStatus(dated, r) ELSE dated[r].status
  BY <1>1, <1>4, InstalmentsDo
<1>6. SameValues(gate, rows', rows) BY <1>4, <1>5 DEF SameValues
<1>7. /\ row(gate) \in RowsOf(gate) /\ Dependents(gate) \subseteq RowsOf(gate)
      /\ gateControllerRows(gate) \subseteq RowsOf(gate)
      /\ gateControllerRows(gate) \cap (Expected \cup Received) = {}
      /\ \A r \in gateControllerRows(gate) : fieldType(r) = "dropdown"
  BY RowFacts
<1>8. ASSUME NEW r \in gateControllerRows(gate)
      PROVE  rows'[r].status = gateControllerStatus(gate, rows', r)
  <2>1. rows'[r].status = rows[r].status BY <1>3, <1>5, <1>7
  <2> QED BY <1>6, <2>1, RuleOfValues, SameIsAlike
<1>9. ASSUME gate # "noc_sent", opened(gate, rows'),
             NEW q \in Dependents(gate) \ gateControllerRows(gate)
      PROVE  rows'[q].status = shownStatus(rows', q)
  <2>1. opened(gate, rows) BY <1>6, <1>7, <1>9 DEF opened, SameValues
  <2>2. rows[q].status = shownStatus(rows, q) \/ unnoticed(rows, q) BY <1>9, <2>1
  <2>3. shownStatus(rows', q) = shownStatus(rows, q) BY <1>6, <1>7, <1>9, ShownOfValues
  <2>4. CASE q \in Expected \cup Received
    <3>1. shownStatus(rows', q) = shownStatus(dated, q) BY <1>5, <1>7, <1>9, ShownOfValues
    <3> QED BY <1>5, <1>7, <1>9, <2>4, <3>1
  <2>5. CASE q \notin Expected \cup Received
    <3>1. rows'[q].status = dated[q].status BY <1>5, <1>7, <1>9, <2>5
    <3>2. CASE fieldType(q) = "date" /\ rows[q].value # "blank"
      <4>1. rows'[q].status = itemStatusForValue(fieldType(q), rows[q].value)
        BY <1>3, <1>7, <1>9, <2>5, <3>1, <3>2
      <4> QED BY <2>3, <2>5, <4>1 DEF shownStatus
    <3>3. CASE ~(fieldType(q) = "date" /\ rows[q].value # "blank")
      <4>1. rows'[q].status = rows[q].status BY <1>3, <1>7, <1>9, <3>1, <3>3
      <4>2. ~unnoticed(rows, q) BY <3>3 DEF unnoticed
      <4> QED BY <2>2, <2>3, <4>1, <4>2
    <3> QED BY <3>2, <3>3
  <2> QED BY <2>4, <2>5
<1> QED BY <1>1, <1>5, <1>8, <1>9

LEMMA TomorrowKeeps ==
  ASSUME StatusInv, Tomorrow PROVE StatusInv'
<1> USE DEF StatusInv
<1>1. PICK arrived \in SUBSET {r \in DOMAIN rows : fieldType(r) = "date" /\ rows[r].value = "later"} :
        /\ rows' = [r \in DOMAIN rows |->
             IF r \in arrived THEN [rows[r] EXCEPT !.value = "due"] ELSE rows[r]]
        /\ ~settled' /\ last' = "day" /\ gate' = gate
  BY DEF Tomorrow
<1>2. DOMAIN rows = RowsOf(gate) /\ DOMAIN rows' = RowsOf(gate) BY <1>1 DEF Shaped
<1>3. ASSUME NEW r \in RowsOf(gate)
      PROVE  /\ rows'[r] = [value |-> rows'[r].value, status |-> rows'[r].status]
             /\ rows'[r].value = IF r \in arrived THEN "due" ELSE rows[r].value
             /\ rows'[r].status = rows[r].status
  <2>1. rows[r] = [value |-> rows[r].value, status |-> rows[r].status] BY DEF Shaped
  <2>2. rows'[r] = IF r \in arrived THEN [rows[r] EXCEPT !.value = "due"] ELSE rows[r]
    BY <1>1, <1>2
  <2> QED BY <2>1, <2>2
<1>4. Shaped(gate, rows') BY <1>2, <1>3 DEF Shaped
<1>5. \A r \in arrived : fieldType(r) = "date" /\ rows[r].value = "later" BY <1>1
<1>6. Alike(gate, rows', rows)
  <2> SUFFICES ASSUME NEW r \in RowsOf(gate)
               PROVE  \/ rows'[r].value = rows[r].value
                      \/ fieldType(r) = "date" /\ rows'[r].value # "blank" /\ rows[r].value # "blank"
    BY DEF Alike
  <2>1. rows'[r].value = IF r \in arrived THEN "due" ELSE rows[r].value BY <1>3
  <2> QED BY <1>5, <2>1
<1>7. /\ row(gate) \in RowsOf(gate) /\ Dependents(gate) \subseteq RowsOf(gate)
      /\ gateControllerRows(gate) \subseteq RowsOf(gate) /\ fieldType(row(gate)) = "dropdown"
  BY RowFacts
<1>8. ASSUME NEW r \in gateControllerRows(gate)
      PROVE  rows'[r].status = gateControllerStatus(gate, rows', r)
  <2>1. rows'[r].status = rows[r].status BY <1>3, <1>7
  <2> QED BY <1>6, <2>1, RuleOfValues
<1>9. ASSUME gate # "noc_sent", opened(gate, rows'),
             NEW q \in Dependents(gate) \ gateControllerRows(gate)
      PROVE  rows'[q].status = shownStatus(rows', q) \/ unnoticed(rows, q)'
  <2>1. opened(gate, rows) BY <1>6, <1>7, <1>9 DEF opened, Alike
  <2>2. rows[q].status = shownStatus(rows, q) \/ unnoticed(rows, q) BY <1>9, <2>1
  <2>3. rows'[q].status = rows[q].status BY <1>3, <1>7, <1>9
  <2>4. CASE q \in Expected
    <3>1. receivedOf(q) \in RowsOf(gate) /\ fieldType(receivedOf(q)) = "checkbox"
      BY <1>7, <1>9, <2>4, RowFacts, InstalmentRows
    <3>2. rows'[receivedOf(q)].value = rows[receivedOf(q)].value BY <1>6, <3>1 DEF Alike
    <3>3. rows'[q].value = "blank" <=> rows[q].value = "blank" BY <1>6, <1>7, <1>9 DEF Alike
    <3>4. shownStatus(rows', q) = shownStatus(rows, q)
      BY <2>4, <3>2, <3>3 DEF shownStatus, instalmentExpectedDateStatus
    <3>5. ~unnoticed(rows, q) BY <2>4 DEF unnoticed
    <3> QED BY <2>2, <2>3, <3>4, <3>5
  <2>5. CASE q \notin Expected /\ q \in arrived
    BY <1>1, <1>3, <1>5, <1>7, <1>9, <2>5 DEF unnoticed
  <2>6. CASE q \notin Expected /\ q \notin arrived
    <3>1. rows'[q].value = rows[q].value BY <1>3, <1>7, <1>9, <2>6
    <3>2. shownStatus(rows', q) = shownStatus(rows, q) BY <2>6, <3>1 DEF shownStatus
    <3> QED BY <1>1, <2>2, <2>3, <3>1, <3>2 DEF unnoticed
  <2> QED BY <2>4, <2>5, <2>6
<1> QED BY <1>1, <1>4, <1>8, <1>9

LEMMA StatusInvHolds == StatusesSpec => []StatusInv
<1>1. StatusInv /\ [StatusesNext]_statusVars => StatusInv'
  <2> SUFFICES ASSUME StatusInv, [StatusesNext]_statusVars PROVE StatusInv'
    OBVIOUS
  <2>1. CASE UNCHANGED statusVars
    <3>1. UNCHANGED <<gate, rows, completion, settled, last>> BY <2>1 DEF statusVars
    <3> QED BY <3>1 DEF StatusInv, unnoticed
  <2>2. CASE StatusesNext
    BY <2>2, EditRowKeeps, EditElsewhereKeeps, ReadChecklistKeeps, NightlyKeeps, TomorrowKeeps
       DEF StatusesNext
  <2> QED BY <2>1, <2>2
<1> QED BY <1>1, StatusInvInit, PTL DEF StatusesSpec

\* What an edit leaves is what the next read of that day shows, statuses and
\* completion, for any instalments and after any edits, reads, nights and days.
THEOREM EditsAnticipateReads == StatusesSpec => []EditAnticipatesRead
<1>1. StatusInv => EditAnticipatesRead
  <2> SUFFICES ASSUME StatusInv, last = "edit", settled, gate # "noc_sent"
               PROVE  /\ \A r \in DOMAIN rows : isChecklistFieldVisible(gate, rows, r) =>
                           getChecklistItems(gate, rows)[r] = rows[r]
                      /\ completionAfterRead(gate, rows) = completion
    BY DEF EditAnticipatesRead
  <2> USE DEF StatusInv
  <2>1. ASSUME NEW out, Healed(gate, out, rows), NEW r \in RowsOf(gate),
               isChecklistFieldVisible(gate, rows, r)
        PROVE  out[r] = rows[r]
    <3>1. Shaped(gate, out) /\ SameValues(gate, out, rows) BY <2>1 DEF Healed
    <3>2. out[r].value = rows[r].value BY <3>1 DEF SameValues
    <3>3. out[r].status = rows[r].status
      <4>1. CASE r \in gateControllerRows(gate)
        BY <2>1, <3>1, <4>1, RuleOfValues, SameIsAlike DEF Healed
      <4>2. CASE r \notin gateControllerRows(gate) /\ r = row(gate)
        BY <2>1, <4>2 DEF Healed
      <4>3. CASE r \notin gateControllerRows(gate) /\ r # row(gate)
        <5>1. r \in Dependents(gate) /\ opened(gate, rows)
          BY <2>1, <4>3, RowFacts DEF isChecklistFieldVisible, opened
        <5>2. rows[r].status = shownStatus(rows, r) BY <4>3, <5>1 DEF unnoticed
        <5> QED BY <2>1, <4>3, <5>1, <5>2 DEF Healed
      <4> QED BY <4>1, <4>2, <4>3
    <3>4. /\ out[r] = [value |-> out[r].value, status |-> out[r].status]
          /\ rows[r] = [value |-> rows[r].value, status |-> rows[r].status]
      BY <3>1 DEF Shaped
    <3> QED BY <3>2, <3>3, <3>4
  <2>2. Healed(gate, getChecklistItems(gate, rows), rows) BY ReadHeals
  <2>3. DOMAIN rows = RowsOf(gate) BY DEF Shaped
  <2>4. Healed(gate, ensureChecklist(gate, rows), rows) BY EnsureHeals
  <2>5. completionAfterRead(gate, rows) = recalculateEventCompletion(gate, rows)
    <3> DEFINE first == ensureChecklist(gate, rows)
    <3>1. Shaped(gate, first) /\ SameValues(gate, rows, first)
      BY <2>4 DEF Healed, SameValues
    <3>2. \A r \in RowsOf(gate) : isChecklistFieldVisible(gate, rows, r) => first[r] = rows[r]
      BY <2>1, <2>4
    <3>3. completionAfterRead(gate, rows) = recalculateEventCompletion(gate, first)
      BY DEF completionAfterRead
    <3> HIDE DEF first
    <3>4. recalculateEventCompletion(gate, rows) = recalculateEventCompletion(gate, first)
      BY <3>1, <3>2, SameCount
    <3> QED BY <3>3, <3>4
  <2> QED BY <2>1, <2>2, <2>3, <2>5
<1> QED BY <1>1, StatusInvHolds, PTL

-----------------------------------------------------------------------------
\* The browser's words agree with the server's, but for "Refunded".
LEMMA WordsAgree ==
  ASSUME NEW r, NEW v \in Values(r) \ {"Refunded"}
  PROVE  optimisticFieldStatus(fieldType(r), v) = itemStatusForValue(fieldType(r), v)
<1>1. CASE fieldType(r) = "dropdown"
  BY <1>1 DEF optimisticFieldStatus, itemStatusForValue, optimisticDone, DONE_VALUES
<1>2. CASE fieldType(r) = "date"
  <2>1. v \in {"blank", "due", "later"} BY <1>2 DEF Values
  <2> QED BY <1>2, <2>1 DEF optimisticFieldStatus, itemStatusForValue, NOT_APPLICABLE_VALUES
<1>3. CASE fieldType(r) = "checkbox"
  <2>1. v \in {"blank", "true"} BY <1>3 DEF Values
  <2> QED BY <1>3, <2>1 DEF optimisticFieldStatus, itemStatusForValue, NOT_APPLICABLE_VALUES
<1> QED BY <1>1, <1>2, <1>3 DEF fieldType

\* The row that was edited, and an instalment's date, on the screen.
PaintedFirst(rs, r, v) ==
  IF r \in Received THEN optimisticReceived(rs, r, v)
  ELSE [rs EXCEPT ![r] = [value |-> v, status |->
          IF r \in Expected THEN instalmentExpectedDateStatus(v, rs[receivedOf(r)].value)
          ELSE optimisticFieldStatus(fieldType(r), v)]]

LEMMA PaintedFirstDoes ==
  ASSUME NEW g \in Gates, NEW rs, Shaped(g, rs), NEW r \in RowsOf(g), NEW v
  PROVE  LET out == PaintedFirst(rs, r, v)
         IN  /\ Shaped(g, out)
             /\ out[r].value = v /\ \A q \in RowsOf(g) \ {r} : out[q].value = rs[q].value
             /\ out[r].status =
                  IF r \in Received THEN optimisticFieldStatus("checkbox", v)
                  ELSE IF r \in Expected
                  THEN instalmentExpectedDateStatus(v, rs[receivedOf(r)].value)
                  ELSE optimisticFieldStatus(fieldType(r), v)
             /\ r \in Received =>
                  out[expectedOf(r)].status = instalmentExpectedDateStatus(rs[expectedOf(r)].value, v)
             /\ r # row(g) => out[row(g)] = rs[row(g)]
<1> DEFINE out == PaintedFirst(rs, r, v)
<1>1. /\ DOMAIN rs = RowsOf(g)
      /\ \A q \in RowsOf(g) : rs[q] = [value |-> rs[q].value, status |-> rs[q].status]
  BY DEF Shaped
<1>2. CASE r \in Received
  <2> DEFINE e == expectedOf(r)
             s == optimisticFieldStatus("checkbox", v)
             t == instalmentExpectedDateStatus(rs[expectedOf(r)].value, v)
  <2>1. e \in RowsOf(g) /\ e # r /\ e # row(g) BY <1>2, RowFacts, InstalmentRows
  <2>2. out = [rs EXCEPT ![r] = [value |-> v, status |-> s], ![e].status = t]
    BY <1>2 DEF PaintedFirst, optimisticReceived
  <2> HIDE DEF e, s, t, out
  <2>3. /\ DOMAIN out = RowsOf(g) /\ out[r] = [value |-> v, status |-> s]
        /\ out[e] = [rs[e] EXCEPT !.status = t]
        /\ \A q \in RowsOf(g) \ {r, e} : out[q] = rs[q]
    BY <1>1, <2>1, <2>2
  <2>4. out[e] = [value |-> rs[e].value, status |-> t] BY <1>1, <2>1, <2>3
  <2>5. Shaped(g, out)
    <3>1. \A q \in {r, e} : out[q] = [value |-> out[q].value, status |-> out[q].status]
      BY <2>3, <2>4
    <3> QED BY <1>1, <2>3, <3>1 DEF Shaped
  <2>6. /\ out[r].value = v /\ out[r].status = s /\ out[e].value = rs[e].value
        /\ out[e].status = t
    BY <2>3, <2>4
  <2>7. row(g) \in RowsOf(g) BY RowFacts
  <2> QED BY <1>2, <2>1, <2>3, <2>5, <2>6, <2>7 DEF e, s, t, out
<1>3. CASE r \notin Received
  <2> DEFINE s == IF r \in Expected THEN instalmentExpectedDateStatus(v, rs[receivedOf(r)].value)
                  ELSE optimisticFieldStatus(fieldType(r), v)
  <2>1. out = [rs EXCEPT ![r] = [value |-> v, status |-> s]] BY <1>3 DEF PaintedFirst
  <2> HIDE DEF s, out
  <2>2. /\ DOMAIN out = RowsOf(g) /\ out[r] = [value |-> v, status |-> s]
        /\ \A q \in RowsOf(g) \ {r} : out[q] = rs[q]
    BY <1>1, <2>1
  <2>3. out[r].value = v /\ out[r].status = s BY <2>2
  <2>4. Shaped(g, out) BY <1>1, <2>2, <2>3 DEF Shaped
  <2>5. row(g) \in RowsOf(g) BY RowFacts
  <2> QED BY <1>3, <2>2, <2>3, <2>4, <2>5 DEF s, out
<1> QED BY <1>2, <1>3

\* What the screen paints in the end.
LEMMA ScreenDoes ==
  ASSUME NEW g \in Gates, NEW rs, Shaped(g, rs), NEW r \in RowsOf(g), NEW v
  PROVE  LET out == applyOptimisticChecklistUpdate(g, rs, r, v)
             first == PaintedFirst(rs, r, v)
         IN  /\ Shaped(g, out) /\ SameValues(g, out, first)
             /\ \A q \in gateControllerRows(g) : out[q].status = gateControllerStatus(g, out, q)
             /\ row(g) \notin gateControllerRows(g) => out[row(g)].status = first[row(g)].status
             /\ r # row(g) =>
                  \A q \in RowsOf(g) \ gateControllerRows(g) : out[q].status = first[q].status
<1> DEFINE first == PaintedFirst(rs, r, v)
           mark == IF hides(g, v) THEN "not_applicable" ELSE "not_started"
           painted == [d \in DOMAIN first |->
             IF d \in Dependents(g) THEN [first[d] EXCEPT !.status = mark] ELSE first[d]]
           depended == IF r # row(g) THEN first ELSE painted
           out == syncGateControllerStatuses(g, depended)
<1>1. applyOptimisticChecklistUpdate(g, rs, r, v) = out
  BY DEF applyOptimisticChecklistUpdate, PaintedFirst
<1>2. Shaped(g, first) BY PaintedFirstDoes
<1>3. row(g) \in RowsOf(g) /\ row(g) \notin Dependents(g) BY RowFacts
<1> HIDE DEF first, mark
<1>4. /\ DOMAIN first = RowsOf(g)
      /\ \A q \in RowsOf(g) : first[q] = [value |-> first[q].value, status |-> first[q].status]
  BY <1>2 DEF Shaped
<1>5. ASSUME NEW d \in RowsOf(g)
      PROVE  /\ painted[d] = [value |-> painted[d].value, status |-> painted[d].status]
             /\ painted[d].value = first[d].value
             /\ d \notin Dependents(g) => painted[d] = first[d]
  <2>1. first[d] = [value |-> first[d].value, status |-> first[d].status] BY <1>4
  <2>2. painted[d] = IF d \in Dependents(g) THEN [first[d] EXCEPT !.status = mark] ELSE first[d]
    BY <1>4
  <2> HIDE DEF painted
  <2>3. CASE d \in Dependents(g)
    <3>1. painted[d] = [value |-> first[d].value, status |-> mark] BY <2>1, <2>2, <2>3
    <3> QED BY <2>3, <3>1
  <2>4. CASE d \notin Dependents(g) BY <2>1, <2>2, <2>4
  <2> QED BY <2>3, <2>4
<1>6. DOMAIN painted = RowsOf(g) BY <1>4
<1> HIDE DEF painted
<1>7. /\ Shaped(g, depended) /\ SameValues(g, depended, first)
      /\ depended[row(g)] = first[row(g)]
      /\ r # row(g) => depended = first
  BY <1>2, <1>3, <1>5, <1>6 DEF Shaped, SameValues
<1> HIDE DEF depended
<1>8. /\ Shaped(g, out) /\ SameValues(g, out, depended)
      /\ \A q \in RowsOf(g) : out[q].status =
           IF q \in gateControllerRows(g) THEN gateControllerStatus(g, depended, q)
           ELSE depended[q].status
  BY <1>7, ControllersDo
<1> HIDE DEF out
<1>9. SameValues(g, out, first) BY <1>7, <1>8 DEF SameValues
<1>10. \A q \in gateControllerRows(g) : out[q].status = gateControllerStatus(g, out, q)
  BY <1>8, RowFacts, RuleOfValues, SameIsAlike
<1>11. row(g) \notin gateControllerRows(g) => out[row(g)].status = first[row(g)].status
  BY <1>3, <1>7, <1>8
<1>12. r # row(g) =>
         \A q \in RowsOf(g) \ gateControllerRows(g) : out[q].status = first[q].status
  BY <1>7, <1>8
<1> QED BY <1>1, <1>8, <1>9, <1>10, <1>11, <1>12 DEF first

\* On any rows, whatever happened to them: what the browser paints at once on the
\* edited row, on the gate and on an instalment's date is what the server answers.
LEMMA ScreenIsServer ==
  ASSUME NEW g \in Gates, NEW rs, Shaped(g, rs), NEW r \in RowsOf(g),
         NEW v \in Values(r) \ {"Refunded"},
         NEW q \in {r, row(g)} \cup (IF r \in Received THEN {expectedOf(r)} ELSE {})
  PROVE  applyOptimisticChecklistUpdate(g, rs, r, v)[q] = updateChecklistItem(g, rs, r, v)[q]
<1> DEFINE screen == applyOptimisticChecklistUpdate(g, rs, r, v)
           server == updateChecklistItem(g, rs, r, v)
           first == PaintedFirst(rs, r, v)
           written == Edited(g, rs, r, v)
<1>1. /\ written[r] = [value |-> v, status |-> statusOnEdit(rs, r, v)]
      /\ \A p \in RowsOf(g) \ {r} : written[p] = rs[p]
  BY EditedIsShaped
<1>2. /\ Shaped(g, server)
      /\ g # "noc_sent" \/ r # row(g) => SameValues(g, server, written)
      /\ server[row(g)].value = written[row(g)].value
      /\ \A p \in gateControllerRows(g) : server[p].status = gateControllerStatus(g, server, p)
      /\ row(g) \notin gateControllerRows(g) => server[row(g)].status = written[row(g)].status
      /\ \A p \in Expected \cup Received : p \in RowsOf(g) =>
           server[p].status = shownStatus(server, p)
      /\ r # row(g) =>
           \A p \in RowsOf(g) \ (gateControllerRows(g) \cup Expected \cup Received) :
             server[p].status = written[p].status
  BY EditDoes
<1>3. /\ first[r].value = v /\ \A p \in RowsOf(g) \ {r} : first[p].value = rs[p].value
      /\ first[r].status =
           IF r \in Received THEN optimisticFieldStatus("checkbox", v)
           ELSE IF r \in Expected
           THEN instalmentExpectedDateStatus(v, rs[receivedOf(r)].value)
           ELSE optimisticFieldStatus(fieldType(r), v)
      /\ r \in Received =>
           first[expectedOf(r)].status = instalmentExpectedDateStatus(rs[expectedOf(r)].value, v)
      /\ r # row(g) => first[row(g)] = rs[row(g)]
  BY PaintedFirstDoes
<1>4. /\ Shaped(g, screen) /\ SameValues(g, screen, first)
      /\ \A p \in gateControllerRows(g) : screen[p].status = gateControllerStatus(g, screen, p)
      /\ row(g) \notin gateControllerRows(g) => screen[row(g)].status = first[row(g)].status
      /\ r # row(g) =>
           \A p \in RowsOf(g) \ gateControllerRows(g) : screen[p].status = first[p].status
  BY ScreenDoes
<1> HIDE DEF screen, server, first, written
<1>5. /\ row(g) \in RowsOf(g) /\ row(g) \notin Expected \cup Received
      /\ gateControllerRows(g) \subseteq RowsOf(g)
      /\ gateControllerRows(g) \cap (Expected \cup Received) = {}
      /\ g = "noc_sent" => gateControllerRows(g) = {}
      /\ row("genre_head") \in RowsOf(g) => row("genre_head") \in gateControllerRows(g)
  BY RowFacts
<1>6. r \in Received => expectedOf(r) \in RowsOf(g) BY RowFacts, InstalmentRows
<1>7. q \in RowsOf(g) BY <1>5, <1>6
<1>8. g # "noc_sent" \/ r # row(g) => SameValues(g, screen, server)
  <2> SUFFICES ASSUME g # "noc_sent" \/ r # row(g), NEW p \in RowsOf(g)
               PROVE  screen[p].value = server[p].value
    BY DEF SameValues
  <2>1. screen[p].value = first[p].value /\ server[p].value = written[p].value
    BY <1>2, <1>4 DEF SameValues
  <2>2. first[p].value = written[p].value BY <1>1, <1>3
  <2> QED BY <2>1, <2>2
<1>9. screen[q].value = server[q].value
  <2>1. CASE g # "noc_sent" \/ r # row(g) BY <1>7, <1>8, <2>1 DEF SameValues
  <2>2. CASE g = "noc_sent" /\ r = row(g)
    <3>1. q = r
      <4>1. r \notin Received BY <1>5, <2>2
      <4> QED BY <2>2, <4>1
    <3>2. screen[q].value = v BY <1>3, <1>4, <3>1 DEF SameValues
    <3>3. server[q].value = v BY <1>1, <1>2, <2>2, <3>1
    <3> QED BY <3>2, <3>3
  <2> QED BY <2>1, <2>2
<1>10. screen[q].status = server[q].status
  <2>1. CASE q \in gateControllerRows(g)
    BY <1>2, <1>4, <1>5, <1>8, <2>1, RuleOfValues, SameIsAlike
  <2>2. CASE q \notin gateControllerRows(g) /\ r \in Received /\ q # row(g)
    <3>1. r # row(g) /\ (q = r \/ q = expectedOf(r)) BY <1>5, <2>2
    <3>2. SameValues(g, server, written) BY <1>2, <3>1
    <3>3. server[r].value = v BY <1>1, <3>2 DEF SameValues
    <3>4. screen[q].status = first[q].status BY <1>4, <1>7, <2>2, <3>1
    <3>5. CASE q = r
      <4>1. server[q].status = IF v = "true" THEN "completed" ELSE "not_started"
        BY <1>2, <2>2, <3>3, <3>5, InstalmentRows DEF shownStatus
      <4>2. v \in {"blank", "true"} BY <2>2, InstalmentRows
      <4> QED BY <1>3, <2>2, <3>4, <3>5, <4>1, <4>2 DEF optimisticFieldStatus
    <3>6. CASE q = expectedOf(r)
      <4>1. q \in Expected /\ receivedOf(q) = r /\ q # r BY <2>2, <3>6, InstalmentRows
      <4>2. server[q].value = rs[q].value BY <1>1, <1>7, <3>2, <4>1 DEF SameValues
      <4>3. server[q].status = instalmentExpectedDateStatus(rs[q].value, v)
        BY <1>2, <1>7, <3>3, <4>1, <4>2 DEF shownStatus
      <4> QED BY <1>3, <2>2, <3>4, <3>6, <4>3
    <3> QED BY <3>1, <3>5, <3>6
  <2>3. CASE q \notin gateControllerRows(g) /\ q = row(g) /\ r # row(g)
    <3>1. server[q].status = rs[q].status BY <1>1, <1>2, <1>5, <2>3
    <3>2. screen[q].status = rs[q].status BY <1>3, <1>4, <2>3
    <3> QED BY <3>1, <3>2
  <2>4. CASE q \notin gateControllerRows(g) /\ q = r /\ r \in Expected
    <3>1. r # row(g) /\ r \notin Received BY <1>5, <2>4, InstalmentRows
    <3>2. SameValues(g, server, written) BY <1>2, <3>1
    <3>3. receivedOf(r) \in RowsOf(g) /\ receivedOf(r) # r
      BY <2>4, RowFacts, InstalmentRows
    <3>4. server[r].value = v /\ server[receivedOf(r)].value = rs[receivedOf(r)].value
      BY <1>1, <3>2, <3>3 DEF SameValues
    <3>5. server[r].status = instalmentExpectedDateStatus(v, rs[receivedOf(r)].value)
      BY <1>2, <2>4, <3>4 DEF shownStatus
    <3> QED BY <1>3, <1>4, <2>4, <3>1, <3>5
  <2>5. CASE q \notin gateControllerRows(g) /\ q = r /\ r \notin Expected \cup Received
    <3>1. r # row("genre_head") BY <1>5, <2>5
    <3>2. statusOnEdit(rs, r, v) = itemStatusForValue(fieldType(r), v)
      BY <2>5, <3>1 DEF statusOnEdit
    <3>3. server[r].status = written[r].status BY <1>2, <2>5
    <3>4. screen[r].status = first[r].status BY <1>4, <2>5
    <3>5. server[r].status = itemStatusForValue(fieldType(r), v) BY <1>1, <3>2, <3>3
    <3>6. screen[r].status = optimisticFieldStatus(fieldType(r), v) BY <1>3, <2>5, <3>4
    <3> QED BY <2>5, <3>5, <3>6, WordsAgree
  <2> QED BY <1>5, <2>1, <2>2, <2>3, <2>4, <2>5
<1>11. /\ screen[q] = [value |-> screen[q].value, status |-> screen[q].status]
       /\ server[q] = [value |-> server[q].value, status |-> server[q].status]
  BY <1>2, <1>4, <1>7 DEF Shaped
<1>12. screen[q] = server[q] BY <1>9, <1>10, <1>11
<1> QED BY <1>12 DEF screen, server

\* The badges the browser paints at once are those the server answers, for any
\* instalments and after any edits, reads, nights and days.
THEOREM ScreensForetellServer == StatusesSpec => []ScreenForetellsServer
<1>1. StatusInv => ScreenForetellsServer
  BY ScreenIsServer DEF StatusInv, ScreenForetellsServer
<1> QED BY <1>1, StatusInvHolds, PTL

-----------------------------------------------------------------------------
\* EventForm.  The union of the sources of a requirement first, then requests.

\* A union of sources taken one after the other: the fold of the library has
\* these partial unions.
LEMMA UnionInTurn ==
  ASSUME NEW s
  PROVE  LET all == 1 .. Len(s)
         IN  (Len(s) \in Nat /\ DOMAIN s = all) =>
               \E soFar : /\ soFar[0] = <<>>
                          /\ \A i \in all : soFar[i] = joined(soFar[i - 1], s[i])
                          /\ aggregateRequirements(s) = soFar[Len(s)]
<1> SUFFICES ASSUME Len(s) \in Nat, DOMAIN s = 1 .. Len(s)
    PROVE  \E soFar : /\ soFar[0] = <<>>
                      /\ \A i \in 1 .. Len(s) : soFar[i] = joined(soFar[i - 1], s[i])
                      /\ aggregateRequirements(s) = soFar[Len(s)]
  OBVIOUS
<1> DEFINE Folds(g, T) ==
             g = [t \in SUBSET T |-> IF t = {} THEN <<>>
                                     ELSE joined(g[t \ {Max(t)}], s[Max(t)])]
           Folded == {n \in Nat : \E g : Folds(g, 1 .. n)}
<1>1. aggregateRequirements(s) = (CHOOSE g : Folds(g, DOMAIN s))[DOMAIN s]
  BY DEF aggregateRequirements, FoldLeft, MapThenFoldSet
<1>2. 0 \in Folded
  <2> DEFINE g == [t \in SUBSET (1 .. 0) |-> <<>>]
  <2>1. Folds(g, 1 .. 0) OBVIOUS
  <2> QED BY <2>1
<1>3. \A n \in Folded : n + 1 \in Folded
  <2> TAKE n \in Folded
  <2>1. PICK g : Folds(g, 1 .. n) OBVIOUS
  <2> DEFINE h == [t \in SUBSET (1 .. n + 1) |->
                     IF t \subseteq 1 .. n THEN g[t]
                     ELSE joined(g[t \ {n + 1}], s[n + 1])]
  <2>2. \A t \in SUBSET (1 .. n + 1) :
          h[t] = IF t = {} THEN <<>> ELSE joined(h[t \ {Max(t)}], s[Max(t)])
    <3> TAKE t \in SUBSET (1 .. n + 1)
    <3>1. CASE t \subseteq 1 .. n
      <4>1. t \ {Max(t)} \in SUBSET (1 .. n) /\ t \ {Max(t)} \in SUBSET (1 .. n + 1) BY <3>1
      <4>2. h[t] = g[t] /\ h[t \ {Max(t)}] = g[t \ {Max(t)}] BY <3>1, <4>1
      <4>3. g[t] = IF t = {} THEN <<>> ELSE joined(g[t \ {Max(t)}], s[Max(t)])
        BY <2>1, <3>1
      <4> QED BY <4>2, <4>3
    <3>2. CASE ~ (t \subseteq 1 .. n)
      <4>1. n + 1 \in t /\ n \in Nat BY <3>2
      <4>2. \A y \in t : y \in Int /\ y <= n + 1 BY <4>1
      <4>3. \A x \in t : (\A y \in t : x >= y) <=> x = n + 1 BY <4>1, <4>2
      <4>4. Max(t) = n + 1 BY <4>1, <4>3 DEF Max
      <4>5. t \ {n + 1} \in SUBSET (1 .. n) /\ t \ {n + 1} \in SUBSET (1 .. n + 1) BY <4>1
      <4>6. h[t] = joined(g[t \ {n + 1}], s[n + 1]) BY <3>2
      <4>7. h[t \ {n + 1}] = g[t \ {n + 1}] BY <4>5
      <4> QED BY <4>1, <4>4, <4>6, <4>7
    <3> QED BY <3>1, <3>2
  <2>3. Folds(h, 1 .. n + 1)
    <3> DEFINE k == [t \in SUBSET (1 .. n + 1) |-> IF t = {} THEN <<>>
                                     ELSE joined(h[t \ {Max(t)}], s[Max(t)])]
    <3>1. DOMAIN h = SUBSET (1 .. n + 1) /\ h = [t \in DOMAIN h |-> h[t]] OBVIOUS
    <3> HIDE DEF h
    <3>2. h = k BY <2>2, <3>1
    <3> QED BY <3>2
  <2>4. n + 1 \in Nat OBVIOUS
  <2> HIDE DEF h, Folds
  <2> QED BY <2>3, <2>4
<1>4. Len(s) \in Folded
  <2>1. Folded \in SUBSET Nat OBVIOUS
  <2> HIDE DEF Folded
  <2>2. Folded = Nat BY <1>2, <1>3, <2>1, AllNumbers
  <2> QED BY <2>2
<1> DEFINE iter == CHOOSE g : Folds(g, DOMAIN s)
<1>5. Folds(iter, DOMAIN s) BY <1>4
<1> DEFINE soFar == [i \in 0 .. Len(s) |-> iter[1 .. i]]
<1> HIDE DEF iter
<1>6. soFar[0] = <<>>
  <2>1. 1 .. 0 = {} /\ {} \in SUBSET (DOMAIN s) /\ 0 \in 0 .. Len(s) OBVIOUS
  <2>2. iter[{}] = <<>> BY <1>5, <2>1
  <2> QED BY <2>1, <2>2
<1>7. ASSUME NEW i \in 1 .. Len(s) PROVE soFar[i] = joined(soFar[i - 1], s[i])
  <2>1. 1 .. i \in SUBSET (DOMAIN s) /\ i \in 1 .. i /\ 1 .. i # {}
    <3>1. i \in Nat /\ 1 <= i /\ i <= Len(s) OBVIOUS
    <3>2. 1 .. i \subseteq 1 .. Len(s) BY <3>1
    <3>3. i \in 1 .. i BY <3>1
    <3> QED BY <3>2, <3>3
  <2>2. \A x \in 1 .. i : (\A y \in 1 .. i : x >= y) <=> x = i BY <2>1
  <2>3. Max(1 .. i) = i BY <2>1, <2>2 DEF Max
  <2>4. (1 .. i) \ {i} = 1 .. (i - 1) OBVIOUS
  <2>5. iter[1 .. i] = joined(iter[(1 .. i) \ {Max(1 .. i)}], s[Max(1 .. i)])
    BY <1>5, <2>1
  <2>6. iter[1 .. i] = joined(iter[1 .. (i - 1)], s[i]) BY <2>3, <2>4, <2>5
  <2> QED BY <2>6
<1>8. aggregateRequirements(s) = soFar[Len(s)] BY <1>1 DEF iter
<1> HIDE DEF soFar
<1> QED BY <1>6, <1>7, <1>8

LEMMA UnionStays ==
  ASSUME key' = key
  PROVE  \A s : aggregateRequirements(s)' = aggregateRequirements(s)
<1>1. ASSUME NEW current, NEW value PROVE joined(current, value)' = joined(current, value)
  BY DEF joined, JOINABLE
<1> QED BY <1>1 DEF aggregateRequirements, FoldLeft, MapThenFoldSet

\* What is typed is a sequence of words, and so is a union of sequences.
LEMMA TypedAreWords == Typed \subseteq Seq(Words)
<1> DEFINE most == IF key \in JOINABLE THEN MaxNames ELSE 1
<1> SUFFICES ASSUME NEW v \in Typed PROVE v \in Seq(Words)
  OBVIOUS
<1>1. most \in Nat BY FormAssumption
<1>2. v \in BoundedSeq(Words, most) BY DEF Typed
<1> HIDE DEF most
<1>3. PICK n \in 0 .. most : v \in [1 .. n -> Words]
  BY <1>2 DEF BoundedSeq, SeqOf
<1>4. n \in Nat BY <1>1
<1> QED BY <1>3, <1>4, SeqDef

\* The values of one name at most.
Single == {<<>>} \cup {<<n>> : n \in Words}

LEMMA SinglesAreWords == \A v \in Single : v \in Seq(Words) /\ Len(v) \in {0, 1}
<1> TAKE v \in Single
<1>1. CASE v = <<>> BY <1>1
<1>2. ASSUME NEW n \in Words, v = <<n>> PROVE v \in Seq(Words) /\ Len(v) \in {0, 1}
  BY <1>2
<1> QED BY <1>1, <1>2 DEF Single

LEMMA FirstIsNumber == \A c \in Seq(Words) : c # <<>> => c[1] \in Nat
<1> SUFFICES ASSUME NEW c \in Seq(Words), c # <<>> PROVE c[1] \in Nat
  OBVIOUS
<1>1. 1 \in 1 .. Len(c) BY EmptySeq
<1>2. c[1] \in Words BY <1>1, ElementOfSeq
<1> QED BY <1>2, FormAssumption

LEMMA JoinedWords ==
  ASSUME NEW c \in Seq(Words), NEW v \in Seq(Words)
  PROVE  joined(c, v) \in Seq(Words)
<1>1. c \o v \in Seq(Words) BY ConcatProperties
<1> QED BY <1>1 DEF joined

\* A value joined with itself is itself; a source of one name, joined once, is
\* not joined again, whatever is joined in between.
LEMMA JoinedWithItself == \A v \in Seq(Words) : joined(v, v) = v
<1> SUFFICES ASSUME NEW v \in Seq(Words) PROVE joined(v, v) = v
  OBVIOUS
<1>1. v # <<>> => v[1] \in Nat BY FirstIsNumber
<1>2. v # <<>> => ~(v[1] > v[1]) BY <1>1
<1> QED BY <1>2 DEF joined

LEMMA JoinedTwice ==
  ASSUME NEW c \in Seq(Words), NEW v \in Single
  PROVE  joined(joined(c, v), v) = joined(c, v)
<1>1. v \in Seq(Words) /\ Len(v) \in {0, 1} BY SinglesAreWords
<1>2. CASE v = <<>> BY <1>2 DEF joined
<1>3. CASE v # <<>>
  <2>1. PICK n \in Words : v = <<n>> BY <1>3 DEF Single
  <2>2. v[1] = n /\ Len(v) = 1 /\ n \in Nat BY <2>1, FormAssumption
  <2>3. CASE c = <<>>
    <3>1. joined(c, v) = v BY <1>3, <2>3 DEF joined
    <3>2. Contains(v, v[1]) BY <2>1, <2>2 DEF Contains
    <3>3. joined(v, v) = v BY <1>3, <2>2, <3>2 DEF joined
    <3> QED BY <3>1, <3>3
  <2>4. CASE c # <<>>
    <3>1. CASE key = "crew_cards"
      <4>1. joined(c, v) = v \/ joined(c, v) = c BY <1>3, <2>4, <3>1 DEF joined
      <4>2. joined(c, v) = v => joined(v, v) = v BY <1>3, <3>1, <2>2 DEF joined
      <4> QED BY <4>1, <4>2
    <3>2. CASE key # "crew_cards" /\ key \in JOINABLE /\ ~(Len(v) = 1 /\ Contains(c, v[1])) /\ v # c
      <4>1. joined(c, v) = c \o v BY <1>3, <2>4, <3>2 DEF joined
      <4>2. Len(c \o v) = Len(c) + 1 /\ (c \o v)[Len(c) + 1] = n /\ Len(c) \in Nat
        BY <1>1, <2>1
      <4>3. Contains(c \o v, v[1])
        <5>1. Len(c) + 1 \in 1 .. Len(c \o v) BY <4>2
        <5> QED BY <2>2, <4>2, <5>1 DEF Contains
      <4>4. c \o v # <<>> BY <4>2
      <4>5. joined(c \o v, v) = c \o v BY <1>3, <2>2, <3>2, <4>3, <4>4 DEF joined
      <4> QED BY <4>1, <4>5
    <3>3. CASE key # "crew_cards" /\ ~(key \in JOINABLE /\ ~(Len(v) = 1 /\ Contains(c, v[1])) /\ v # c)
      <4>1. joined(c, v) = c BY <1>3, <2>4, <3>3 DEF joined
      <4> QED BY <4>1
    <3> QED BY <3>1, <3>2, <3>3
  <2> QED BY <2>3, <2>4
<1> QED BY <1>2, <1>3

LEMMA JoinedStays ==
  ASSUME NEW c \in Seq(Words), NEW v \in Single, NEW w \in Single, joined(c, v) = c
  PROVE  joined(joined(c, w), v) = joined(c, w)
<1>1. v \in Seq(Words) /\ w \in Seq(Words) /\ Len(v) \in {0, 1} BY SinglesAreWords
<1>2. CASE v = <<>> BY <1>2 DEF joined
<1>3. CASE v # <<>>
  <2>1. PICK n \in Words : v = <<n>> BY <1>3 DEF Single
  <2>2. v[1] = n /\ Len(v) = 1 /\ n \in Nat BY <2>1, FormAssumption
  <2>3. c # <<>> BY <1>3 DEF joined
  <2>4. CASE joined(c, w) = c BY <2>4
  <2>5. CASE joined(c, w) # c
    <3>1. w # <<>> BY <2>5 DEF joined
    <3>2. CASE key = "crew_cards"
      <4>1. joined(c, w) = w /\ w[1] > c[1] BY <2>3, <2>5, <3>1, <3>2 DEF joined
      <4>2. v[1] <= c[1]
        <5>1. c[1] \in Nat BY <2>3, FirstIsNumber
        <5>2. CASE v[1] > c[1]
          <6>1. joined(c, v) = v BY <1>3, <2>3, <3>2, <5>2 DEF joined
          <6> QED BY <5>1, <5>2, <6>1, <2>2
        <5> QED BY <2>2, <5>1, <5>2
      <4>3. c[1] \in Nat /\ w[1] \in Nat BY <1>1, <2>3, <3>1, FirstIsNumber
      <4>4. ~(v[1] > w[1]) BY <4>1, <4>2, <4>3, <2>2
      <4>5. joined(w, v) = w BY <1>3, <3>1, <3>2, <4>4 DEF joined
      <4> QED BY <4>1, <4>5
    <3>3. CASE key # "crew_cards"
      <4>1. key \in JOINABLE /\ joined(c, w) = c \o w
        BY <2>3, <2>5, <3>1, <3>3 DEF joined
      <4>2. Contains(c, n)
        <5>1. CASE v = c
          <6>1. 1 \in 1 .. Len(v) BY <2>2
          <6> QED BY <2>2, <5>1, <6>1 DEF Contains
        <5>2. CASE v # c
          <6>1. SUFFICES ASSUME ~Contains(c, n) PROVE FALSE OBVIOUS
          <6>2. joined(c, v) = c \o v
            BY <1>3, <2>2, <2>3, <3>3, <4>1, <5>2, <6>1 DEF joined
          <6>3. Len(c \o v) = Len(c) + Len(v) BY <1>1, ConcatProperties
          <6>4. Len(c) \in Nat BY LenProperties
          <6> QED BY <2>2, <6>2, <6>3, <6>4
        <5> QED BY <5>1, <5>2
      <4>3. Contains(c \o w, n)
        <5>1. PICK i \in 1 .. Len(c) : c[i] = n BY <4>2 DEF Contains
        <5>2. (c \o w)[i] = n /\ i \in 1 .. Len(c \o w) BY <1>1, <5>1
        <5> QED BY <5>2 DEF Contains
      <4>4. c \o w # <<>>
        <5>1. Len(c \o w) = Len(c) + Len(w) /\ Len(c) > 0 /\ Len(w) \in Nat BY <1>1, <2>3
        <5> QED BY <5>1
      <4>5. joined(c \o w, v) = c \o w BY <1>3, <2>2, <3>3, <4>3, <4>4 DEF joined
      <4> QED BY <4>1, <4>5
    <3> QED BY <3>2, <3>3
  <2> QED BY <2>4, <2>5
<1> QED BY <1>2, <1>3

\* A union of sequences of words, and each partial one, is a sequence of words.
LEMMA UnionOfWords ==
  ASSUME NEW s \in Seq(Seq(Words))
  PROVE  /\ aggregateRequirements(s) \in Seq(Words)
         /\ \E soFar : /\ soFar[0] = <<>>
                       /\ \A i \in 1 .. Len(s) : soFar[i] = joined(soFar[i - 1], s[i])
                       /\ \A i \in 0 .. Len(s) : soFar[i] \in Seq(Words)
                       /\ aggregateRequirements(s) = soFar[Len(s)]
<1> DEFINE n == Len(s)
<1>1. n \in Nat /\ DOMAIN s = 1 .. n /\ \A i \in 1 .. n : s[i] \in Seq(Words)
  OBVIOUS
<1>2. PICK one : /\ one[0] = <<>>
                 /\ \A i \in 1 .. n : one[i] = joined(one[i - 1], s[i])
                 /\ aggregateRequirements(s) = one[n]
  BY <1>1, UnionInTurn
<1> DEFINE WordsSo == {k \in Nat : k <= n => one[k] \in Seq(Words)}
<1>3. 0 \in WordsSo
  <2>1. <<>> \in Seq(Words) OBVIOUS
  <2> QED BY <1>2, <2>1
<1>4. ASSUME NEW k \in WordsSo PROVE k + 1 \in WordsSo
  <2> SUFFICES ASSUME k + 1 <= n PROVE one[k + 1] \in Seq(Words)
    OBVIOUS
  <2>1. k \in Nat /\ one[k] \in Seq(Words) /\ k + 1 \in 1 .. n /\ (k + 1) - 1 = k BY <1>1
  <2>2. one[k + 1] = joined(one[k], s[k + 1]) BY <1>2, <2>1
  <2> QED BY <1>1, <2>1, <2>2, JoinedWords
<1>5. WordsSo = Nat
  <2>1. WordsSo \in SUBSET Nat OBVIOUS
  <2> HIDE DEF WordsSo
  <2> QED BY <1>3, <1>4, <2>1, AllNumbers
<1>6. \A i \in 0 .. n : one[i] \in Seq(Words) BY <1>1, <1>5
<1>7. aggregateRequirements(s) \in Seq(Words) BY <1>1, <1>2, <1>6
<1> QED BY <1>2, <1>6, <1>7

\* The union of single names, taken once more with itself in front, is the
\* same.
LEMMA UnionOfSingles ==
  ASSUME NEW s \in Seq(Single)
  PROVE  aggregateRequirements(<<aggregateRequirements(s)>> \o s) = aggregateRequirements(s)
<1> DEFINE all == aggregateRequirements(s)
           twice == <<all>> \o s
           n == Len(s)
<1>1. n \in Nat /\ DOMAIN s = 1 .. n /\ \A i \in 1 .. n : s[i] \in Single
  OBVIOUS
<1>2. s \in Seq(Seq(Words)) BY <1>1, SinglesAreWords
<1>3. PICK one : /\ one[0] = <<>>
                 /\ \A i \in 1 .. n : one[i] = joined(one[i - 1], s[i])
                 /\ \A i \in 0 .. n : one[i] \in Seq(Words)
                 /\ all = one[n]
  BY <1>2, UnionOfWords
<1>4. all \in Seq(Words) BY <1>1, <1>3
\* A source is absorbed from where it is joined.
<1>5. ASSUME NEW i \in 1 .. n PROVE joined(all, s[i]) = all
  <2> DEFINE Absorbed == {k \in Nat : i + k <= n => joined(one[i + k], s[i]) = one[i + k]}
  <2>1. 0 \in Absorbed
    <3>1. i + 0 = i /\ i - 1 \in 0 .. n BY <1>1
    <3>2. one[i] = joined(one[i - 1], s[i]) /\ one[i - 1] \in Seq(Words) /\ s[i] \in Single
      BY <1>1, <1>3, <3>1
    <3>3. joined(one[i], s[i]) = one[i] BY <3>2, JoinedTwice
    <3> QED BY <3>1, <3>3
  <2>2. ASSUME NEW k \in Absorbed PROVE k + 1 \in Absorbed
    <3> SUFFICES ASSUME i + (k + 1) <= n
        PROVE  joined(one[i + (k + 1)], s[i]) = one[i + (k + 1)]
      OBVIOUS
    <3>1. /\ k \in Nat /\ i + k \in 0 .. n /\ i + (k + 1) \in 1 .. n
          /\ (i + (k + 1)) - 1 = i + k
      BY <1>1
    <3>2. joined(one[i + k], s[i]) = one[i + k] BY <3>1
    <3>3. one[i + (k + 1)] = joined(one[i + k], s[i + (k + 1)]) BY <1>3, <3>1
    <3>4. one[i + k] \in Seq(Words) /\ s[i] \in Single /\ s[i + (k + 1)] \in Single
      BY <1>1, <1>3, <3>1
    <3> QED BY <3>2, <3>3, <3>4, JoinedStays
  <2>3. Absorbed \in SUBSET Nat OBVIOUS
  <2> HIDE DEF Absorbed
  <2>4. Absorbed = Nat BY <2>1, <2>2, <2>3, AllNumbers
  <2> USE DEF Absorbed
  <2>5. n - i \in Nat /\ i + (n - i) = n BY <1>1
  <2>6. n - i \in Absorbed BY <2>4, <2>5
  <2> QED BY <1>3, <2>5, <2>6
<1>6. /\ Len(twice) = n + 1 /\ DOMAIN twice = 1 .. n + 1
      /\ twice[1] = all /\ \A i \in 1 .. n : twice[i + 1] = s[i]
  <2> HIDE DEF all
  <2>1. <<all>> \in Seq(Seq(Words)) /\ Len(<<all>>) = 1 BY <1>4
  <2> QED BY <1>1, <1>2, <2>1
<1>7. PICK two : /\ two[0] = <<>>
                 /\ \A i \in 1 .. Len(twice) : two[i] = joined(two[i - 1], twice[i])
                 /\ aggregateRequirements(twice) = two[Len(twice)]
  <2> HIDE DEF twice, all, n
  <2>1. Len(twice) \in Nat /\ DOMAIN twice = 1 .. Len(twice) BY <1>1, <1>6
  <2> QED BY <2>1, UnionInTurn
<1> HIDE DEF twice
<1> DEFINE United == {k \in Nat : k <= n => two[k + 1] = all}
<1>8. 0 \in United
  <2>1. 1 \in 1 .. Len(twice) /\ 1 - 1 = 0 /\ 0 + 1 = 1 BY <1>1, <1>6
  <2>2. two[1] = joined(two[0], twice[1]) BY <1>7, <2>1
  <2>3. two[1] = joined(<<>>, all) BY <1>6, <1>7, <2>2
  <2>4. joined(<<>>, all) = all BY DEF joined
  <2> QED BY <2>1, <2>3, <2>4
<1>9. ASSUME NEW k \in United PROVE k + 1 \in United
  <2> SUFFICES ASSUME k + 1 <= n PROVE two[(k + 1) + 1] = all
    OBVIOUS
  <2>1. /\ k \in Nat /\ k + 1 \in 1 .. n /\ (k + 1) + 1 \in 1 .. Len(twice)
        /\ ((k + 1) + 1) - 1 = k + 1
    BY <1>1, <1>6
  <2>2. two[k + 1] = all BY <2>1
  <2>3. two[(k + 1) + 1] = joined(two[k + 1], twice[(k + 1) + 1]) BY <1>7, <2>1
  <2>4. twice[(k + 1) + 1] = s[k + 1] BY <1>6, <2>1
  <2> QED BY <1>5, <2>1, <2>2, <2>3, <2>4
<1>10. United \in SUBSET Nat OBVIOUS
<1>11. n \in United
  <2> HIDE DEF United
  <2> QED BY <1>1, <1>8, <1>9, <1>10, AllNumbers
<1>12. aggregateRequirements(twice) = all BY <1>1, <1>6, <1>7, <1>11
<1> QED BY <1>12 DEF twice

\* Sources that are one value or blank unite to that value if any has it.
LEMMA UnionOfAlike ==
  ASSUME NEW s, NEW v, Len(s) \in Nat, DOMAIN s = 1 .. Len(s),
         \A i \in DOMAIN s : s[i] = v \/ s[i] = <<>>, joined(v, v) = v
  PROVE  aggregateRequirements(s) = IF \E i \in DOMAIN s : s[i] = v THEN v ELSE <<>>
<1> DEFINE n == Len(s)
           upTo(k) == IF \E i \in 1 .. k : s[i] = v THEN v ELSE <<>>
<1>1. PICK one : /\ one[0] = <<>>
                 /\ \A i \in 1 .. n : one[i] = joined(one[i - 1], s[i])
                 /\ aggregateRequirements(s) = one[n]
  BY UnionInTurn
<1> DEFINE AlikeSo == {k \in Nat : k <= n => one[k] = upTo(k)}
<1>2. 0 \in AlikeSo BY <1>1
<1>3. ASSUME NEW k \in AlikeSo PROVE k + 1 \in AlikeSo
  <2> SUFFICES ASSUME k + 1 <= n PROVE one[k + 1] = upTo(k + 1)
    OBVIOUS
  <2>1. k \in Nat /\ k + 1 \in 1 .. n /\ (k + 1) - 1 = k /\ one[k] = upTo(k)
    OBVIOUS
  <2>2. one[k + 1] = joined(upTo(k), s[k + 1]) BY <1>1, <2>1
  <2>3. 1 .. k + 1 = (1 .. k) \cup {k + 1} BY <2>1
  <2>4. s[k + 1] = v \/ s[k + 1] = <<>> BY <2>1
  <2>5. CASE s[k + 1] = v
    <3>1. upTo(k + 1) = v BY <2>3, <2>5
    <3>2. upTo(k) = v \/ upTo(k) = <<>> OBVIOUS
    <3>3. joined(<<>>, v) = v BY DEF joined
    <3> HIDE DEF upTo
    <3> QED BY <2>2, <2>5, <3>1, <3>2, <3>3
  <2>6. CASE s[k + 1] # v
    <3>1. upTo(k + 1) = upTo(k) BY <2>3, <2>6
    <3>2. s[k + 1] = <<>> BY <2>4, <2>6
    <3>3. joined(upTo(k), <<>>) = upTo(k) BY DEF joined
    <3> HIDE DEF upTo
    <3> QED BY <2>2, <3>1, <3>2, <3>3
  <2> QED BY <2>5, <2>6
<1>4. AlikeSo = Nat
  <2>1. AlikeSo \in SUBSET Nat OBVIOUS
  <2> HIDE DEF AlikeSo
  <2> QED BY <1>2, <1>3, <2>1, AllNumbers
<1>5. one[n] = upTo(n) BY <1>4
<1> QED BY <1>1, <1>5

LEMMA UnionOfOne ==
  ASSUME NEW s, NEW v, Len(s) \in Nat, DOMAIN s = 1 .. Len(s),
         \A i \in DOMAIN s : s[i] = v, joined(v, v) = v
  PROVE  /\ aggregateRequirements(s) = <<>> \/ aggregateRequirements(s) = v
         /\ s # <<>> => aggregateRequirements(s) = v
         /\ s = <<>> => aggregateRequirements(s) = <<>>
<1>1. aggregateRequirements(s) = IF \E i \in DOMAIN s : s[i] = v THEN v ELSE <<>>
  BY UnionOfAlike
<1>2. s # <<>> => 1 \in DOMAIN s
  <2> SUFFICES ASSUME Len(s) = 0 PROVE s = <<>>
    OBVIOUS
  <2> QED BY EmptySeq
<1>3. s = <<>> => DOMAIN s = {} OBVIOUS
<1> QED BY <1>1, <1>2, <1>3

\* And so that union too is the same with itself in front.
LEMMA AlikeAgain ==
  ASSUME NEW s \in Seq(Seq(Words)), NEW v \in Seq(Words),
         \A i \in DOMAIN s : s[i] = v \/ s[i] = <<>>
  PROVE  aggregateRequirements(<<aggregateRequirements(s)>> \o s) = aggregateRequirements(s)
<1> DEFINE all == aggregateRequirements(s)
           twice == <<all>> \o s
           n == Len(s)
<1>1. n \in Nat /\ DOMAIN s = 1 .. n OBVIOUS
<1>2. joined(v, v) = v /\ joined(<<>>, <<>>) = <<>>
  BY JoinedWithItself DEF joined
<1>3. all = IF \E i \in DOMAIN s : s[i] = v THEN v ELSE <<>>
  BY <1>1, <1>2, UnionOfAlike
<1>4. /\ Len(twice) = n + 1 /\ DOMAIN twice = 1 .. n + 1
      /\ twice[1] = all /\ \A i \in 1 .. n : twice[i + 1] = s[i]
  <2>1. <<>> \in Seq(Words) OBVIOUS
  <2>2. all \in Seq(Words) BY <1>3, <2>1
  <2>3. s \in Seq(Seq(Words)) OBVIOUS
  <2> HIDE DEF all
  <2>4. <<all>> \in Seq(Seq(Words)) /\ Len(<<all>>) = 1 BY <2>2
  <2> QED BY <1>1, <2>3, <2>4
<1> HIDE DEF all, twice
<1>5. \A i \in DOMAIN twice : twice[i] = all \/ \E j \in DOMAIN s : twice[i] = s[j]
  <2> SUFFICES ASSUME NEW i \in DOMAIN twice, i # 1
               PROVE  \E j \in DOMAIN s : twice[i] = s[j]
    BY <1>4
  <2>1. i - 1 \in 1 .. n /\ (i - 1) + 1 = i BY <1>1, <1>4
  <2> QED BY <1>1, <1>4, <2>1
<1>6. CASE \E i \in DOMAIN s : s[i] = v
  <2>1. all = v BY <1>3, <1>6
  <2>2. \A i \in DOMAIN twice : twice[i] = v \/ twice[i] = <<>> BY <1>5, <2>1
  <2>3. 1 \in DOMAIN twice /\ twice[1] = v BY <1>1, <1>4, <2>1
  <2>4. Len(twice) \in Nat /\ DOMAIN twice = 1 .. Len(twice) BY <1>1, <1>4
  <2>5. aggregateRequirements(twice) =
          IF \E i \in DOMAIN twice : twice[i] = v THEN v ELSE <<>>
    BY <1>2, <2>2, <2>4, UnionOfAlike
  <2>6. aggregateRequirements(twice) = v BY <2>3, <2>5
  <2> QED BY <2>1, <2>6 DEF twice, all
<1>7. CASE ~\E i \in DOMAIN s : s[i] = v
  <2>1. all = <<>> BY <1>3, <1>7
  <2>2. \A i \in DOMAIN twice : twice[i] = <<>> BY <1>5, <1>7, <2>1
  <2>3. Len(twice) \in Nat /\ DOMAIN twice = 1 .. Len(twice) BY <1>1, <1>4
  <2>4. aggregateRequirements(twice) = <<>> BY <1>2, <2>2, <2>3, UnionOfOne
  <2> QED BY <2>1, <2>4 DEF twice, all
<1> QED BY <1>6, <1>7

-----------------------------------------------------------------------------
\* EventForm.  A requirement is a sequence of words wherever it is; a request is
\* where the code can be.
Reading(p) == p.op = "read" /\ p = [op |-> "read", alone |-> p.alone]

Copying(p) ==
  /\ p.op = "copy"
  /\ p = [op |-> "copy", alone |-> p.alone, value |-> p.value,
          keep |-> p.keep, copied |-> p.copied]
  /\ p.value \in Seq(Words)

Mirroring(p) ==
  /\ p.op \in {"event", "venues"}
  /\ p = [op |-> p.op, alone |-> p.alone, value |-> p.value]
  /\ p.value \in Seq(Words)

FormTypes ==
  /\ key \in Keys
  /\ event \in Seq(Words) /\ item \in Seq(Words) /\ venues \in Seq(Seq(Words))
  /\ syncing = [r \in Requests |-> syncing[r]]
  /\ \A r \in Requests :
       syncing[r] = Idle \/ Reading(syncing[r]) \/ Copying(syncing[r])
         \/ Mirroring(syncing[r])

\* The columns are as a save leaves them: the bookings' values united, the
\* event's own keys with it alone.
ColumnsAreSaved ==
  IF eventLevel THEN venues = <<>> ELSE event = aggregateRequirements(venues)

\* What a request that has run alone has done so far, and will do from what it
\* holds.
AloneSoFar(p) ==
  /\ p.op \in {"read", "copy"} => ColumnsAreSaved
  /\ p.op = "copy" =>
       /\ p.value = aggregateRequirements(<<event>> \o venues)
       /\ p.copied = (p.value # <<>> /\ (key = "catering_provider" => sitDown))
  /\ p.op \in {"event", "venues"} => item = p.value
  /\ p.op = "venues" => ~eventLevel /\ event = p.value /\ p.value # <<>>

\* A request marked alone is the only one; after an overlap or a death some
\* time has to pass until one is.
AloneIsAlone ==
  \A r \in Requests : syncing[r].op # "none" =>
    /\ syncing[r].alone \in BOOLEAN
    /\ ~overlapped => syncing[r].alone
    /\ syncing[r].alone => /\ \A q \in Requests \ {r} : syncing[q] = Idle
                           /\ AloneSoFar(syncing[r])

\* A section that was marked with no save in progress stays so: a save that has
\* read it since keeps it.
MarkedIsKept ==
  /\ marked \in Verdicts \cup {"none"}
  /\ marked # "none" =>
       /\ section = marked
       /\ \A r \in Requests : syncing[r].op = "copy" => syncing[r].keep

FormAgrees ==
  bothSettled /\ ~joinsWithin => formShows = item

FormInv == FormTypes /\ AloneIsAlone /\ MarkedIsKept /\ FormAgrees

FormSpec == FormInit /\ [][FormNext]_formVars

\* What the form shows of columns as a save or a mirror leaves them.
LEMMA ShowsSaved ==
  ASSUME FormTypes, ~eventLevel, event = aggregateRequirements(venues)
  PROVE  formShows = <<>> \/ formShows = event
<1> DEFINE padded == IF venues = <<>> THEN << <<>> >> ELSE venues
<1>1. formShows = aggregateRequirements(hydrated) BY DEF formShows
<1>2. CASE \A i \in DOMAIN venues : venues[i] = <<>>
  <2>1. /\ hydrated = [padded EXCEPT ![1] = event]
        /\ DOMAIN padded = 1 .. Len(padded) /\ Len(padded) \in Nat
        /\ padded # <<>> /\ \A i \in DOMAIN padded : padded[i] = <<>>
    <3>1. \A i \in DOMAIN padded : padded[i] = <<>> BY <1>2
    <3>2. padded \in Seq(Seq(Words))
      <4>1. <<>> \in Seq(Words) OBVIOUS
      <4>2. << <<>> >> \in Seq(Seq(Words)) BY <4>1
      <4> QED BY <4>2 DEF FormTypes
    <3>3. padded # <<>> OBVIOUS
    <3>4. hydrated = [padded EXCEPT ![1] = event] BY <3>1 DEF hydrated
    <3> HIDE DEF padded
    <3>5. DOMAIN padded = 1 .. Len(padded) /\ Len(padded) \in Nat
      BY <3>2, LenProperties
    <3> QED BY <3>1, <3>3, <3>4, <3>5
  <2>2. event = <<>>
    <3>1. Len(venues) \in Nat /\ DOMAIN venues = 1 .. Len(venues) BY DEF FormTypes
    <3>2. joined(<<>>, <<>>) = <<>> BY DEF joined
    <3> QED BY <1>2, <3>1, <3>2, UnionOfOne
  <2>3. /\ DOMAIN hydrated = DOMAIN padded
        /\ \A i \in DOMAIN hydrated : hydrated[i] = <<>>
    <3> HIDE DEF padded
    <3> QED BY <2>1, <2>2
  <2>4. Len(hydrated) = Len(padded)
    <3> HIDE DEF padded
    <3> QED BY <2>1, <2>3
  <2>5. joined(<<>>, <<>>) = <<>> BY DEF joined
  <2>6. aggregateRequirements(hydrated) = <<>>
    <3> HIDE DEF padded
    <3>1. Len(hydrated) \in Nat /\ DOMAIN hydrated = 1 .. Len(hydrated) BY <2>1, <2>3, <2>4
    <3> QED BY <2>3, <2>5, <3>1, UnionOfOne
  <2> QED BY <1>1, <2>6
<1>3. CASE \E i \in DOMAIN venues : venues[i] # <<>>
  <2>1. venues # <<>> BY <1>3
  <2>2. hydrated = venues BY <1>3, <2>1 DEF hydrated
  <2> QED BY <1>1, <2>2
<1> QED BY <1>2, <1>3

AllAlike ==
  /\ venues \in Seq(Seq(Words)) /\ event \in Seq(Words) /\ event # <<>>
  /\ \A i \in DOMAIN venues : venues[i] = event

LEMMA ShowsMirrored == ~eventLevel /\ AllAlike => formShows = event
<1> SUFFICES ASSUME ~eventLevel, AllAlike PROVE formShows = event
  OBVIOUS
<1> USE DEF AllAlike
<1> DEFINE padded == IF venues = <<>> THEN << <<>> >> ELSE venues
<1>1. formShows = aggregateRequirements(hydrated) BY DEF formShows
<1>2. joined(event, event) = event BY JoinedWithItself
<1>3. CASE venues = <<>>
  <2>1. hydrated = <<event>> BY <1>3 DEF hydrated
  <2>2. /\ Len(<<event>>) = 1 /\ DOMAIN <<event>> = 1 .. 1 /\ <<event>> # <<>>
        /\ \A i \in 1 .. 1 : <<event>>[i] = event
    OBVIOUS
  <2>3. aggregateRequirements(<<event>>) = event BY <1>2, <2>2, UnionOfOne
  <2> QED BY <1>1, <2>1, <2>3
<1>4. CASE venues # <<>>
  <2>1. Len(venues) \in Nat /\ DOMAIN venues = 1 .. Len(venues) OBVIOUS
  <2>2. 1 \in DOMAIN venues BY <1>4, EmptySeq
  <2>3. hydrated = venues BY <1>4, <2>2 DEF hydrated
  <2>4. aggregateRequirements(venues) = event BY <1>2, <1>4, <2>1, UnionOfOne
  <2> QED BY <1>1, <2>3, <2>4
<1> QED BY <1>3, <1>4

\* A request that ends, or dies, leaves nobody who is alone: if time starts to
\* count again it was alone itself, and did all it had to.
LEMMA RequestLeaves ==
  ASSUME FormTypes, AloneIsAlone, NEW r \in Requests, syncing[r].op # "none",
         syncing' = [syncing EXCEPT ![r] = Idle],
         overlapped' \/ overlapped' = (overlapped /\ ~syncing[r].alone)
  PROVE  /\ AloneIsAlone'
         /\ syncing' = [q \in Requests |-> syncing'[q]]
         /\ \A q \in Requests : syncing'[q] = Idle \/ syncing'[q] = syncing[q]
         /\ ~overlapped' => syncing[r].alone /\ AloneSoFar(syncing[r])
<1>1. DOMAIN syncing = Requests BY DEF FormTypes
<1>2. /\ syncing'[r] = Idle
      /\ \A q \in Requests \ {r} : syncing'[q] = syncing[q]
      /\ syncing' = [q \in Requests |-> syncing'[q]]
  BY <1>1
<1>3. \A q \in Requests \ {r} : syncing[q].op # "none" => overlapped' /\ ~syncing[q].alone
  <2> SUFFICES ASSUME NEW q \in Requests \ {r}, syncing[q].op # "none"
               PROVE  overlapped' /\ ~syncing[q].alone
    OBVIOUS
  <2>1. syncing[r] # Idle /\ syncing[q] # Idle BY DEF Idle
  <2>2. ~syncing[r].alone /\ ~syncing[q].alone BY <2>1 DEF AloneIsAlone
  <2>3. overlapped BY <2>2 DEF AloneIsAlone
  <2> QED BY <2>2, <2>3
<1>4. AloneIsAlone'
  <2> SUFFICES ASSUME NEW q \in Requests, syncing'[q].op # "none"
               PROVE  /\ syncing'[q].alone \in BOOLEAN
                      /\ overlapped' /\ ~syncing'[q].alone
    BY DEF AloneIsAlone
  <2>1. q # r BY <1>2 DEF Idle
  <2>2. syncing'[q] = syncing[q] BY <1>2, <2>1
  <2>3. syncing[q].alone \in BOOLEAN BY <2>2 DEF AloneIsAlone
  <2> QED BY <1>3, <2>1, <2>2, <2>3
<1>5. ~overlapped' => syncing[r].alone /\ AloneSoFar(syncing[r])
  <2>1. syncing[r].alone => AloneSoFar(syncing[r]) BY DEF AloneIsAlone
  <2>2. ~overlapped => syncing[r].alone BY DEF AloneIsAlone
  <2> QED BY <2>1, <2>2
<1> QED BY <1>2, <1>4, <1>5

\* A request that goes on is alone if it was, and does as it should.
LEMMA RequestMoves ==
  ASSUME FormTypes, AloneIsAlone, NEW r \in Requests, syncing[r].op # "none",
         NEW p, syncing' = [syncing EXCEPT ![r] = p],
         p.op # "none", p.alone = syncing[r].alone,
         overlapped' = overlapped, syncing[r].alone => AloneSoFar(syncing[r])'
  PROVE  /\ AloneIsAlone'
         /\ syncing' = [q \in Requests |-> syncing'[q]]
         /\ syncing'[r] = p
         /\ \A q \in Requests \ {r} : syncing'[q] = syncing[q]
<1>1. DOMAIN syncing = Requests BY DEF FormTypes
<1>2. /\ syncing'[r] = p
      /\ \A q \in Requests \ {r} : syncing'[q] = syncing[q]
      /\ syncing' = [q \in Requests |-> syncing'[q]]
  BY <1>1
<1>3. AloneIsAlone'
  <2> SUFFICES ASSUME NEW q \in Requests, syncing'[q].op # "none"
      PROVE  /\ syncing'[q].alone \in BOOLEAN
             /\ ~overlapped' => syncing'[q].alone
             /\ syncing'[q].alone => /\ \A z \in Requests \ {q} : syncing'[z] = Idle
                                     /\ AloneSoFar(syncing[q])'
    BY DEF AloneIsAlone
  <2>1. CASE q = r
    <3>1. /\ syncing[r].alone \in BOOLEAN
          /\ ~overlapped => syncing[r].alone
          /\ syncing[r].alone => \A z \in Requests \ {r} : syncing[z] = Idle
      BY DEF AloneIsAlone
    <3> QED BY <1>2, <2>1, <3>1
  <2>2. CASE q # r
    <3>1. syncing'[q] = syncing[q] BY <1>2, <2>2
    <3>2. /\ syncing[q].alone \in BOOLEAN
          /\ ~overlapped => syncing[q].alone
          /\ syncing[q].alone => syncing[r] = Idle
      BY <2>2, <3>1 DEF AloneIsAlone
    <3>3. syncing[r] # Idle BY DEF Idle
    <3> QED BY <3>1, <3>2, <3>3
  <2> QED BY <2>1, <2>2
<1> QED BY <1>2, <1>3

\* A request that begins is alone if there is no other, and then does as it
\* should; the others are where they were and not alone.
LEMMA RequestBegins ==
  ASSUME FormTypes, AloneIsAlone, NEW r \in Requests, syncing[r].op = "none",
         NEW p, begin(r, p), p.op # "none", p.alone = ~Busy,
         ~Busy => AloneSoFar(syncing[r])'
  PROVE  /\ AloneIsAlone'
         /\ syncing' = [q \in Requests |-> syncing'[q]]
         /\ syncing'[r] = p
         /\ \A q \in Requests \ {r} :
              syncing'[q] = IF syncing[q].op = "none" THEN Idle
                            ELSE [syncing[q] EXCEPT !.alone = FALSE]
<1>1. /\ syncing'[r] = p
      /\ \A q \in Requests \ {r} :
           syncing'[q] = IF syncing[q].op = "none" THEN Idle
                         ELSE [syncing[q] EXCEPT !.alone = FALSE]
      /\ syncing' = [q \in Requests |-> syncing'[q]]
      /\ overlapped' = (overlapped \/ Busy)
  BY DEF begin
<1>2. \A q \in Requests \ {r} :
        syncing'[q].op # "none" => syncing[q].op # "none" /\ syncing'[q].alone = FALSE
  <2> SUFFICES ASSUME NEW q \in Requests \ {r}, syncing'[q].op # "none"
      PROVE  syncing[q].op # "none" /\ syncing'[q].alone = FALSE
    OBVIOUS
  <2>1. syncing[q].op # "none" BY <1>1 DEF Idle
  <2>2. syncing'[q] = [syncing[q] EXCEPT !.alone = FALSE] BY <1>1, <2>1
  <2>3. "alone" \in DOMAIN syncing[q]
    BY <2>1 DEF FormTypes, Idle, Reading, Copying, Mirroring
  <2> QED BY <2>1, <2>2, <2>3
<1>3. AloneIsAlone'
  <2> SUFFICES ASSUME NEW q \in Requests, syncing'[q].op # "none"
      PROVE  /\ syncing'[q].alone \in BOOLEAN
             /\ ~overlapped' => syncing'[q].alone
             /\ syncing'[q].alone => /\ \A z \in Requests \ {q} : syncing'[z] = Idle
                                     /\ AloneSoFar(syncing[q])'
    BY DEF AloneIsAlone
  <2>1. CASE q = r
    <3>1. p.alone \in BOOLEAN BY DEF Busy
    <3>2. ~Busy => \A z \in Requests \ {q} : syncing'[z] = Idle
      BY <1>1, <2>1 DEF Busy
    <3> QED BY <1>1, <2>1, <3>1, <3>2
  <2>2. CASE q # r
    <3>1. syncing[q].op # "none" /\ syncing'[q].alone = FALSE BY <1>2, <2>2
    <3>2. Busy BY <3>1 DEF Busy
    <3> QED BY <1>1, <3>1, <3>2
  <2> QED BY <2>1, <2>2
<1> QED BY <1>1, <1>3

\* The bookings after a mirror.
LEMMA MirroredEverywhere ==
  ASSUME NEW S, NEW s \in Seq(S), NEW v \in S
  PROVE  /\ [i \in DOMAIN s |-> v] \in Seq(S)
         /\ DOMAIN [i \in DOMAIN s |-> v] = DOMAIN s
<1>1. Len(s) \in Nat /\ DOMAIN s = 1 .. Len(s) OBVIOUS
<1>2. [i \in 1 .. Len(s) |-> v] \in [1 .. Len(s) -> S] OBVIOUS
<1> QED BY <1>1, <1>2, SeqDef

LEMMA ShortIsSingle ==
  ASSUME NEW v \in Seq(Words), Len(v) \in {0, 1}
  PROVE  v \in Single
<1>1. CASE Len(v) = 0
  <2>1. v = <<>> BY <1>1, EmptySeq
  <2> QED BY <2>1 DEF Single
<1>2. CASE Len(v) = 1
  <2>1. 1 \in 1 .. Len(v) BY <1>2
  <2>2. v[1] \in Words BY <2>1, ElementOfSeq
  <2>3. v = <<v[1]>> BY <1>2
  <2> QED BY <2>2, <2>3 DEF Single
<1> QED BY <1>1, <1>2

\* What a save that was alone has done when it ends, and a row's mirror.
LEMMA CopyAgrees ==
  ASSUME FormInv, NEW r \in Requests, CopyToChecklist(r), AloneSoFar(syncing[r])
  PROVE  FormAgrees'
<1> DEFINE value == syncing[r].value
<1> SUFFICES ASSUME item' # <<>>, formShows' # <<>>, ~joinsWithin',
                    (key = "catering_provider" => sitDown)'
             PROVE  formShows' = item'
  BY DEF FormAgrees, bothSettled
<1>1. /\ key' = key /\ event' = event /\ venues' = venues /\ sitDown' = sitDown
      /\ item' = IF syncing[r].copied THEN value ELSE item
      /\ syncing[r].op = "copy"
  BY DEF CopyToChecklist
<1>2. /\ ColumnsAreSaved /\ value = aggregateRequirements(<<event>> \o venues)
      /\ syncing[r].copied = (value # <<>>)
  BY <1>1 DEF AloneSoFar
<1>3. event \in Seq(Words) /\ venues \in Seq(Seq(Words)) BY DEF FormInv, FormTypes
<1>4. CASE eventLevel
  <2>1. formShows' = IF event = <<>> THEN item' ELSE event
    BY <1>1, <1>4 DEF formShows, eventLevel
  <2>2. value = event
    <3>1. venues = <<>> BY <1>2, <1>4 DEF ColumnsAreSaved
    <3>2. <<event>> \o venues = <<event>>
      <4>1. <<event>> \in Seq(Seq(Words)) BY <1>3
      <4> QED BY <3>1, <4>1, ConcatEmptySeq
    <3>3. /\ Len(<<event>>) = 1 /\ DOMAIN <<event>> = 1 .. 1 /\ <<event>> # <<>>
          /\ \A i \in 1 .. 1 : <<event>>[i] = event
      OBVIOUS
    <3>4. joined(event, event) = event
      BY <1>4 DEF joined, eventLevel, JOINABLE
    <3>5. aggregateRequirements(<<event>>) = event BY <3>3, <3>4, UnionOfOne
    <3> QED BY <1>2, <3>2, <3>5
  <2> QED BY <1>1, <1>2, <2>1, <2>2
<1>5. CASE ~eventLevel
  <2>1. event = aggregateRequirements(venues) BY <1>2, <1>5 DEF ColumnsAreSaved
  <2>2. value = event
    <3>1. ~joinsWithin BY <1>1 DEF joinsWithin
    <3>2. CASE \A i \in DOMAIN venues : ~(Len(venues[i]) > 1)
      <4>1. ASSUME NEW i \in DOMAIN venues PROVE venues[i] \in Single
        <5>1. venues[i] \in Seq(Words) BY <1>3
        <5>2. Len(venues[i]) \in Nat /\ ~(Len(venues[i]) > 1) BY <3>2, <5>1, LenProperties
        <5>3. \A n \in Nat : ~(n > 1) => n \in {0, 1} OBVIOUS
        <5>4. Len(venues[i]) \in {0, 1} BY <5>2, <5>3, Zenon
        <5> QED BY <5>1, <5>4, ShortIsSingle
      <4>2. venues \in Seq(Single) BY <1>3, <4>1
      <4> QED BY <1>2, <2>1, <4>2, UnionOfSingles
    <3>3. CASE \A i, j \in DOMAIN venues :
                 venues[i] = <<>> \/ venues[j] = <<>> \/ venues[i] = venues[j]
      <4>1. \E v \in Seq(Words) : \A i \in DOMAIN venues : venues[i] = v \/ venues[i] = <<>>
        <5>1. CASE \A i \in DOMAIN venues : venues[i] = <<>>
          <6>1. <<>> \in Seq(Words) OBVIOUS
          <6> QED BY <5>1, <6>1
        <5>2. ASSUME NEW j \in DOMAIN venues, venues[j] # <<>>
              PROVE  \E v \in Seq(Words) :
                       \A i \in DOMAIN venues : venues[i] = v \/ venues[i] = <<>>
          <6>1. venues[j] \in Seq(Words) BY <1>3
          <6> QED BY <3>3, <5>2, <6>1
        <5> QED BY <5>1, <5>2
      <4> QED BY <1>2, <1>3, <2>1, <4>1, AlikeAgain
    <3> QED BY <3>1, <3>2, <3>3 DEF joinsWithin
  <2>3. hydrated' = hydrated BY <1>1 DEF hydrated
  <2>4. formShows' = formShows
    BY <1>1, <1>5, <2>3, UnionStays DEF formShows, eventLevel
  <2>5. formShows = <<>> \/ formShows = event BY <1>5, <2>1, ShowsSaved DEF FormInv
  <2> QED BY <1>1, <1>2, <2>2, <2>4, <2>5
<1> QED BY <1>4, <1>5

LEMMA MirrorAgrees ==
  ASSUME FormInv, NEW r \in Requests, AloneSoFar(syncing[r]),
         MirrorBlank(r) \/ (eventLevel /\ MirrorToEvent(r)) \/ MirrorToVenues(r)
  PROVE  FormAgrees'
<1> SUFFICES ASSUME item' # <<>> PROVE formShows' = item'
  BY DEF FormAgrees, bothSettled
<1>1. CASE MirrorBlank(r)
  BY <1>1 DEF MirrorBlank, AloneSoFar
<1>2. CASE eventLevel /\ MirrorToEvent(r)
  <2>1. /\ event' = syncing[r].value /\ item' = item /\ item = syncing[r].value
        /\ key' = key /\ event' # <<>>
    BY <1>2 DEF MirrorToEvent, AloneSoFar
  <2> QED BY <1>2, <2>1 DEF formShows, eventLevel
<1>3. CASE MirrorToVenues(r)
  <2>1. /\ event' = event /\ item' = item /\ key' = key
        /\ venues' = [i \in DOMAIN venues |-> syncing[r].value]
        /\ ~eventLevel /\ event = syncing[r].value /\ event # <<>> /\ item = event
        /\ syncing[r].op = "venues"
    BY <1>3 DEF MirrorToVenues, AloneSoFar, mirrored
  <2>2. venues \in Seq(Seq(Words)) /\ event \in Seq(Words)
    BY <2>1 DEF FormInv, FormTypes, Idle, Reading, Copying, Mirroring
  <2>3. venues' \in Seq(Seq(Words)) /\ \A i \in DOMAIN venues' : venues'[i] = event
    <3>1. event \in Seq(Words) /\ venues \in Seq(Seq(Words)) BY <2>2
    <3>2. venues' = [i \in DOMAIN venues |-> event] BY <2>1
    <3>3. [i \in DOMAIN venues |-> event] \in Seq(Seq(Words))
      BY <3>1, MirroredEverywhere
    <3> QED BY <3>2, <3>3
  <2>4. ~eventLevel' /\ AllAlike' BY <2>1, <2>2, <2>3 DEF AllAlike, eventLevel
  <2>5. (~eventLevel /\ AllAlike => formShows = event)' BY ShowsMirrored, PTL
  <2> QED BY <2>1, <2>4, <2>5
<1> QED BY <1>1, <1>2, <1>3

LEMMA FormInvInit == FormInit => FormInv
<1> SUFFICES ASSUME FormInit PROVE FormInv
  OBVIOUS
<1>1. \A r \in Requests : syncing[r] = Idle /\ syncing[r].op = "none"
  BY DEF FormInit, Idle
<1>2. syncing = [r \in Requests |-> syncing[r]] BY DEF FormInit
<1>3. FormTypes BY <1>1, <1>2 DEF FormInit, FormTypes
<1>4. AloneIsAlone BY <1>1 DEF AloneIsAlone
<1>5. MarkedIsKept BY <1>1 DEF FormInit, MarkedIsKept
<1>6. FormAgrees BY DEF FormInit, FormAgrees, bothSettled
<1> QED BY <1>3, <1>4, <1>5, <1>6 DEF FormInv

\* A step that begins a request keeps the invariant.
LEMMA BeginKeeps ==
  ASSUME FormInv, NEW r \in Requests, NEW p, Reading(p) \/ (Mirroring(p) /\ p.op = "event"),
         key' = key, section' = section, marked' = marked,
         event' \in Seq(Words), item' \in Seq(Words), venues' \in Seq(Seq(Words)),
         syncing' = [q \in Requests |-> syncing'[q]],
         syncing'[r] = p,
         \A q \in Requests \ {r} :
           syncing'[q] = IF syncing[q].op = "none" THEN Idle
                         ELSE [syncing[q] EXCEPT !.alone = FALSE]
  PROVE  FormTypes' /\ MarkedIsKept' /\ FormAgrees'
<1>1. p.op \in {"read", "event"} BY DEF Reading
<1>2. \A q \in Requests \ {r} :
        /\ \/ syncing'[q] = Idle \/ Reading(syncing'[q]) \/ Copying(syncing'[q])
           \/ Mirroring(syncing'[q])
        /\ syncing'[q].op = "copy" => syncing[q].op = "copy" /\ syncing'[q].keep = syncing[q].keep
  <2> SUFFICES ASSUME NEW q \in Requests \ {r}
      PROVE  /\ \/ syncing'[q] = Idle \/ Reading(syncing'[q]) \/ Copying(syncing'[q])
                \/ Mirroring(syncing'[q])
             /\ syncing'[q].op = "copy" =>
                  syncing[q].op = "copy" /\ syncing'[q].keep = syncing[q].keep
    OBVIOUS
  <2> DEFINE was == syncing[q]
  <2>1. CASE was.op = "none" BY <2>1 DEF Idle
  <2>2. CASE was.op # "none" /\ Reading(was)
    <3>1. was = [op |-> "read", alone |-> was.alone] BY <2>2 DEF Reading
    <3>2. syncing'[q] = [op |-> "read", alone |-> FALSE] BY <2>2, <3>1
    <3> QED BY <3>2 DEF Reading
  <2>3. CASE was.op # "none" /\ Copying(was)
    <3>1. was = [op |-> "copy", alone |-> was.alone, value |-> was.value,
                 keep |-> was.keep, copied |-> was.copied] /\ was.value \in Seq(Words)
      BY <2>3 DEF Copying
    <3>2. syncing'[q] = [op |-> "copy", alone |-> FALSE, value |-> was.value,
                         keep |-> was.keep, copied |-> was.copied]
      BY <2>3, <3>1
    <3> HIDE DEF was
    <3>3. Copying(syncing'[q]) /\ syncing'[q].keep = was.keep BY <3>1, <3>2 DEF Copying
    <3>4. was.op = "copy" BY <3>1
    <3> QED BY <3>3, <3>4 DEF was
  <2>4. CASE was.op # "none" /\ Mirroring(was)
    <3>1. /\ was = [op |-> was.op, alone |-> was.alone, value |-> was.value]
          /\ was.op \in {"event", "venues"} /\ was.value \in Seq(Words)
      BY <2>4 DEF Mirroring
    <3>2. syncing'[q] = [op |-> was.op, alone |-> FALSE, value |-> was.value]
      BY <2>4, <3>1
    <3> HIDE DEF was
    <3>3. Mirroring(syncing'[q]) /\ syncing'[q].op # "copy" BY <3>1, <3>2 DEF Mirroring
    <3> QED BY <3>3
  <2> QED BY <2>1, <2>2, <2>3, <2>4 DEF FormInv, FormTypes, Idle
<1>3. FormTypes' BY <1>2 DEF FormInv, FormTypes
<1>4. MarkedIsKept'
  <2>1. \A q \in Requests : syncing'[q].op = "copy" =>
          syncing[q].op = "copy" /\ syncing'[q].keep = syncing[q].keep
    BY <1>1, <1>2
  <2> QED BY <2>1 DEF FormInv, MarkedIsKept
<1>5. FormAgrees'
  <2>1. Busy' BY <1>1 DEF Busy
  <2> QED BY <2>1 DEF FormAgrees, bothSettled
<1> QED BY <1>3, <1>4, <1>5

LEMMA SaveFormKeeps ==
  ASSUME FormInv, NEW r \in Requests, SaveForm(r)
  PROVE  FormInv'
<1> DEFINE p == [op |-> "read", alone |-> ~Busy]
<1>1. PICK own \in Typed, padded \in BoundedSeq(Typed, MaxBookings) :
        /\ venues' = IF eventLevel THEN <<>> ELSE padded
        /\ event' = payload(own, padded)
        /\ eventLevel => padded = <<>>
        /\ ~eventLevel => own = <<>>
  BY DEF SaveForm
<1>2. /\ key' = key /\ item' = item /\ section' = section /\ marked' = marked
      /\ begin(r, p) /\ syncing[r].op = "none"
  BY DEF SaveForm
<1>3. padded \in Seq(Typed)
  <2>1. PICK n \in 0 .. MaxBookings : padded \in [1 .. n -> Typed]
    BY DEF BoundedSeq, SeqOf
  <2>2. n \in Nat BY FormAssumption
  <2> QED BY <2>1, <2>2, SeqDef
<1>4. venues' \in Seq(Seq(Words)) /\ event' \in Seq(Words) /\ ColumnsAreSaved'
  <2>1. CASE eventLevel
    <3>1. venues' = <<>> /\ event' = own BY <1>1, <2>1 DEF payload
    <3> QED BY <1>2, <2>1, <3>1, TypedAreWords DEF ColumnsAreSaved, eventLevel
  <2>2. CASE ~eventLevel
    <3>1. venues' = padded /\ event' = aggregateRequirements(padded)
      BY <1>1, <2>2 DEF payload
    <3>2. event' = aggregateRequirements(venues)' BY <1>2, <3>1, UnionStays
    <3>3. padded \in Seq(Seq(Words)) BY <1>3, TypedAreWords
    <3> QED BY <1>2, <2>2, <3>1, <3>2, <3>3, UnionOfWords DEF ColumnsAreSaved, eventLevel
  <2> QED BY <2>1, <2>2
<1>5. AloneSoFar(syncing[r])'
  <2>1. syncing'[r] = p BY <1>2 DEF begin
  <2> QED BY <1>4, <2>1 DEF AloneSoFar
<1>6. /\ AloneIsAlone'
      /\ syncing' = [q \in Requests |-> syncing'[q]]
      /\ syncing'[r] = p
      /\ \A q \in Requests \ {r} :
           syncing'[q] = IF syncing[q].op = "none" THEN Idle
                         ELSE [syncing[q] EXCEPT !.alone = FALSE]
  <2>1. p.op # "none" /\ p.alone = ~Busy OBVIOUS
  <2> HIDE DEF p
  <2> QED BY <1>2, <1>5, <2>1, RequestBegins DEF FormInv
<1>7. FormTypes' /\ MarkedIsKept' /\ FormAgrees'
  <2>1. Reading(p) BY DEF Reading
  <2>2. item' \in Seq(Words) BY <1>2 DEF FormInv, FormTypes
  <2> HIDE DEF p
  <2> QED BY <1>2, <1>4, <1>6, <2>1, <2>2, BeginKeeps
<1> QED BY <1>6, <1>7 DEF FormInv

LEMMA EditItemKeeps ==
  ASSUME FormInv, NEW r \in Requests, EditItem(r)
  PROVE  FormInv'
<1>1. PICK v \in Typed :
        item' = v /\ begin(r, [op |-> "event", alone |-> ~Busy, value |-> v])
  BY DEF EditItem
<1> DEFINE p == [op |-> "event", alone |-> ~Busy, value |-> v]
<1>2. /\ key' = key /\ event' = event /\ venues' = venues
      /\ section' = section /\ marked' = marked
      /\ begin(r, p) /\ syncing[r].op = "none"
  BY <1>1 DEF EditItem
<1>3. item' \in Seq(Words) BY <1>1, TypedAreWords
<1>4. AloneSoFar(syncing[r])'
  <2>1. syncing'[r] = p BY <1>2 DEF begin
  <2> QED BY <1>1, <2>1 DEF AloneSoFar
<1>5. /\ AloneIsAlone'
      /\ syncing' = [q \in Requests |-> syncing'[q]]
      /\ syncing'[r] = p
      /\ \A q \in Requests \ {r} :
           syncing'[q] = IF syncing[q].op = "none" THEN Idle
                         ELSE [syncing[q] EXCEPT !.alone = FALSE]
  <2>1. p.op # "none" /\ p.alone = ~Busy OBVIOUS
  <2> HIDE DEF p
  <2> QED BY <1>2, <1>4, <2>1, RequestBegins DEF FormInv
<1>6. event' \in Seq(Words) /\ venues' \in Seq(Seq(Words)) BY <1>2 DEF FormInv, FormTypes
<1>7. FormTypes' /\ MarkedIsKept' /\ FormAgrees'
  <2>1. Mirroring(p) /\ p.op = "event" BY <1>1, TypedAreWords DEF Mirroring
  <2> HIDE DEF p
  <2> QED BY <1>2, <1>3, <1>5, <1>6, <2>1, BeginKeeps
<1> QED BY <1>5, <1>7 DEF FormInv

\* One goes on.
LEMMA ReadForSyncKeeps ==
  ASSUME FormInv, NEW r \in Requests, ReadForSync(r)
  PROVE  FormInv'
<1> DEFINE united == aggregateRequirements(<<event>> \o venues)
           p == [op |-> "copy", alone |-> syncing[r].alone, value |-> united,
                 keep |-> section \in Verdicts,
                 copied |-> united # <<>> /\ (key = "catering_provider" => sitDown)]
<1>1. /\ key' = key /\ event' = event /\ venues' = venues /\ sitDown' = sitDown
      /\ item' = item /\ section' = section /\ marked' = marked
      /\ overlapped' = overlapped /\ syncing[r].op = "read"
      /\ syncing' = [syncing EXCEPT ![r] = p]
  BY DEF ReadForSync
<1>2. FormTypes /\ AloneIsAlone /\ MarkedIsKept BY DEF FormInv
<1>3. syncing'[r] = p BY <1>1, <1>2 DEF FormTypes
<1>4. ASSUME syncing[r].alone PROVE AloneSoFar(syncing[r])'
  <2>1. ColumnsAreSaved BY <1>1, <1>2, <1>4 DEF AloneIsAlone, AloneSoFar
  <2>2. ColumnsAreSaved' BY <1>1, <2>1, UnionStays DEF ColumnsAreSaved, eventLevel
  <2>3. aggregateRequirements(<<event>> \o venues)' = united BY <1>1, UnionStays
  <2>4. /\ p.op = "copy" /\ p.value = united
        /\ p.copied = (united # <<>> /\ (key = "catering_provider" => sitDown))
    OBVIOUS
  <2> HIDE DEF p, united
  <2> QED BY <1>1, <1>3, <2>2, <2>3, <2>4 DEF AloneSoFar
<1>5. /\ AloneIsAlone'
      /\ syncing' = [q \in Requests |-> syncing'[q]]
      /\ \A q \in Requests \ {r} : syncing'[q] = syncing[q]
  <2>1. p.op # "none" /\ p.alone = syncing[r].alone OBVIOUS
  <2> HIDE DEF p
  <2> QED BY <1>1, <1>2, <1>4, <2>1, RequestMoves
<1>6. united \in Seq(Words)
  <2>1. event \in Seq(Words) /\ venues \in Seq(Seq(Words)) BY <1>2 DEF FormTypes
  <2>2. <<event>> \in Seq(Seq(Words)) BY <2>1
  <2>3. <<event>> \o venues \in Seq(Seq(Words)) BY <2>1, <2>2, ConcatProperties
  <2> QED BY <2>3, UnionOfWords
<1>7. FormTypes'
  <2>1. Copying(p) BY <1>6 DEF Copying
  <2> HIDE DEF p
  <2> QED BY <1>1, <1>2, <1>3, <1>5, <2>1 DEF FormTypes
<1>8. MarkedIsKept'
  <2>1. section \in Verdicts => p.keep OBVIOUS
  <2> HIDE DEF p
  <2> QED BY <1>1, <1>2, <1>3, <1>5, <2>1 DEF MarkedIsKept
<1>9. FormAgrees'
  <2>1. Busy' BY <1>3 DEF Busy
  <2> QED BY <2>1 DEF FormAgrees, bothSettled
<1> QED BY <1>5, <1>7, <1>8, <1>9 DEF FormInv

LEMMA MirrorOnKeeps ==
  ASSUME FormInv, NEW r \in Requests, MirrorToEvent(r), ~eventLevel
  PROVE  FormInv'
<1> DEFINE p == [op |-> "venues", alone |-> syncing[r].alone, value |-> syncing[r].value]
<1>1. /\ key' = key /\ event' = syncing[r].value /\ venues' = venues
      /\ item' = item /\ section' = section /\ marked' = marked
      /\ overlapped' = overlapped /\ syncing[r].op = "event" /\ syncing[r].value # <<>>
      /\ syncing' = [syncing EXCEPT ![r].op = "venues"]
  BY DEF MirrorToEvent
<1>2. FormTypes /\ AloneIsAlone /\ MarkedIsKept BY DEF FormInv
<1>3. Mirroring(syncing[r]) /\ syncing = [q \in Requests |-> syncing[q]]
  BY <1>1, <1>2 DEF FormTypes, Idle, Reading, Copying
<1>4. syncing' = [syncing EXCEPT ![r] = p]
  <2>1. syncing[r] = [op |-> "event", alone |-> syncing[r].alone, value |-> syncing[r].value]
    BY <1>1, <1>3 DEF Mirroring
  <2>2. [syncing[r] EXCEPT !.op = "venues"] = p BY <2>1
  <2>3. syncing' = [syncing EXCEPT ![r] = [syncing[r] EXCEPT !.op = "venues"]] BY <1>1
  <2> HIDE DEF p
  <2> QED BY <2>2, <2>3
<1>5. syncing'[r] = p
  <2> HIDE DEF p
  <2> QED BY <1>3, <1>4
<1>6. ASSUME syncing[r].alone PROVE AloneSoFar(syncing[r])'
  <2>1. item = syncing[r].value BY <1>1, <1>2, <1>6 DEF AloneIsAlone, AloneSoFar
  <2> QED BY <1>1, <1>5, <2>1 DEF AloneSoFar, eventLevel
<1>7. /\ AloneIsAlone'
      /\ syncing' = [q \in Requests |-> syncing'[q]]
      /\ \A q \in Requests \ {r} : syncing'[q] = syncing[q]
  <2>1. p.op # "none" /\ p.alone = syncing[r].alone OBVIOUS
  <2> HIDE DEF p
  <2> QED BY <1>1, <1>2, <1>4, <1>6, <2>1, RequestMoves
<1>8. FormTypes'
  <2>1. syncing[r].value \in Seq(Words) BY <1>3 DEF Mirroring
  <2>2. Mirroring(p) BY <2>1 DEF Mirroring
  <2>3. event' \in Seq(Words) BY <1>1, <2>1
  <2> HIDE DEF p
  <2> QED BY <1>1, <1>2, <1>5, <1>7, <2>2, <2>3 DEF FormTypes
<1>9. MarkedIsKept'
  <2>1. p.op # "copy" OBVIOUS
  <2> HIDE DEF p
  <2> QED BY <1>1, <1>2, <1>5, <1>7, <2>1 DEF MarkedIsKept
<1>10. FormAgrees'
  <2>1. Busy' BY <1>5 DEF Busy
  <2> QED BY <2>1 DEF FormAgrees, bothSettled
<1> QED BY <1>7, <1>8, <1>9, <1>10 DEF FormInv

\* One ends, or dies: what is left to show is the columns', the row's and the
\* section's part.
LEMMA EndKeeps ==
  ASSUME FormInv, NEW r \in Requests, syncing[r].op # "none",
         syncing' = [syncing EXCEPT ![r] = Idle],
         overlapped' \/ overlapped' = (overlapped /\ ~syncing[r].alone),
         key' = key, marked' = marked,
         event' \in Seq(Words), item' \in Seq(Words), venues' \in Seq(Seq(Words)),
         marked # "none" => section' = section,
         syncing[r].alone /\ AloneSoFar(syncing[r]) /\ ~overlapped' => FormAgrees'
  PROVE  FormInv'
<1>1. FormTypes /\ AloneIsAlone /\ MarkedIsKept BY DEF FormInv
<1>2. /\ AloneIsAlone'
      /\ syncing' = [q \in Requests |-> syncing'[q]]
      /\ \A q \in Requests : syncing'[q] = Idle \/ syncing'[q] = syncing[q]
      /\ ~overlapped' => syncing[r].alone /\ AloneSoFar(syncing[r])
  BY <1>1, RequestLeaves
<1>3. FormTypes' BY <1>1, <1>2 DEF FormTypes
<1>4. MarkedIsKept' BY <1>1, <1>2 DEF MarkedIsKept, Idle
<1>5. FormAgrees'
  <2>1. CASE overlapped' BY <2>1 DEF FormAgrees, bothSettled
  <2>2. CASE ~overlapped' BY <1>2, <2>2
  <2> QED BY <2>1, <2>2
<1> QED BY <1>2, <1>3, <1>4, <1>5 DEF FormInv

LEMMA CopyToChecklistKeeps ==
  ASSUME FormInv, NEW r \in Requests, CopyToChecklist(r)
  PROVE  FormInv'
<1>1. /\ key' = key /\ event' = event /\ venues' = venues /\ marked' = marked
      /\ item' = IF syncing[r].copied THEN syncing[r].value ELSE item
      /\ syncing[r].op = "copy" /\ finish(r)
      /\ syncing[r].keep => section' = section
  BY DEF CopyToChecklist
<1>2. FormTypes /\ MarkedIsKept BY DEF FormInv
<1>3. /\ event' \in Seq(Words) /\ venues' \in Seq(Seq(Words)) /\ item' \in Seq(Words)
      /\ marked # "none" => section' = section
  BY <1>1, <1>2 DEF FormTypes, MarkedIsKept, Idle, Reading, Copying, Mirroring
<1>4. syncing[r].alone /\ AloneSoFar(syncing[r]) => FormAgrees' BY CopyAgrees
<1> QED BY <1>1, <1>3, <1>4, EndKeeps DEF finish

LEMMA MirrorEndKeeps ==
  ASSUME FormInv, NEW r \in Requests,
         MirrorBlank(r) \/ (eventLevel /\ MirrorToEvent(r)) \/ MirrorToVenues(r)
  PROVE  FormInv'
<1>1. /\ key' = key /\ item' = item /\ section' = section /\ marked' = marked
      /\ syncing[r].op \in {"event", "venues"} /\ finish(r)
      /\ event' = event \/ event' = syncing[r].value
      /\ venues' = venues \/ venues' = [i \in DOMAIN venues |-> syncing[r].value]
  BY DEF MirrorBlank, MirrorToEvent, MirrorToVenues, mirrored
<1>2. /\ event \in Seq(Words) /\ item \in Seq(Words) /\ venues \in Seq(Seq(Words))
      /\ syncing[r].value \in Seq(Words)
  BY <1>1 DEF FormInv, FormTypes, Idle, Reading, Copying, Mirroring
<1>3. event' \in Seq(Words) BY <1>1, <1>2
<1>4. venues' \in Seq(Seq(Words))
  <2>1. [i \in DOMAIN venues |-> syncing[r].value] \in Seq(Seq(Words))
    BY <1>2, MirroredEverywhere
  <2> QED BY <1>1, <1>2, <2>1
<1>5. AloneSoFar(syncing[r]) => FormAgrees' BY MirrorAgrees
<1> QED BY <1>1, <1>2, <1>3, <1>4, <1>5, EndKeeps DEF finish

LEMMA AbandonFormKeeps ==
  ASSUME FormInv, NEW r \in Requests, AbandonForm(r)
  PROVE  FormInv'
<1>1. FormTypes BY DEF FormInv
<1> QED BY <1>1, EndKeeps DEF AbandonForm, FormTypes

\* With the columns, the row and the requests the same, it all is.
LEMMA SameForm ==
  ASSUME FormTypes, AloneIsAlone, FormAgrees,
         key' = key, event' = event, venues' = venues, sitDown' = sitDown, item' = item,
         syncing' = syncing, overlapped' = overlapped
  PROVE  AloneIsAlone' /\ FormAgrees'
<1>1. ColumnsAreSaved' = ColumnsAreSaved
  BY UnionStays DEF ColumnsAreSaved, eventLevel
<1>2. aggregateRequirements(<<event>> \o venues)' = aggregateRequirements(<<event>> \o venues)
  BY UnionStays
<1>3. ASSUME NEW r \in Requests, AloneSoFar(syncing[r]) PROVE AloneSoFar(syncing[r])'
  BY <1>1, <1>2, <1>3 DEF AloneSoFar, eventLevel
<1>4. AloneIsAlone' BY <1>3 DEF AloneIsAlone
<1>5. hydrated' = hydrated BY DEF hydrated
<1>6. formShows' = formShows BY <1>5, UnionStays DEF formShows, eventLevel
<1>7. FormAgrees' BY <1>6 DEF FormAgrees, bothSettled, joinsWithin, Busy
<1> QED BY <1>4, <1>7

\* A mark on the section moves nothing else, and counts only with no save about.
LEMMA MarkSectionKeeps ==
  ASSUME FormInv, MarkSection
  PROVE  FormInv'
<1>1. PICK s \in Verdicts \cup {"captured", "not_started"} :
        section' = s /\ marked' = IF s \in Verdicts /\ ~Busy THEN s ELSE "none"
  BY DEF MarkSection
<1>2. /\ key' = key /\ event' = event /\ venues' = venues /\ sitDown' = sitDown
      /\ item' = item /\ syncing' = syncing /\ overlapped' = overlapped
  BY DEF MarkSection
<1>3. FormTypes' BY <1>2 DEF FormInv, FormTypes
<1>4. AloneIsAlone' /\ FormAgrees' BY <1>2, SameForm DEF FormInv
<1>5. MarkedIsKept'
  <2>1. marked' # "none" => s \in Verdicts /\ ~Busy /\ section' = marked' BY <1>1
  <2>2. ~Busy => \A r \in Requests : syncing'[r].op = "none" BY <1>2 DEF Busy
  <2>3. marked' \in Verdicts \cup {"none"} BY <1>1
  <2> QED BY <2>1, <2>2, <2>3 DEF MarkedIsKept
<1> QED BY <1>3, <1>4, <1>5 DEF FormInv

LEMMA FormInvHolds == FormSpec => []FormInv
<1>1. FormInit => FormInv BY FormInvInit
<1>2. FormInv /\ [FormNext]_formVars => FormInv'
  <2> SUFFICES ASSUME FormInv, [FormNext]_formVars PROVE FormInv'
    OBVIOUS
  <2>1. ASSUME NEW r \in Requests, SaveForm(r) PROVE FormInv' BY <2>1, SaveFormKeeps
  <2>2. ASSUME NEW r \in Requests, ReadForSync(r) PROVE FormInv' BY <2>2, ReadForSyncKeeps
  <2>3. ASSUME NEW r \in Requests, CopyToChecklist(r) PROVE FormInv'
    BY <2>3, CopyToChecklistKeeps
  <2>4. ASSUME NEW r \in Requests, EditItem(r) PROVE FormInv' BY <2>4, EditItemKeeps
  <2>5. ASSUME NEW r \in Requests, MirrorBlank(r) \/ MirrorToVenues(r) PROVE FormInv'
    BY <2>5, MirrorEndKeeps
  <2>6. ASSUME NEW r \in Requests, MirrorToEvent(r) PROVE FormInv'
    BY <2>6, MirrorEndKeeps, MirrorOnKeeps
  <2>7. ASSUME NEW r \in Requests, AbandonForm(r) PROVE FormInv' BY <2>7, AbandonFormKeeps
  <2>8. CASE MarkSection BY <2>8, MarkSectionKeeps
  <2>9. CASE UNCHANGED formVars
    <3>1. /\ key' = key /\ event' = event /\ venues' = venues /\ sitDown' = sitDown
          /\ item' = item /\ section' = section /\ marked' = marked
          /\ syncing' = syncing /\ overlapped' = overlapped
      BY <2>9 DEF formVars
    <3>2. AloneIsAlone' /\ FormAgrees' BY <3>1, SameForm DEF FormInv
    <3>3. FormTypes' /\ MarkedIsKept' BY <3>1 DEF FormInv, FormTypes, MarkedIsKept
    <3> QED BY <3>2, <3>3 DEF FormInv
  <2> QED BY <2>1, <2>2, <2>3, <2>4, <2>5, <2>6, <2>7, <2>8, <2>9 DEF FormNext
<1> QED BY <1>1, <1>2, PTL DEF FormSpec

\* FormAndChecklistAgree: any words, texts that join several, bookings and
\* requests.  A form that shows the requirement and a row that has it show the
\* same once a save or a mirror has run alone, unless a booking has several names
\* beside one with another value; and a section operations marked with no save
\* about stays so.
THEOREM FormAndChecklist == FormSpec => []FormAndChecklistAgree
<1>1. FormInv => FormAndChecklistAgree
  BY DEF FormInv, FormAgrees, MarkedIsKept, FormAndChecklistAgree
<1> QED BY <1>1, FormInvHolds, PTL

-----------------------------------------------------------------------------
\* ScheduleDays.  Numbers in order first, and what is taken from a list by its
\* places; then the invariant of the form's days, edit by edit; last the save,
\* which moves activities but never past one of the same day.

\* In an order each of a finite set has a rank, from 1 on: as many as come up
\* to it.
LEMMA RanksInTurn ==
  ASSUME NEW S, IsFiniteSet(S), NEW upTo \in [S -> SUBSET S],
         \A x \in S : x \in upTo[x],
         \A x, y \in S : x \in upTo[y] => upTo[x] \subseteq upTo[y],
         \A x, y \in S : x \in upTo[y] \/ y \in upTo[x],
         \A x, y \in S : x \in upTo[y] /\ y \in upTo[x] => x = y
  PROVE  LET rank == [x \in S |-> Cardinality(upTo[x])]
         IN  /\ rank \in Bijection(S, 1 .. Cardinality(S))
             /\ \A x, y \in S : rank[x] <= rank[y] <=> x \in upTo[y]
<1> DEFINE rank == [x \in S |-> Cardinality(upTo[x])]
           n == Cardinality(S)
<1>1. \A x \in S : /\ IsFiniteSet(upTo[x]) /\ Cardinality(upTo[x]) <= n
                   /\ Cardinality(upTo[x]) \in Nat
  <2> TAKE x \in S
  <2>1. upTo[x] \in SUBSET S OBVIOUS
  <2> QED BY <2>1, FS_Subset, FS_CardinalityType
<1>2. n \in Nat BY FS_CardinalityType
<1>3. \A x \in S : rank[x] \in 1 .. n
  <2> TAKE x \in S
  <2>1. x \in upTo[x] OBVIOUS
  <2>2. Cardinality(upTo[x]) # 0 BY <1>1, <2>1, FS_EmptySet
  <2> QED BY <1>1, <1>2, <2>2
<1>4. ASSUME NEW x \in S, NEW y \in S, x \in upTo[y] PROVE rank[x] <= rank[y]
  <2>1. upTo[x] \in SUBSET upTo[y] BY <1>4
  <2>2. Cardinality(upTo[x]) <= Cardinality(upTo[y]) BY <1>1, <2>1, FS_Subset
  <2> QED BY <2>2
<1>5. ASSUME NEW x \in S, NEW y \in S, x \notin upTo[y] PROVE rank[y] < rank[x]
  <2>1. y \in upTo[x] BY <1>5
  <2>2. upTo[y] \in SUBSET upTo[x] /\ x \in upTo[x] BY <2>1
  <2>3. Cardinality(upTo[y]) <= Cardinality(upTo[x])
        /\ Cardinality(upTo[y]) # Cardinality(upTo[x])
    BY <1>1, <1>5, <2>2, FS_Subset
  <2> QED BY <1>1, <2>3
<1>6. \A x, y \in S : rank[x] <= rank[y] <=> x \in upTo[y]
  <2> TAKE x \in S, y \in S
  <2>1. rank[x] \in Int /\ rank[y] \in Int BY <1>3
  <2> HIDE DEF rank
  <2> QED BY <1>4, <1>5, <2>1
<1>7. \A x, y \in S : rank[x] = rank[y] => x = y
  <2> TAKE x \in S, y \in S
  <2>1. rank[x] \in Int /\ rank[y] \in Int BY <1>3
  <2> HIDE DEF rank
  <2>2. rank[x] = rank[y] => rank[x] <= rank[y] /\ rank[y] <= rank[x] BY <2>1
  <2> QED BY <1>6, <2>2
<1>8. rank \in [S -> 1 .. n]
  <2> HIDE DEF n
  <2> QED BY <1>3
<1>9. rank \in Injection(S, 1 .. n)
  <2>1. DOMAIN rank = S OBVIOUS
  <2> HIDE DEF rank, n
  <2> QED BY <1>7, <1>8, <2>1 DEF Injection, IsInjective
<1>10. IsFiniteSet(1 .. n) /\ Cardinality(1 .. n) = n
  <2> HIDE DEF n
  <2> QED BY <1>2, FS_Interval
<1>11. rank \in Surjection(S, 1 .. n)
  <2> HIDE DEF rank
  <2> QED BY <1>9, <1>10, FS_Injection
<1>12. rank \in Bijection(S, 1 .. n)
  <2> HIDE DEF rank, n
  <2> QED BY <1>9, <1>11 DEF Bijection
<1> QED BY <1>6, <1>12

\* A list of the numbers in order has each of them, at the place of its rank.
LEMMA NumbersInTurn ==
  ASSUME NEW S \in SUBSET Nat, IsFiniteSet(S)
  PROVE  LET rank == [x \in S |-> Cardinality({y \in S : y <= x})]
         IN  /\ Cardinality(S) \in Nat
             /\ DOMAIN inOrder(S) = 1 .. Cardinality(S)
             /\ \A n \in 1 .. Cardinality(S) :
                  inOrder(S)[n] \in S /\ rank[inOrder(S)[n]] = n
             /\ \A x \in S : rank[x] \in 1 .. Cardinality(S) /\ inOrder(S)[rank[x]] = x
             /\ \A i, j \in 1 .. Cardinality(S) : i < j => inOrder(S)[i] < inOrder(S)[j]
<1> DEFINE upTo == [x \in S |-> {y \in S : y <= x}]
           rank == [x \in S |-> Cardinality({y \in S : y <= x})]
           size == Cardinality(S)
           o == inOrder(S)
<1>1. size \in Nat BY FS_CardinalityType
<1>2. /\ rank \in Bijection(S, 1 .. size)
      /\ \A x, y \in S : rank[x] <= rank[y] <=> x <= y
  <2>1. \A x \in S : x \in Nat OBVIOUS
  <2>2. upTo \in [S -> SUBSET S] OBVIOUS
  <2>3. \A x, y \in S : x \in upTo[y] <=> x <= y OBVIOUS
  <2>4. rank = [x \in S |-> Cardinality(upTo[x])] OBVIOUS
  <2> HIDE DEF upTo, rank, size
  <2>5. \A x \in S : x \in upTo[x] BY <2>1, <2>3
  <2>6. ASSUME NEW x \in S, NEW y \in S, x \in upTo[y] PROVE upTo[x] \subseteq upTo[y]
    <3> SUFFICES ASSUME NEW z \in upTo[x] PROVE z \in upTo[y] OBVIOUS
    <3>1. z \in S BY <2>2
    <3>2. x \in Nat /\ y \in Nat /\ z \in Nat BY <2>1, <3>1
    <3>3. z <= x /\ x <= y BY <2>3, <2>6, <3>1
    <3>4. z <= y BY <3>2, <3>3
    <3> QED BY <2>3, <3>1, <3>4
  <2>7. ASSUME NEW x \in S, NEW y \in S PROVE x \in upTo[y] \/ y \in upTo[x]
    <3>1. x \in Nat /\ y \in Nat BY <2>1
    <3>2. x <= y \/ y <= x BY <3>1
    <3> QED BY <2>3, <3>2
  <2>8. ASSUME NEW x \in S, NEW y \in S, x \in upTo[y], y \in upTo[x] PROVE x = y
    <3>1. x \in Nat /\ y \in Nat BY <2>1
    <3>2. x <= y /\ y <= x BY <2>3, <2>8
    <3> QED BY <3>1, <3>2
  <2>9. /\ [x \in S |-> Cardinality(upTo[x])] \in Bijection(S, 1 .. Cardinality(S))
        /\ \A x, y \in S : [z \in S |-> Cardinality(upTo[z])][x]
                             <= [z \in S |-> Cardinality(upTo[z])][y] <=> x \in upTo[y]
    BY <2>2, <2>5, <2>6, <2>7, <2>8, RanksInTurn
  <2> QED BY <2>3, <2>4, <2>9 DEF size
<1>3. /\ \A x \in S : rank[x] \in 1 .. size
      /\ \A x, y \in S : rank[x] = rank[y] => x = y
      /\ \A n \in 1 .. size : \E x \in S : rank[x] = n
  <2>1. DOMAIN rank = S OBVIOUS
  <2> HIDE DEF rank, size
  <2> QED BY <1>2, <2>1 DEF Bijection, Injection, Surjection, IsInjective
<1>4. DOMAIN o = 1 .. size BY DEF inOrder
<1>5. \A n \in 1 .. size : o[n] \in S /\ rank[o[n]] = n
  <2> TAKE n \in 1 .. size
  <2>1. o[n] = CHOOSE x \in S : Cardinality({y \in S : y <= x}) = n BY DEF inOrder
  <2>2. \E x \in S : Cardinality({y \in S : y <= x}) = n BY <1>3
  <2> HIDE DEF o, size
  <2>3. o[n] \in S /\ Cardinality({y \in S : y <= o[n]}) = n BY <2>1, <2>2
  <2> QED BY <2>3
<1>6. \A x \in S : o[rank[x]] = x
  <2> HIDE DEF rank, o, size
  <2> QED BY <1>3, <1>5
<1>7. ASSUME NEW i \in 1 .. size, NEW j \in 1 .. size, i < j PROVE o[i] < o[j]
  <2>1. o[i] \in Nat /\ o[j] \in Nat BY <1>5
  <2> HIDE DEF rank, o
  <2>2. ~(j <= i) BY <1>1, <1>7
  <2>3. o[i] \in S /\ o[j] \in S /\ rank[o[i]] = i /\ rank[o[j]] = j BY <1>5
  <2>4. rank[o[j]] <= rank[o[i]] <=> o[j] <= o[i] BY <1>2, <2>3
  <2>5. ~(o[j] <= o[i]) BY <2>2, <2>3, <2>4
  <2> QED BY <2>1, <2>5
<1> HIDE DEF rank, o
<1> QED BY <1>1, <1>3, <1>4, <1>5, <1>6, <1>7 DEF rank, o

\* Two sets in the same order are listed side by side.
LEMMA ListedSideBySide ==
  ASSUME NEW S \in SUBSET Nat, IsFiniteSet(S), NEW T \in SUBSET Nat,
         NEW f \in Bijection(S, T), \A x, y \in S : x <= y <=> f[x] <= f[y]
  PROVE  /\ IsFiniteSet(T) /\ Cardinality(T) = Cardinality(S)
         /\ \A n \in 1 .. Cardinality(S) : inOrder(T)[n] = f[inOrder(S)[n]]
<1>1. IsFiniteSet(T) /\ Cardinality(T) = Cardinality(S)
  BY FS_Bijection DEF ExistsBijection
<1>2. /\ f \in [S -> T] /\ \A x, y \in S : f[x] = f[y] => x = y
      /\ \A z \in T : \E x \in S : f[x] = z
  BY DEF Bijection, Injection, Surjection, IsInjective
<1> SUFFICES ASSUME NEW n \in 1 .. Cardinality(S) PROVE inOrder(T)[n] = f[inOrder(S)[n]]
  BY <1>1
<1> DEFINE x == inOrder(S)[n]
           A == {y \in S : y <= x}
           B == {z \in T : z <= f[x]}
           g == [y \in A |-> f[y]]
<1>3. x \in S /\ Cardinality(A) = n
  <2>1. /\ x \in S
        /\ [z \in S |-> Cardinality({y \in S : y <= z})][x] = n BY NumbersInTurn
  <2> QED BY <2>1
<1>4. f[x] \in T BY <1>2, <1>3
<1> HIDE DEF x
<1>5. g \in Bijection(A, B)
  <2>1. \A y \in A : g[y] \in B BY <1>2, <1>3
  <2>2. g \in [A -> B] BY <2>1
  <2>3. DOMAIN g = A OBVIOUS
  <2>4. \A y, z \in A : g[y] = g[z] => y = z BY <1>2
  <2>5. \A z \in B : \E y \in A : g[y] = z BY <1>2, <1>3
  <2> HIDE DEF g, A, B
  <2> QED BY <2>2, <2>3, <2>4, <2>5 DEF Bijection, Injection, Surjection, IsInjective
<1>6. IsFiniteSet(A)
  <2>1. A \in SUBSET S OBVIOUS
  <2> QED BY <2>1, FS_Subset
<1>7. Cardinality(B) = n
  <2> HIDE DEF g, A, B
  <2> QED BY <1>3, <1>5, <1>6, FS_Bijection DEF ExistsBijection
<1>8. \A z \in T : [w \in T |-> Cardinality({y \in T : y <= w})][z] \in 1 .. Cardinality(T)
         /\ inOrder(T)[[w \in T |-> Cardinality({y \in T : y <= w})][z]] = z
  BY <1>1, NumbersInTurn
<1>9. inOrder(T)[Cardinality(B)] = f[x] BY <1>4, <1>8
<1> QED BY <1>7, <1>9 DEF x

LEMMA Extremes ==
  ASSUME NEW S \in SUBSET Nat, IsFiniteSet(S), S # {}
  PROVE  /\ Min(S) \in S /\ \A x \in S : Min(S) <= x
         /\ Max(S) \in S /\ \A x \in S : x <= Max(S)
<1> DEFINE rank == [x \in S |-> Cardinality({y \in S : y <= x})]
           size == Cardinality(S)
           o == inOrder(S)
<1>1. /\ size \in Nat
      /\ \A n \in 1 .. size : o[n] \in S /\ rank[o[n]] = n
      /\ \A x \in S : rank[x] \in 1 .. size /\ o[rank[x]] = x
      /\ \A i, j \in 1 .. size : i < j => o[i] < o[j]
  BY NumbersInTurn
<1>2. size # 0 BY FS_EmptySet
<1>3. \A x \in S : x \in Nat OBVIOUS
<1> HIDE DEF rank, size, o
<1>4. 1 \in 1 .. size /\ size \in 1 .. size BY <1>1, <1>2
<1>5. ASSUME NEW x \in S PROVE o[1] <= x /\ x <= o[size]
  <2>1. o[1] \in Nat /\ o[size] \in Nat /\ x \in Nat BY <1>1, <1>3, <1>4
  <2>2. rank[x] \in 1 .. size /\ o[rank[x]] = x BY <1>1
  <2>3. 1 < rank[x] => o[1] < x BY <1>1, <1>4, <2>2
  <2>4. rank[x] < size => x < o[size] BY <1>1, <1>4, <2>2
  <2>5. 1 < rank[x] \/ rank[x] = 1 BY <2>2
  <2>6. rank[x] < size \/ rank[x] = size BY <1>1, <2>2
  <2>7. o[1] <= x BY <2>1, <2>2, <2>3, <2>5
  <2>8. x <= o[size] BY <2>1, <2>2, <2>4, <2>6
  <2> QED BY <2>7, <2>8
<1>6. Min(S) \in S /\ \A x \in S : Min(S) <= x
  <2>1. Min(S) = CHOOSE x \in S : \A y \in S : x <= y BY DEF Min
  <2>2. \E x \in S : \A y \in S : x <= y BY <1>1, <1>4, <1>5
  <2> QED BY <2>1, <2>2
<1>7. Max(S) \in S /\ \A x \in S : x <= Max(S)
  <2>1. Max(S) = CHOOSE x \in S : \A y \in S : x >= y BY DEF Max
  <2>2. ASSUME NEW y \in S PROVE o[size] >= y
    <3>1. y \in Nat /\ o[size] \in Nat BY <1>1, <1>3, <1>4
    <3> QED BY <1>5, <3>1
  <2>3. \E x \in S : \A y \in S : x >= y BY <1>1, <1>4, <2>2
  <2>4. Max(S) \in S /\ \A y \in S : Max(S) >= y BY <2>1, <2>3
  <2>5. ASSUME NEW x \in S PROVE x <= Max(S)
    <3>1. x \in Nat /\ Max(S) \in Nat BY <1>3, <2>4
    <3> QED BY <2>4, <3>1
  <2> QED BY <2>4, <2>5
<1> QED BY <1>6, <1>7

\* A choice of places lists their elements, each of them once.
LEMMA Selected ==
  ASSUME NEW T, NEW list \in Seq(T), NEW at \in SUBSET DOMAIN list
  PROVE  LET chosen == elementsAt(list, at)
             o == inOrder(at)
         IN  /\ at \in SUBSET Nat /\ IsFiniteSet(at) /\ Cardinality(at) \in Nat
             /\ chosen \in Seq(T) /\ Len(chosen) = Cardinality(at)
             /\ DOMAIN chosen = 1 .. Cardinality(at)
             /\ \A n \in 1 .. Cardinality(at) : o[n] \in at /\ chosen[n] = list[o[n]]
             /\ \A i, j \in 1 .. Cardinality(at) : o[i] = o[j] => i = j
             /\ \A i \in at : \E n \in 1 .. Cardinality(at) : o[n] = i
<1> DEFINE chosen == elementsAt(list, at)
           o == inOrder(at)
           size == Cardinality(at)
           rank == [x \in at |-> Cardinality({y \in at : y <= x})]
<1>1. Len(list) \in Nat /\ DOMAIN list = 1 .. Len(list) /\ list \in [1 .. Len(list) -> T]
  BY LenProperties
<1>2. at \in SUBSET Nat /\ IsFiniteSet(at)
  <2>1. IsFiniteSet(1 .. Len(list)) BY <1>1, FS_Interval
  <2>2. at \in SUBSET (1 .. Len(list)) BY <1>1
  <2> QED BY <1>1, <2>1, <2>2, FS_Subset
<1>3. /\ size \in Nat
      /\ \A n \in 1 .. size : o[n] \in at /\ rank[o[n]] = n
      /\ \A x \in at : rank[x] \in 1 .. size /\ o[rank[x]] = x
  BY <1>2, NumbersInTurn
<1>4. chosen = [n \in 1 .. size |-> list[o[n]]] BY DEF elementsAt
<1> HIDE DEF rank, size, o
<1>5. \A n \in 1 .. size : list[o[n]] \in T BY <1>1, <1>3
<1>6. chosen \in Seq(T) /\ Len(chosen) = size
  <2>1. chosen \in [1 .. size -> T] BY <1>4, <1>5
  <2> QED BY <1>3, <2>1, SeqDef, LenProperties
<1>7. DOMAIN chosen = 1 .. size /\ \A n \in 1 .. size : chosen[n] = list[o[n]] BY <1>4
<1> HIDE DEF chosen
<1> QED BY <1>2, <1>3, <1>6, <1>7 DEF chosen, o, size

\* All places give the list itself.
LEMMA AllSelected ==
  ASSUME NEW T, NEW list \in Seq(T)
  PROVE  elementsAt(list, DOMAIN list) = list
<1> DEFINE D == DOMAIN list
           chosen == elementsAt(list, D)
<1>1. Len(list) \in Nat /\ D = 1 .. Len(list) BY LenProperties
<1>2. Cardinality(D) = Len(list)
  <2>1. Cardinality(1 .. Len(list)) = Len(list) BY <1>1, FS_Interval
  <2> QED BY <1>1, <2>1
<1>3. D \in SUBSET Nat /\ IsFiniteSet(D) BY <1>1, Selected
<1>4. ASSUME NEW i \in D PROVE inOrder(D)[i] = i
  <2>1. {y \in D : y <= i} = 1 .. i BY <1>1
  <2>2. i \in Nat /\ Cardinality(1 .. i) = i
    <3>1. i \in Nat /\ i > 0 BY <1>1
    <3> QED BY <3>1, FS_Interval
  <2>3. inOrder(D)[[x \in D |-> Cardinality({y \in D : y <= x})][i]] = i
    BY <1>3, NumbersInTurn
  <2>4. [x \in D |-> Cardinality({y \in D : y <= x})][i] = i
    <3> HIDE DEF D
    <3>1. [x \in D |-> Cardinality({y \in D : y <= x})][i] = Cardinality({y \in D : y <= i})
      OBVIOUS
    <3> QED BY <2>1, <2>2, <3>1
  <2> QED BY <2>3, <2>4
<1>5. /\ chosen \in Seq(T) /\ Len(chosen) = Len(list)
      /\ \A n \in D : chosen[n] = list[inOrder(D)[n]]
  BY <1>1, <1>2, Selected
<1>6. \A n \in 1 .. Len(list) : chosen[n] = list[n] BY <1>1, <1>4, <1>5
<1> HIDE DEF chosen, D
<1>7. chosen = list BY <1>5, <1>6, SeqEqual
<1> QED BY <1>7 DEF chosen, D

Day == [date : AllDates, window : Windows]
OneDayEach(dayList) ==
  \A i, j \in DOMAIN dayList : dayList[i].date = dayList[j].date => i = j

\* Unless two days had no date at once, there is a day for the date of each
\* activity, one, and no other day.
DaysInv ==
  /\ startDate \in {0, 1} /\ days \in Seq(Day) /\ activities \in Seq(Activity)
  /\ shows \in Nat /\ ambiguous \in BOOLEAN
  /\ ~ambiguous => datesOf(days) = datesOf(activities) /\ OneDayEach(days)

LEMMA PlacesOfSome ==
  ASSUME NEW T, NEW list \in Seq(T), NEW date
  PROVE  /\ placesOf(list, date) \in SUBSET DOMAIN list
         /\ (DOMAIN list \ placesOf(list, date)) \in SUBSET DOMAIN list
         /\ placesOf(list, date) \in SUBSET Nat /\ IsFiniteSet(placesOf(list, date))
         /\ placesOf(list, date) # {} <=> date \in datesOf(list)
<1>1. placesOf(list, date) \in SUBSET DOMAIN list BY DEF placesOf
<1>2. placesOf(list, date) \in SUBSET Nat /\ IsFiniteSet(placesOf(list, date))
  BY <1>1, Selected
<1>3. placesOf(list, date) # {} <=> date \in datesOf(list) BY DEF placesOf, datesOf
<1> QED BY <1>1, <1>2, <1>3

\* The dates of a choice are the dates of what is chosen.
LEMMA SelectedDates ==
  ASSUME NEW T, NEW list \in Seq(T), NEW at \in SUBSET DOMAIN list
  PROVE  /\ datesOf(elementsAt(list, at)) = {list[i].date : i \in at}
         /\ OneDayEach(list) => OneDayEach(elementsAt(list, at))
<1> DEFINE chosen == elementsAt(list, at)
           o == inOrder(at)
           size == Cardinality(at)
<1>1. /\ DOMAIN chosen = 1 .. size
      /\ \A n \in 1 .. size : o[n] \in at /\ chosen[n] = list[o[n]]
      /\ \A i, j \in 1 .. size : o[i] = o[j] => i = j
      /\ \A i \in at : \E n \in 1 .. size : o[n] = i
  <2>1. DOMAIN chosen = 1 .. size BY Selected
  <2>2. \A n \in 1 .. size : o[n] \in at /\ chosen[n] = list[o[n]] BY Selected
  <2>3. \A i, j \in 1 .. size : o[i] = o[j] => i = j BY Selected
  <2>4. \A i \in at : \E n \in 1 .. size : o[n] = i BY Selected
  <2> QED BY <2>1, <2>2, <2>3, <2>4
<1> HIDE DEF chosen, o, size
<1>2. datesOf(chosen) = {list[i].date : i \in at} BY <1>1 DEF datesOf
<1>3. OneDayEach(list) => OneDayEach(chosen) BY <1>1 DEF OneDayEach
<1> QED BY <1>2, <1>3 DEF chosen

LEMMA WithoutDate ==
  ASSUME NEW T, NEW list \in Seq(T), NEW date
  PROVE  /\ without(list, date) \in Seq(T)
         /\ datesOf(without(list, date)) = datesOf(list) \ {date}
         /\ OneDayEach(list) => OneDayEach(without(list, date))
<1>1. (DOMAIN list \ placesOf(list, date)) \in SUBSET DOMAIN list BY PlacesOfSome
<1>2. without(list, date) \in Seq(T) BY <1>1, Selected DEF without
<1>3. datesOf(without(list, date)) = {list[i].date : i \in DOMAIN list \ placesOf(list, date)}
  BY <1>1, SelectedDates DEF without
<1>4. {list[i].date : i \in DOMAIN list \ placesOf(list, date)} = datesOf(list) \ {date}
  BY DEF placesOf, datesOf
<1>5. OneDayEach(list) => OneDayEach(without(list, date)) BY <1>1, SelectedDates DEF without
<1> QED BY <1>2, <1>3, <1>4, <1>5

LEMMA WithoutNone ==
  ASSUME NEW T, NEW list \in Seq(T), NEW date, date \notin datesOf(list)
  PROVE  without(list, date) = list
<1>1. DOMAIN list \ placesOf(list, date) = DOMAIN list BY DEF placesOf, datesOf
<1> QED BY <1>1, AllSelected DEF without

LEMMA OfOneDate ==
  ASSUME NEW T, NEW list \in Seq(T), NEW date
  PROVE  /\ onDate(list, date) \in Seq(T)
         /\ Len(onDate(list, date)) = Cardinality(placesOf(list, date))
         /\ \A i \in DOMAIN onDate(list, date) :
              \E j \in placesOf(list, date) : onDate(list, date)[i] = list[j]
<1> DEFINE at == placesOf(list, date)
<1>1. at \in SUBSET DOMAIN list BY PlacesOfSome
<1> HIDE DEF at
<1>2. /\ elementsAt(list, at) \in Seq(T) /\ Len(elementsAt(list, at)) = Cardinality(at)
      /\ \A i \in DOMAIN elementsAt(list, at) :
           inOrder(at)[i] \in at /\ elementsAt(list, at)[i] = list[inOrder(at)[i]]
  BY <1>1, Selected
<1> QED BY <1>2 DEF onDate, at

\* One blank date too many is seen.
LEMMA TwoOnDate ==
  ASSUME NEW T, NEW list \in Seq(T), NEW date, ~(Len(onDate(list, date)) > 1),
         NEW i \in DOMAIN list, NEW j \in DOMAIN list,
         list[i].date = date, list[j].date = date
  PROVE  i = j
<1> DEFINE at == placesOf(list, date)
<1>1. IsFiniteSet(at) BY PlacesOfSome
<1>2. i \in at /\ j \in at BY DEF placesOf
<1>3. Len(onDate(list, date)) = Cardinality(at) BY OfOneDate
<1> HIDE DEF at
<1>4. Cardinality(at) \in Nat BY <1>1, FS_CardinalityType
<1>5. Cardinality(at) # 0 BY <1>1, <1>2, FS_EmptySet
<1>6. Cardinality(at) = 1 BY <1>3, <1>4, <1>5
<1> QED BY <1>1, <1>2, <1>6, FS_Singleton

\* The window rows of one date give their day.
LEMMA FilledWindow ==
  ASSUME NEW acts \in Seq(Activity)
  PROVE  /\ filled(acts) \in Windows
         /\ \A w \in Windows : /\ acts # <<>>
                               /\ \A i \in DOMAIN acts : acts[i].window = w
                               => filled(acts) = w
<1> DEFINE timed(t) == {i \in DOMAIN acts : acts[i].window[t] # 0}
<1>1. \A i \in DOMAIN acts : acts[i] \in Activity
  BY LenProperties
<1>2. ASSUME NEW t \in Timings
      PROVE  /\ timed(t) = {} => filled(acts)[t] = 0
             /\ timed(t) # {} => /\ Min(timed(t)) \in DOMAIN acts
                                 /\ filled(acts)[t] = acts[Min(timed(t))].window[t]
  <2>1. timed(t) \in SUBSET DOMAIN acts OBVIOUS
  <2>2. filled(acts)[t] = IF timed(t) = {} THEN 0 ELSE acts[Min(timed(t))].window[t]
    BY DEF filled
  <2> HIDE DEF timed
  <2>3. timed(t) \in SUBSET Nat /\ IsFiniteSet(timed(t)) BY <2>1, Selected
  <2>4. timed(t) # {} => Min(timed(t)) \in timed(t) BY <2>3, Extremes
  <2> QED BY <2>1, <2>2, <2>4
<1>3. filled(acts) = [t \in Timings |-> filled(acts)[t]] BY DEF filled
<1>4. filled(acts) \in Windows
  <2>1. ASSUME NEW t \in Timings PROVE filled(acts)[t] \in {0, 1}
    <3> HIDE DEF timed
    <3>1. \A i \in DOMAIN acts : acts[i].window[t] \in {0, 1}
      BY <1>1, <2>1 DEF Activity, Windows
    <3> QED BY <1>2, <3>1
  <2> QED BY <1>3, <2>1 DEF Windows
<1>5. ASSUME NEW w \in Windows, acts # <<>>, \A i \in DOMAIN acts : acts[i].window = w
      PROVE  filled(acts) = w
  <2>1. ASSUME NEW t \in Timings PROVE filled(acts)[t] = w[t]
    <3>1. timed(t) = {} => w[t] = 0
      <4>1. \E i \in DOMAIN acts : TRUE
        <5>1. Len(acts) \in Nat /\ DOMAIN acts = 1 .. Len(acts) BY LenProperties
        <5>2. Len(acts) # 0 BY <1>5, EmptySeq
        <5>3. 1 \in DOMAIN acts BY <5>1, <5>2
        <5> QED BY <5>3
      <4> QED BY <1>5, <4>1
    <3> HIDE DEF timed
    <3> QED BY <1>2, <1>5, <2>1, <3>1
  <2> QED BY <1>3, <2>1 DEF Windows
<1> QED BY <1>4, <1>5

LEMMA DatesAreDates ==
  ASSUME NEW T, \A x \in T : x.date \in AllDates, NEW list \in Seq(T)
  PROVE  datesOf(list) \in SUBSET AllDates
<1>1. \A i \in DOMAIN list : list[i] \in T BY LenProperties
<1> QED BY <1>1 DEF datesOf

LEMMA DerivedDays ==
  ASSUME NEW list \in Seq(Activity)
  PROVE  LET derived == deriveScheduleDaysFromEntries(list)
         IN  /\ derived \in Seq(Day) /\ Len(derived) = Cardinality(datesOf(list) \ {0})
             /\ datesOf(derived) = datesOf(list) \ {0} /\ OneDayEach(derived)
             /\ \A i, j \in DOMAIN derived : i < j => derived[i].date < derived[j].date
             /\ \A i \in DOMAIN derived :
                  derived[i].window = filled(onDate(list, derived[i].date))
<1> DEFINE D == datesOf(list) \ {0}
           o == inOrder(D)
           size == Cardinality(D)
           derived == deriveScheduleDaysFromEntries(list)
           rank == [x \in D |-> Cardinality({y \in D : y <= x})]
<1>1. D \in SUBSET AllDates
  <2>1. \A x \in Activity : x.date \in AllDates BY DEF Activity
  <2> QED BY <2>1, DatesAreDates
<1>2. AllDates \subseteq Nat /\ IsFiniteSet(AllDates)
  BY ScheduleAssumption, FS_Interval DEF AllDates
<1>3. D \in SUBSET Nat /\ IsFiniteSet(D) BY <1>1, <1>2, FS_Subset
<1> HIDE DEF D
<1>4. /\ size \in Nat /\ DOMAIN o = 1 .. size
      /\ \A n \in 1 .. size : o[n] \in D
      /\ \A x \in D : rank[x] \in 1 .. size /\ o[rank[x]] = x
      /\ \A i, j \in 1 .. size : i < j => o[i] < o[j]
  BY <1>3, NumbersInTurn
<1>5. derived = [i \in 1 .. size |-> [date |-> o[i], window |-> filled(onDate(list, o[i]))]]
  BY <1>4 DEF deriveScheduleDaysFromEntries, D
<1> HIDE DEF o, size, rank
<1>6. \A i \in 1 .. size : derived[i] \in Day
  <2> TAKE i \in 1 .. size
  <2>1. o[i] \in AllDates BY <1>1, <1>4
  <2>2. filled(onDate(list, o[i])) \in Windows BY OfOneDate, FilledWindow
  <2> QED BY <1>5, <2>1, <2>2 DEF Day
<1>7. derived \in Seq(Day) /\ Len(derived) = size /\ DOMAIN derived = 1 .. size
  <2>1. derived \in [1 .. size -> Day] BY <1>5, <1>6
  <2>2. DOMAIN derived = 1 .. size BY <1>5
  <2> HIDE DEF derived
  <2> QED BY <1>4, <2>1, <2>2, SeqDef, LenProperties
<1>8. \A i \in 1 .. size : /\ derived[i].date = o[i]
                           /\ derived[i].window = filled(onDate(list, derived[i].date))
  BY <1>5
<1> HIDE DEF derived
<1>9. datesOf(derived) = D BY <1>4, <1>7, <1>8 DEF datesOf
<1>10. \A i, j \in DOMAIN derived : i < j => derived[i].date < derived[j].date
  BY <1>4, <1>7, <1>8
<1>11. OneDayEach(derived)
  <2> SUFFICES ASSUME NEW i \in DOMAIN derived, NEW j \in DOMAIN derived,
                      derived[i].date = derived[j].date, i < j
               PROVE  FALSE
    BY <1>4, <1>7 DEF OneDayEach
  <2>1. o[i] < o[j] /\ o[i] = o[j] /\ o[i] \in D BY <1>4, <1>7, <1>8
  <2>2. o[i] \in Nat BY <1>3, <2>1
  <2> QED BY <2>1, <2>2
<1> QED BY <1>7, <1>8, <1>9, <1>10, <1>11 DEF derived, D, size

\* The schedule keeps its activities, each with the window of its day.
LEMMA AppliedDays ==
  ASSUME NEW list \in Seq(Activity), NEW supplied \in Seq(Day)
  PROVE  LET acts == applyScheduleDaysToEntries(list, supplied)
         IN  /\ acts \in Seq(Activity) /\ Len(acts) = Len(list) /\ DOMAIN acts = DOMAIN list
             /\ \A i \in DOMAIN list : acts[i].date = list[i].date /\ acts[i].show = list[i].show
             /\ supplied # <<>> /\ OneDayEach(supplied) =>
                  \A i \in DOMAIN list, d \in DOMAIN supplied :
                    supplied[d].date = list[i].date => acts[i].window = supplied[d].window
<1> DEFINE used == IF supplied = <<>> THEN deriveScheduleDaysFromEntries(list) ELSE supplied
           acts == applyScheduleDaysToEntries(list, supplied)
           dayPlace(i) == Max(placesOf(used, list[i].date))
<1>1. used \in Seq(Day) BY DerivedDays
<1>2. /\ Len(list) \in Nat /\ DOMAIN list = 1 .. Len(list)
      /\ \A i \in DOMAIN list : list[i] \in Activity
  BY LenProperties
<1>3. acts = [i \in DOMAIN list |->
               IF list[i].date \in datesOf(used)
               THEN [list[i] EXCEPT !.window = used[dayPlace(i)].window] ELSE list[i]]
  BY DEF applyScheduleDaysToEntries
<1> HIDE DEF used
<1>4. ASSUME NEW i \in DOMAIN list, list[i].date \in datesOf(used)
      PROVE  dayPlace(i) \in DOMAIN used /\ used[dayPlace(i)].date = list[i].date
             /\ used[dayPlace(i)].window \in Windows
  <2>1. /\ placesOf(used, list[i].date) \in SUBSET DOMAIN used
        /\ placesOf(used, list[i].date) \in SUBSET Nat
        /\ IsFiniteSet(placesOf(used, list[i].date))
        /\ placesOf(used, list[i].date) # {}
    BY <1>1, <1>4, PlacesOfSome
  <2>2. dayPlace(i) \in placesOf(used, list[i].date) BY <2>1, Extremes
  <2>3. dayPlace(i) \in DOMAIN used /\ used[dayPlace(i)].date = list[i].date
    BY <2>2 DEF placesOf
  <2>4. used[dayPlace(i)] \in Day BY <1>1, <2>3, LenProperties
  <2> QED BY <2>3, <2>4 DEF Day
<1> HIDE DEF dayPlace
<1>5. \A i \in DOMAIN list : /\ acts[i] \in Activity
                             /\ acts[i].date = list[i].date /\ acts[i].show = list[i].show
                             /\ list[i].date \in datesOf(used) =>
                                  acts[i].window = used[dayPlace(i)].window
  BY <1>2, <1>3, <1>4 DEF Activity
<1>6. DOMAIN acts = DOMAIN list BY <1>3
<1>7. acts \in Seq(Activity) /\ Len(acts) = Len(list)
  <2>1. acts \in [1 .. Len(list) -> Activity] BY <1>2, <1>3, <1>5
  <2> HIDE DEF acts
  <2> QED BY <1>2, <1>6, <2>1, SeqDef, LenProperties
<1>8. ASSUME supplied # <<>>, OneDayEach(supplied), NEW i \in DOMAIN list,
             NEW d \in DOMAIN supplied, supplied[d].date = list[i].date
      PROVE  acts[i].window = supplied[d].window
  <2>1. used = supplied BY <1>8 DEF used
  <2>2. list[i].date \in datesOf(used) BY <1>8, <2>1 DEF datesOf
  <2>3. dayPlace(i) = d BY <1>4, <1>8, <2>1, <2>2 DEF OneDayEach
  <2> HIDE DEF acts
  <2> QED BY <1>5, <2>1, <2>2, <2>3
<1> HIDE DEF acts
<1> QED BY <1>5, <1>6, <1>7, <1>8 DEF acts

\* ORDER BY date and position moves each row to a place of its own.
LEMMA StoredInOrder ==
  ASSUME NEW form, applyScheduleDaysToEntries(form.activities, form.days) \in Seq(Activity)
  PROVE  LET acts == applyScheduleDaysToEntries(form.activities, form.days)
         IN  /\ stored(form) \in Seq(Activity) /\ Len(stored(form)) = Len(acts)
             /\ \E f \in Bijection(DOMAIN acts, DOMAIN acts) :
                  /\ \A i \in DOMAIN acts : stored(form)[f[i]] = acts[i]
                  /\ \A i, j \in DOMAIN acts :
                       f[i] <= f[j] <=> \/ acts[i].date < acts[j].date
                                        \/ (acts[i].date = acts[j].date /\ i <= j)
<1> DEFINE acts == applyScheduleDaysToEntries(form.activities, form.days)
           D == DOMAIN acts
           early(i) == {j \in D : \/ acts[j].date < acts[i].date
                                 \/ (acts[j].date = acts[i].date /\ j <= i)}
           upTo == [i \in D |-> early(i)]
           rank == [i \in D |-> Cardinality(upTo[i])]
           list == [n \in D |-> acts[CHOOSE i \in D : Cardinality(early(i)) = n]]
<1>1. stored(form) = list BY DEF stored
<1> HIDE DEF acts
<1>2. /\ Len(acts) \in Nat /\ D = 1 .. Len(acts) /\ D \subseteq Nat
      /\ \A i \in D : acts[i] \in Activity
  <2>1. acts \in Seq(Activity) BY DEF acts
  <2> QED BY <2>1, LenProperties
<1>3. \A i \in D : acts[i].date \in Nat
  BY <1>2, ScheduleAssumption DEF Activity, AllDates
<1>4. IsFiniteSet(D) /\ Cardinality(D) = Len(acts)
  <2>1. IsFiniteSet(1 .. Len(acts)) /\ Cardinality(1 .. Len(acts)) = Len(acts)
    <3> DEFINE n == Len(acts)
    <3>1. n \in Nat BY <1>2
    <3> HIDE DEF n
    <3>2. IsFiniteSet(1 .. n) /\ Cardinality(1 .. n) = n BY <3>1, FS_Interval
    <3> QED BY <3>2 DEF n
  <2> QED BY <1>2, <2>1
<1>5. upTo \in [D -> SUBSET D] OBVIOUS
<1>6. \A i, j \in D : i \in upTo[j] <=> \/ acts[i].date < acts[j].date
                                        \/ (acts[i].date = acts[j].date /\ i <= j)
  OBVIOUS
<1> HIDE DEF upTo
<1>7. \A i \in D : i \in upTo[i] BY <1>2, <1>6
<1>8. ASSUME NEW i \in D, NEW j \in D, i \in upTo[j] PROVE upTo[i] \subseteq upTo[j]
  <2> SUFFICES ASSUME NEW k \in upTo[i] PROVE k \in upTo[j] OBVIOUS
  <2>1. k \in D BY <1>5
  <2>2. /\ i \in Nat /\ j \in Nat /\ k \in Nat
        /\ acts[i].date \in Nat /\ acts[j].date \in Nat /\ acts[k].date \in Nat
    BY <1>2, <1>3, <2>1
  <2>3. \/ acts[k].date < acts[i].date
        \/ (acts[k].date = acts[i].date /\ k <= i)
    BY <1>6, <2>1
  <2>4. \/ acts[i].date < acts[j].date
        \/ (acts[i].date = acts[j].date /\ i <= j)
    BY <1>6, <1>8
  <2>5. \/ acts[k].date < acts[j].date
        \/ (acts[k].date = acts[j].date /\ k <= j)
    BY <2>2, <2>3, <2>4
  <2> QED BY <1>6, <2>1, <2>5
<1>9. ASSUME NEW i \in D, NEW j \in D PROVE i \in upTo[j] \/ j \in upTo[i]
  <2>1. i \in Nat /\ j \in Nat /\ acts[i].date \in Nat /\ acts[j].date \in Nat
    BY <1>2, <1>3
  <2> QED BY <1>6, <2>1
<1>10. ASSUME NEW i \in D, NEW j \in D, i \in upTo[j], j \in upTo[i] PROVE i = j
  <2>1. i \in Nat /\ j \in Nat /\ acts[i].date \in Nat /\ acts[j].date \in Nat
    BY <1>2, <1>3
  <2> QED BY <1>6, <1>10, <2>1
<1>11. /\ rank \in Bijection(D, 1 .. Cardinality(D))
       /\ \A i, j \in D : rank[i] <= rank[j] <=> i \in upTo[j]
  <2> HIDE DEF D
  <2> QED BY <1>4, <1>5, <1>7, <1>8, <1>9, <1>10, RanksInTurn
<1>12. rank \in Bijection(D, D) BY <1>2, <1>4, <1>11
<1>13. /\ \A i \in D : rank[i] \in D
       /\ \A i, j \in D : rank[i] = rank[j] => i = j
       /\ \A n \in D : \E i \in D : rank[i] = n
  <2>1. DOMAIN rank = D OBVIOUS
  <2> HIDE DEF rank, D
  <2> QED BY <1>12, <2>1 DEF Bijection, Injection, Surjection, IsInjective
<1>14. \A n \in D : \E i \in D : list[n] = acts[i] /\ rank[i] = n
  <2> TAKE n \in D
  <2>1. list[n] = acts[CHOOSE i \in D : Cardinality(early(i)) = n] OBVIOUS
  <2>2. \A i \in D : rank[i] = Cardinality(early(i)) BY DEF upTo
  <2> HIDE DEF early, list, rank, D
  <2>3. \E i \in D : Cardinality(early(i)) = n BY <1>13, <2>2
  <2> QED BY <2>1, <2>2, <2>3
<1>15. DOMAIN list = D OBVIOUS
<1> HIDE DEF list, rank
<1>16. \A i \in D : list[rank[i]] = acts[i]
  <2> HIDE DEF D
  <2> QED BY <1>13, <1>14
<1>17. list \in Seq(Activity) /\ Len(list) = Len(acts)
  <2>1. \A n \in D : list[n] \in Activity BY <1>2, <1>14
  <2>2. list = [n \in D |-> list[n]] BY DEF list
  <2>3. list \in [1 .. Len(acts) -> Activity]
    <3> HIDE DEF D
    <3> QED BY <1>2, <2>1, <2>2
  <2> QED BY <1>2, <1>15, <2>3, SeqDef, LenProperties
<1> HIDE DEF D
<1>18. \A i, j \in D : rank[i] <= rank[j] <=> \/ acts[i].date < acts[j].date
                                              \/ (acts[i].date = acts[j].date /\ i <= j)
  BY <1>6, <1>11
<1> QED BY <1>1, <1>12, <1>16, <1>17, <1>18 DEF acts, D

LEMMA FormIsSent ==
  ASSUME DaysInv
  PROVE  /\ prepared.activities \in Seq(Activity) /\ prepared.days \in Seq(Day)
         /\ prepared.shows \in Nat /\ 0 \notin datesOf(prepared.activities)
<1> DEFINE dated == without(activities, 0)
           kept == without(days, 0)
           given == IF kept = <<>> THEN deriveScheduleDaysFromEntries(dated) ELSE kept
           at == {i \in DOMAIN given : given[i].date \in datesOf(dated)}
           active == elementsAt(given, at)
           acts == applyScheduleDaysToEntries(dated, active)
<1>1. prepared = [days |-> active, activities |-> acts,
                  shows |-> deriveVenueShowCount(acts, shows)]
  BY DEF prepared
<1>2. activities \in Seq(Activity) /\ days \in Seq(Day) /\ shows \in Nat BY DEF DaysInv
<1>3. /\ dated \in Seq(Activity) /\ kept \in Seq(Day)
      /\ datesOf(dated) = datesOf(activities) \ {0}
  BY <1>2, WithoutDate
<1> HIDE DEF dated, kept
<1>4. given \in Seq(Day) BY <1>3, DerivedDays
<1>5. at \in SUBSET DOMAIN given OBVIOUS
<1> HIDE DEF given, at
<1>6. active \in Seq(Day) BY <1>4, <1>5, Selected
<1> HIDE DEF active
<1>7. /\ acts \in Seq(Activity) /\ DOMAIN acts = DOMAIN dated
      /\ \A i \in DOMAIN dated : acts[i].date = dated[i].date
  BY <1>3, <1>6, AppliedDays
<1> HIDE DEF acts
<1>8. 0 \notin datesOf(acts)
  <2>1. datesOf(acts) = datesOf(dated) BY <1>7 DEF datesOf
  <2> QED BY <1>3, <2>1
<1>9. deriveVenueShowCount(acts, shows) \in Nat
  <2> DEFINE showing == {i \in DOMAIN acts : acts[i].show}
  <2>1. showing \in SUBSET DOMAIN acts OBVIOUS
  <2>2. Cardinality(showing) \in Nat
    <3> HIDE DEF showing
    <3> QED BY <1>7, <2>1, Selected
  <2> QED BY <1>2, <2>2 DEF deriveVenueShowCount, countScheduledShows
<1> QED BY <1>1, <1>6, <1>7, <1>8, <1>9

\* What is stored has the rows the form sent, and so their dates.
LEMMA StoredRows ==
  ASSUME DaysInv
  PROVE  LET acts == applyScheduleDaysToEntries(prepared.activities, prepared.days)
         IN  /\ acts \in Seq(Activity) /\ stored(prepared) \in Seq(Activity)
             /\ datesOf(stored(prepared)) = datesOf(acts)
             /\ datesOf(acts) = datesOf(prepared.activities)
<1> DEFINE acts == applyScheduleDaysToEntries(prepared.activities, prepared.days)
           list == stored(prepared)
<1>1. /\ acts \in Seq(Activity) /\ DOMAIN acts = DOMAIN prepared.activities
      /\ \A i \in DOMAIN prepared.activities : acts[i].date = prepared.activities[i].date
  BY FormIsSent, AppliedDays
<1>2. datesOf(acts) = datesOf(prepared.activities)
  <2> HIDE DEF acts
  <2> QED BY <1>1 DEF datesOf
<1>3. /\ list \in Seq(Activity) /\ Len(list) = Len(acts)
      /\ \E f \in Bijection(DOMAIN acts, DOMAIN acts) : \A i \in DOMAIN acts : list[f[i]] = acts[i]
  BY <1>1, StoredInOrder
<1> HIDE DEF acts, list
<1>4. PICK f \in Bijection(DOMAIN acts, DOMAIN acts) : \A i \in DOMAIN acts : list[f[i]] = acts[i]
  BY <1>3
<1>5. DOMAIN list = DOMAIN acts BY <1>1, <1>3, LenProperties
<1>6. /\ \A i \in DOMAIN acts : f[i] \in DOMAIN acts
      /\ \A n \in DOMAIN acts : \E i \in DOMAIN acts : f[i] = n
  BY DEF Bijection, Injection, Surjection
<1>7. datesOf(list) = datesOf(acts)
  <2>1. ASSUME NEW i \in DOMAIN acts PROVE \E n \in DOMAIN list : list[n] = acts[i]
    BY <1>4, <1>5, <1>6
  <2>2. ASSUME NEW n \in DOMAIN list PROVE \E i \in DOMAIN acts : list[n] = acts[i]
    <3>1. PICK i \in DOMAIN acts : f[i] = n BY <1>5, <1>6
    <3> QED BY <1>4, <3>1
  <2> QED BY <2>1, <2>2 DEF datesOf
<1> QED BY <1>1, <1>2, <1>3, <1>7 DEF acts, list

LEMMA TakenOut ==
  ASSUME NEW T, NEW list \in Seq(T), NEW i \in DOMAIN list
  PROVE  /\ RemoveAt(list, i) \in Seq(T)
         /\ datesOf(RemoveAt(list, i)) = {list[j].date : j \in DOMAIN list \ {i}}
<1> DEFINE n == Len(list)
           first == SubSeq(list, 1, i - 1)
           back == SubSeq(list, i + 1, n)
           rest == RemoveAt(list, i)
<1>1. n \in Nat /\ i \in 1 .. n /\ DOMAIN list = 1 .. n BY LenProperties
<1>2. /\ first \in Seq(T) /\ Len(first) = i - 1
      /\ \A k \in 1 .. i - 1 : first[k] = list[k]
  BY <1>1, SubSeqProperties
<1>3. /\ back \in Seq(T) /\ Len(back) = n - i
      /\ \A k \in 1 .. n - i : back[k] = list[i + k]
  BY <1>1, SubSeqProperties
<1>4. rest = first \o back BY DEF RemoveAt
<1> HIDE DEF first, back, n, rest
<1>5. rest \in Seq(T) /\ Len(rest) = (i - 1) + (n - i) BY <1>2, <1>3, <1>4, ConcatProperties
<1>6. \A k \in 1 .. (i - 1) + (n - i) :
        rest[k] = IF k <= i - 1 THEN first[k] ELSE back[k - (i - 1)]
  <2>1. \A k \in 1 .. Len(first) + Len(back) :
          (first \o back)[k] = IF k <= Len(first) THEN first[k] ELSE back[k - Len(first)]
    BY <1>2, <1>3, ConcatProperties
  <2> QED BY <1>2, <1>3, <1>4, <2>1
<1>7. DOMAIN rest = 1 .. n - 1
  <2>1. (i - 1) + (n - i) = n - 1 BY <1>1
  <2> QED BY <1>5, <2>1, LenProperties
<1>8. ASSUME NEW k \in DOMAIN rest
      PROVE  \E j \in DOMAIN list \ {i} : rest[k] = list[j]
  <2>1. k \in Nat /\ i \in Nat /\ n \in Nat /\ 1 <= k /\ k <= n - 1 /\ (i - 1) + (n - i) = n - 1
    BY <1>1, <1>7
  <2>2. CASE k <= i - 1
    <3>1. k \in 1 .. i - 1 /\ k \in DOMAIN list \ {i} BY <1>1, <2>1, <2>2
    <3>2. rest[k] = list[k] BY <1>2, <1>6, <1>7, <2>1, <2>2, <3>1
    <3> QED BY <3>1, <3>2
  <2>3. CASE ~(k <= i - 1)
    <3>1. k - (i - 1) \in 1 .. n - i /\ i + (k - (i - 1)) = k + 1 /\ k + 1 \in DOMAIN list \ {i}
      BY <1>1, <2>1, <2>3
    <3>2. rest[k] = list[k + 1] BY <1>3, <1>6, <1>7, <2>1, <2>3, <3>1
    <3> QED BY <3>1, <3>2
  <2> QED BY <2>2, <2>3
<1>9. ASSUME NEW j \in DOMAIN list \ {i}
      PROVE  \E k \in DOMAIN rest : rest[k] = list[j]
  <2>1. j \in Nat /\ i \in Nat /\ n \in Nat /\ 1 <= j /\ j <= n /\ j # i /\ 1 <= i /\ i <= n
        /\ (i - 1) + (n - i) = n - 1
    BY <1>1
  <2>2. CASE j < i
    <3>1. j \in 1 .. i - 1 /\ j <= i - 1 /\ j \in 1 .. n - 1 BY <2>1, <2>2
    <3>2. rest[j] = list[j] BY <1>2, <1>6, <2>1, <3>1
    <3> QED BY <1>7, <3>1, <3>2
  <2>3. CASE ~(j < i)
    <3>1. PICK k \in Nat : k = j - 1 BY <2>1
    <3>2. /\ k \in 1 .. n - 1 /\ ~(k <= i - 1) /\ k \in 1 .. (i - 1) + (n - i)
          /\ k - (i - 1) \in 1 .. n - i /\ i + (k - (i - 1)) = j
      BY <2>1, <2>3, <3>1
    <3>3. rest[k] = list[j] BY <1>3, <1>6, <3>2
    <3> QED BY <1>7, <3>2, <3>3
  <2> QED BY <2>2, <2>3
<1>10. datesOf(rest) = {list[j].date : j \in DOMAIN list \ {i}} BY <1>8, <1>9 DEF datesOf
<1> QED BY <1>5, <1>10 DEF rest

LEMMA AppendedDate ==
  ASSUME NEW T, NEW list \in Seq(T), NEW x \in T
  PROVE  /\ Append(list, x) \in Seq(T)
         /\ datesOf(Append(list, x)) = datesOf(list) \cup {x.date}
         /\ OneDayEach(list) /\ x.date \notin datesOf(list) => OneDayEach(Append(list, x))
<1> DEFINE longer == Append(list, x)
           n == Len(list)
<1>1. /\ longer \in Seq(T) /\ Len(longer) = n + 1 /\ longer[n + 1] = x
      /\ \A i \in 1 .. n : longer[i] = list[i]
  BY AppendProperties
<1>2. n \in Nat /\ DOMAIN list = 1 .. n /\ DOMAIN longer = 1 .. n + 1
  BY <1>1, LenProperties
<1> HIDE DEF longer, n
<1>3. \A i \in DOMAIN longer : i \in DOMAIN list \/ i = n + 1 BY <1>2
<1>4. n + 1 \in DOMAIN longer /\ \A i \in DOMAIN list : i \in DOMAIN longer /\ longer[i] = list[i]
  BY <1>1, <1>2
<1>5. datesOf(longer) = datesOf(list) \cup {x.date} BY <1>1, <1>3, <1>4 DEF datesOf
<1>6. ASSUME OneDayEach(list), x.date \notin datesOf(list) PROVE OneDayEach(longer)
  <2> SUFFICES ASSUME NEW i \in DOMAIN longer, NEW j \in DOMAIN longer,
                      longer[i].date = longer[j].date
               PROVE  i = j
    BY DEF OneDayEach
  <2>1. CASE i \in DOMAIN list /\ j \in DOMAIN list BY <1>4, <1>6, <2>1 DEF OneDayEach
  <2>2. CASE i = n + 1 /\ j = n + 1 BY <2>2
  <2>3. CASE i \in DOMAIN list /\ j = n + 1 BY <1>1, <1>4, <1>6, <2>3 DEF datesOf
  <2>4. CASE j \in DOMAIN list /\ i = n + 1 BY <1>1, <1>4, <1>6, <2>4 DEF datesOf
  <2> QED BY <1>3, <2>1, <2>2, <2>3, <2>4
<1> QED BY <1>1, <1>5, <1>6 DEF longer

LEMMA NextIsNew ==
  ASSUME startDate \in {0, 1}, NEW used \in SUBSET AllDates
  PROVE  /\ nextAvailableScheduleDate(used) \in Nat
         /\ startDate # 0 => nextAvailableScheduleDate(used) \notin used
<1> DEFINE free == {d \in startDate .. LastDate + 1 : d \notin used}
           next == nextAvailableScheduleDate(used)
<1>1. CASE startDate = 0 BY <1>1 DEF nextAvailableScheduleDate
<1>2. CASE startDate = 1
  <2>1. LastDate \in Nat BY ScheduleAssumption
  <2>2. free \in SUBSET (1 .. LastDate + 1) BY <1>2
  <2>3. IsFiniteSet(1 .. LastDate + 1) BY <2>1, FS_Interval
  <2>4. LastDate + 1 \in free BY <1>2, <2>1 DEF AllDates
  <2>5. free \in SUBSET Nat /\ IsFiniteSet(free) BY <2>1, <2>2, <2>3, FS_Subset
  <2>6. Min(free) \in free /\ \A d \in free : Min(free) <= d BY <2>4, <2>5, Extremes
  <2>7. PICK m \in free : \A d \in free : m <= d BY <2>6
  <2>8. \A e \in startDate .. m - 1 : e \in used
    <3> SUFFICES ASSUME NEW e \in startDate .. m - 1, e \notin used PROVE FALSE OBVIOUS
    <3>1. m \in 1 .. LastDate + 1 BY <2>2
    <3>2. e \in Nat /\ m \in Nat /\ ~(m <= e) /\ e \in startDate .. LastDate + 1
      BY <1>2, <2>1, <3>1
    <3>3. e \in free BY <3>2
    <3> QED BY <2>7, <3>2, <3>3
  <2>9. m \in startDate .. LastDate + 1 /\ m \notin used OBVIOUS
  <2>10. next = CHOOSE d \in startDate .. LastDate + 1 :
                  d \notin used /\ \A e \in startDate .. d - 1 : e \in used
    BY <1>2 DEF nextAvailableScheduleDate
  <2>11. next \in startDate .. LastDate + 1 /\ next \notin used BY <2>8, <2>9, <2>10
  <2> HIDE DEF next
  <2> QED BY <1>2, <2>1, <2>11 DEF next
<1> QED BY <1>1, <1>2

\* Without two blank dates the days on the screen are the days of the form.
LEMMA DisplayedAreDays ==
  ASSUME DaysInv
  PROVE  /\ displayedDays(days, activities) \in Seq(Day)
         /\ ~ambiguous => displayedDays(days, activities) = days
<1>1. days \in Seq(Day) /\ activities \in Seq(Activity) BY DEF DaysInv
<1>2. deriveScheduleDaysFromEntries(activities) \in Seq(Day)
      /\ Len(deriveScheduleDaysFromEntries(activities)) = Cardinality(datesOf(activities) \ {0})
  BY <1>1, DerivedDays
<1>3. displayedDays(days, activities) \in Seq(Day) BY <1>1, <1>2 DEF displayedDays
<1>4. ASSUME ~ambiguous, days = <<>> PROVE deriveScheduleDaysFromEntries(activities) = <<>>
  <2>1. DOMAIN days = {} BY <1>4
  <2>2. datesOf(days) = {} BY <2>1 DEF datesOf
  <2>3. datesOf(activities) \ {0} = {} BY <1>4, <2>2 DEF DaysInv
  <2>4. Len(deriveScheduleDaysFromEntries(activities)) = 0 BY <1>2, <2>3, FS_EmptySet
  <2> QED BY <1>2, <2>4, EmptySeq
<1> QED BY <1>3, <1>4 DEF displayedDays

LEMMA ScheduleStarts ==
  ASSUME ScheduleInit PROVE DaysInv
<1>1. activities \in Seq(Activity)
  <2>1. <<>> \in Seq(Activity) BY EmptySeq
  <2>2. \A a, b \in Activity : <<a, b>> \in Seq(Activity) OBVIOUS
  <2>3. {x \in Activity : x.show /\ x.date = 1} \subseteq Activity OBVIOUS
  <2>4. activities = <<>> \/ \E a, b \in Activity : activities = <<a, b>>
    BY <2>3 DEF ScheduleInit
  <2> QED BY <2>1, <2>2, <2>4
<1>2. shows \in Nat BY ScheduleAssumption DEF ScheduleInit
<1>3. 0 \notin datesOf(activities)
  <2>1. CASE activities = <<>>
    <3>1. DOMAIN activities = {} BY <2>1
    <3> QED BY <3>1 DEF datesOf
  <2>2. CASE \E a, b \in {x \in Activity : x.show /\ x.date = 1} : activities = <<a, b>>
    <3>1. PICK a, b \in {x \in Activity : x.show /\ x.date = 1} : activities = <<a, b>>
      BY <2>2
    <3>2. DOMAIN activities = {1, 2} /\ activities[1] = a /\ activities[2] = b BY <3>1
    <3>3. a.date = 1 /\ b.date = 1 OBVIOUS
    <3> QED BY <3>2, <3>3 DEF datesOf
  <2> QED BY <2>1, <2>2 DEF ScheduleInit
<1>4. /\ days \in Seq(Day) /\ OneDayEach(days)
      /\ datesOf(days) = datesOf(activities) \ {0}
  BY <1>1, DerivedDays DEF ScheduleInit
<1>5. datesOf(days) = datesOf(activities) BY <1>3, <1>4
<1>6. startDate \in {0, 1} /\ ambiguous = FALSE BY DEF ScheduleInit
<1> QED BY <1>1, <1>2, <1>4, <1>5, <1>6 DEF DaysInv

\* What an edit has to show for the invariant.
LEMMA EditKeeps ==
  ASSUME DaysInv, NEW dayList \in Seq(Day), NEW list \in Seq(Activity), editTo(dayList, list),
         ~ambiguous /\ ~(Len(onDate(dayList, 0)) > 1) =>
           datesOf(dayList) = datesOf(list) /\ OneDayEach(dayList)
  PROVE  DaysInv'
<1>1. days' = dayList /\ activities' = list /\ startDate' = startDate /\ shows' = shows
      /\ ambiguous' = (ambiguous \/ Len(onDate(dayList, 0)) > 1)
  BY DEF editTo
<1>2. ambiguous' \in BOOLEAN BY <1>1 DEF DaysInv
<1>3. ~ambiguous' => ~ambiguous /\ ~(Len(onDate(dayList, 0)) > 1) BY <1>1
<1>4. /\ startDate' \in {0, 1} /\ shows' \in Nat BY <1>1 DEF DaysInv
<1>5. ~ambiguous' => datesOf(days') = datesOf(activities') /\ OneDayEach(days')
  BY <1>1, <1>3
<1> QED BY <1>1, <1>2, <1>4, <1>5 DEF DaysInv, datesOf, OneDayEach

LEMMA AddDayKeeps ==
  ASSUME DaysInv, AddScheduleDay PROVE DaysInv'
<1> DEFINE listed == displayedDays(days, activities)
           date == nextAvailableScheduleDate(datesOf(listed))
           newDay == [date |-> date, window |-> Closed]
           new == [show |-> TRUE, date |-> date, window |-> Closed]
<1>1. listed \in Seq(Day) /\ activities \in Seq(Activity) /\ startDate \in {0, 1}
  BY DisplayedAreDays DEF DaysInv
<1>2. date <= LastDate /\ editTo(Append(listed, newDay), Append(activities, new))
  BY DEF AddScheduleDay
<1>3. ~ambiguous => listed = days BY DisplayedAreDays
<1> HIDE DEF listed
<1>4. date \in AllDates /\ (startDate # 0 => date \notin datesOf(listed))
  <2>1. \A x \in Day : x.date \in AllDates BY DEF Day
  <2>2. datesOf(listed) \in SUBSET AllDates BY <1>1, <2>1, DatesAreDates
  <2>3. date \in Nat /\ (startDate # 0 => date \notin datesOf(listed)) BY <1>1, <2>2, NextIsNew
  <2> QED BY <1>2, <2>3, ScheduleAssumption DEF AllDates
<1>5. startDate = 0 => date = 0 BY DEF nextAvailableScheduleDate
<1>6. Closed \in Windows BY DEF Closed, Windows
<1> HIDE DEF date
<1>7. newDay \in Day /\ new \in Activity BY <1>4, <1>6 DEF Day, Activity
<1>8. newDay.date = date /\ new.date = date OBVIOUS
<1> HIDE DEF newDay, new
<1>9. /\ Append(listed, newDay) \in Seq(Day) /\ Append(activities, new) \in Seq(Activity)
      /\ datesOf(Append(listed, newDay)) = datesOf(listed) \cup {date}
      /\ datesOf(Append(activities, new)) = datesOf(activities) \cup {date}
      /\ OneDayEach(listed) /\ date \notin datesOf(listed) => OneDayEach(Append(listed, newDay))
  BY <1>1, <1>7, <1>8, AppendedDate
<1>10. ASSUME ~ambiguous, ~(Len(onDate(Append(listed, newDay), 0)) > 1)
       PROVE  date \notin datesOf(listed)
  <2>1. CASE startDate # 0 BY <1>4, <2>1
  <2>2. CASE startDate = 0
    <3> SUFFICES ASSUME NEW i \in DOMAIN listed, listed[i].date = 0 PROVE FALSE
      BY <1>5, <2>2 DEF datesOf
    <3> DEFINE longer == Append(listed, newDay)
               n == Len(listed)
    <3>1. /\ longer[n + 1] = newDay /\ Len(longer) = n + 1
          /\ \A k \in 1 .. n : longer[k] = listed[k]
      BY <1>1, <1>7, AppendProperties
    <3>2. n \in Nat /\ DOMAIN listed = 1 .. n BY <1>1, LenProperties
    <3>3. DOMAIN longer = 1 .. n + 1 BY <1>9, <3>1, LenProperties
    <3> HIDE DEF longer, n
    <3>4. i \in DOMAIN longer /\ n + 1 \in DOMAIN longer /\ i # n + 1 BY <3>2, <3>3
    <3>5. longer[i].date = 0 /\ longer[n + 1].date = 0 BY <1>5, <1>8, <2>2, <3>1, <3>2
    <3>6. longer \in Seq(Day) /\ ~(Len(onDate(longer, 0)) > 1) BY <1>9, <1>10 DEF longer
    <3> QED BY <3>4, <3>5, <3>6, TwoOnDate
  <2> QED BY <2>1, <2>2
<1>11. ~ambiguous /\ ~(Len(onDate(Append(listed, newDay), 0)) > 1) =>
         /\ datesOf(Append(listed, newDay)) = datesOf(Append(activities, new))
         /\ OneDayEach(Append(listed, newDay))
  BY <1>3, <1>9, <1>10 DEF DaysInv
<1>12. editTo(Append(listed, newDay), Append(activities, new))
  BY <1>2 DEF newDay, new
<1> QED BY <1>9, <1>11, <1>12, EditKeeps

LEMMA AddEntryKeeps ==
  ASSUME DaysInv, AddScheduleEntry PROVE DaysInv'
<1>1. PICK date \in datesOf(displayedDays(days, activities)) :
        LET own == onDate(days, date)
            window == IF own = <<>> THEN Closed ELSE own[1].window
        IN  editTo(days, Append(activities, [show |-> TRUE, date |-> date, window |-> window]))
  BY DEF AddScheduleEntry
<1> DEFINE own == onDate(days, date)
           window == IF own = <<>> THEN Closed ELSE own[1].window
           new == [show |-> TRUE, date |-> date, window |-> window]
<1>2. days \in Seq(Day) /\ activities \in Seq(Activity)
      /\ displayedDays(days, activities) \in Seq(Day)
  BY DisplayedAreDays DEF DaysInv
<1>3. date \in AllDates
  <2>1. \A x \in Day : x.date \in AllDates BY DEF Day
  <2> QED BY <1>2, <2>1, DatesAreDates
<1>4. window \in Windows
  <2>1. Closed \in Windows BY DEF Closed, Windows
  <2>2. own \in Seq(Day) BY <1>2, OfOneDate
  <2> HIDE DEF own
  <2>3. own # <<>> => own[1] \in Day
    <3>1. own # <<>> => 1 \in 1 .. Len(own) BY <2>2, EmptySeq
    <3> QED BY <2>2, <3>1, LenProperties
  <2> QED BY <2>1, <2>3 DEF Day
<1>5. editTo(days, Append(activities, new)) BY <1>1
<1> HIDE DEF window
<1>6. new \in Activity /\ new.date = date BY <1>3, <1>4 DEF Activity
<1> HIDE DEF new
<1>7. /\ Append(activities, new) \in Seq(Activity)
      /\ datesOf(Append(activities, new)) = datesOf(activities) \cup {date}
  BY <1>2, <1>6, AppendedDate
<1>8. ~ambiguous => datesOf(days) = datesOf(Append(activities, new)) /\ OneDayEach(days)
  BY <1>7, DisplayedAreDays DEF DaysInv
<1> QED BY <1>2, <1>5, <1>7, <1>8, EditKeeps

LEMMA RemoveEntryKeeps ==
  ASSUME DaysInv, RemoveScheduleEntry PROVE DaysInv'
<1>1. PICK i \in DOMAIN activities :
        editTo(daysAfterRemoval(RemoveAt(activities, i), activities[i].date),
               RemoveAt(activities, i))
  BY DEF RemoveScheduleEntry
<1> DEFINE rest == RemoveAt(activities, i)
           date == activities[i].date
           left == daysAfterRemoval(rest, date)
<1>2. days \in Seq(Day) /\ activities \in Seq(Activity) BY DEF DaysInv
<1>3. rest \in Seq(Activity) /\ datesOf(rest) = {activities[j].date : j \in DOMAIN activities \ {i}}
  BY <1>2, TakenOut
<1> HIDE DEF rest
<1>4. /\ without(days, date) \in Seq(Day) /\ datesOf(without(days, date)) = datesOf(days) \ {date}
      /\ OneDayEach(days) => OneDayEach(without(days, date))
  BY <1>2, WithoutDate
<1>5. left \in Seq(Day) BY <1>2, <1>4 DEF daysAfterRemoval
<1>6. datesOf(activities) = datesOf(rest) \cup {date} BY <1>3 DEF datesOf
<1> HIDE DEF date
<1>7. ~ambiguous => datesOf(left) = datesOf(rest) /\ OneDayEach(left)
  <2>1. CASE date \in datesOf(rest) BY <1>6, <2>1 DEF daysAfterRemoval, DaysInv
  <2>2. CASE date \notin datesOf(rest)
    <3>1. left = without(days, date) BY <2>2 DEF daysAfterRemoval
    <3>2. datesOf(activities) \ {date} = datesOf(rest) BY <1>6, <2>2
    <3> QED BY <1>4, <3>1, <3>2 DEF DaysInv
  <2> QED BY <2>1, <2>2
<1>8. editTo(left, rest) BY <1>1 DEF rest, date
<1> HIDE DEF left
<1> QED BY <1>3, <1>5, <1>7, <1>8, EditKeeps

LEMMA RemoveDayKeeps ==
  ASSUME DaysInv, RemoveScheduleDay PROVE DaysInv'
<1>1. PICK date \in datesOf(displayedDays(days, activities)) :
        editTo(without(days, date), without(activities, date))
  BY DEF RemoveScheduleDay
<1>2. days \in Seq(Day) /\ activities \in Seq(Activity) BY DEF DaysInv
<1>3. /\ without(days, date) \in Seq(Day) /\ without(activities, date) \in Seq(Activity)
      /\ datesOf(without(days, date)) = datesOf(days) \ {date}
      /\ datesOf(without(activities, date)) = datesOf(activities) \ {date}
      /\ OneDayEach(days) => OneDayEach(without(days, date))
  BY <1>2, WithoutDate
<1>4. ~ambiguous => /\ datesOf(without(days, date)) = datesOf(without(activities, date))
                    /\ OneDayEach(without(days, date))
  BY <1>3 DEF DaysInv
<1> QED BY <1>1, <1>3, <1>4, EditKeeps

LEMMA UpdateDayKeeps ==
  ASSUME DaysInv, UpdateScheduleDay PROVE DaysInv'
<1>1. PICK i \in DOMAIN days, date \in AllDates, window \in Windows :
        /\ date # 0 /\ date # days[i].date => date \notin datesOf(days)
        /\ editTo([days EXCEPT ![i] = [date |-> date, window |-> window]],
                  [j \in DOMAIN activities |->
                     IF activities[j].date = days[i].date
                     THEN [activities[j] EXCEPT !.date = date, !.window = window]
                     ELSE activities[j]])
  BY DEF UpdateScheduleDay
<1> DEFINE new == [date |-> date, window |-> window]
           old == days[i].date
           dayList == [days EXCEPT ![i] = new]
           list == [j \in DOMAIN activities |->
                     IF activities[j].date = old
                     THEN [activities[j] EXCEPT !.date = date, !.window = window]
                     ELSE activities[j]]
<1>2. days \in Seq(Day) /\ activities \in Seq(Activity) BY DEF DaysInv
<1>3. new \in Day /\ new.date = date BY DEF Day
<1> HIDE DEF new
<1>4. dayList \in Seq(Day) /\ DOMAIN dayList = DOMAIN days
      /\ dayList[i] = new /\ \A k \in DOMAIN days : k # i => dayList[k] = days[k]
  <2>1. i \in 1 .. Len(days) BY <1>2, LenProperties
  <2>2. dayList \in Seq(Day) BY <1>2, <1>3, <2>1, ExceptSeq
  <2> QED BY <2>2
<1> HIDE DEF dayList
<1>5. /\ Len(activities) \in Nat /\ DOMAIN activities = 1 .. Len(activities)
      /\ \A j \in DOMAIN activities : activities[j] \in Activity
  BY <1>2, LenProperties
<1>6. \A j \in DOMAIN activities :
        /\ list[j] \in Activity
        /\ list[j].date = IF activities[j].date = old THEN date ELSE activities[j].date
  BY <1>5 DEF Activity
<1>7. DOMAIN list = DOMAIN activities OBVIOUS
<1>8. list \in Seq(Activity)
  <2>1. list \in [1 .. Len(activities) -> Activity] BY <1>5, <1>6
  <2> HIDE DEF list
  <2> QED BY <1>5, <2>1, SeqDef
<1>9. editTo(dayList, list) BY <1>1 DEF dayList, new
<1> HIDE DEF list
<1>10. ASSUME ~ambiguous, ~(Len(onDate(dayList, 0)) > 1)
       PROVE  datesOf(dayList) = datesOf(list) /\ OneDayEach(dayList)
  <2>1. OneDayEach(days) /\ datesOf(days) = datesOf(activities) BY <1>10 DEF DaysInv
  <2>2. date = old \/ date \notin datesOf(days)
    <3> SUFFICES ASSUME date # old, NEW k \in DOMAIN days, days[k].date = date PROVE FALSE
      BY DEF datesOf
    <3>1. date = 0 BY <1>1 DEF datesOf
    <3>2. k # i OBVIOUS
    <3>3. /\ k \in DOMAIN dayList /\ i \in DOMAIN dayList
          /\ dayList[k].date = 0 /\ dayList[i].date = 0
      BY <1>3, <1>4, <3>1, <3>2
    <3> QED BY <1>4, <1>10, <3>2, <3>3, TwoOnDate
  <2>3. \A k \in DOMAIN days : dayList[k].date = IF k = i THEN date ELSE days[k].date
    BY <1>3, <1>4
  <2>4. \A k \in DOMAIN days : k # i => days[k].date # old BY <2>1 DEF OneDayEach
  <2>5. datesOf(dayList) = (datesOf(days) \ {old}) \cup {date}
    BY <1>4, <2>3, <2>4 DEF datesOf
  <2>6. old \in datesOf(activities) BY <2>1 DEF datesOf
  <2>7. PICK first \in DOMAIN activities : activities[first].date = old BY <2>6 DEF datesOf
  <2>8. datesOf(list) = (datesOf(activities) \ {old}) \cup {date}
    <3>1. datesOf(list) = {IF activities[j].date = old THEN date ELSE activities[j].date :
                             j \in DOMAIN activities}
      BY <1>6, <1>7 DEF datesOf
    <3> QED BY <2>7, <3>1 DEF datesOf
  <2>9. OneDayEach(dayList)
    <3> SUFFICES ASSUME NEW j \in DOMAIN days, NEW k \in DOMAIN days,
                        dayList[j].date = dayList[k].date
                 PROVE  j = k
      BY <1>4 DEF OneDayEach
    <3>1. CASE j # i /\ k # i BY <2>1, <2>3, <3>1 DEF OneDayEach
    <3>2. CASE j = i /\ k # i
      <4>1. days[k].date = date BY <2>3, <3>2
      <4> QED BY <2>2, <2>4, <3>2, <4>1 DEF datesOf
    <3>3. CASE j # i /\ k = i
      <4>1. days[j].date = date BY <2>3, <3>3
      <4> QED BY <2>2, <2>4, <3>3, <4>1 DEF datesOf
    <3> QED BY <3>1, <3>2, <3>3
  <2> QED BY <2>1, <2>5, <2>8, <2>9
<1> QED BY <1>4, <1>8, <1>9, <1>10, EditKeeps

LEMMA UpdateEntryKeeps ==
  ASSUME DaysInv, UpdateScheduleEntry PROVE DaysInv'
<1>1. PICK i \in DOMAIN activities : editTo(days, [activities EXCEPT ![i].show = ~@])
  BY DEF UpdateScheduleEntry
<1> DEFINE list == [activities EXCEPT ![i].show = ~@]
<1>2. days \in Seq(Day) /\ activities \in Seq(Activity) BY DEF DaysInv
<1>3. /\ Len(activities) \in Nat /\ DOMAIN activities = 1 .. Len(activities)
      /\ \A j \in DOMAIN activities : activities[j] \in Activity
  BY <1>2, LenProperties
<1>4. \A j \in DOMAIN activities : list[j] \in Activity /\ list[j].date = activities[j].date
  BY <1>3 DEF Activity
<1>5. DOMAIN list = DOMAIN activities /\ list = [j \in DOMAIN activities |-> list[j]] OBVIOUS
<1> HIDE DEF list
<1>6. list \in Seq(Activity)
  <2>1. list \in [1 .. Len(activities) -> Activity] BY <1>3, <1>4, <1>5
  <2> QED BY <1>3, <2>1, SeqDef
<1>7. datesOf(list) = datesOf(activities) BY <1>4, <1>5 DEF datesOf
<1>8. ~ambiguous => datesOf(days) = datesOf(list) /\ OneDayEach(days) BY <1>7 DEF DaysInv
<1>9. editTo(days, list) BY <1>1 DEF list
<1> QED BY <1>2, <1>6, <1>8, <1>9, EditKeeps

LEMMA ReloadKeeps ==
  ASSUME DaysInv, SaveAndReload PROVE DaysInv'
<1>1. /\ activities' = stored(prepared) /\ days' = deriveScheduleDaysFromEntries(activities')
      /\ shows' = prepared.shows /\ ambiguous' = FALSE /\ startDate' = startDate
  BY DEF SaveAndReload
<1>2. prepared.shows \in Nat /\ 0 \notin datesOf(prepared.activities) BY FormIsSent
<1>3. stored(prepared) \in Seq(Activity)
      /\ datesOf(stored(prepared)) = datesOf(prepared.activities)
  BY StoredRows
<1> DEFINE list == stored(prepared)
           dayList == deriveScheduleDaysFromEntries(list)
<1> HIDE DEF list
<1>4. list \in Seq(Activity) /\ 0 \notin datesOf(list) BY <1>2, <1>3 DEF list
<1>5. /\ dayList \in Seq(Day) /\ OneDayEach(dayList)
      /\ datesOf(dayList) = datesOf(list) \ {0}
  BY <1>4, DerivedDays
<1> HIDE DEF dayList
<1>6. datesOf(dayList) = datesOf(list) BY <1>4, <1>5
<1>7. activities' = list /\ days' = dayList
  <2>1. activities' = list BY <1>1 DEF list
  <2> QED BY <1>1, <2>1 DEF dayList
<1>8. startDate' \in {0, 1} /\ shows' \in Nat BY <1>1, <1>2 DEF DaysInv
<1>9. datesOf(days') = datesOf(activities') /\ OneDayEach(days') BY <1>5, <1>6, <1>7
<1>10. days' \in Seq(Day) /\ activities' \in Seq(Activity) /\ ambiguous' \in BOOLEAN
  BY <1>1, <1>4, <1>5, <1>7
<1> QED BY <1>8, <1>9, <1>10 DEF DaysInv, datesOf, OneDayEach

ScheduleSpec == ScheduleInit /\ [][ScheduleNext]_scheduleVars

LEMMA DaysInvHolds == ScheduleSpec => []DaysInv
<1>1. ScheduleInit => DaysInv BY ScheduleStarts
<1>2. DaysInv /\ [ScheduleNext]_scheduleVars => DaysInv'
  <2> SUFFICES ASSUME DaysInv, [ScheduleNext]_scheduleVars PROVE DaysInv' OBVIOUS
  <2>1. CASE AddScheduleDay BY <2>1, AddDayKeeps
  <2>2. CASE AddScheduleEntry BY <2>2, AddEntryKeeps
  <2>3. CASE RemoveScheduleEntry BY <2>3, RemoveEntryKeeps
  <2>4. CASE RemoveScheduleDay BY <2>4, RemoveDayKeeps
  <2>5. CASE UpdateScheduleDay BY <2>5, UpdateDayKeeps
  <2>6. CASE UpdateScheduleEntry BY <2>6, UpdateEntryKeeps
  <2>7. CASE SaveAndReload BY <2>7, ReloadKeeps
  <2>8. CASE UNCHANGED scheduleVars
    <3>1. /\ days' = days /\ activities' = activities /\ ambiguous' = ambiguous
          /\ startDate' = startDate /\ shows' = shows
      BY <2>8 DEF scheduleVars
    <3>2. datesOf(days)' = datesOf(days) /\ datesOf(activities)' = datesOf(activities)
      BY <3>1 DEF datesOf
    <3>3. OneDayEach(days)' = OneDayEach(days) BY <3>1 DEF OneDayEach
    <3> QED BY <3>1, <3>2, <3>3 DEF DaysInv
  <2> QED BY <2>1, <2>2, <2>3, <2>4, <2>5, <2>6, <2>7, <2>8 DEF ScheduleNext
<1> QED BY <1>1, <1>2, PTL DEF ScheduleSpec

\* A schedule the form shows whole: days, all of them dated.
Dated == days # <<>> /\ ~ambiguous /\ 0 \notin datesOf(days) \cup datesOf(activities)

\* A save moves each activity to a place of its own, those of a day in the
\* order they had, and gives it the window of its day.
LEMMA SavedInPlace ==
  ASSUME DaysInv, Dated, SaveAndReload
  PROVE  /\ activities' \in Seq(Activity) /\ DOMAIN activities' = DOMAIN activities
         /\ \E f \in Bijection(DOMAIN activities, DOMAIN activities) :
              /\ \A i \in DOMAIN activities :
                   /\ activities'[f[i]].date = activities[i].date
                   /\ activities'[f[i]].show = activities[i].show
                   /\ \A d \in DOMAIN days : days[d].date = activities[i].date =>
                        activities'[f[i]].window = days[d].window
              /\ \A i, j \in DOMAIN activities : activities[i].date = activities[j].date =>
                   (f[i] <= f[j] <=> i <= j)
<1>1. /\ days \in Seq(Day) /\ activities \in Seq(Activity)
      /\ datesOf(days) = datesOf(activities) /\ OneDayEach(days)
      /\ days # <<>> /\ 0 \notin datesOf(days) /\ 0 \notin datesOf(activities)
  BY DEF DaysInv, Dated
<1> DEFINE once == applyScheduleDaysToEntries(activities, days)
           acts == applyScheduleDaysToEntries(once, days)
<1>2. without(activities, 0) = activities /\ without(days, 0) = days BY <1>1, WithoutNone
<1>3. {i \in DOMAIN days : days[i].date \in datesOf(activities)} = DOMAIN days
  BY <1>1 DEF datesOf
<1>4. elementsAt(days, {i \in DOMAIN days : days[i].date \in datesOf(activities)}) = days
  BY <1>1, <1>3, AllSelected
<1>5. prepared.days = days /\ prepared.activities = once
  BY <1>1, <1>2, <1>4 DEF prepared
<1>6. /\ once \in Seq(Activity) /\ DOMAIN once = DOMAIN activities
      /\ \A i \in DOMAIN activities :
           once[i].date = activities[i].date /\ once[i].show = activities[i].show
  BY <1>1, AppliedDays
<1> HIDE DEF once
<1>7. /\ acts \in Seq(Activity) /\ DOMAIN acts = DOMAIN once
      /\ \A i \in DOMAIN once : acts[i].date = once[i].date /\ acts[i].show = once[i].show
      /\ \A i \in DOMAIN once, d \in DOMAIN days :
           days[d].date = once[i].date => acts[i].window = days[d].window
  BY <1>1, <1>6, AppliedDays
<1> DEFINE arrived == applyScheduleDaysToEntries(prepared.activities, prepared.days)
<1>8. arrived = acts BY <1>5
<1> HIDE DEF acts
<1>9. activities' = stored(prepared) BY DEF SaveAndReload
<1>10. /\ stored(prepared) \in Seq(Activity) /\ Len(stored(prepared)) = Len(acts)
       /\ \E f \in Bijection(DOMAIN acts, DOMAIN acts) :
            /\ \A i \in DOMAIN acts : stored(prepared)[f[i]] = acts[i]
            /\ \A i, j \in DOMAIN acts :
                 f[i] <= f[j] <=> \/ acts[i].date < acts[j].date
                                  \/ (acts[i].date = acts[j].date /\ i <= j)
  <2>1. arrived \in Seq(Activity) BY <1>7, <1>8
  <2>2. /\ stored(prepared) \in Seq(Activity) /\ Len(stored(prepared)) = Len(arrived)
        /\ \E f \in Bijection(DOMAIN arrived, DOMAIN arrived) :
             /\ \A i \in DOMAIN arrived : stored(prepared)[f[i]] = arrived[i]
             /\ \A i, j \in DOMAIN arrived :
                  f[i] <= f[j] <=> \/ arrived[i].date < arrived[j].date
                                   \/ (arrived[i].date = arrived[j].date /\ i <= j)
    BY <2>1, StoredInOrder
  <2> HIDE DEF arrived
  <2> QED BY <1>8, <2>2
<1>11. PICK f \in Bijection(DOMAIN acts, DOMAIN acts) :
         /\ \A i \in DOMAIN acts : activities'[f[i]] = acts[i]
         /\ \A i, j \in DOMAIN acts :
              f[i] <= f[j] <=> \/ acts[i].date < acts[j].date
                               \/ (acts[i].date = acts[j].date /\ i <= j)
  BY <1>9, <1>10
<1>12. activities' \in Seq(Activity) /\ DOMAIN activities' = DOMAIN activities
  BY <1>6, <1>7, <1>9, <1>10, LenProperties
<1>13. f \in Bijection(DOMAIN activities, DOMAIN activities) BY <1>6, <1>7, <1>11
<1>14. \A i \in DOMAIN activities :
         /\ activities'[f[i]].date = activities[i].date
         /\ activities'[f[i]].show = activities[i].show
         /\ \A d \in DOMAIN days : days[d].date = activities[i].date =>
              activities'[f[i]].window = days[d].window
  BY <1>6, <1>7, <1>11
<1>15. ASSUME NEW i \in DOMAIN activities, NEW j \in DOMAIN activities,
              activities[i].date = activities[j].date
       PROVE  f[i] <= f[j] <=> i <= j
  <2>1. activities[i] \in Activity BY <1>1, LenProperties
  <2>2. activities[i].date \in Nat BY <2>1, ScheduleAssumption DEF Activity, AllDates
  <2>3. /\ acts[i].date = activities[i].date /\ acts[j].date = activities[i].date
        /\ i \in DOMAIN acts /\ j \in DOMAIN acts
    BY <1>6, <1>7, <1>15
  <2>4. ~(acts[i].date < acts[j].date) BY <2>2, <2>3
  <2> QED BY <1>11, <2>3, <2>4
<1> QED BY <1>12, <1>13, <1>14, <1>15

LEMMA DatesKeptBySave ==
  ASSUME DaysInv, Dated, SaveAndReload
  PROVE  datesOf(activities') = datesOf(activities)
<1>1. DOMAIN activities' = DOMAIN activities BY SavedInPlace
<1>2. PICK f \in Bijection(DOMAIN activities, DOMAIN activities) :
        \A i \in DOMAIN activities : activities'[f[i]].date = activities[i].date
  BY SavedInPlace
<1>3. /\ \A i \in DOMAIN activities : f[i] \in DOMAIN activities
      /\ \A n \in DOMAIN activities : \E i \in DOMAIN activities : f[i] = n
  BY DEF Bijection, Injection, Surjection
<1>4. ASSUME NEW i \in DOMAIN activities
      PROVE  \E n \in DOMAIN activities' : activities'[n].date = activities[i].date
  BY <1>1, <1>2, <1>3
<1>5. ASSUME NEW n \in DOMAIN activities'
      PROVE  \E i \in DOMAIN activities : activities'[n].date = activities[i].date
  <2>1. PICK i \in DOMAIN activities : f[i] = n BY <1>1, <1>3
  <2> QED BY <1>2, <2>1
<1> QED BY <1>4, <1>5 DEF datesOf

\* Under each date the same activities in the same order.
LEMMA DayKeepsActivities ==
  ASSUME DaysInv, Dated, SaveAndReload, NEW date \in AllDates
  PROVE  LET before == onDate(activities, date)
             after  == onDate(activities', date)
         IN  /\ Len(after) = Len(before)
             /\ \A n \in DOMAIN after :
                  /\ after[n].show = before[n].show
                  /\ \A d \in DOMAIN days :
                       days[d].date = date => after[n].window = days[d].window
<1> DEFINE P == placesOf(activities, date)
           list == activities'
           K == placesOf(list, date)
<1>1. activities \in Seq(Activity) BY DEF DaysInv
<1>2. list \in Seq(Activity) /\ DOMAIN list = DOMAIN activities BY SavedInPlace
<1>3. PICK f \in Bijection(DOMAIN activities, DOMAIN activities) :
        /\ \A i \in DOMAIN activities :
             /\ list[f[i]].date = activities[i].date
             /\ list[f[i]].show = activities[i].show
             /\ \A d \in DOMAIN days : days[d].date = activities[i].date =>
                  list[f[i]].window = days[d].window
        /\ \A i, j \in DOMAIN activities : activities[i].date = activities[j].date =>
             (f[i] <= f[j] <=> i <= j)
  BY SavedInPlace
<1> HIDE DEF list
<1>4. /\ \A i \in DOMAIN activities : f[i] \in DOMAIN activities
      /\ \A i, j \in DOMAIN activities : f[i] = f[j] => i = j
      /\ \A n \in DOMAIN activities : \E i \in DOMAIN activities : f[i] = n
  BY DEF Bijection, Injection, Surjection, IsInjective
<1>5. /\ P \in SUBSET DOMAIN activities /\ P \in SUBSET Nat /\ IsFiniteSet(P)
      /\ K \in SUBSET DOMAIN list /\ K \in SUBSET Nat
  BY <1>1, <1>2, PlacesOfSome
<1>6. /\ \A i \in DOMAIN activities : i \in P <=> activities[i].date = date
      /\ \A i \in DOMAIN activities : i \in K <=> list[i].date = date
  BY <1>2 DEF placesOf
<1> DEFINE g == [i \in P |-> f[i]]
<1> HIDE DEF P, K
<1>7. g \in Bijection(P, K)
  <2>1. \A i \in P : g[i] = f[i] /\ g[i] \in K
    <3> TAKE i \in P
    <3>1. i \in DOMAIN activities /\ activities[i].date = date BY <1>5, <1>6
    <3>2. f[i] \in DOMAIN activities /\ list[f[i]].date = date BY <1>3, <1>4, <3>1
    <3>3. f[i] \in K BY <1>6, <3>2
    <3> QED BY <3>3
  <2>2. g \in [P -> K] BY <2>1
  <2>3. DOMAIN g = P OBVIOUS
  <2> HIDE DEF g
  <2>4. \A i, j \in P : g[i] = g[j] => i = j BY <1>4, <1>5, <2>1
  <2>5. ASSUME NEW n \in K PROVE \E i \in P : g[i] = n
    <3>1. n \in DOMAIN activities /\ list[n].date = date BY <1>2, <1>5, <1>6
    <3>2. PICK i \in DOMAIN activities : f[i] = n BY <1>4, <3>1
    <3>3. i \in P BY <1>3, <1>6, <3>1, <3>2
    <3> QED BY <2>1, <3>2, <3>3
  <2> QED BY <2>2, <2>3, <2>4, <2>5 DEF Bijection, Injection, Surjection, IsInjective
<1>8. \A i, j \in P : i <= j <=> g[i] <= g[j]
  <2>1. ASSUME NEW i \in P, NEW j \in P PROVE i <= j <=> g[i] <= g[j]
    <3>1. /\ i \in DOMAIN activities /\ j \in DOMAIN activities
          /\ activities[i].date = activities[j].date
      BY <1>5, <1>6
    <3> QED BY <1>3, <3>1
  <2> QED BY <2>1
<1>9. \A i \in P : g[i] = f[i] OBVIOUS
<1> HIDE DEF g
<1>10. /\ Cardinality(K) = Cardinality(P)
       /\ \A n \in 1 .. Cardinality(P) : inOrder(K)[n] = g[inOrder(P)[n]]
  BY <1>5, <1>7, <1>8, ListedSideBySide
<1> DEFINE before == onDate(activities, date)
           after  == onDate(list, date)
<1>11. /\ Len(before) = Cardinality(P)
       /\ \A n \in 1 .. Cardinality(P) : inOrder(P)[n] \in P
                                         /\ before[n] = activities[inOrder(P)[n]]
  <2>1. /\ Len(elementsAt(activities, P)) = Cardinality(P)
        /\ \A n \in 1 .. Cardinality(P) : inOrder(P)[n] \in P
             /\ elementsAt(activities, P)[n] = activities[inOrder(P)[n]]
    BY <1>1, <1>5, Selected
  <2>2. before = elementsAt(activities, P) BY DEF onDate, P
  <2> QED BY <2>1, <2>2
<1>12. /\ Len(after) = Cardinality(K) /\ DOMAIN after = 1 .. Cardinality(K)
       /\ \A n \in 1 .. Cardinality(K) : after[n] = list[inOrder(K)[n]]
  <2>1. /\ Len(elementsAt(list, K)) = Cardinality(K)
        /\ DOMAIN elementsAt(list, K) = 1 .. Cardinality(K)
        /\ \A n \in 1 .. Cardinality(K) : elementsAt(list, K)[n] = list[inOrder(K)[n]]
    BY <1>2, <1>5, Selected
  <2>2. after = elementsAt(list, K) BY DEF onDate, K
  <2> QED BY <2>1, <2>2
<1> HIDE DEF before, after
<1>13. ASSUME NEW n \in DOMAIN after
       PROVE  /\ after[n].show = before[n].show
              /\ \A d \in DOMAIN days : days[d].date = date => after[n].window = days[d].window
  <2> DEFINE i == inOrder(P)[n]
  <2>1. n \in 1 .. Cardinality(P) BY <1>10, <1>12
  <2>2. i \in P /\ before[n] = activities[i] BY <1>11, <2>1
  <2>3. after[n] = list[f[i]] BY <1>9, <1>10, <1>12, <2>1, <2>2
  <2>4. i \in DOMAIN activities /\ activities[i].date = date BY <1>5, <1>6, <2>2
  <2> HIDE DEF i
  <2> QED BY <1>3, <2>2, <2>3, <2>4
<1> QED BY <1>10, <1>11, <1>12, <1>13 DEF before, after, list

\* The days are the same, now in order.
LEMMA DaysComeBack ==
  ASSUME DaysInv, Dated, SaveAndReload
  PROVE  /\ Len(days') = Len(days) /\ ToSet(days') = ToSet(days)
         /\ \A i, j \in DOMAIN days' : i < j => days'[i].date < days'[j].date
<1> DEFINE list == activities'
           derived == deriveScheduleDaysFromEntries(list)
<1>1. /\ days \in Seq(Day) /\ datesOf(days) = datesOf(activities) /\ OneDayEach(days)
      /\ 0 \notin datesOf(days)
  BY DEF DaysInv, Dated
<1>2. list \in Seq(Activity) BY SavedInPlace
<1>3. datesOf(list) = datesOf(days) BY <1>1, DatesKeptBySave
<1>4. \A date \in AllDates : \A n \in DOMAIN onDate(list, date) : \A d \in DOMAIN days :
        days[d].date = date => onDate(list, date)[n].window = days[d].window
  BY DayKeepsActivities
<1>5. days' = derived BY DEF SaveAndReload
<1> HIDE DEF list
<1>6. /\ derived \in Seq(Day) /\ Len(derived) = Cardinality(datesOf(list) \ {0})
      /\ datesOf(derived) = datesOf(list) \ {0}
      /\ \A i, j \in DOMAIN derived : i < j => derived[i].date < derived[j].date
      /\ \A i \in DOMAIN derived : derived[i].window = filled(onDate(list, derived[i].date))
  BY <1>2, DerivedDays
<1> HIDE DEF derived
<1>7. datesOf(derived) = datesOf(days) /\ Len(derived) = Cardinality(datesOf(days))
  <2>1. datesOf(list) \ {0} = datesOf(days) BY <1>1, <1>3
  <2> QED BY <1>6, <2>1
<1>8. Len(days) = Cardinality(datesOf(days))
  <2> DEFINE f == [d \in DOMAIN days |-> days[d].date]
             n == Len(days)
  <2>1. n \in Nat /\ DOMAIN days = 1 .. n BY <1>1, LenProperties
  <2>2. f \in [DOMAIN days -> datesOf(days)] BY DEF datesOf
  <2>3. \A i, j \in DOMAIN days : f[i] = f[j] => i = j BY <1>1 DEF OneDayEach
  <2>4. \A x \in datesOf(days) : \E d \in DOMAIN days : f[d] = x BY DEF datesOf
  <2>5. DOMAIN f = DOMAIN days OBVIOUS
  <2> HIDE DEF f, n
  <2>6. f \in Bijection(1 .. n, datesOf(days))
    BY <2>1, <2>2, <2>3, <2>4, <2>5 DEF Bijection, Injection, Surjection, IsInjective
  <2>7. IsFiniteSet(1 .. n) /\ Cardinality(1 .. n) = n BY <2>1, FS_Interval
  <2>8. Cardinality(datesOf(days)) = n BY <2>6, <2>7, FS_Bijection DEF ExistsBijection
  <2> QED BY <2>8 DEF n
<1>9. ASSUME NEW i \in DOMAIN derived, NEW d \in DOMAIN days, derived[i].date = days[d].date
      PROVE  derived[i] = days[d]
  <2> DEFINE date == days[d].date
             acts == onDate(list, date)
  <2>1. derived[i] \in Day /\ days[d] \in Day BY <1>1, <1>6, LenProperties
  <2>2. date \in AllDates /\ days[d].window \in Windows BY <2>1 DEF Day
  <2>3. date \in datesOf(list) BY <1>3 DEF datesOf
  <2>4. acts \in Seq(Activity) /\ Len(acts) = Cardinality(placesOf(list, date))
    BY <1>2, OfOneDate
  <2>5. \A n \in DOMAIN acts : acts[n].window = days[d].window BY <1>4, <2>2
  <2>6. acts # <<>>
    <3>1. IsFiniteSet(placesOf(list, date)) /\ placesOf(list, date) # {}
      BY <1>2, <2>3, PlacesOfSome
    <3>2. Len(acts) # 0 BY <2>4, <3>1, FS_EmptySet
    <3> QED BY <3>2, EmptySeq
  <2>7. derived[i].window = filled(acts) BY <1>6, <1>9
  <2> HIDE DEF acts
  <2>8. filled(acts) = days[d].window BY <2>2, <2>4, <2>5, <2>6, FilledWindow
  <2> QED BY <1>9, <2>1, <2>7, <2>8 DEF Day
<1>10. ToSet(derived) = ToSet(days)
  <2>1. ASSUME NEW i \in DOMAIN derived PROVE \E d \in DOMAIN days : derived[i] = days[d]
    <3>1. derived[i].date \in datesOf(days) BY <1>7 DEF datesOf
    <3>2. PICK d \in DOMAIN days : days[d].date = derived[i].date BY <3>1 DEF datesOf
    <3> QED BY <1>9, <3>2
  <2>2. ASSUME NEW d \in DOMAIN days PROVE \E i \in DOMAIN derived : derived[i] = days[d]
    <3>1. days[d].date \in datesOf(derived) BY <1>7 DEF datesOf
    <3>2. PICK i \in DOMAIN derived : days[d].date = derived[i].date BY <3>1 DEF datesOf
    <3> QED BY <1>9, <3>2
  <2> QED BY <2>1, <2>2 DEF ToSet
<1> QED BY <1>5, <1>6, <1>7, <1>8, <1>10

LEMMA ShowsStay ==
  ASSUME DaysInv, Dated, SaveAndReload
  PROVE  deriveVenueShowCount(activities', shows') = deriveVenueShowCount(activities, shows)
<1> DEFINE list == activities'
           S == {i \in DOMAIN activities : activities[i].show}
           T == {i \in DOMAIN list : list[i].show}
<1>1. activities \in Seq(Activity) BY DEF DaysInv
<1>2. list \in Seq(Activity) /\ DOMAIN list = DOMAIN activities BY SavedInPlace
<1>3. PICK f \in Bijection(DOMAIN activities, DOMAIN activities) :
        \A i \in DOMAIN activities : list[f[i]].show = activities[i].show
  BY SavedInPlace
<1>4. datesOf(list) = datesOf(days) /\ datesOf(activities) = datesOf(days)
  BY DatesKeptBySave DEF DaysInv, Dated
<1> HIDE DEF list
<1>5. datesOf(days) # {}
  <2>1. days \in Seq(Day) /\ days # <<>> BY DEF DaysInv, Dated
  <2>2. Len(days) \in Nat \ {0} /\ DOMAIN days = 1 .. Len(days) BY <2>1, EmptySeq, LenProperties
  <2>3. 1 \in DOMAIN days BY <2>2
  <2> QED BY <2>3 DEF datesOf
<1>6. list # <<>> /\ activities # <<>>
  <2>1. DOMAIN list # {} /\ DOMAIN activities # {} BY <1>4, <1>5 DEF datesOf
  <2> QED BY <2>1
<1>7. /\ \A i \in DOMAIN activities : f[i] \in DOMAIN activities
      /\ \A i, j \in DOMAIN activities : f[i] = f[j] => i = j
      /\ \A n \in DOMAIN activities : \E i \in DOMAIN activities : f[i] = n
  BY DEF Bijection, Injection, Surjection, IsInjective
<1> DEFINE g == [i \in S |-> f[i]]
<1>8. g \in Bijection(S, T)
  <2>1. \A i \in S : g[i] = f[i] /\ g[i] \in T /\ i \in DOMAIN activities BY <1>2, <1>3, <1>7
  <2>2. g \in [S -> T] BY <2>1
  <2>3. DOMAIN g = S OBVIOUS
  <2>4. ASSUME NEW n \in T PROVE \E i \in S : g[i] = n
    <3>1. n \in DOMAIN activities /\ list[n].show BY <1>2
    <3>2. PICK i \in DOMAIN activities : f[i] = n BY <1>7, <3>1
    <3>3. i \in S BY <1>3, <3>1, <3>2
    <3> QED BY <3>2, <3>3
  <2> HIDE DEF g, S, T
  <2>5. \A i, j \in S : g[i] = g[j] => i = j BY <1>7, <2>1
  <2> QED BY <2>2, <2>3, <2>4, <2>5 DEF Bijection, Injection, Surjection, IsInjective
<1>9. IsFiniteSet(S)
  <2>1. S \in SUBSET DOMAIN activities OBVIOUS
  <2> HIDE DEF S
  <2> QED BY <1>1, <2>1, Selected
<1>10. Cardinality(T) = Cardinality(S)
  <2> HIDE DEF g, S, T
  <2> QED BY <1>8, <1>9, FS_Bijection DEF ExistsBijection
<1> QED BY <1>6, <1>10 DEF deriveVenueShowCount, countScheduledShows, list

\* What a dated schedule shows is what is there after prepareVenueBookingsForSave,
\* the batch of PUT /events/:id and the GET that follows: its days, each with
\* its activities in their order, the windows and the number of shows.
THEOREM SchedulesComeBack == ScheduleSpec => SaveKeepsSchedule
<1>1. ASSUME DaysInv, Dated, SaveAndReload
      PROVE  /\ Len(days') = Len(days) /\ ToSet(days') = ToSet(days)
             /\ \A i, j \in DOMAIN days' : i < j => days'[i].date < days'[j].date
             /\ \A date \in AllDates :
                  /\ Len(onDate(activities', date)) = Len(onDate(activities, date))
                  /\ \A i \in DOMAIN onDate(activities', date) :
                       /\ onDate(activities', date)[i].show = onDate(activities, date)[i].show
                       /\ \A d \in ToSet(days) :
                            d.date = date => onDate(activities', date)[i].window = d.window
             /\ deriveVenueShowCount(activities', shows') = deriveVenueShowCount(activities, shows)
  <2>1. /\ Len(days') = Len(days) /\ ToSet(days') = ToSet(days)
        /\ \A i, j \in DOMAIN days' : i < j => days'[i].date < days'[j].date
    BY <1>1, DaysComeBack
  <2>2. ASSUME NEW date \in AllDates
        PROVE  /\ Len(onDate(activities', date)) = Len(onDate(activities, date))
               /\ \A i \in DOMAIN onDate(activities', date) :
                    /\ onDate(activities', date)[i].show = onDate(activities, date)[i].show
                    /\ \A d \in ToSet(days) :
                         d.date = date => onDate(activities', date)[i].window = d.window
    <3>1. /\ Len(onDate(activities', date)) = Len(onDate(activities, date))
          /\ \A i \in DOMAIN onDate(activities', date) :
               /\ onDate(activities', date)[i].show = onDate(activities, date)[i].show
               /\ \A d \in DOMAIN days :
                    days[d].date = date => onDate(activities', date)[i].window = days[d].window
      BY <1>1, DayKeepsActivities
    <3> QED BY <3>1 DEF ToSet
  <2>3. deriveVenueShowCount(activities', shows') = deriveVenueShowCount(activities, shows)
    BY <1>1, ShowsStay
  <2> QED BY <2>1, <2>2, <2>3
<1>2. ASSUME DaysInv, SaveAndReload, days # <<>>, ~ambiguous,
             0 \notin datesOf(days) \cup datesOf(activities)
      PROVE  /\ Len(days') = Len(days) /\ ToSet(days') = ToSet(days)
             /\ \A i, j \in DOMAIN days' : i < j => days'[i].date < days'[j].date
             /\ \A date \in AllDates :
                  LET before == onDate(activities, date)
                      after  == onDate(activities', date)
                  IN  /\ Len(after) = Len(before)
                      /\ \A i \in DOMAIN after :
                           /\ after[i].show = before[i].show
                           /\ \A d \in ToSet(days) :
                                d.date = date => after[i].window = d.window
             /\ deriveVenueShowCount(activities', shows') = deriveVenueShowCount(activities, shows)
  BY <1>1, <1>2 DEF Dated
<1> QED BY <1>2, DaysInvHolds, PTL DEF ScheduleSpec, SaveKeepsSchedule
=============================================================================
