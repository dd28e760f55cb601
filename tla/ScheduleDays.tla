---------------------------- MODULE ScheduleDays ----------------------------
(***************************************************************************)
(* The schedule of one venue booking as it is edited and stored.  The form *)
(* keeps a list of days, each with the hall's operating window, and a list *)
(* of activities that name a day by its date; the database has only        *)
(* activities, each with a copy of its day's window.                       *)
(*                                                                         *)
(* Date 0 is a date not entered yet.  A window is a function from its      *)
(* timings (with and without air conditioning) to a time, 0 when blank.    *)
(***************************************************************************)
EXTENDS Integers, SequencesExt

CONSTANTS Timings,        \* the timings of a window
          LastDate,       \* dates are 1 .. LastDate
          MaxActivities,  \* bounds: activities, and days, of the booking, and
          MaxLegacy       \*   the count an imported booking has without a schedule

ASSUME ScheduleAssumption == {LastDate, MaxActivities, MaxLegacy} \subseteq Nat

VARIABLES
  startDate,  \* the event's own date, 0 when it is not known
  days,       \* schedule_days: [date, window]
  activities, \* schedule_entries: [show, date, window]
  shows,      \* number_of_shows
  ambiguous   \* history: two days had no date at once since the form was loaded

scheduleVars == <<startDate, days, activities, shows, ambiguous>>

AllDates == 0 .. LastDate
Windows == [Timings -> {0, 1}]
Closed == [t \in Timings |-> 0]
Activity == [show : BOOLEAN, date : AllDates, window : Windows]

datesOf(list) == {list[i].date : i \in DOMAIN list}

\* A set of numbers in ascending order, and a list's elements at some places.
inOrder(numbers) ==
  [n \in 1 .. Cardinality(numbers) |->
    CHOOSE x \in numbers : Cardinality({y \in numbers : y <= x}) = n]
elementsAt(list, places) ==
  [n \in 1 .. Cardinality(places) |-> list[inOrder(places)[n]]]

placesOf(list, date) == {i \in DOMAIN list : list[i].date = date}
onDate(list, date) == elementsAt(list, placesOf(list, date))
without(list, date) == elementsAt(list, DOMAIN list \ placesOf(list, date))

-----------------------------------------------------------------------------
\* The first activity of the date that has a timing gives it.
filled(rows) ==
  [t \in Timings |->
    LET timed == {i \in DOMAIN rows : rows[i].window[t] # 0}
    IN  IF timed = {} THEN 0 ELSE rows[Min(timed)].window[t]]

\* One day for each date that is set, in the order of the dates.
deriveScheduleDaysFromEntries(list) ==
  LET dates == inOrder(datesOf(list) \ {0})
  IN  [i \in DOMAIN dates |->
        [date |-> dates[i], window |-> filled(onDate(list, dates[i]))]]

\* Each activity takes the window of its day; of two days with one date the
\* later counts (new Map).
applyScheduleDaysToEntries(list, supplied) ==
  LET used == IF supplied = <<>> THEN deriveScheduleDaysFromEntries(list) ELSE supplied
  IN  [i \in DOMAIN list |->
        IF list[i].date \in datesOf(used)
        THEN [list[i] EXCEPT !.window = used[Max(placesOf(used, list[i].date))].window]
        ELSE list[i]]

countScheduledShows(list) == Cardinality({i \in DOMAIN list : list[i].show})

deriveVenueShowCount(list, count) ==
  IF list = <<>> THEN count ELSE countScheduledShows(list)

\* The days the form displays.
displayedDays(dayList, list) ==
  IF dayList # <<>> THEN dayList ELSE deriveScheduleDaysFromEntries(list)

\* prepareVenueBookingsForSave, for one booking with a venue.
prepared ==
  LET dated == without(activities, 0)
      kept  == without(days, 0)
      given == IF kept = <<>> THEN deriveScheduleDaysFromEntries(dated) ELSE kept
      active == elementsAt(given, {i \in DOMAIN given : given[i].date \in datesOf(dated)})
      rows == applyScheduleDaysToEntries(dated, active)
  IN  [days |-> active, activities |-> rows, shows |-> deriveVenueShowCount(rows, shows)]

\* What the server stores of it (venueBookingSyncStatements), in the order it
\* is read again: by date, then by position.
stored(form) ==
  LET rows == applyScheduleDaysToEntries(form.activities, form.days)
      upTo(i) == {j \in DOMAIN rows : \/ rows[j].date < rows[i].date
                                     \/ (rows[j].date = rows[i].date /\ j <= i)}
  IN  [n \in DOMAIN rows |->
        rows[CHOOSE i \in DOMAIN rows : Cardinality(upTo(i)) = n]]

-----------------------------------------------------------------------------
\* Opened on what the database has: rows of an import may have windows that
\* differ within a day, or there are none and only a count.
ScheduleInit ==
  /\ startDate \in {0, 1}
  /\ activities \in {<<>>} \cup {<<a, b>> : a, b \in
       {x \in Activity : x.show /\ x.date = 1}}
  /\ shows \in IF activities = <<>> THEN 0 .. MaxLegacy ELSE {2}
  /\ days = deriveScheduleDaysFromEntries(activities)
  /\ ambiguous = FALSE

editTo(dayList, list) ==
  /\ days' = dayList /\ activities' = list
  /\ ambiguous' = (ambiguous \/ Len(onDate(dayList, 0)) > 1)
  /\ UNCHANGED <<startDate, shows>>

nextAvailableScheduleDate(used) ==
  IF startDate = 0 THEN 0
  ELSE CHOOSE d \in startDate .. LastDate + 1 :
         d \notin used /\ \A e \in startDate .. d - 1 : e \in used

AddScheduleDay ==
  LET listed == displayedDays(days, activities)
      date == nextAvailableScheduleDate(datesOf(listed))
  IN  /\ Len(activities) < MaxActivities /\ Len(listed) < MaxActivities
      /\ date <= LastDate
      /\ editTo(Append(listed, [date |-> date, window |-> Closed]),
                Append(activities, [show |-> TRUE, date |-> date, window |-> Closed]))

\* "+ Add activity on this date", with the window of the first day of that date.
AddScheduleEntry == \E date \in datesOf(displayedDays(days, activities)) :
  /\ Len(activities) < MaxActivities
  /\ LET own == onDate(days, date)
         window == IF own = <<>> THEN Closed ELSE own[1].window
     IN  editTo(days, Append(activities, [show |-> TRUE, date |-> date, window |-> window]))

\* Slip: the day stays when its last activity is removed.
dayKept(list, date) == days

\* A day goes with its last activity.
daysAfterRemoval(list, date) ==
  IF date \in datesOf(list) THEN days ELSE without(days, date)

RemoveScheduleEntry == \E i \in DOMAIN activities :
  LET rest == RemoveAt(activities, i)
  IN  editTo(daysAfterRemoval(rest, activities[i].date), rest)

RemoveScheduleDay == \E date \in datesOf(displayedDays(days, activities)) :
  editTo(without(days, date), without(activities, date))

\* The activities follow by the date the day had.  Two days may not take the
\* same date; any number may be blank.
UpdateScheduleDay == \E i \in DOMAIN days, date \in AllDates, window \in Windows :
  /\ <<date, window>> # <<days[i].date, days[i].window>>
  /\ date # 0 /\ date # days[i].date => date \notin datesOf(days)
  /\ editTo([days EXCEPT ![i] = [date |-> date, window |-> window]],
            [j \in DOMAIN activities |->
               IF activities[j].date = days[i].date
               THEN [activities[j] EXCEPT !.date = date, !.window = window]
               ELSE activities[j]])

UpdateScheduleEntry == \E i \in DOMAIN activities :
  editTo(days, [activities EXCEPT ![i].show = ~@])

\* PUT /events/:id, then the page shows what GET returns.
SaveAndReload ==
  /\ activities' = stored(prepared)
  /\ days' = deriveScheduleDaysFromEntries(activities')
  /\ shows' = prepared.shows
  /\ ambiguous' = FALSE
  /\ UNCHANGED startDate

ScheduleNext ==
  \/ AddScheduleDay \/ AddScheduleEntry \/ RemoveScheduleEntry \/ RemoveScheduleDay
  \/ UpdateScheduleDay \/ UpdateScheduleEntry \/ SaveAndReload

-----------------------------------------------------------------------------
\* What a dated schedule shows is what is there after it is saved and loaded
\* again, whatever edits led to it: the same days, with their windows, now in
\* the order of their dates, under each the same activities in the same order,
\* all with the window of their day, and the same total of shows.  (Two days without a date share their
\* activities: dating the first takes them all, and the second is lost.)
SaveKeepsSchedule ==
  [][(/\ days # <<>> /\ ~ambiguous /\ 0 \notin datesOf(days) \cup datesOf(activities)
      /\ SaveAndReload)
     => /\ Len(days') = Len(days) /\ ToSet(days') = ToSet(days)
        /\ \A i, j \in DOMAIN days' : i < j => days'[i].date < days'[j].date
        /\ \A date \in AllDates :
             LET before == onDate(activities, date)
                 after  == onDate(activities', date)
             IN  /\ Len(after) = Len(before)
                 /\ \A i \in DOMAIN after :
                      /\ after[i].show = before[i].show
                      /\ \A d \in ToSet(days) :
                           d.date = date => after[i].window = d.window
        /\ deriveVenueShowCount(activities', shows') = deriveVenueShowCount(activities, shows)
    ]_scheduleVars
=============================================================================
