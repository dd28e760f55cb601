SPECIFICATION Spec
CONSTANTS
  Timings = {ac}
  LastDate = 2
  MaxActivities = 3
  MaxLegacy = 1
  Instalments = {1, 2}
  Venues = {v1, v2}
  LastDay = 4
  DaysPerMonth = 2
  MaxEntries = 2
  Shows = {1, 2, 3}
  Names = {n1, n2}
  Halls = {1, 2}
  Dates = {1, 2}
  Spans <- AllSpans
  WindowDays = 1
  BriefLimit = 1
  MaxRows = 4
  Words = {1, 2}
  Requests = {q1, q2}
  MaxBookings = 2
  MaxNames = 2

SYMMETRY Symmetry

INVARIANT EditAnticipatesRead
INVARIANT ScreenForetellsServer
INVARIANT AllButRegretAreOnOneCalendar
INVARIANT ClashesAreBriefed
INVARIANT BriefedClashesAreOnPages
INVARIANT FormAndChecklistAgree
PROPERTY SaveKeepsSchedule

\* An archived regret is never touched again.
CHECK_DEADLOCK FALSE
