SPECIFICATION Spec
CONSTANTS
  Runs = {r1, r2}
  Tasks = {t1}
  Offers <- MCDayOffers
  LastTrigger = 9
  TicksPerDay = 4
  UtcLag = 1
  MaxLag = 1
  MaxFaults = 1
  MaxByHand = 1
PROPERTY EveryDayIsBriefed
PROPERTY EveryDayIsReminded
CHECK_DEADLOCK FALSE
