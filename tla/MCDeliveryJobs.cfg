SPECIFICATION Spec
CONSTANTS
  Runs = {r1, r2}
  Tasks = {t1}
  Offers <- MCOffers
  LastTrigger = 4
  TicksPerDay = 3
  UtcLag = 1
  MaxLag = 1
  MaxFaults = 1
  MaxByHand = 1
INVARIANT OneBriefUnlessRunsOverlap
INVARIANT MailedOncePerSnapshot
CHECK_DEADLOCK FALSE
