SPECIFICATION Spec
CONSTANTS
  w1 = w1
  w2 = w2
  Slot <- TwoSlots
  Offers <- AllOffers
  Start <- Milestones
  MaxRequests = 3
  MaxDeaths = 1
\* Nobody has anything left to do once MaxRequests requests are answered.
CHECK_DEADLOCK FALSE
PROPERTIES
  AloneReadHeals
  AloneConfirmIsPaid
  AloneEditJudges
