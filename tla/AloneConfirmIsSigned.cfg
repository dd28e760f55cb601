SPECIFICATION Spec
CONSTANTS
  w1 = w1
  w2 = w2
  Slot <- TwoSlots
  Offers <- SignedOffers
  Start <- SignedStart
  MaxRequests = 5
  MaxDeaths = 0
CHECK_DEADLOCK FALSE
PROPERTY AloneConfirmIsSigned
