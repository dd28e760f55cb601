SPECIFICATION Spec
CONSTANTS
  w1 = w1
  w2 = w2
  Slot <- TwoSlots
  Offers <- CancelOffers
  Start <- ConfirmedStart
  MaxRequests = 2
  MaxDeaths = 0
CHECK_DEADLOCK FALSE
PROPERTY ClosedStaysClosed
