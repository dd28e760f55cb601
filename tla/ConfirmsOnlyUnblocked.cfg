SPECIFICATION Spec
CONSTANTS
  w1 = w1
  w2 = w2
  Slot <- TwoSlots
  Offers <- ConfirmOffers
  Start <- ReadyStart
  MaxRequests = 2
  MaxDeaths = 0
CHECK_DEADLOCK FALSE
PROPERTY ConfirmsOnlyUnblocked
