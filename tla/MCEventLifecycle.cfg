SPECIFICATION Spec
CONSTANT EventTypes <- MCEventTypes
INVARIANTS
  TypeOK
  FinancialSequence
  LetterChain
  LetterStatusTrusted
  ConfirmedBacked
  ReadsHealNothing
PROPERTIES
  EditLeavesNoBlockedConfirmed
  DemotedForCause
  ConfirmedWithoutBlockers
  ImplementsContract
