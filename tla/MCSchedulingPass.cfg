SPECIFICATION PassSpec
CONSTANTS
  a1 = a1
  a2 = a2
  b1 = b1
  b2 = b2
  d1 = d1
  Accounts <- MCAccounts
  SortKey <- MCSortKey
  Bodies <- MCBodies
  Texts <- MCTexts
  Description <- MCDescription
  Window = 1
  MaxAlarms = 3
  MaxTickets = 1
  MaxTime = 3
  MaxPasses = 2
  StepBack = 2
CHECK_DEADLOCK FALSE
INVARIANTS
  DecidedChainHasDecision
  CollectedDecisionsAreMarked
PROPERTY ImplementsScheduler
