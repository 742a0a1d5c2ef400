SPECIFICATION Spec
CONSTANTS
  a1 = a1
  a2 = a2
  b1 = b1
  b2 = b2
  d1 = d1
  Accounts <- MCAccounts
  Bodies <- MCBodies
  Texts <- MCTexts
  Description <- MCDescription
  Window = 1
  MaxAlarms = 4
  MaxTickets = 1
  MaxTime = 3
  MaxPasses = 3
  StepBack = 0
SYMMETRY Symmetry
CHECK_DEADLOCK FALSE
INVARIANTS
  IInv
  OneDecisionPerChain
  DecisionsAreApart
  TicketDecidedOnce
PROPERTY PassIsIdempotent
