SPECIFICATION FairSpec
CONSTANT wrkMaxValidationAttemps = 4
CHECK_DEADLOCK FALSE
INVARIANTS
  IInv
  PublicationFitsOutcome
  SafeEndIsComplete
PROPERTIES
  WorkerEnds
  KeepsProtocol
