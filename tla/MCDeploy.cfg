SPECIFICATION FairSpec
CONSTANTS
  s1 = s1
  s2 = s2
  Scripts <- TwoScripts
  MaxRuns = 3
  MaxCrashes = 1
CHECK_DEADLOCK FALSE
INVARIANTS
  IInv
  SignalIsFresh
  DrainWasRequested
  RequestStands
PROPERTIES
  JobsFinishBeforeLoneReplacement
  WaitsOnlyForAgents
