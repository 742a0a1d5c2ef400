SPECIFICATION Spec
CONSTANTS
  s1 = s1
  s2 = s2
  Scripts <- TwoScripts
  MaxRuns = 2
  MaxCrashes = 0
CHECK_DEADLOCK FALSE
PROPERTY JobsFinishBeforeReplacement
