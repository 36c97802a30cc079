SPECIFICATION FairSpec
CONSTANTS
  MaxCalls = 1
INVARIANT
  EnabledMeansAttached
CHECK_DEADLOCK FALSE
