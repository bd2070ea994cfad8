SPECIFICATION FairSpec
CONSTANTS
  Capacity = 1
  MaxOutput = 3
PROPERTY TimeoutEndsRun
CHECK_DEADLOCK FALSE
