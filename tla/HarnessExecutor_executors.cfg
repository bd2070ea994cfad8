SPECIFICATION FairSpec
CONSTANTS
  Capacity = 2
  MaxOutput = 4
INVARIANT TypeOK
INVARIANT AllOutput
INVARIANT NothingLeft
PROPERTY ExecutorEnds
CHECK_DEADLOCK FALSE
