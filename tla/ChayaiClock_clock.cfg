SPECIFICATION FairSpec
CONSTANTS
  Second = 4
  Micro = 2
  Width = 64
  Numer = 4
  Denom = 3
  Rounds = 3
  MaxTime = 5
  Steps = {1, 3}
  Shifts = {3}
  MaxShifts = 2
  MaxNs = 11
INVARIANT TypeOK
INVARIANT Thorough
INVARIANT DurationIsElapsed
PROPERTY Terminates
