SPECIFICATION Spec
CONSTANTS
  Result = {r1, r2}
  Inode = {i1, i2, i3}
  None = None
  Truncated = Truncated
  Faults = {"Interrupt"}
  MaxStarts = 2
INVARIANT AssertHolds
CHECK_DEADLOCK FALSE
