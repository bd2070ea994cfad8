SPECIFICATION Spec
CONSTANTS
  Result = {r1, r2}
  Inode = {i1, i2, i3}
  None = None
  Truncated = Truncated
  Faults = {"Kill"}
  MaxStarts = 2
INVARIANT KillKeepsResults
CHECK_DEADLOCK FALSE
