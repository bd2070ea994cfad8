SPECIFICATION Spec
CONSTANTS
  Result = {r1, r2}
  Inode = {i1, i2, i3, i4}
  None = None
  Truncated = Truncated
  Faults = {"OSError", "SaveError", "Interrupt"}
  MaxStarts = 2
SYMMETRY Symmetry
INVARIANT TypeOK
INVARIANT NothingLost
INVARIANT WriterInv
INVARIANT NoDebris
INVARIANT MeasuredIsStored
PROPERTY ImplementsLog
CHECK_DEADLOCK FALSE
