SPECIFICATION Spec
CONSTANTS
  Result = {r1, r2}
  Inode = {i1, i2, i3, i4}
  None = None
  Truncated = Truncated
  Faults = {"FileNotFoundError", "OSError", "SaveError", "NoSpace", "Interrupt", "Kill"}
  MaxStarts = 2
SYMMETRY Symmetry
PROPERTY LossOnlyInWindows
PROPERTY StaleFreezesFile
CHECK_DEADLOCK FALSE
