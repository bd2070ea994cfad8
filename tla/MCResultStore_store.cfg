SPECIFICATION Spec
CONSTANTS
  Bench = {b1, b2}
  File = {f1, f2, f3}
  MaxExecutions = 3
  MaxInfiles = 2
  Absent = Absent
  Empty = Empty
SYMMETRY Symmetry
INVARIANT TypeOK
INVARIANT Reload
INVARIANT Faithful
PROPERTY FileExtends
PROPERTY MergedIsWhole
CHECK_DEADLOCK FALSE
