SPECIFICATION Spec
CONSTANTS
  Bench = {b1, b2}
  File = {f1}
  MaxExecutions = 3
  MaxInfiles = 1
  Absent = Absent
  Empty = Empty
SYMMETRY Symmetry
INVARIANT RunsOfTheirExecution
CHECK_DEADLOCK FALSE
