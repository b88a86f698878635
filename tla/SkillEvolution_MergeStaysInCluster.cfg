CONSTANTS
  a = a
  b = b
  c = c
  Skills = {a,b,c}
  MaxTexts = 3
  MaxPending = 2
  MaxCycles = 1
  MaxChanges = 1
  MaxFaults = 0
SPECIFICATION Spec
PROPERTY MergeStaysInCluster
CHECK_DEADLOCK FALSE
