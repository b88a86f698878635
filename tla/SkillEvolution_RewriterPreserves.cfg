CONSTANTS
  a = a
  b = b
  c = c
  Skills = {a,b}
  MaxTexts = 3
  MaxPending = 2
  MaxCycles = 1
  MaxChanges = 1
  MaxFaults = 0
SPECIFICATION Spec
PROPERTY RewriterPreserves
CHECK_DEADLOCK FALSE
