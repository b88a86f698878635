CONSTANTS
  a = a
  b = b
  c = c
  Skills = {a, b, c}
  MaxTexts = 3
  MaxPending = 2
  MaxCycles = 1
  MaxChanges = 1
  MaxFaults = 1
SPECIFICATION Spec
INVARIANTS EvolutionTypeOK OneWinsPerBase
PROPERTIES OverwrittenIsKept ShieldedUntouched AbsorbedIsCovered GateHolds
SYMMETRY Symmetry
CHECK_DEADLOCK FALSE
