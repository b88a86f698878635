CONSTANTS
  k1 = k1
  k2 = k2
  l1 = l1
  l2 = l2
  Keys = {k1, k2}
  Cap = 1
  Lists = {}
  Collectors = {"lessons"}
  MaxSessions = 4
  MaxFaults = 0
SPECIFICATION BoundarySpec
INVARIANT HeldSinceLastBoundary
CHECK_DEADLOCK FALSE
