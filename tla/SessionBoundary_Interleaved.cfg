\* Two keyed and two keyless conversations, over dicts for one.
CONSTANTS
  k1 = k1
  k2 = k2
  l1 = l1
  l2 = l2
  Keys = {k1, k2}
  Cap = 1
  Lists = {l1, l2}
  Collectors = {"signals"}
  MaxSessions = 3
  MaxFaults = 2
SPECIFICATION BoundarySpec
INVARIANTS
  BoundaryTypeOK WritesToOwnOpen FinalizedOnce FinalizedIsClosed ToolsSeeOwnSession
  OneOpenPerKey EndedIsAccounted OwnEvidence
PROPERTIES BoundaryIsCrossed
SYMMETRY Symmetry
CHECK_DEADLOCK FALSE
