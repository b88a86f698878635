\* The agent's cycle and an approval build snapshots, and may die building.
CONSTANTS
  p1 = p1
  c1 = c1
  c2 = c2
  Window = 2
  Retries = 1
  MaxEnded = 1
  MaxChunks = 1
  MaxTrajectories = 1
  MaxPass = 1
  Purges = {p1}
  Retain = 2
  MaxSnapshots = 3
  Callers = {c1}
  Last = 1
  Ttl = 1
  Timeout = 1
SPECIFICATION Spec
CHECK_DEADLOCK FALSE
INVARIANT
  LatestIsWhole
