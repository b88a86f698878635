\* Two sessions and their judges; two chunks, and one trajectory, new or older than
\* its index; a purge, a cycle and an approval, three snapshots of which two are
\* kept; two callers and two providers.
CONSTANTS
  p1 = p1
  c1 = c1
  c2 = c2
  Window = 2
  Retries = 1
  MaxEnded = 2
  MaxChunks = 2
  MaxTrajectories = 1
  MaxPass = 2
  Purges = {p1}
  Retain = 2
  MaxSnapshots = 3
  Callers = {c1, c2}
  Last = 2
  Ttl = 3
  Timeout = 1
SPECIFICATION Spec
CHECK_DEADLOCK FALSE
INVARIANTS
  BackgroundTypeOK
  VerdictIsFinal
  MissingIsMarked
  RollbackRestoresWhole
PROPERTIES
  ScheduledIsDone
