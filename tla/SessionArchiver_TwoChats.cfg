\* A nanobot that stamps; a table for one conversation.
CONSTANTS
  k1 = k1
  k2 = k2
  Keys = {k1, k2}
  Cap = 1
  MaxFps = 2
  Replies <- ReplyForms
  Rewritten = {"img"}
  Stamps = TRUE
  HistoryMax = 4
  MaxMessages = 6
  MaxReplies = 2
  MaxSessions = 4
  MaxFaults = 1
  MaxUpheavals = 0
  MaxBlurs = 0
SPECIFICATION Spec
INVARIANTS TypeOK NothingLost StoredOnce
PROPERTIES EndedStaysClosed KeepsLedger
SYMMETRY Symmetry
CHECK_DEADLOCK FALSE
