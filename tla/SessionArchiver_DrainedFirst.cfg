\* A follow-up is drained before the first model call.
CONSTANTS
  k1 = k1
  k2 = k2
  Keys = {k1}
  Cap = 1
  MaxFps = 2
  Replies <- ReplyForms
  Rewritten = {"img"}
  Stamps = TRUE
  HistoryMax = 4
  MaxMessages = 7
  MaxReplies = 2
  MaxSessions = 4
  MaxFaults = 0
  MaxUpheavals = 2
  MaxBlurs = 1
SPECIFICATION Spec
INVARIANT NoneSwallowed
CHECK_DEADLOCK FALSE
