\* A nanobot that does not stamp: one message may repeat an earlier text, or one
\* follow-up be drained before the first model call.
CONSTANTS
  k1 = k1
  k2 = k2
  Keys = {k1}
  Cap = 1
  MaxFps = 2
  Replies <- ReplyForms
  Rewritten = {"img"}
  Stamps = FALSE
  HistoryMax = 4
  MaxMessages = 7
  MaxReplies = 2
  MaxSessions = 4
  MaxFaults = 2
  MaxUpheavals = 2
  MaxBlurs = 1
SPECIFICATION Spec
INVARIANTS NothingLost OneConversationPerSession StoredOnce
PROPERTY TurnContinues
CHECK_DEADLOCK FALSE
