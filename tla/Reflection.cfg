\* Two chats whose sessions end and follow each other, a principle and the
\* reflection one of them writes; the reminders of a chat, which are its own.
CONSTANTS
  k1 = k1
  k2 = k2
  p1 = p1
  t1 = t1
  Chats = {k1, k2}
  Principles = {p1}
  RecentLimit = 1
  MaxReflections = 1
  MaxSessions = 3
  Talkers = {t1}
  Threshold = 5
  Interval = 3
  MaxFresh = 2
SPECIFICATION Spec
SYMMETRY Symmetry
CHECK_DEADLOCK FALSE
INVARIANTS
  ReflectionTypeOK
  CountedAsShown
  CreditedAsShown
PROPERTIES
  NudgesAreDue
