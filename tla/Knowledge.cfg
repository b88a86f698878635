\* One topic, so that every fact is a near-duplicate of every other; two
\* sessions that end and leave lessons, two memory_patch calls at a time.
CONSTANTS
  t = t
  s1 = s1
  s2 = s2
  w1 = w1
  w2 = w2
  r1 = r1
  r2 = r2
  m1 = m1
  m2 = m2
  n1 = n1
  c1 = c1
  c2 = c2
  Topics = {t}
  Sessions = {s1, s2}
  Workers = {w1, w2}
  MaxFacts = 3
  MinSessions = 1
  TopK = 2
  MaxEvictions = 1
  Importances = {FALSE}
  Rules = {r1, r2}
  MaxRows = 2
  MaxOps = 1
  MaxPrinciples = 1
  MaxPending = 1
  Meanings = {{m1, m2}, {n1}}
  Chats = {c1, c2}
  Budget = 3
  Drafts <- DraftForms
SPECIFICATION Spec
SYMMETRY Symmetry
CHECK_DEADLOCK FALSE
INVARIANTS
  KnowledgeTypeOK
  RetiredByLater
  NoLiveTwins
  Findable
  NoTwinPrinciples
PROPERTIES
  HumanRowsAreTheirs
  NothingForgotten
