----------------------- MODULE SessionBoundaryProofs -----------------------
(***************************************************************************)
(* The ledger keeps its promises and boundaries are crossed once, whatever *)
(* the caps, the conversations and the faults: no bound of the model is    *)
(* used.                                                                   *)
(***************************************************************************)
EXTENDS SessionBoundary, LruProofs

-----------------------------------------------------------------------------
(* The ledger that boundaries build on, for every set of conversations.    *)

LedgerRecord == [owner : Seq(Conversations), ended : SUBSET Nat,
                 mapped : [Conversations -> Nat]]

\* The inductive invariant, of a ledger record.
Sound(l) ==
    /\ l \in LedgerRecord
    /\ l.ended \subseteq 1 .. Len(l.owner)
    /\ \A c \in Conversations : l.mapped[c] # NoSession =>
            /\ l.mapped[c] \in 1 .. Len(l.owner)
            /\ l.mapped[c] \notin l.ended
            /\ l.owner[l.mapped[c]] = c
    /\ \A s, t \in (1 .. Len(l.owner)) \ l.ended :
            l.owner[s] = l.owner[t] /\ l.owner[s] \in Keys => s = t

-----------------------------------------------------------------------------
\* Letting go of sessions keeps a ledger sound, whether or not the stamp lands:
\* a session is mapped by its own conversation only.
LEMMA LetGoSound ==
    ASSUME NEW l, NEW C, NEW stamped,
           Sound(l), C \subseteq Conversations, NoSession \notin stamped
    PROVE  /\ Sound(LetGo(l, C, stamped))
           /\ LetGo(l, C, stamped).owner = l.owner
           /\ l.ended \subseteq LetGo(l, C, stamped).ended
           /\ \A c \in Conversations :
                LetGo(l, C, stamped).mapped[c] = IF c \in C THEN NoSession ELSE l.mapped[c]
<1> DEFINE m == LetGo(l, C, stamped)
           gone == stamped \cap {l.mapped[c] : c \in C}
<1>1. l \in LedgerRecord
  BY DEF Sound
<1>2. /\ m.owner = l.owner
      /\ m.ended = l.ended \cup gone
      /\ m.mapped = [c \in Conversations |-> IF c \in C THEN NoSession ELSE l.mapped[c]]
      /\ m \in LedgerRecord
  BY <1>1 DEF LetGo, LedgerRecord, NoSession
<1>3. ASSUME NEW c \in Conversations, m.mapped[c] # NoSession
      PROVE  m.mapped[c] \in 1 .. Len(m.owner) /\ m.mapped[c] \notin m.ended
             /\ m.owner[m.mapped[c]] = c
  <2>1. c \notin C /\ m.mapped[c] = l.mapped[c] /\ l.mapped[c] # NoSession
    BY <1>2, <1>3
  <2>2. l.mapped[c] \in 1 .. Len(l.owner) /\ l.mapped[c] \notin l.ended
        /\ l.owner[l.mapped[c]] = c
    BY <2>1 DEF Sound
  <2>3. l.mapped[c] \notin gone
    <3>1. SUFFICES ASSUME NEW d \in C, l.mapped[d] = l.mapped[c] PROVE FALSE
      OBVIOUS
    <3>2. l.owner[l.mapped[d]] = d
      BY <3>1, <2>1 DEF Sound
    <3>. QED BY <3>1, <3>2, <2>1, <2>2
  <2>. QED BY <1>2, <2>1, <2>2, <2>3
<1>4. m.ended \subseteq 1 .. Len(m.owner)
  BY <1>2 DEF Sound
<1>5. ASSUME NEW s \in (1 .. Len(m.owner)) \ m.ended, NEW t \in (1 .. Len(m.owner)) \ m.ended,
             m.owner[s] = m.owner[t], m.owner[s] \in Keys
      PROVE  s = t
  BY <1>2, <1>5 DEF Sound
<1>. HIDE DEF m
<1>6. Sound(m)
  BY <1>2, <1>3, <1>4, <1>5 DEF Sound
<1>. QED BY <1>2, <1>6 DEF m

\* Opening a session for an unmapped conversation keeps a ledger sound: under a
\* session key nothing else is left open.
LEMMA OpenSound ==
    ASSUME NEW l, Sound(l), NEW c \in Conversations, l.mapped[c] = NoSession
    PROVE  /\ Sound(Open(l, c))
           /\ Open(l, c).owner = Append(l.owner, c)
           /\ l.ended \subseteq Open(l, c).ended
           /\ \A d \in Conversations :
                Open(l, c).mapped[d] = IF d = c THEN Len(l.owner) + 1 ELSE l.mapped[d]
<1> DEFINE m == Open(l, c)
           n == Len(l.owner)
           left == {s \in DOMAIN l.owner : c \in Keys /\ l.owner[s] = c}
<1>1. l \in LedgerRecord /\ n \in Nat /\ DOMAIN l.owner = 1 .. n
  BY DEF Sound, LedgerRecord
<1>2. /\ m.owner = Append(l.owner, c)
      /\ m.ended = l.ended \cup left
      /\ m.mapped = [l.mapped EXCEPT ![c] = n + 1]
      /\ m \in LedgerRecord
  BY <1>1 DEF Open, LedgerRecord
<1>3. /\ Len(m.owner) = n + 1
      /\ m.owner[n + 1] = c
      /\ \A s \in 1 .. n : m.owner[s] = l.owner[s]
  BY <1>1, <1>2 DEF LedgerRecord
<1>4. m.ended \subseteq 1 .. n
  BY <1>1, <1>2 DEF Sound
<1>5. ASSUME NEW d \in Conversations, m.mapped[d] # NoSession
      PROVE  m.mapped[d] \in 1 .. Len(m.owner) /\ m.mapped[d] \notin m.ended
             /\ m.owner[m.mapped[d]] = d
  <2>1. CASE d = c
    <3>1. m.mapped[d] = n + 1
      BY <1>1, <1>2, <2>1 DEF LedgerRecord
    <3>. QED BY <1>1, <1>3, <1>4, <2>1, <3>1
  <2>2. CASE d # c
    <3>1. m.mapped[d] = l.mapped[d]
      BY <1>1, <1>2, <2>2 DEF LedgerRecord
    <3>2. l.mapped[d] \in 1 .. n /\ l.mapped[d] \notin l.ended /\ l.owner[l.mapped[d]] = d
      BY <1>5, <3>1 DEF Sound
    <3>. QED BY <1>1, <1>2, <1>3, <2>2, <3>1, <3>2
  <2>. QED BY <2>1, <2>2
<1>6. ASSUME NEW s \in (1 .. Len(m.owner)) \ m.ended, NEW t \in (1 .. Len(m.owner)) \ m.ended,
             m.owner[s] = m.owner[t], m.owner[s] \in Keys
      PROVE  s = t
  <2>1. CASE s \in 1 .. n /\ t \in 1 .. n
    BY <1>1, <1>2, <1>3, <1>6, <2>1 DEF Sound
  <2>2. ASSUME NEW u \in (1 .. Len(m.owner)) \ m.ended, m.owner[u] = c, c \in Keys
        PROVE  u = n + 1
    BY <1>1, <1>2, <1>3, <2>2
  <2>3. s \in 1 .. n + 1 /\ t \in 1 .. n + 1
    BY <1>3
  <2>4. CASE s = n + 1
    BY <1>3, <1>6, <2>2, <2>4
  <2>5. CASE t = n + 1
    BY <1>3, <1>6, <2>2, <2>5
  <2>. QED BY <1>1, <2>1, <2>3, <2>4, <2>5
<1>. HIDE DEF m
<1>7. Sound(m)
  BY <1>1, <1>2, <1>3, <1>4, <1>5, <1>6 DEF Sound
<1>8. \A d \in Conversations : m.mapped[d] = IF d = c THEN n + 1 ELSE l.mapped[d]
  BY <1>1, <1>2 DEF LedgerRecord
<1>. QED BY <1>2, <1>7, <1>8 DEF m

-----------------------------------------------------------------------------
\* What an archive pass of c may do to a ledger: rows keep their owner, ended
\* rows stay ended, another conversation keeps its session or loses it, and c
\* keeps its own, loses it, or opens the next row.
PassesTo(l, c, m) ==
    /\ Sound(m)
    /\ Len(l.owner) <= Len(m.owner)
    /\ \A s \in 1 .. Len(l.owner) : m.owner[s] = l.owner[s]
    /\ l.ended \subseteq m.ended
    /\ \A d \in Conversations \ {c} : m.mapped[d] \in {l.mapped[d], NoSession}
    /\ m.mapped[c] \in {l.mapped[c], NoSession, Len(l.owner) + 1}
    /\ \A s \in 1 .. Len(m.owner) : s \in 1 .. Len(l.owner) \/ s = m.mapped[c]

LEMMA PassedSound ==
    ASSUME NEW l, Sound(l), NEW c \in Conversations,
           NEW idle, idle \subseteq Conversations \ {c},
           NEW stamped, NoSession \notin stamped,
           NEW case \in {"continue", "release", "open"}
    PROVE  PassesTo(l, c, Passed(l, c, idle, stamped, case))
<1> DEFINE rest  == LetGo(l, idle, stamped)
           freed == LetGo(rest, {c}, stamped)
           open  == Open(freed, c)
<1>0. l \in LedgerRecord
  BY DEF Sound
<1>1. /\ Sound(rest) /\ rest.owner = l.owner /\ l.ended \subseteq rest.ended
      /\ \A d \in Conversations :
            rest.mapped[d] = IF d \in idle THEN NoSession ELSE l.mapped[d]
  <2>1. idle \subseteq Conversations
    OBVIOUS
  <2>. QED BY <2>1, LetGoSound
<1>2. /\ Sound(freed) /\ freed.owner = l.owner /\ rest.ended \subseteq freed.ended
      /\ \A d \in Conversations :
            freed.mapped[d] = IF d = c THEN NoSession ELSE rest.mapped[d]
  <2>1. {c} \subseteq Conversations
    OBVIOUS
  <2>2. Sound(rest)
    BY <1>1
  <2>. HIDE DEF rest
  <2>3. /\ Sound(freed) /\ freed.owner = rest.owner /\ rest.ended \subseteq freed.ended
        /\ \A d \in Conversations :
              freed.mapped[d] = IF d \in {c} THEN NoSession ELSE rest.mapped[d]
    BY <2>1, <2>2, LetGoSound
  <2>. QED BY <1>1, <2>3
<1>3. /\ Sound(open) /\ open.owner = Append(l.owner, c) /\ freed.ended \subseteq open.ended
      /\ \A d \in Conversations :
            open.mapped[d] = IF d = c THEN Len(l.owner) + 1 ELSE freed.mapped[d]
  <2>. HIDE DEF freed
  <2>. QED BY <1>2, OpenSound
<1>4. /\ Len(open.owner) = Len(l.owner) + 1
      /\ \A s \in 1 .. Len(l.owner) : open.owner[s] = l.owner[s]
  <2>1. l.owner \in Seq(Conversations)
    BY <1>0 DEF LedgerRecord
  <2>. HIDE DEF open
  <2>. QED BY <1>3, <2>1
<1>5. Len(l.owner) \in Nat /\ \A d \in Conversations : l.mapped[d] # Len(l.owner) + 1
  <2>1. Len(l.owner) \in Nat
    BY <1>0 DEF LedgerRecord
  <2>2. NoSession # Len(l.owner) + 1
    BY <2>1 DEF NoSession
  <2>. QED BY <2>1, <2>2 DEF Sound
<1>6. CASE case = "continue"
  <2>1. Passed(l, c, idle, stamped, case) = rest
    BY <1>6 DEF Passed
  <2>. HIDE DEF rest
  <2>. QED BY <1>1, <1>5, <2>1 DEF PassesTo
<1>7. CASE case = "release"
  <2>1. Passed(l, c, idle, stamped, case) = freed
    BY <1>7 DEF Passed
  <2>2. NoSession # Len(l.owner) + 1
    BY <1>5 DEF NoSession
  <2>. HIDE DEF rest, freed
  <2>. QED BY <1>1, <1>2, <1>5, <2>1, <2>2 DEF PassesTo
<1>8. CASE case = "open"
  <2>1. Passed(l, c, idle, stamped, case) = open
    BY <1>8 DEF Passed
  <2>. HIDE DEF rest, freed, open
  <2>. QED BY <1>1, <1>2, <1>3, <1>4, <1>5, <2>1 DEF PassesTo
<1>. QED BY <1>6, <1>7, <1>8

-----------------------------------------------------------------------------
\* A sound ledger satisfies the three stated invariants.
LEMMA SoundSuffices ==
    ASSUME Sound(Ledger)
    PROVE  LedgerTypeOK /\ WritesToOwnOpen /\ OneOpenPerKey
<1>1. /\ owner \in Seq(Conversations) /\ ended \in SUBSET Nat
      /\ mapped \in [Conversations -> Nat]
  BY DEF Sound, Ledger, LedgerRecord
<1>2. DOMAIN owner = 1 .. Len(owner)
  BY <1>1
<1>3. LedgerTypeOK
  BY <1>1, <1>2 DEF Sound, Ledger, LedgerTypeOK
<1>4. WritesToOwnOpen
  BY DEF Sound, Ledger, WritesToOwnOpen
<1>5. OneOpenPerKey
  BY <1>2 DEF Sound, Ledger, OneOpenPerKey
<1>. QED BY <1>3, <1>4, <1>5

LEMMA InitSound == ASSUME Init PROVE Sound(Ledger)
BY DEF Init, Sound, Ledger, LedgerRecord, NoSession

LEMMA PassSound ==
    ASSUME Sound(Ledger), NEW c \in Conversations, Pass(c) PROVE Sound(Ledger)'
<1>1. PICK idle \in SUBSET (Conversations \ {c}), stamped \in SUBSET DOMAIN owner,
           case \in Cases(c) : Become(Passed(Ledger, c, idle, stamped, case))
  BY DEF Pass
<1>. DEFINE m == Passed(Ledger, c, idle, stamped, case)
<1>2. /\ idle \subseteq Conversations \ {c} /\ NoSession \notin stamped
      /\ case \in {"continue", "release", "open"}
  BY DEF Sound, Ledger, LedgerRecord, Cases, NoSession
<1>3. Sound(m)
  BY <1>2, PassedSound DEF PassesTo
<1>. HIDE DEF m
<1>4. m = Ledger'
  BY <1>1, <1>3 DEF m, Become, Ledger, Sound, LedgerRecord
<1>. QED BY <1>3, <1>4

LEMMA ForgetSound == ASSUME Sound(Ledger), Forget PROVE Sound(Ledger)'
BY DEF Forget, Sound, Ledger, LedgerRecord, NoSession

\* For every set of session keys and lists: a conversation writes only to its
\* own open session, and a session key never has two open ones.
THEOREM LedgerSafety == Spec => [](LedgerTypeOK /\ WritesToOwnOpen /\ OneOpenPerKey)
<1>1. Init => Sound(Ledger)
  BY InitSound
<1>2. Sound(Ledger) /\ [Next]_ledger => Sound(Ledger)'
  <2>1. ASSUME Sound(Ledger), UNCHANGED ledger PROVE Sound(Ledger)'
    BY <2>1 DEF ledger, Ledger
  <2>. QED BY <2>1, PassSound, ForgetSound DEF Next
<1>3. Sound(Ledger) => LedgerTypeOK /\ WritesToOwnOpen /\ OneOpenPerKey
  BY SoundSuffices
<1>. QED BY <1>1, <1>2, <1>3, PTL DEF Spec

-----------------------------------------------------------------------------
(* Boundaries.                                                             *)

Rows == 1 .. Len(owner)
Trajectory == [session : Nat, evidence : [Collectors -> SUBSET Nat]]

Types ==
    /\ synced \in [Keys -> Nat] /\ turn \in [Conversations -> Nat]
    /\ held \in [Collectors -> [HookKeys -> SUBSET Nat]]
    /\ trajectories \in Seq(Trajectory)

\* Whatever names a session names a row.
InRows ==
    /\ \A c \in Conversations : turn[c] # NoSession => turn[c] \in Rows
    /\ \A d \in Collectors, h \in HookKeys : held[d][h] \subseteq Rows \cup {NoSession}
    /\ \A i \in DOMAIN trajectories :
        /\ trajectories[i].session \in Rows
        /\ \A d \in Collectors : trajectories[i].evidence[d] \subseteq Rows \cup {NoSession}

\* What the coordinator remembers is a row of the conversation it is kept for.
Remembered ==
    /\ \A k \in Keys : synced[k] # NoSession => synced[k] \in Rows /\ owner[synced[k]] = k
    /\ keyless # NoSession => keyless \in Rows /\ owner[keyless] \in Lists

\* A session that s was kept for is still the one remembered under k, or nobody
\* will see its boundary.
OwnOf(k, s) ==
    owner[s] = k /\ (s = synced[k] \/ s \in forgotten)

\* What a collector holds of a key came from the session remembered under it, or
\* from one of its own that was forgotten, or from none.
HeldIsOwn ==
    \A k \in Keys : \A d \in Collectors : \A e \in held[d][k] \ {NoSession} : OwnOf(k, e)

\* So did the turn in flight, and a key that remembers anything remembers that.
TurnIsOwn ==
    \A k \in Keys : turn[k] # NoSession =>
        OwnOf(k, turn[k]) /\ synced[k] \in {turn[k], NoSession}

\* Every row is remembered, forgotten or finalized.
RowsAccounted ==
    Rows \subseteq Finalized \cup forgotten \cup {synced[k] : k \in Keys} \cup {keyless}

\* The inductive invariant.
BoundaryInv ==
    /\ Sound(Ledger) /\ Types /\ InRows /\ Remembered
    /\ FinalizedOnce /\ FinalizedIsClosed
    /\ HeldIsOwn /\ TurnIsOwn /\ RowsAccounted /\ OwnEvidence

\* Every dict lists its keys once and within its cap, only a row is forgotten, and
\* a turn without a session has none.
Dicts ==
    /\ recent \in Recency(Keys) /\ touched \in [Collectors -> Recency(HookKeys)]
    /\ Capped
    /\ forgotten \subseteq Rows
    /\ unbound \subseteq {c \in Conversations : turn[c] = NoSession}

-----------------------------------------------------------------------------
\* Pruning an ended session leaves nobody writing to it and disturbs no other.
LEMMA PrunedSound ==
    ASSUME NEW l, Sound(l), NEW s \in 1 .. Len(l.owner), NEW stamped
    PROVE  LET m == Pruned(l, s, stamped)
           IN  /\ Sound(m) /\ m.owner = l.owner
               /\ l.ended \subseteq m.ended
               /\ s \in stamped => s \in m.ended
               /\ \A d \in Conversations :
                    m.mapped[d] = IF l.mapped[d] = s THEN NoSession ELSE l.mapped[d]
<1> DEFINE writers == {c \in Conversations : l.mapped[c] = s}
           r == LetGo(l, writers, {})
           m == Pruned(l, s, stamped)
<1>1. /\ Sound(r) /\ r.owner = l.owner /\ l.ended \subseteq r.ended
      /\ \A d \in Conversations :
            r.mapped[d] = IF d \in writers THEN NoSession ELSE l.mapped[d]
  <2>1. writers \subseteq Conversations /\ NoSession \notin {}
    OBVIOUS
  <2>. HIDE DEF writers
  <2>. QED BY <2>1, LetGoSound
<1>2. r \in LedgerRecord
  BY <1>1 DEF Sound
<1>3. /\ m.owner = r.owner /\ m.mapped = r.mapped
      /\ m.ended = r.ended \cup (stamped \cap {s})
      /\ m \in LedgerRecord
  <2>1. m = [r EXCEPT !.ended = @ \cup (stamped \cap {s})]
    BY DEF Pruned
  <2>2. s \in Nat
    OBVIOUS
  <2>. HIDE DEF m, r
  <2>. QED BY <1>2, <2>1, <2>2 DEF LedgerRecord
<1>4. \A d \in Conversations : r.mapped[d] # s
  <2>1. NoSession # s
    BY DEF NoSession
  <2>. HIDE DEF r
  <2>. QED BY <1>1, <2>1
<1>5. Sound(m)
  <2>. HIDE DEF r, m
  <2>. QED BY <1>1, <1>3, <1>4 DEF Sound
<1>. HIDE DEF r, m
<1>6. /\ m.owner = l.owner /\ l.ended \subseteq m.ended
      /\ s \in stamped => s \in m.ended
  BY <1>1, <1>3
<1>7. \A d \in Conversations :
        m.mapped[d] = IF l.mapped[d] = s THEN NoSession ELSE l.mapped[d]
  BY <1>1, <1>3
<1>. QED BY <1>5, <1>6, <1>7 DEF m

-----------------------------------------------------------------------------
(* A hook call of c: the pass leaves the ledger l, the sync hears of s.     *)

\* Finalized sessions do not come back: the pass maps what was mapped, or a new row.
AfterPass(c, l) ==
    /\ Sound(l)
    /\ Rows \subseteq 1 .. Len(l.owner)
    /\ \A r \in Rows : l.owner[r] = owner[r]
    /\ ended \subseteq l.ended
    /\ \A d \in Conversations : l.mapped[d] # NoSession =>
            l.mapped[d] = mapped[d] \/ l.mapped[d] \notin Rows
    /\ \A r \in 1 .. Len(l.owner) : r \in Rows \/ r = l.mapped[c]

HookStep(c, l, s, luck) ==
    /\ AfterPass(c, l)
    /\ s \in {l.mapped[c], NoSession}
    /\ luck \in Luck
    /\ ~luck.written => Crossed(c, s)
    /\ Synced(c, l, s, luck)

LEMMA HookCallStep ==
    ASSUME Sound(Ledger), NEW c \in Conversations, HookCall(c)
    PROVE  \E l, s, luck : HookStep(c, l, s, luck)
<1>1. PICK idle \in SUBSET (InUse \ {c}), case \in Cases(c), luck \in Luck :
        LET l == Passed(Ledger, c, idle, IF luck.stamps THEN DOMAIN owner ELSE {}, case)
            s == IF luck.heard THEN l.mapped[c] ELSE NoSession
        IN  /\ ~luck.written => Crossed(c, s)
            /\ Synced(c, l, s, luck)
  BY DEF HookCall
<1> DEFINE stamped == IF luck.stamps THEN DOMAIN owner ELSE {}
           l == Passed(Ledger, c, idle, stamped, case)
           s == IF luck.heard THEN l.mapped[c] ELSE NoSession
<1>2. (~luck.written => Crossed(c, s)) /\ Synced(c, l, s, luck)
  BY <1>1
<1>3. /\ Ledger.owner = owner /\ Ledger.ended = ended /\ Ledger.mapped = mapped
      /\ DOMAIN owner = Rows /\ Len(owner) \in Nat
  BY DEF Sound, Ledger, LedgerRecord, Rows
<1>4. /\ Sound(l)
      /\ Len(owner) <= Len(l.owner)
      /\ \A r \in Rows : l.owner[r] = owner[r]
      /\ ended \subseteq l.ended
      /\ \A d \in Conversations \ {c} : l.mapped[d] \in {mapped[d], NoSession}
      /\ l.mapped[c] \in {mapped[c], NoSession, Len(owner) + 1}
      /\ \A r \in 1 .. Len(l.owner) : r \in Rows \/ r = l.mapped[c]
  <2>1. NoSession \notin stamped /\ idle \subseteq Conversations \ {c}
        /\ case \in {"continue", "release", "open"}
    BY <1>3 DEF NoSession, InUse, Rows, Cases
  <2>. HIDE DEF stamped
  <2>2. PassesTo(Ledger, c, l)
    BY <2>1, PassedSound
  <2>. HIDE DEF l
  <2>. QED BY <1>3, <2>2 DEF PassesTo, Rows
<1>. HIDE DEF l
<1>5. AfterPass(c, l)
  <2>1. Len(l.owner) \in Nat
    BY <1>4 DEF Sound, LedgerRecord
  <2>2. Rows \subseteq 1 .. Len(l.owner) /\ Len(owner) + 1 \notin Rows
    BY <1>3, <1>4, <2>1 DEF Rows
  <2>3. \A d \in Conversations : l.mapped[d] # NoSession =>
            l.mapped[d] = mapped[d] \/ l.mapped[d] \notin Rows
    BY <1>4, <2>2
  <2>. QED BY <1>4, <2>2, <2>3 DEF AfterPass
<1>6. s \in {l.mapped[c], NoSession} /\ luck \in Luck
  BY DEF Luck
<1>. HIDE DEF s
<1>7. HookStep(c, l, s, luck)
  BY <1>2, <1>5, <1>6 DEF HookStep
<1>. QED BY <1>7


-----------------------------------------------------------------------------
(* What the step does to each part of the state.                            *)

\* The session a conversation leaves is remembered for it alone and has no
\* trajectory yet.
LEMMA PrevIsOwn ==
    ASSUME BoundaryInv, NEW c \in Conversations, Prev(c) # NoSession
    PROVE  /\ Prev(c) \in Rows
           /\ Prev(c) \notin Finalized
           /\ c \in Keys => owner[Prev(c)] = c
           /\ c \notin Keys => owner[Prev(c)] \in Lists
           /\ \A k \in Keys \ {c} : synced[k] # Prev(c)
           /\ c \in Keys => keyless # Prev(c)
<1>1. Keys \cap Lists = {}
  BY KeysAssumption
<1>2. /\ Prev(c) \in Rows
      /\ c \in Keys => owner[Prev(c)] = c
      /\ c \notin Keys => owner[Prev(c)] \in Lists
  BY DEF BoundaryInv, Remembered, Prev
<1>3. Prev(c) \notin Finalized
  BY DEF BoundaryInv, FinalizedIsClosed, Prev
<1>4. \A k \in Keys \ {c} : synced[k] # Prev(c)
  BY <1>1, <1>2 DEF BoundaryInv, Remembered, NoSession
<1>5. c \in Keys => keyless # Prev(c)
  BY <1>1, <1>2 DEF BoundaryInv, Remembered, NoSession
<1>. QED BY <1>2, <1>3, <1>4, <1>5

LEMMA HookLedger ==
    ASSUME BoundaryInv, NEW c \in Conversations, NEW l, NEW s, NEW luck,
           HookStep(c, l, s, luck)
    PROVE  /\ Sound(Ledger)' /\ Rows' = 1 .. Len(l.owner) /\ owner' = l.owner
           /\ l.ended \subseteq ended'
           /\ Crossed(c, s) /\ luck.written => Prev(c) \in ended'
           /\ \A d \in Conversations :
                mapped'[d] = IF Crossed(c, s) /\ l.mapped[d] = Prev(c)
                             THEN NoSession ELSE l.mapped[d]
<1>1. Sound(l) /\ Rows \subseteq 1 .. Len(l.owner)
  BY DEF HookStep, AfterPass
<1>2. CASE ~Crossed(c, s)
  <2>1. owner' = l.owner /\ ended' = l.ended /\ mapped' = l.mapped
    BY <1>2 DEF HookStep, Synced, Stay, Become
  <2>2. l = Ledger'
    BY <1>1, <2>1 DEF Sound, LedgerRecord, Ledger
  <2>. QED BY <1>1, <1>2, <2>1, <2>2 DEF Rows
<1>3. CASE Crossed(c, s)
  <2> DEFINE stamped == IF luck.stamps \/ luck.written THEN {Prev(c)} ELSE {}
             m == Pruned(l, Prev(c), stamped)
  <2>1. owner' = m.owner /\ ended' = m.ended /\ mapped' = m.mapped
    BY <1>3 DEF HookStep, Synced, Boundary, Become
  <2>2. Prev(c) \in 1 .. Len(l.owner)
    BY <1>1, <1>3, PrevIsOwn DEF Crossed
  <2>3. luck.written => Prev(c) \in stamped
    OBVIOUS
  <2>. HIDE DEF stamped
  <2>4. /\ Sound(m) /\ m.owner = l.owner /\ l.ended \subseteq m.ended
        /\ Prev(c) \in stamped => Prev(c) \in m.ended
        /\ \A d \in Conversations :
             m.mapped[d] = IF l.mapped[d] = Prev(c) THEN NoSession ELSE l.mapped[d]
    BY <1>1, <2>2, PrunedSound
  <2>. HIDE DEF m
  <2>5. m = Ledger'
    BY <2>1, <2>4 DEF Sound, LedgerRecord, Ledger
  <2>. QED BY <1>3, <2>1, <2>3, <2>4, <2>5 DEF Rows
<1>. QED BY <1>2, <1>3

\* The coordinator remembers the session it was told under c's own key, and
\* evicts sessions of others, which are then forgotten.
LEMMA HookMemory ==
    ASSUME BoundaryInv, NEW c \in Conversations, NEW l, NEW s, NEW luck,
           HookStep(c, l, s, luck)
    PROVE  /\ synced' \in [Keys -> Nat]
           /\ \A k \in Keys \ {c} :
                synced'[k] = synced[k] \/ (synced'[k] = NoSession /\ synced[k] \in forgotten')
           /\ IF c \in Keys THEN keyless' = keyless ELSE synced' = synced
           /\ Prev(c)' = IF s = NoSession THEN Prev(c) ELSE s
<1>1. synced \in [Keys -> Nat] /\ s \in Nat
  BY SMTT(20) DEF BoundaryInv, Types, HookStep, AfterPass, Sound, LedgerRecord, NoSession
<1>2. CASE s = NoSession
  <2>1. synced' = synced /\ keyless' = keyless
    BY <1>2 DEF HookStep, Synced, coordinator
  <2>. QED BY <1>1, <1>2, <2>1 DEF Prev
<1>3. CASE s # NoSession /\ c \in Keys
  <2> DEFINE out == Evicted(recent, c, TRUE, Cap)
  <2>1. /\ synced' = [k \in Keys |-> IF k = c THEN s ELSE IF k \in out THEN NoSession
                                                          ELSE synced[k]]
        /\ keyless' = keyless
    BY <1>3 DEF HookStep, Synced, Remember
  <2>2. \A k \in Keys \cap out : synced[k] # NoSession => synced[k] \in forgotten'
    BY <1>3 DEF HookStep, Synced, Dropped
  <2>. HIDE DEF out
  <2>3. synced' \in [Keys -> Nat]
    BY <1>1, <2>1 DEF NoSession
  <2>4. \A k \in Keys \ {c} :
            synced'[k] = synced[k] \/ (synced'[k] = NoSession /\ synced[k] \in forgotten')
    <3>. SUFFICES ASSUME NEW k \in Keys \ {c}
         PROVE  synced'[k] = synced[k] \/ (synced'[k] = NoSession /\ synced[k] \in forgotten')
      OBVIOUS
    <3>1. synced'[k] = IF k \in out THEN NoSession ELSE synced[k]
      BY <2>1
    <3>. QED BY <2>2, <3>1
  <2>5. Prev(c)' = s
    BY <1>3, <2>1 DEF Prev
  <2>. QED BY <1>3, <2>1, <2>3, <2>4, <2>5
<1>4. CASE s # NoSession /\ c \notin Keys
  <2>1. synced' = synced /\ keyless' = s
    BY <1>4 DEF HookStep, Synced, Remember
  <2>. QED BY <1>1, <1>4, <2>1 DEF Prev
<1>. QED BY <1>2, <1>3, <1>4

\* A trajectory is written for the session left behind, from what was held.
LEMMA HookTrajectory ==
    ASSUME BoundaryInv, NEW c \in Conversations, NEW l, NEW s, NEW luck,
           HookStep(c, l, s, luck)
    PROVE  \/ /\ trajectories' = trajectories
              /\ Crossed(c, s) => Prev(c) \in forgotten'
           \/ /\ Crossed(c, s) /\ Prev(c) \in ended'
              /\ trajectories' =
                   Append(trajectories, [session |-> Prev(c), evidence |-> Evidence(c)])
              /\ [session |-> Prev(c), evidence |-> Evidence(c)] \in Trajectory
<1>1. CASE ~Crossed(c, s)
  BY <1>1 DEF HookStep, Synced, Stay
<1>2. CASE Crossed(c, s) /\ ~luck.written
  BY <1>2 DEF HookStep, Synced, Boundary
<1>3. CASE Crossed(c, s) /\ luck.written
  <2>1. Prev(c) \in ended'
    BY <1>3, HookLedger
  <2>2. trajectories' = Append(trajectories, [session |-> Prev(c), evidence |-> Evidence(c)])
    BY <1>3 DEF HookStep, Synced, Boundary
  <2>3. Prev(c) \in Nat
    BY <1>3, PrevIsOwn DEF Crossed, Rows
  <2>4. Evidence(c) \in [Collectors -> SUBSET Nat]
    <3>1. HookKey(c) \in HookKeys
      BY DEF HookKey, HookKeys
    <3>. QED BY <3>1 DEF Evidence, BoundaryInv, Types
  <2>. QED BY <1>3, <2>1, <2>2, <2>3, <2>4 DEF Trajectory
<1>. QED BY <1>1, <1>2, <1>3

-----------------------------------------------------------------------------
(* The step preserves each part of the invariant.                           *)

\* Rows keep their owner, and the session c is given is one of its own that
\* nobody has finalized.
LEMMA HookRows ==
    ASSUME BoundaryInv, NEW c \in Conversations, NEW l, NEW s, NEW luck,
           HookStep(c, l, s, luck)
    PROVE  /\ s \in Nat
           /\ Rows \subseteq Rows'
           /\ \A r \in Rows : r # NoSession /\ owner'[r] = owner[r]
           /\ s # NoSession => s \in Rows' /\ owner'[s] = c /\ s \notin Finalized
           /\ Finalized \subseteq Rows
           /\ \A d \in Conversations : l.mapped[d] \notin Finalized
<1>1. Rows' = 1 .. Len(l.owner) /\ owner' = l.owner
  BY HookLedger
<1>2. AfterPass(c, l) /\ s \in {l.mapped[c], NoSession}
  BY DEF HookStep
<1>3. s \in Nat
  BY <1>2 DEF AfterPass, Sound, LedgerRecord, NoSession
<1>4. Rows \subseteq Rows' /\ \A r \in Rows : r # NoSession /\ owner'[r] = owner[r]
  BY <1>1, <1>2 DEF AfterPass, Rows, NoSession
<1>5. s # NoSession => s \in Rows' /\ owner'[s] = c
  BY <1>1, <1>2 DEF AfterPass, Sound
<1>6. Finalized \subseteq Rows
  BY DEF BoundaryInv, InRows, Finalized
<1>7. \A d \in Conversations : l.mapped[d] \notin Finalized
  <2>. SUFFICES ASSUME NEW d \in Conversations, l.mapped[d] \in Finalized PROVE FALSE
    OBVIOUS
  <2>1. l.mapped[d] \in Rows /\ l.mapped[d] # NoSession
    BY <1>4, <1>6
  <2>2. l.mapped[d] = mapped[d]
    BY <1>2, <2>1 DEF AfterPass
  <2>. QED BY <2>2 DEF BoundaryInv, FinalizedIsClosed
<1>. QED BY <1>2, <1>3, <1>4, <1>5, <1>6, <1>7

LEMMA HookTypes ==
    ASSUME BoundaryInv, NEW c \in Conversations, NEW l, NEW s, NEW luck,
           HookStep(c, l, s, luck)
    PROVE  Types' /\ InRows' /\ Remembered'
<1>1. /\ s \in Nat /\ Rows \subseteq Rows'
      /\ s # NoSession => s \in Rows' /\ owner'[s] = c
      /\ \A r \in Rows : r # NoSession /\ owner'[r] = owner[r]
  BY HookRows
<1>2. Types /\ InRows /\ Remembered
  BY DEF BoundaryInv
<1>3. /\ turn' \in [Conversations -> Nat]
      /\ \A d \in Conversations : turn'[d] # NoSession => turn'[d] \in Rows'
  <2>1. turn' = [turn EXCEPT ![c] = s]
    BY DEF HookStep, Synced
  <2>. QED BY <1>1, <1>2, <2>1 DEF Types, InRows
<1>4. /\ held' \in [Collectors -> [HookKeys -> SUBSET Nat]]
      /\ \A d \in Collectors, h \in HookKeys : held'[d][h] \subseteq Rows' \cup {NoSession}
  <2>1. CASE ~Crossed(c, s)
    BY <1>1, <1>2, <2>1 DEF HookStep, Synced, Stay, Types, InRows
  <2>2. CASE Crossed(c, s)
    <3> DEFINE gone(d, k) == k = HookKey(c) \/ k \in Evicted(touched[d], HookKey(c), TRUE, Cap)
    <3>1. held' = [d \in Collectors |-> [k \in HookKeys |-> IF gone(d, k) THEN {} ELSE held[d][k]]]
      BY <2>2 DEF HookStep, Synced, Boundary, Taken
    <3>. HIDE DEF gone
    <3>. QED BY <1>1, <1>2, <3>1 DEF Types, InRows
  <2>. QED BY <2>1, <2>2
<1>5. /\ trajectories' \in Seq(Trajectory)
      /\ \A i \in DOMAIN trajectories' :
            /\ trajectories'[i].session \in Rows'
            /\ \A d \in Collectors : trajectories'[i].evidence[d] \subseteq Rows' \cup {NoSession}
  <2>1. CASE trajectories' = trajectories
    BY <1>1, <1>2, <2>1 DEF Types, InRows
  <2> DEFINE new == [session |-> Prev(c), evidence |-> Evidence(c)]
  <2>2. CASE Crossed(c, s) /\ trajectories' = Append(trajectories, new) /\ new \in Trajectory
    <3>1. new.session \in Rows'
      BY <1>1, <2>2, PrevIsOwn DEF Crossed
    <3>2. \A d \in Collectors : new.evidence[d] \subseteq Rows' \cup {NoSession}
      BY <1>1, <1>2 DEF Evidence, HookKey, HookKeys, InRows
    <3>. HIDE DEF new
    <3>3. /\ trajectories' \in Seq(Trajectory)
          /\ \A i \in DOMAIN trajectories' :
                \/ i \in DOMAIN trajectories /\ trajectories'[i] = trajectories[i]
                \/ trajectories'[i] = new
      BY <1>2, <2>2 DEF Types
    <3>. QED BY <1>1, <1>2, <3>1, <3>2, <3>3 DEF InRows
  <2>. QED BY <2>1, <2>2, HookTrajectory
<1>6. Remembered' /\ synced' \in [Keys -> Nat]
  <2>1. /\ synced' \in [Keys -> Nat]
        /\ \A k \in Keys \ {c} : synced'[k] \in {synced[k], NoSession}
        /\ IF c \in Keys THEN keyless' = keyless ELSE synced' = synced
        /\ Prev(c)' = IF s = NoSession THEN Prev(c) ELSE s
    BY HookMemory
  <2>2. \A k \in Keys : synced'[k] # NoSession => synced'[k] \in Rows' /\ owner'[synced'[k]] = k
    <3>. SUFFICES ASSUME NEW k \in Keys, synced'[k] # NoSession
         PROVE  synced'[k] \in Rows' /\ owner'[synced'[k]] = k
      OBVIOUS
    <3>1. CASE synced'[k] = synced[k]
      BY <1>1, <1>2, <3>1 DEF Remembered
    <3>2. CASE k = c /\ s # NoSession
      BY <1>1, <2>1, <3>2 DEF Prev
    <3>3. CASE k = c /\ s = NoSession
      BY <1>1, <1>2, <2>1, <3>3 DEF Prev, Remembered
    <3>. QED BY <2>1, <3>1, <3>2, <3>3
  <2>3. keyless' # NoSession => keyless' \in Rows' /\ owner'[keyless'] \in Lists
    <3>1. keyless # NoSession => keyless \in Rows' /\ owner'[keyless] \in Lists
      BY <1>1, <1>2 DEF Remembered
    <3>2. CASE c \in Keys
      BY <2>1, <3>1, <3>2
    <3>3. CASE c \notin Keys
      <4>1. c \in Lists
        BY <3>3 DEF Conversations
      <4>2. keyless' = IF s = NoSession THEN keyless ELSE s
        BY <2>1, <3>3 DEF Prev
      <4>. QED BY <1>1, <3>1, <4>1, <4>2
    <3>. QED BY <3>2, <3>3
  <2>. QED BY <2>1, <2>2, <2>3 DEF Remembered
<1>. QED BY <1>3, <1>4, <1>5, <1>6 DEF Types, InRows

LEMMA HookFinalized ==
    ASSUME BoundaryInv, NEW c \in Conversations, NEW l, NEW s, NEW luck,
           HookStep(c, l, s, luck)
    PROVE  FinalizedOnce' /\ FinalizedIsClosed'
<1> DEFINE new == [session |-> Prev(c), evidence |-> Evidence(c)]
           written == Crossed(c, s) /\ Prev(c) \in ended' /\ trajectories' = Append(trajectories, new)
<1>1. /\ s \notin Finalized \/ s = NoSession
      /\ Finalized \subseteq Rows /\ \A r \in Rows : r # NoSession
      /\ \A d \in Conversations : l.mapped[d] \notin Finalized
  BY HookRows
<1>2. trajectories' = trajectories \/ written
  BY HookTrajectory
<1>3. new.session = Prev(c) /\ trajectories \in Seq(Trajectory)
  BY DEF BoundaryInv, Types
<1>4. written => /\ DOMAIN trajectories' = DOMAIN trajectories \cup {Len(trajectories) + 1}
                 /\ \A i \in DOMAIN trajectories : trajectories'[i] = trajectories[i]
                 /\ trajectories'[Len(trajectories) + 1].session = Prev(c)
  <2>. HIDE DEF new
  <2>. QED BY <1>3
<1>5. Finalized' \subseteq Finalized \cup (IF written THEN {Prev(c)} ELSE {})
  BY <1>2, <1>4 DEF Finalized
<1>6. FinalizedOnce'
  <2>1. CASE trajectories' = trajectories
    BY <2>1 DEF BoundaryInv, FinalizedOnce
  <2>2. CASE written
    <3>1. \A i \in DOMAIN trajectories : trajectories[i].session # Prev(c)
      BY <2>2, PrevIsOwn DEF Crossed, Finalized
    <3>. QED BY <1>4, <2>2, <3>1 DEF BoundaryInv, FinalizedOnce
  <2>. QED BY <1>2, <2>1, <2>2
<1>7. /\ \A k \in Keys \ {c} : synced'[k] \in {synced[k], NoSession}
      /\ IF c \in Keys THEN keyless' = keyless ELSE synced' = synced
      /\ Prev(c)' = IF s = NoSession THEN Prev(c) ELSE s
  BY HookMemory
<1>8. /\ ended \subseteq ended'
      /\ \A d \in Conversations :
            mapped'[d] = IF Crossed(c, s) /\ l.mapped[d] = Prev(c)
                         THEN NoSession ELSE l.mapped[d]
  BY HookLedger DEF HookStep, AfterPass
<1>9. FinalizedIsClosed'
  <2>. SUFFICES ASSUME NEW f \in Finalized'
       PROVE  /\ f \in ended' /\ \A d \in Conversations : mapped'[d] # f
              /\ \A k \in Keys : synced'[k] # f
              /\ keyless' # f
    BY DEF FinalizedIsClosed
  <2>1. CASE f \in Finalized
    <3>1. /\ f # NoSession /\ f # s /\ f \in ended
          /\ \A k \in Keys : synced[k] # f
          /\ keyless # f
          /\ \A d \in Conversations : l.mapped[d] # f
      BY <1>1, <2>1 DEF BoundaryInv, FinalizedIsClosed
    <3>2. Prev(c)' # f
      BY <1>7, <3>1 DEF Prev
    <3>3. \A k \in Keys : synced'[k] # f
      BY <1>7, <3>1, <3>2 DEF Prev
    <3>4. keyless' # f
      BY <1>7, <3>1, <3>2 DEF Prev
    <3>. QED BY <1>8, <3>1, <3>3, <3>4
  <2>2. CASE written /\ f = Prev(c)
    <3>1. /\ f # NoSession /\ f # s /\ s # NoSession
          /\ \A k \in Keys \ {c} : synced[k] # f
          /\ c \in Keys => keyless # f
      BY <2>2, PrevIsOwn DEF Crossed
    <3>2. Prev(c)' # f
      BY <1>7, <3>1
    <3>3. \A k \in Keys : synced'[k] # f
      BY <1>7, <3>1, <3>2 DEF Prev
    <3>4. keyless' # f
      BY <1>7, <3>1, <3>2 DEF Prev
    <3>5. \A d \in Conversations : mapped'[d] # f
      BY <1>8, <2>2, <3>1
    <3>. QED BY <2>2, <3>3, <3>4, <3>5
  <2>. QED BY <1>5, <2>1, <2>2
<1>. QED BY <1>6, <1>9

\* What a conversation held stays its own: its session stays remembered, or is
\* forgotten, or was just labelled and what was held of it reset.
LEMMA HookOwn ==
    ASSUME BoundaryInv, NEW c \in Conversations, NEW l, NEW s, NEW luck,
           HookStep(c, l, s, luck),
           NEW k \in Keys, NEW e \in Rows, OwnOf(k, e), k # c \/ ~Crossed(c, s)
    PROVE  OwnOf(k, e)'
<1>1. owner'[e] = k /\ e # NoSession
  BY HookRows DEF OwnOf
<1>2. forgotten \subseteq forgotten'
  BY DEF HookStep, Synced
<1>3. CASE e \in forgotten
  BY <1>1, <1>2, <1>3 DEF OwnOf
<1>4. CASE e = synced[k] /\ k # c
  <2>1. synced'[k] = synced[k] \/ synced[k] \in forgotten'
    BY <1>4, HookMemory
  <2>. QED BY <1>1, <1>4, <2>1 DEF OwnOf
<1>5. CASE e = synced[k] /\ k = c
  <2>1. s = NoSession \/ s = Prev(c)
    BY <1>1, <1>5 DEF Crossed, Prev
  <2>2. Prev(c)' = Prev(c)
    BY <2>1, HookMemory
  <2>3. synced'[k] = synced[k]
    BY <1>5, <2>2 DEF Prev
  <2>. QED BY <1>1, <1>5, <2>3 DEF OwnOf
<1>. QED BY <1>3, <1>4, <1>5 DEF OwnOf

LEMMA HookEvidence ==
    ASSUME BoundaryInv, NEW c \in Conversations, NEW l, NEW s, NEW luck,
           HookStep(c, l, s, luck)
    PROVE  HeldIsOwn' /\ TurnIsOwn'
<1>1. HeldIsOwn'
  <2>. SUFFICES ASSUME NEW k \in Keys, NEW d \in Collectors,
                       NEW e \in held'[d][k] \ {NoSession}
       PROVE  OwnOf(k, e)'
    BY DEF HeldIsOwn
  <2>1. e \in held[d][k] /\ (k # c \/ ~Crossed(c, s))
    <3>1. CASE ~Crossed(c, s)
      BY <3>1 DEF HookStep, Synced, Stay
    <3>2. CASE Crossed(c, s)
      <4> DEFINE out == Evicted(touched[d], HookKey(c), TRUE, Cap)
      <4>1. held'[d][k] = IF k = HookKey(c) \/ k \in out THEN {} ELSE held[d][k]
        BY <3>2, ZenonT(30) DEF HookStep, Synced, Boundary, Taken, HookKeys
      <4>. HIDE DEF out
      <4>2. k # HookKey(c) /\ e \in held[d][k]
        BY <4>1
      <4>. QED BY <4>2 DEF HookKey
    <3>. QED BY <3>1, <3>2
  <2>2. e \in Rows /\ OwnOf(k, e)
    BY <2>1 DEF BoundaryInv, HeldIsOwn, InRows, HookKeys
  <2>. QED BY <2>1, <2>2, HookOwn
<1>2. TurnIsOwn'
  <2>. SUFFICES ASSUME NEW k \in Keys, turn'[k] # NoSession
       PROVE  OwnOf(k, turn[k])' /\ synced'[k] \in {turn'[k], NoSession}
    BY DEF TurnIsOwn
  <2>0. k \in Conversations
    BY DEF Conversations
  <2>1. turn'[k] = IF k = c THEN s ELSE turn[k]
    BY <2>0 DEF HookStep, Synced, BoundaryInv, Types
  <2>2. CASE k = c
    <3>1. owner'[s] = c /\ Prev(c)' = s
      BY <2>1, <2>2, HookRows, HookMemory
    <3>2. synced'[k] = s
      BY <2>2, <3>1 DEF Prev
    <3>. QED BY <2>1, <2>2, <3>1, <3>2 DEF OwnOf
  <2>3. CASE k # c
    <3>1. turn[k] \in Rows /\ OwnOf(k, turn[k]) /\ synced[k] \in {turn[k], NoSession}
      BY <2>0, <2>1, <2>3 DEF BoundaryInv, TurnIsOwn, InRows
    <3>2. OwnOf(k, turn[k])' /\ turn'[k] = turn[k]
      <4>1. owner'[turn[k]] = k /\ turn'[k] = turn[k]
        BY <2>1, <2>3, <3>1, HookRows DEF OwnOf
      <4>2. synced'[k] = synced[k] \/ synced[k] \in forgotten'
        BY <2>3, HookMemory
      <4>3. forgotten \subseteq forgotten'
        BY DEF HookStep, Synced
      <4>. QED BY <3>1, <4>1, <4>2, <4>3 DEF OwnOf
    <3>3. synced'[k] \in {synced[k], NoSession}
      BY <2>3, HookMemory
    <3>. QED BY <3>1, <3>2, <3>3
  <2>. QED BY <2>2, <2>3
<1>. QED BY <1>1, <1>2

LEMMA HookAccounts ==
    ASSUME BoundaryInv, NEW c \in Conversations, NEW l, NEW s, NEW luck,
           HookStep(c, l, s, luck)
    PROVE  RowsAccounted'
<1> DEFINE new == [session |-> Prev(c), evidence |-> Evidence(c)]
<1>. SUFFICES ASSUME NEW r \in Rows', r \notin Finalized', r \notin forgotten', r # keyless'
     PROVE  \E k \in Keys : synced'[k] = r
  BY DEF RowsAccounted
<1>1. forgotten \subseteq forgotten'
  BY DEF HookStep, Synced
<1>2. /\ Finalized \subseteq Finalized'
      /\ Crossed(c, s) => Prev(c) \in Finalized' \cup forgotten'
  <2>1. CASE trajectories' = trajectories /\ (Crossed(c, s) => Prev(c) \in forgotten')
    BY <2>1 DEF Finalized
  <2>2. CASE trajectories' = Append(trajectories, new)
    <3>1. new.session = Prev(c) /\ trajectories \in Seq(Trajectory)
      BY DEF BoundaryInv, Types
    <3>. HIDE DEF new
    <3>2. /\ DOMAIN trajectories' = DOMAIN trajectories \cup {Len(trajectories) + 1}
          /\ \A i \in DOMAIN trajectories : trajectories'[i] = trajectories[i]
          /\ trajectories'[Len(trajectories) + 1].session = Prev(c)
      BY <2>2, <3>1
    <3>. QED BY <3>2 DEF Finalized
  <2>. QED BY <2>1, <2>2, HookTrajectory
<1>3. /\ \A k \in Keys \ {c} : synced'[k] = synced[k] \/ synced[k] \in forgotten'
      /\ IF c \in Keys THEN keyless' = keyless ELSE synced' = synced
      /\ Prev(c)' = IF s = NoSession THEN Prev(c) ELSE s
  BY HookMemory
\* It is enough that c's own predecessor is r: nobody else moved.
<1>4. Prev(c)' = r => \E k \in Keys : synced'[k] = r
  BY DEF Prev
<1>5. Prev(c) = r => Prev(c)' = r
  <2>1. r # NoSession
    BY DEF Rows, NoSession
  <2>. QED BY <1>2, <1>3, <2>1 DEF Crossed
<1>6. CASE r \in Rows
  <2>1. r = keyless \/ \E k \in Keys : synced[k] = r
    BY <1>1, <1>2, <1>6 DEF BoundaryInv, RowsAccounted
  <2>2. CASE r = keyless
    BY <1>3, <1>4, <1>5, <2>2 DEF Prev
  <2>3. ASSUME NEW k \in Keys, synced[k] = r
        PROVE  \E j \in Keys : synced'[j] = r
    <3>1. CASE k = c
      BY <1>4, <1>5, <2>3, <3>1 DEF Prev
    <3>2. CASE k # c
      BY <1>3, <2>3, <3>2
    <3>. QED BY <3>1, <3>2
  <2>. QED BY <2>1, <2>2, <2>3
<1>7. CASE r \notin Rows
  <2>1. r = l.mapped[c]
    BY <1>7, HookLedger DEF HookStep, AfterPass
  <2>2. r = s /\ r # NoSession
    <3>1. l.mapped[c] = s \/ l.mapped[c] \in forgotten'
      BY DEF HookStep, Synced
    <3>2. r # NoSession
      BY HookLedger DEF NoSession
    <3>. QED BY <2>1, <3>1, <3>2
  <2>. QED BY <1>3, <1>4, <2>2
<1>. QED BY <1>6, <1>7

LEMMA HookOwnEvidence ==
    ASSUME BoundaryInv, NEW c \in Conversations, NEW l, NEW s, NEW luck,
           HookStep(c, l, s, luck)
    PROVE  OwnEvidence'
<1> DEFINE new == [session |-> Prev(c), evidence |-> Evidence(c)]
           Own(t) == owner[t.session] \in Keys =>
                        \A d \in Collectors : \A e \in t.evidence[d] \ {t.session, NoSession} :
                            owner[e] = owner[t.session] /\ e \in forgotten
           OwnNext(t) == owner'[t.session] \in Keys =>
                        \A d \in Collectors : \A e \in t.evidence[d] \ {t.session, NoSession} :
                            owner'[e] = owner'[t.session] /\ e \in forgotten'
           Placed(t) == /\ t.session \in Rows
                       /\ \A d \in Collectors : t.evidence[d] \subseteq Rows \cup {NoSession}
<1>1. forgotten \subseteq forgotten' /\ \A r \in Rows : owner'[r] = owner[r]
  BY HookRows DEF HookStep, Synced
<1>2. ASSUME NEW t, Own(t), Placed(t) PROVE OwnNext(t)
  BY <1>1, <1>2
<1>3. \A i \in DOMAIN trajectories : Own(trajectories[i]) /\ Placed(trajectories[i])
  BY DEF BoundaryInv, OwnEvidence, InRows
<1>4. CASE trajectories' = trajectories
  BY <1>2, <1>3, <1>4 DEF OwnEvidence
<1>5. CASE Crossed(c, s) /\ trajectories' = Append(trajectories, new)
  <2>1. Prev(c) \in Rows /\ (owner[Prev(c)] \in Keys => c \in Keys /\ owner[Prev(c)] = c)
    BY <1>5, PrevIsOwn, KeysAssumption DEF Crossed
  <2>2. /\ new.session = Prev(c)
        /\ \A d \in Collectors : new.evidence[d] = held[d][HookKey(c)]
    BY DEF Evidence
  <2>3. HookKey(c) \in HookKeys
    BY DEF HookKey, HookKeys
  <2>. HIDE DEF new
  <2>4. Placed(new)
    BY <2>1, <2>2, <2>3 DEF BoundaryInv, InRows
  <2>5. Own(new)
    <3>. SUFFICES ASSUME owner[Prev(c)] \in Keys, NEW d \in Collectors,
                         NEW e \in held[d][HookKey(c)] \ {NoSession}, e # Prev(c)
         PROVE  owner[e] = owner[Prev(c)] /\ e \in forgotten
      BY <2>2
    <3>1. c \in Keys /\ owner[Prev(c)] = c /\ HookKey(c) = c /\ Prev(c) = synced[c]
      BY <2>1 DEF HookKey, Prev
    <3>2. OwnOf(c, e)
      BY <3>1 DEF BoundaryInv, HeldIsOwn
    <3>. QED BY <3>1, <3>2 DEF OwnOf
  <2>6. \A i \in DOMAIN trajectories' :
            \/ i \in DOMAIN trajectories /\ trajectories'[i] = trajectories[i]
            \/ trajectories'[i] = new
    BY <1>5 DEF BoundaryInv, Types
  <2>7. \A i \in DOMAIN trajectories' : OwnNext(trajectories'[i])
    BY <1>2, <1>3, <2>4, <2>5, <2>6
  <2>. QED BY <2>7 DEF OwnEvidence
<1>. QED BY <1>4, <1>5, HookTrajectory

LEMMA HookCallInv ==
    ASSUME BoundaryInv, NEW c \in Conversations, HookCall(c)
    PROVE  BoundaryInv'
<1>1. PICK l, s, luck : HookStep(c, l, s, luck)
  BY HookCallStep DEF BoundaryInv
<1>2. Sound(Ledger)'
  BY <1>1, HookLedger
<1>3. Types' /\ InRows' /\ Remembered'
  BY <1>1, HookTypes
<1>4. FinalizedOnce' /\ FinalizedIsClosed'
  BY <1>1, HookFinalized
<1>5. HeldIsOwn' /\ TurnIsOwn'
  BY <1>1, HookEvidence
<1>6. RowsAccounted'
  BY <1>1, HookAccounts
<1>7. OwnEvidence'
  BY <1>1, HookOwnEvidence
<1>. QED BY <1>2, <1>3, <1>4, <1>5, <1>6, <1>7 DEF BoundaryInv

\* Only what the collector holds changes: it gains the session of the turn in
\* flight, under that turn's own key.
LEMMA CollectInv ==
    ASSUME BoundaryInv, NEW c \in Conversations, NEW d \in Collectors, Collect(c, d)
    PROVE  BoundaryInv'
<1> DEFINE out == Evicted(touched[d], HookKey(c), TRUE, Cap)
           kept == [k \in HookKeys |->
                       IF k \in out THEN {}
                       ELSE IF k = HookKey(c) THEN held[d][k] \cup {turn[c]} ELSE held[d][k]]
<1>1. /\ UNCHANGED <<ledger, coordinator, turn, trajectories, forgotten>>
      /\ held' = [held EXCEPT ![d] = kept]
  BY DEF Collect
<1>2. /\ UNCHANGED <<owner, ended, mapped, synced, recent, keyless>>
      /\ UNCHANGED <<turn, trajectories, forgotten>>
  BY <1>1 DEF ledger, coordinator
<1>3. turn[c] # NoSession => turn[c] \in Rows /\ (c \in Keys => OwnOf(c, turn[c]))
  BY DEF BoundaryInv, InRows, TurnIsOwn
<1>4. \A k \in HookKeys : kept[k] \subseteq held[d][k] \cup (IF k = HookKey(c) THEN {turn[c]} ELSE {})
  <2>. HIDE DEF out
  <2>. QED OBVIOUS
<1>5. /\ kept \in [HookKeys -> SUBSET Nat]
      /\ \A k \in HookKeys : kept[k] \subseteq Rows \cup {NoSession}
  <2>1. \A k \in HookKeys : kept[k] \subseteq Rows \cup {NoSession}
    BY <1>3, <1>4 DEF BoundaryInv, InRows
  <2>2. Rows \cup {NoSession} \subseteq Nat
    BY DEF Rows, NoSession
  <2>3. kept = [k \in HookKeys |-> kept[k]]
    OBVIOUS
  <2>. HIDE DEF kept
  <2>. QED BY <2>1, <2>2, <2>3
<1>6. \A k \in Keys : \A e \in kept[k] \ {NoSession} : OwnOf(k, e)
  <2>. SUFFICES ASSUME NEW k \in Keys, NEW e \in kept[k] \ {NoSession} PROVE OwnOf(k, e)
    OBVIOUS
  <2>1. k \in HookKeys
    BY DEF HookKeys
  <2>. HIDE DEF kept
  <2>2. CASE e \in held[d][k]
    BY <2>2 DEF BoundaryInv, HeldIsOwn
  <2>3. CASE k = HookKey(c) /\ e = turn[c]
    BY <1>3, <2>3, SharedAssumption DEF HookKey
  <2>. QED BY <1>4, <2>1, <2>2, <2>3
<1>. HIDE DEF kept
<1>7. /\ held' \in [Collectors -> [HookKeys -> SUBSET Nat]]
      /\ held'[d] = kept /\ \A x \in Collectors \ {d} : held'[x] = held[x]
  BY <1>1, <1>5 DEF BoundaryInv, Types
<1>8. Types' /\ InRows' /\ Remembered'
  BY <1>2, <1>5, <1>7 DEF BoundaryInv, Types, InRows, Remembered, Rows
<1>9. HeldIsOwn' /\ TurnIsOwn'
  BY <1>2, <1>6, <1>7 DEF BoundaryInv, HeldIsOwn, TurnIsOwn, OwnOf
<1>10. Sound(Ledger)' /\ RowsAccounted'
  BY <1>2 DEF BoundaryInv, Ledger, RowsAccounted, Rows, Finalized
<1>11. FinalizedOnce' /\ FinalizedIsClosed' /\ OwnEvidence'
  BY <1>2 DEF BoundaryInv, FinalizedOnce, FinalizedIsClosed, Finalized, OwnEvidence
<1>. QED BY <1>8, <1>9, <1>10, <1>11 DEF BoundaryInv

LEMMA EndTurnInv ==
    ASSUME BoundaryInv, NEW c \in Conversations, EndTurn(c)
    PROVE  BoundaryInv'
<1>1. /\ UNCHANGED <<owner, ended, mapped, synced, recent, keyless>>
      /\ UNCHANGED <<held, trajectories, forgotten>>
      /\ turn' = [turn EXCEPT ![c] = NoSession]
  BY DEF EndTurn, ledger, coordinator
<1>2. /\ turn' \in [Conversations -> Nat]
      /\ \A d \in Conversations : turn'[d] \in {turn[d], NoSession}
  BY <1>1 DEF BoundaryInv, Types, NoSession
<1>3. Types' /\ InRows' /\ Remembered'
  BY <1>1, <1>2 DEF BoundaryInv, Types, InRows, Remembered, Rows
<1>4. HeldIsOwn' /\ TurnIsOwn'
  <2>1. \A k \in Keys : turn'[k] \in {turn[k], NoSession}
    BY <1>2 DEF Conversations
  <2>. QED BY <1>1, <2>1 DEF BoundaryInv, HeldIsOwn, TurnIsOwn, OwnOf
<1>5. Sound(Ledger)' /\ RowsAccounted'
  BY <1>1 DEF BoundaryInv, Ledger, RowsAccounted, Rows, Finalized
<1>6. FinalizedOnce' /\ FinalizedIsClosed' /\ OwnEvidence'
  BY <1>1 DEF BoundaryInv, FinalizedOnce, FinalizedIsClosed, Finalized, OwnEvidence
<1>. QED BY <1>3, <1>4, <1>5, <1>6 DEF BoundaryInv

\* Everything in memory goes; what the coordinator remembered is forgotten.
LEMMA RestartInv ==
    ASSUME BoundaryInv, Restart
    PROVE  BoundaryInv'
<1>1. /\ Forget /\ UNCHANGED <<owner, ended, trajectories>>
      /\ mapped' = [c \in Conversations |-> NoSession]
      /\ synced' = [k \in Keys |-> NoSession] /\ keyless' = NoSession
      /\ held' = [d \in Collectors |-> [k \in HookKeys |-> {}]]
      /\ turn' = [c \in Conversations |-> NoSession]
      /\ forgotten' = (forgotten \cup {synced[k] : k \in Keys} \cup {keyless}) \ {NoSession}
  BY DEF Restart, Forget
<1>2. Sound(Ledger)'
  BY <1>1, ForgetSound DEF BoundaryInv
<1>3. Types' /\ InRows' /\ Remembered'
  BY <1>1 DEF BoundaryInv, Types, InRows, Remembered, Rows, NoSession
<1>4. HeldIsOwn' /\ TurnIsOwn'
  BY <1>1 DEF HeldIsOwn, TurnIsOwn, Conversations, HookKeys
<1>5. RowsAccounted'
  <2>1. \A r \in Rows : r # NoSession
    BY DEF Rows, NoSession
  <2>. QED BY <1>1, <2>1 DEF BoundaryInv, RowsAccounted, Rows, Finalized
<1>6. FinalizedOnce' /\ FinalizedIsClosed'
  <2>1. \A f \in Finalized : f # NoSession
    BY DEF BoundaryInv, InRows, Finalized, Rows, NoSession
  <2>2. Finalized' = Finalized
    BY <1>1 DEF Finalized
  <2>. QED BY <1>1, <2>1, <2>2 DEF BoundaryInv, FinalizedOnce, FinalizedIsClosed
<1>7. OwnEvidence'
  <2>1. forgotten \ {NoSession} \subseteq forgotten'
    BY <1>1
  <2>. QED BY <1>1, <2>1 DEF BoundaryInv, OwnEvidence
<1>. QED BY <1>2, <1>3, <1>4, <1>5, <1>6, <1>7 DEF BoundaryInv

LEMMA BoundaryInitInv == ASSUME BoundaryInit PROVE BoundaryInv
<1>1. Sound(Ledger)
  BY InitSound DEF BoundaryInit
<1>2. Rows = {} /\ DOMAIN trajectories = {}
  BY DEF BoundaryInit, Init, Rows
<1>3. Types /\ InRows /\ Remembered
  BY <1>2 DEF BoundaryInit, Types, InRows, Remembered, NoSession
<1>4. HeldIsOwn /\ TurnIsOwn
  BY DEF BoundaryInit, HeldIsOwn, TurnIsOwn, Conversations, HookKeys
<1>5. RowsAccounted /\ FinalizedOnce /\ FinalizedIsClosed /\ OwnEvidence
  BY <1>2 DEF RowsAccounted, FinalizedOnce, FinalizedIsClosed, Finalized, OwnEvidence
<1>. QED BY <1>1, <1>3, <1>4, <1>5 DEF BoundaryInv

LEMMA BoundaryStep == BoundaryInv /\ [BoundaryNext]_vars => BoundaryInv'
<1>1. ASSUME BoundaryInv, UNCHANGED vars PROVE BoundaryInv'
  <2>1. /\ UNCHANGED <<owner, ended, mapped, synced, keyless>>
        /\ UNCHANGED <<held, turn, trajectories, forgotten>>
    BY <1>1 DEF vars, ledger, coordinator
  <2>2. Sound(Ledger)' /\ Types' /\ InRows' /\ Remembered'
    BY <1>1, <2>1 DEF BoundaryInv, Ledger, Types, InRows, Remembered, Rows
  <2>3. HeldIsOwn' /\ TurnIsOwn' /\ RowsAccounted'
    BY <1>1, <2>1 DEF BoundaryInv, HeldIsOwn, TurnIsOwn, OwnOf, RowsAccounted, Rows, Finalized
  <2>4. FinalizedOnce' /\ FinalizedIsClosed' /\ OwnEvidence'
    BY <1>1, <2>1 DEF BoundaryInv, FinalizedOnce, FinalizedIsClosed, Finalized, OwnEvidence
  <2>. QED BY <2>2, <2>3, <2>4 DEF BoundaryInv
<1>. QED BY <1>1, HookCallInv, EndTurnInv, CollectInv, RestartInv DEF BoundaryNext

-----------------------------------------------------------------------------
(* The dicts that follow conversations.                                     *)

\* Remembering evicts within the cap, and collectors are touched one key at a time.
LEMMA HookDicts ==
    ASSUME BoundaryInv, Dicts, NEW c \in Conversations, NEW l, NEW s, NEW luck,
           HookStep(c, l, s, luck)
    PROVE  Dicts'
<1>1. HookKey(c) \in HookKeys /\ Cap \in Nat \ {0}
  BY CapAssumption DEF HookKey, HookKeys
<1>2. recent' \in Recency(Keys) /\ Len(recent') <= Cap
  <2>1. CASE s # NoSession /\ c \in Keys
    <3>1. recent' = Touched(recent, c, TRUE, Cap)
      BY <2>1 DEF HookStep, Synced, Remember
    <3>2. recent \in Recency(Keys) /\ Len(recent) <= Cap
      BY DEF Dicts, Capped
    <3>. QED BY <1>1, <2>1, <3>1, <3>2, TouchKeeps
  <2>2. CASE ~(s # NoSession /\ c \in Keys)
    <3>1. recent' = recent
      BY <2>2 DEF HookStep, Synced, Remember, coordinator
    <3>. QED BY <3>1 DEF Dicts, Capped
  <2>. QED BY <2>1, <2>2
<1>3. /\ touched' \in [Collectors -> Recency(HookKeys)]
      /\ \A d \in Collectors : Len(touched'[d]) <= Cap
  <2>1. CASE ~Crossed(c, s)
    BY <2>1 DEF HookStep, Synced, Stay, Dicts, Capped
  <2>2. CASE Crossed(c, s)
    <3>1. touched' = [d \in Collectors |-> Touched(touched[d], HookKey(c), TRUE, Cap)]
      BY <2>2 DEF HookStep, Synced, Boundary, Taken
    <3>2. ASSUME NEW d \in Collectors
          PROVE  /\ Touched(touched[d], HookKey(c), TRUE, Cap) \in Recency(HookKeys)
                 /\ Len(Touched(touched[d], HookKey(c), TRUE, Cap)) <= Cap
      <4>1. touched[d] \in Recency(HookKeys) /\ Len(touched[d]) <= Cap
        BY DEF Dicts, Capped
      <4>. QED BY <1>1, <4>1, TouchKeeps
    <3>. QED BY <3>1, <3>2
  <2>. QED BY <2>1, <2>2
<1>4. forgotten' \subseteq Rows'
  <2>1. Rows \subseteq Rows' /\ Rows' = 1 .. Len(l.owner)
    BY HookRows, HookLedger
  <2>2. Dropped(c) \subseteq Rows
    BY DEF Dropped, BoundaryInv, Remembered
  <2>3. {l.mapped[c]} \ {s} \subseteq Rows'
    BY <2>1 DEF HookStep, AfterPass, Sound
  <2>4. (IF luck.written THEN {} ELSE {Prev(c)}) \subseteq Rows
    <3>1. ~luck.written => Prev(c) \in Rows
      BY PrevIsOwn DEF HookStep, Crossed
    <3>. QED BY <3>1
  <2>5. forgotten' = forgotten \cup (IF s # NoSession THEN Dropped(c) ELSE {})
                              \cup ({l.mapped[c]} \ {s})
                              \cup (IF luck.written THEN {} ELSE {Prev(c)})
    BY DEF HookStep, Synced
  <2>. QED BY <2>1, <2>2, <2>3, <2>4, <2>5 DEF Dicts
<1>5. unbound' \subseteq {d \in Conversations : turn'[d] = NoSession}
  <2>1. /\ turn' = [turn EXCEPT ![c] = s]
        /\ unbound' = IF s = NoSession THEN unbound \cup {c} ELSE unbound \ {c}
    BY DEF HookStep, Synced
  <2>2. turn \in [Conversations -> Nat]
    BY DEF BoundaryInv, Types
  <2>. QED BY <2>1, <2>2 DEF Dicts
<1>. QED BY <1>2, <1>3, <1>4, <1>5 DEF Dicts, Capped

LEMMA CollectDicts ==
    ASSUME BoundaryInv, Dicts, NEW c \in Conversations, NEW d \in Collectors, Collect(c, d)
    PROVE  Dicts'
<1> DEFINE t == Touched(touched[d], HookKey(c), TRUE, Cap)
<1>1. HookKey(c) \in HookKeys /\ Cap \in Nat \ {0}
  BY CapAssumption DEF HookKey, HookKeys
<1>2. t \in Recency(HookKeys) /\ Len(t) <= Cap
  <2>1. touched[d] \in Recency(HookKeys) /\ Len(touched[d]) <= Cap
    BY DEF Dicts, Capped
  <2>. QED BY <1>1, <2>1, TouchKeeps
<1>3. /\ touched' = [touched EXCEPT ![d] = t]
      /\ UNCHANGED <<recent, forgotten, owner, turn, unbound>>
  BY DEF Collect, ledger, coordinator
<1>. HIDE DEF t
<1>. QED BY <1>2, <1>3 DEF Dicts, Capped, Rows

LEMMA DictsStep == BoundaryInv /\ Dicts /\ [BoundaryNext]_vars => Dicts'
<1>1. ASSUME Dicts, UNCHANGED vars PROVE Dicts'
  BY <1>1 DEF vars, ledger, coordinator, Dicts, Capped, Rows
<1>2. ASSUME BoundaryInv, Dicts, NEW c \in Conversations, HookCall(c) PROVE Dicts'
  <2>1. PICK l, s, luck : HookStep(c, l, s, luck)
    BY <1>2, HookCallStep DEF BoundaryInv
  <2>. QED BY <1>2, <2>1, HookDicts
<1>3. ASSUME BoundaryInv, Dicts, NEW c \in Conversations, EndTurn(c) PROVE Dicts'
  <2>1. /\ UNCHANGED <<recent, touched, forgotten, owner>>
        /\ turn' = [turn EXCEPT ![c] = NoSession] /\ unbound' = unbound \ {c}
    BY <1>3 DEF EndTurn, ledger, coordinator
  <2>2. turn \in [Conversations -> Nat]
    BY <1>3 DEF BoundaryInv, Types
  <2>3. unbound' \subseteq {d \in Conversations : turn'[d] = NoSession}
    BY <1>3, <2>1, <2>2 DEF Dicts
  <2>. QED BY <1>3, <2>1, <2>3 DEF Dicts, Capped, Rows
<1>4. ASSUME BoundaryInv, Dicts, Restart PROVE Dicts'
  <2>1. /\ recent' = <<>> /\ touched' = [d \in Collectors |-> <<>>] /\ owner' = owner
        /\ unbound' = {}
        /\ forgotten' = (forgotten \cup {synced[k] : k \in Keys} \cup {keyless}) \ {NoSession}
    BY <1>4 DEF Restart, Forget
  <2>2. \A S : <<>> \in Recency(S)
    BY DEF Recency
  <2>3. Len(<<>>) <= Cap
    BY CapAssumption
  <2>4. forgotten' \subseteq Rows
    BY <1>4, <2>1 DEF BoundaryInv, Remembered, Dicts
  <2>. QED BY <2>1, <2>2, <2>3, <2>4 DEF Dicts, Capped, Rows
<1>. QED BY <1>1, <1>2, <1>3, <1>4, CollectDicts DEF BoundaryNext

LEMMA BoundaryInitDicts == ASSUME BoundaryInit PROVE Dicts
<1>1. \A S : <<>> \in Recency(S)
  BY DEF Recency
<1>2. Len(<<>>) <= Cap
  BY CapAssumption
<1>. QED BY <1>1, <1>2 DEF BoundaryInit, Init, Dicts, Capped, Rows

LEMMA InvTyped == ASSUME BoundaryInv, Dicts PROVE BoundaryTypeOK
<1> DEFINE Within == Rows \cup {NoSession}
<1>1. DOMAIN owner = Rows /\ LedgerTypeOK
  BY SoundSuffices DEF BoundaryInv, LedgerTypeOK, Rows
<1>2. Sessions = Rows
  BY <1>1 DEF Sessions
<1>3. recent \in Seq(Keys) /\ touched \in [Collectors -> Seq(HookKeys)]
  BY DEF Dicts, Recency
<1>4. synced \in [Keys -> Rows \cup {NoSession}] /\ keyless \in Rows \cup {NoSession}
  BY DEF BoundaryInv, Types, Remembered
<1>5. /\ turn \in [Conversations -> Rows \cup {NoSession}]
      /\ held \in [Collectors -> [HookKeys -> SUBSET Within]]
  BY DEF BoundaryInv, Types, InRows
<1>6. trajectories \in Seq([session : Rows, evidence : [Collectors -> SUBSET Within]])
  <2>1. /\ trajectories \in Seq(Trajectory) /\ DOMAIN trajectories = 1 .. Len(trajectories)
        /\ Len(trajectories) \in Nat
    BY DEF BoundaryInv, Types
  <2>2. ASSUME NEW i \in DOMAIN trajectories
        PROVE  trajectories[i] \in [session : Rows, evidence : [Collectors -> SUBSET Within]]
    <3>1. trajectories[i] \in Trajectory
      BY <2>1
    <3>2. /\ trajectories[i].session \in Rows
          /\ \A d \in Collectors : trajectories[i].evidence[d] \subseteq Within
      BY DEF BoundaryInv, InRows
    <3>. QED BY <3>1, <3>2 DEF Trajectory
  <2> DEFINE row == [session : Rows, evidence : [Collectors -> SUBSET Within]]
  <2>3. \A i \in 1 .. Len(trajectories) : trajectories[i] \in row
    BY <2>1, <2>2
  <2>4. trajectories = [i \in 1 .. Len(trajectories) |-> trajectories[i]]
    BY <2>1
  <2>. HIDE DEF row
  <2>5. trajectories \in [1 .. Len(trajectories) -> row]
    BY <2>3, <2>4
  <2>6. trajectories \in Seq(row)
    BY <2>1, <2>5, SeqDef
  <2>. QED BY <2>6 DEF row
<1>. QED BY <1>1, <1>2, <1>3, <1>4, <1>5, <1>6 DEF Dicts, BoundaryTypeOK

-----------------------------------------------------------------------------
LEMMA InvariantHolds == BoundarySpec => []BoundaryInv
BY BoundaryInitInv, BoundaryStep, PTL DEF BoundarySpec

\* Whatever the caps and the faults: every dict of conversations stays within
\* MAX_TRACKED_CONVERSATIONS, and whatever names a session names a row.
THEOREM BoundaryTyped == BoundarySpec => []BoundaryTypeOK
<1>1. BoundarySpec => []Dicts
  BY BoundaryInitDicts, DictsStep, InvariantHolds, PTL DEF BoundarySpec
<1>2. BoundaryInv /\ Dicts => BoundaryTypeOK
  BY InvTyped
<1>. QED BY <1>1, <1>2, InvariantHolds, PTL

\* However chats interleave, dicts forget, passes fail and the process restarts,
\* a session is finalized at most once.
THEOREM Finality == BoundarySpec => []FinalizedOnce
<1>1. BoundaryInv => FinalizedOnce
  BY DEF BoundaryInv
<1>. QED BY <1>1, InvariantHolds, PTL

\* And a finalized session never lives on.
THEOREM FinalityCloses == BoundarySpec => []FinalizedIsClosed
<1>1. BoundaryInv => FinalizedIsClosed
  BY DEF BoundaryInv
<1>. QED BY <1>1, InvariantHolds, PTL

\* Boundaries, pruning included, keep the archiver's promises.
THEOREM LedgerKept == BoundarySpec => [](LedgerTypeOK /\ WritesToOwnOpen)
<1>1. BoundaryInv => LedgerTypeOK /\ WritesToOwnOpen
  BY SoundSuffices DEF BoundaryInv
<1>. QED BY <1>1, InvariantHolds, PTL

\* And no key ever has two open rows, also after the coordinator forgot it or a
\* restart left one open.
THEOREM OpenOnce == BoundarySpec => []OneOpenPerKey
<1>1. BoundaryInv => OneOpenPerKey
  BY SoundSuffices DEF BoundaryInv
<1>. QED BY <1>1, InvariantHolds, PTL

\* A session is labelled by evidence of its own conversation.
THEOREM Evidenced == BoundarySpec => []OwnEvidence
<1>1. BoundaryInv => OwnEvidence
  BY DEF BoundaryInv
<1>. QED BY <1>1, InvariantHolds, PTL

\* Every session that ended was labelled, is remembered, or is known to be forgotten.
THEOREM Accounted == BoundarySpec => []EndedIsAccounted
<1>1. BoundaryInv => EndedIsAccounted
  BY DEF BoundaryInv, Sound, Ledger, RowsAccounted, EndedIsAccounted, Rows
<1>. QED BY <1>1, InvariantHolds, PTL

\* What a tool of a keyed turn attaches to is that turn's own session.
THEOREM ToolsSeeOwn == BoundarySpec => []ToolsSeeOwnSession
<1>1. BoundaryInv => ToolsSeeOwnSession
  BY DEF BoundaryInv, TurnIsOwn, OwnOf, ToolsSeeOwnSession
<1>. QED BY <1>1, InvariantHolds, PTL

\* A keyed conversation's trajectory is written only in the step that takes it
\* from that session into another.
THEOREM Crossing == BoundarySpec => BoundaryIsCrossed
<1> DEFINE Leaves(i) ==
        LET s == trajectories'[i].session
            k == owner[s]
        IN  k \in Keys => /\ s \in ended' /\ mapped'[k] \notin {s, NoSession}
                          /\ synced'[k] = mapped'[k]
<1>1. ASSUME BoundaryInv, NEW c \in Conversations, HookCall(c),
             NEW i \in DOMAIN trajectories' \ DOMAIN trajectories
      PROVE  Leaves(i)
  <2>1. PICK l, s, luck : HookStep(c, l, s, luck)
    BY <1>1, HookCallStep DEF BoundaryInv
  <2> DEFINE new == [session |-> Prev(c), evidence |-> Evidence(c)]
  <2>2. Crossed(c, s) /\ Prev(c) \in ended' /\ trajectories' = Append(trajectories, new)
    BY <1>1, <2>1, HookTrajectory
  <2>3. new.session = Prev(c) /\ trajectories \in Seq(Trajectory)
    BY <1>1 DEF BoundaryInv, Types
  <2>. HIDE DEF new
  <2>4. trajectories'[i].session = Prev(c)
    BY <1>1, <2>2, <2>3
  <2>5. owner[Prev(c)] \in Keys => owner[Prev(c)] = c /\ c \in Keys
    BY <1>1, <2>2, PrevIsOwn, KeysAssumption DEF Crossed
  <2>6. s # NoSession /\ s # Prev(c) /\ Prev(c)' = s
    BY <1>1, <2>1, <2>2, HookMemory DEF Crossed
  <2>7. mapped'[c] = s
    <3>1. s = l.mapped[c]
      BY <2>1, <2>6 DEF HookStep
    <3>. QED BY <1>1, <2>1, <2>6, <3>1, HookLedger
  <2>8. c \in Keys => synced'[c] = s
    BY <2>6 DEF Prev
  <2>. QED BY <2>2, <2>4, <2>5, <2>6, <2>7, <2>8
<1>2. ASSUME BoundaryInv, [BoundaryNext]_vars,
             NEW i \in DOMAIN trajectories' \ DOMAIN trajectories
      PROVE  Leaves(i)
  <2>1. trajectories' # trajectories
    BY <1>2
  <2>2. PICK c \in Conversations : HookCall(c)
    BY <1>2, <2>1 DEF BoundaryNext, EndTurn, Collect, Restart, vars
  <2>. QED BY <1>1, <1>2, <2>2
<1>3. BoundaryInv /\ [BoundaryNext]_vars =>
        [\A i \in DOMAIN trajectories' \ DOMAIN trajectories : Leaves(i)]_vars
  BY <1>2
<1>. QED BY <1>3, InvariantHolds, PTL DEF BoundarySpec, BoundaryIsCrossed
=============================================================================
