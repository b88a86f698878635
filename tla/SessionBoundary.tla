-------------------------- MODULE SessionBoundary --------------------------
(***************************************************************************)
(* Session boundaries: coordinator/session.py over the archiver's ledger,  *)
(* and the part of hook.py that finalizes an ended session.                *)
(*                                                                         *)
(* A hook call archives, syncs and, when the conversation has crossed into *)
(* another session, labels, finalizes and resets the one it left, with no  *)
(* await in between: one step.  Calls of several conversations interleave. *)
(* Four dicts follow conversations (the archiver's, the coordinator's and  *)
(* the collectors'), each with its own recency, so each may forget others. *)
(***************************************************************************)
EXTENDS SessionLedger, Lru

CONSTANTS
    Collectors,  \* per-conversation dicts: outcome signals, lessons, skills, ...
    Cap,         \* MAX_TRACKED_CONVERSATIONS
    MaxSessions, MaxFaults  \* bounds of the model

ASSUME CapAssumption == Cap \in Nat \ {0}

VARIABLES
    synced,       \* _sessions_by_key
    recent,       \* its keys, least recently synced first
    keyless,      \* _keyless_session
    held,         \* what each collector holds of a key: the sessions it came from,
                  \* NoSession for what a turn without a session left
    touched,      \* each collector's keys, least recently used first
    turn,         \* the session the conversation's turn in flight last synced
    unbound,      \* the conversations whose turn in flight has no session
    trajectories, \* trajectory rows, in writing order, with what they were given
    forgotten,    \* history: sessions whose boundary nobody will see
    faults        \* bound of the model

coordinator == <<synced, recent, keyless>>
vars == <<ledger, coordinator, held, touched, turn, unbound, trajectories, forgotten, faults>>

\* Keyless conversations share "" everywhere but in the archiver.
Shared == "keyless"

ASSUME SharedAssumption == Shared \notin Keys

HookKeys == Keys \cup {Shared}
HookKey(c) == IF c \in Keys THEN c ELSE Shared

-----------------------------------------------------------------------------
\* A plausible slip, and once a bug: a keyless conversation's predecessor is
\* whatever synced last.
PrevByScalar(c) ==
    IF c \in Keys THEN synced[c]
    ELSE IF recent = <<>> THEN keyless ELSE synced[recent[Len(recent)]]

\* sync's prev_session.
Prev(c) == IF c \in Keys THEN synced[c] ELSE keyless

\* A plausible slip: the first session synced under a key stays remembered.
RememberFirst(c, s) ==
    LET out == Evicted(recent, c, TRUE, Cap)
    IN  /\ synced' = [k \in Keys |-> IF k = c /\ synced[k] = NoSession THEN s
                                     ELSE IF k \in out THEN NoSession ELSE synced[k]]
        /\ recent' = Touched(recent, c, TRUE, Cap)
        /\ keyless' = keyless

\* What sync remembers: under its key the session and its recency, evicting the
\* keys synced least recently.
Remember(c, s) ==
    IF c \in Keys
    THEN LET out == Evicted(recent, c, TRUE, Cap)
         IN  /\ synced' = [k \in Keys |-> IF k = c THEN s
                                          ELSE IF k \in out THEN NoSession ELSE synced[k]]
             /\ recent' = Touched(recent, c, TRUE, Cap)
             /\ keyless' = keyless
    ELSE keyless' = s /\ UNCHANGED <<synced, recent>>

\* Sessions the coordinator drops with an evicted key.
Dropped(c) == {synced[k] : k \in Keys \cap Evicted(recent, c, c \in Keys, Cap)} \ {NoSession}

\* A plausible slip: the ended session's evidence is not reset.
TakenNotReset(c) ==
    LET h == HookKey(c)
    IN  /\ touched' = [d \in Collectors |-> Touched(touched[d], h, TRUE, Cap)]
        /\ UNCHANGED held

\* The collectors hand over and reset what they hold of the conversation; the
\* access creates a missing entry and evicts others.
Taken(c) ==
    LET h == HookKey(c)
    IN  /\ held' = [d \in Collectors |->
                       [k \in HookKeys |-> IF k = h \/ k \in Evicted(touched[d], h, TRUE, Cap)
                                           THEN {} ELSE held[d][k]]]
        /\ touched' = [d \in Collectors |-> Touched(touched[d], h, TRUE, Cap)]

Evidence(c) == [d \in Collectors |-> held[d][HookKey(c)]]

\* A plausible slip: the finalized session keeps its mapping.
NotPruned(l, s, stamped) == [l EXCEPT !.ended = @ \cup (stamped \cap {s})]

\* The stamp of sync or finalize, and prune_session_by_id.
Pruned(l, s, stamped) ==
    [LetGo(l, {c \in Conversations : l.mapped[c] = s}, {}) EXCEPT
        !.ended = @ \cup (stamped \cap {s})]

-----------------------------------------------------------------------------
(* One hook call of conversation c.                                        *)

\* What failed on the way, each caught and logged by the code: an UPDATE of
\* ended_at, the bootstrap of the session row's messages, the trajectory.
Luck == [stamps : BOOLEAN, heard : BOOLEAN, written : BOOLEAN]
NoFault == [stamps |-> TRUE, heard |-> TRUE, written |-> TRUE]

\* _sync_session without a boundary.
Stay(l) == Become(l) /\ UNCHANGED <<held, touched, trajectories>>

\* _sync_session at a boundary: the session left behind gets its trajectory,
\* with what the collectors hold, and its mapping is pruned.
Boundary(c, l, luck) ==
    /\ Become(Pruned(l, Prev(c), IF luck.stamps \/ luck.written THEN {Prev(c)} ELSE {}))
    /\ Taken(c)
    /\ trajectories' = IF luck.written
                       THEN Append(trajectories, [session |-> Prev(c), evidence |-> Evidence(c)])
                       ELSE trajectories

Crossed(c, s) == s # NoSession /\ Prev(c) \notin {NoSession, s}

\* The sync of c: the pass left the ledger l, the archiver reports session s.
Synced(c, l, s, luck) ==
    /\ turn' = [turn EXCEPT ![c] = s]
    /\ unbound' = IF s = NoSession THEN unbound \cup {c} ELSE unbound \ {c}
    /\ IF Crossed(c, s) THEN Boundary(c, l, luck) ELSE Stay(l)
    /\ IF s # NoSession THEN Remember(c, s) ELSE UNCHANGED coordinator
    /\ forgotten' = forgotten \cup (IF s # NoSession THEN Dropped(c) ELSE {})
                              \cup ({l.mapped[c]} \ {s})
                              \cup (IF luck.written THEN {} ELSE {Prev(c)})

InUse == {c \in Conversations : mapped[c] # NoSession}

\* archive_and_embed, then sync on the session the archiver now reports.
HookCall(c) ==
    \E idle \in SUBSET (InUse \ {c}), case \in Cases(c), luck \in Luck :
        LET l == Passed(Ledger, c, idle, IF luck.stamps THEN DOMAIN owner ELSE {}, case)
            s == IF luck.heard THEN l.mapped[c] ELSE NoSession
        IN  /\ ~luck.heard => case = "open"
            /\ ~luck.written => Crossed(c, s)
            /\ ~luck.stamps => Crossed(c, s) \/ \E j \in idle \cup {c} : mapped[j] # l.mapped[j]
            /\ faults' = faults + (IF luck = NoFault /\ case # "release" THEN 0 ELSE 1)
            /\ faults' <= MaxFaults /\ Len(l.owner) <= MaxSessions
            /\ Synced(c, l, s, luck)

\* A turn of c is in flight, with or without a session.
InTurn(c) == turn[c] # NoSession \/ c \in unbound

\* A turn in flight leaves something in a collector: a reaction, a stop
\* reason, an injected lesson, a skill read, an injected reflection.  It does so
\* whether or not the hook got a session for it.
Collect(c, d) ==
    /\ InTurn(c)
    /\ LET h   == HookKey(c)
           out == Evicted(touched[d], h, TRUE, Cap)
       IN  /\ held' = [held EXCEPT ![d] =
                          [k \in HookKeys |-> IF k \in out THEN {}
                                              ELSE IF k = h THEN @[k] \cup {turn[c]} ELSE @[k]]]
           /\ touched' = [touched EXCEPT ![d] = Touched(@, h, TRUE, Cap)]
    /\ UNCHANGED <<ledger, coordinator, turn, unbound, trajectories, forgotten, faults>>

\* on_finally, or an error: the turn is over.
EndTurn(c) ==
    /\ InTurn(c)
    /\ turn' = [turn EXCEPT ![c] = NoSession]
    /\ unbound' = unbound \ {c}
    /\ UNCHANGED <<ledger, coordinator, held, touched, trajectories, forgotten, faults>>

\* The process restarts: only the database is left.
Restart ==
    /\ faults < MaxFaults
    /\ Forget
    /\ forgotten' = (forgotten \cup {synced[k] : k \in Keys} \cup {keyless}) \ {NoSession}
    /\ synced' = [k \in Keys |-> NoSession] /\ recent' = <<>>
    /\ keyless' = NoSession
    /\ held' = [d \in Collectors |-> [k \in HookKeys |-> {}]]
    /\ touched' = [d \in Collectors |-> <<>>]
    /\ turn' = [c \in Conversations |-> NoSession] /\ unbound' = {}
    /\ faults' = faults + 1
    /\ UNCHANGED trajectories

BoundaryInit ==
    /\ Init
    /\ synced = [k \in Keys |-> NoSession] /\ recent = <<>>
    /\ keyless = NoSession
    /\ held = [d \in Collectors |-> [k \in HookKeys |-> {}]]
    /\ touched = [d \in Collectors |-> <<>>]
    /\ turn = [c \in Conversations |-> NoSession] /\ unbound = {}
    /\ trajectories = <<>> /\ forgotten = {} /\ faults = 0

BoundaryNext ==
    \/ \E c \in Conversations :
        HookCall(c) \/ EndTurn(c) \/ \E d \in Collectors : Collect(c, d)
    \/ Restart

BoundarySpec == BoundaryInit /\ [][BoundaryNext]_vars

-----------------------------------------------------------------------------
Sessions == DOMAIN owner
Finalized == {trajectories[i].session : i \in DOMAIN trajectories}

\* Every per-conversation dict stays within MAX_TRACKED_CONVERSATIONS.
Capped ==
    Len(recent) <= Cap /\ \A d \in Collectors : Len(touched[d]) <= Cap

BoundaryTypeOK ==
    /\ LedgerTypeOK /\ Capped
    /\ recent \in Seq(Keys) /\ touched \in [Collectors -> Seq(HookKeys)]
    /\ synced \in [Keys -> Sessions \cup {NoSession}]
    /\ keyless \in Sessions \cup {NoSession}
    /\ turn \in [Conversations -> Sessions \cup {NoSession}]
    /\ unbound \subseteq {c \in Conversations : turn[c] = NoSession}
    /\ held \in [Collectors -> [HookKeys -> SUBSET (Sessions \cup {NoSession})]]
    /\ trajectories \in Seq([session : Sessions,
                             evidence : [Collectors -> SUBSET (Sessions \cup {NoSession})]])
    /\ forgotten \subseteq Sessions

\* A session gets one trajectory at most, however chats interleave, dicts
\* forget and passes fail (coordinator/session.py: comparing with the shared
\* scalar once "wrote its trajectory twice").
FinalizedOnce ==
    \A i, j \in DOMAIN trajectories :
        trajectories[i].session = trajectories[j].session => i = j

\* A session with a trajectory is over: stamped, and no conversation writes to
\* it or will cross out of it again.
FinalizedIsClosed ==
    \A s \in Finalized :
        /\ s \in ended
        /\ \A c \in Conversations : mapped[c] # s
        /\ \A k \in Keys : synced[k] # s
        /\ keyless # s

\* No session ends in silence: it has its trajectory, or the coordinator still
\* remembers it and will see the boundary, or its memory was evicted, lost with
\* the process, or lost to an error that was logged.
EndedIsAccounted ==
    ended \subseteq Finalized \cup forgotten \cup {synced[k] : k \in Keys} \cup {keyless}

\* A keyed session is labelled by its own evidence.  What else a collector may
\* hold came from a session of the same key that was forgotten, or from a turn of
\* that key whose hook call failed to get a session; never from another chat and
\* never from a session labelled before.
OwnEvidence ==
    \A i \in DOMAIN trajectories :
        LET s == trajectories[i].session
        IN  owner[s] \in Keys =>
            \A d \in Collectors : \A e \in trajectories[i].evidence[d] \ {s, NoSession} :
                owner[e] = owner[s] /\ e \in forgotten

\* hook.py, `_lessons_by_key`: trust is adjusted by "that conversation's session
\* outcome at its boundary, then cleared": nothing older than the session itself
\* is held when it is labelled (what a turn without a session left is its own).
HeldSinceLastBoundary ==
    \A i \in DOMAIN trajectories :
        LET s == trajectories[i].session
        IN  owner[s] \in Keys =>
                \A d \in Collectors : trajectories[i].evidence[d] \subseteq {s, NoSession}

\* What a tool called within a keyed turn attaches to (turn_session_id) is the
\* session that turn last synced, or nothing; never another conversation's.
ToolsSeeOwnSession ==
    \A k \in Keys : turn[k] # NoSession =>
        synced[k] \in {turn[k], NoSession} /\ owner[turn[k]] = k

\* A keyed conversation's trajectory is written only in the step that takes it
\* into another session: a live session is not finalized under it.
BoundaryIsCrossed ==
    [][\A i \in DOMAIN trajectories' \ DOMAIN trajectories :
        LET s == trajectories'[i].session
            k == owner[s]
        IN  k \in Keys => /\ s \in ended' /\ mapped'[k] \notin {s, NoSession}
                          /\ synced'[k] = mapped'[k]]_vars
=============================================================================
