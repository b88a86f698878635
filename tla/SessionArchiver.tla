-------------------------- MODULE SessionArchiver --------------------------
(***************************************************************************)
(* session/archiver.py under nanobot's message windows.                    *)
(*                                                                         *)
(* nanobot (external) hands the hook a bounded, sliding, rewritten window  *)
(* of each conversation: the replayed history plus the turn's own raw      *)
(* messages.  The archiver stores every message of it once, in one         *)
(* `sessions` row for as long as the window continues what it stored.      *)
(*                                                                         *)
(* Every hook call archives and then syncs without an await in between, so *)
(* one call is one step.  An insert or a session start may raise; the      *)
(* process may restart; other conversations may evict this one.            *)
(***************************************************************************)
EXTENDS Alignment, Lru, SequencesExt

CONSTANTS
    Keys,        \* session keys (`channel:chat`)
    Cap,         \* _MAX_TRACKED_CONVERSATIONS
    MaxFps,      \* _MAX_FINGERPRINTS
    Replies,     \* what the model may append to a turn: [role, body] records
    Rewritten,   \* bodies the replay sanitizer changes
    Stamps,      \* this nanobot stamps a replayed user message with its time
    HistoryMax,  \* max_messages of nanobot's get_history
    MaxMessages, MaxReplies, MaxSessions, MaxFaults,
    MaxUpheavals, MaxBlurs   \* bounds of the model

ASSUME CapAssumption == Cap \in Nat \ {0}
ASSUME LimitsAssumption == MaxFps \in Nat /\ HistoryMax \in Nat
ASSUME RepliesAssumption == \A r \in Replies : r.role \in {"assistant", "tool"}
ASSUME StampsAssumption == Stamps \in BOOLEAN

VARIABLES
    \* the archiver's memory
    order,       \* keys of _fingerprints, least recently archived first
    confirmed,   \* _fingerprints[key]
    pending,     \* _pending[key]
    sid,         \* _session_ids[key], NoSession when absent
    lastPass,    \* _last_pass: the window's key and length, <<>> for None
    \* the database
    sessions,    \* sessions rows by id, each with its chunks in turn_index order
    \* nanobot
    history,     \* persisted messages of each conversation
    window,      \* context.messages of the turn in flight, <<>> when idle
    appended,    \* messages this turn appended to the window
    incarnation, \* how often /new cleared the conversation
    irregular,   \* the key was compacted, lost its session within a turn, or was
                 \* shown of its last turn no more than the follow-ups drained in it
    blurred,     \* its windows no longer tell one user message from another
    failed,      \* hook calls of the key that left its window unarchived
    \* counters that bound the model
    made, faults, upheavals

archiver == <<order, confirmed, pending, sid, lastPass>>
nanobot  == <<history, window, appended, incarnation, irregular, blurred>>
vars     == <<archiver, sessions, nanobot, failed, made, faults, upheavals>>

NoSession == 0

-----------------------------------------------------------------------------
(* Messages and the shapes nanobot shows them in.  A user message carries  *)
(* its `[Message Time:]` stamp when a nanobot that stamps replays it: that  *)
(* form is unique, and a follow-up drained within a turn is raw until then.*)
(* Any other message is known by its text alone and may repeat.            *)

Message(k, role, body, opens) ==
    [id |-> made + 1, era |-> incarnation[k], role |-> role, body |-> body, opens |-> opens]
User(k, body)     == Message(k, "user", body, TRUE)
FollowUp(k, body) == Message(k, "user", body, FALSE)
Reply(k, r)       == Message(k, r.role, r.body, FALSE)
Ident(m)    == [id |-> m.id, era |-> m.era]

Entry(role, fp, srcs) == [role |-> role, fp |-> fp, srcs |-> srcs]
Replayed(m) == Entry(m.role, <<m.role, "replayed", {m.body}>>, {Ident(m)})
Changes(m)  == IF m.role = "user" THEN Stamps ELSE m.body \in Rewritten
Raw(m)  == Entry(m.role, <<m.role, IF Changes(m) THEN "raw" ELSE "replayed", {m.body}>>,
                 {Ident(m)})
Live(m) == Entry("user", <<"user", "live", {m.body}>>, {Ident(m)})

\* build_messages merges the current message into a history ending with a user.
MergedLive(h, m) ==
    Entry("user", <<"user", "live", {h.body, m.body}>>, {Ident(h), Ident(m)})

BuildWindow(hist, m) ==
    LET past == [i \in DOMAIN hist |-> Replayed(hist[i])]
    IN  IF hist # <<>> /\ Last(hist).role = "user"
        THEN Append(Front(past), MergedLive(Last(hist), m))
        ELSE Append(past, Live(m))

\* get_history keeps a tail that starts at a user turn and fits the limits.
LegalTails(hist) ==
    {<<>>} \cup {SubSeq(hist, i, Len(hist)) : i \in
                    {j \in DOMAIN hist : /\ hist[j].role = "user"
                                         /\ Len(hist) - j < HistoryMax}}

-----------------------------------------------------------------------------
(* The archiver's operations, as functions of its state and the database.  *)

Memory == [order |-> order, confirmed |-> confirmed, pending |-> pending,
           sid |-> sid, lastPass |-> lastPass, sessions |-> sessions, ok |-> TRUE]

\* _end_session
Ended(ss, ids) ==
    [s \in DOMAIN ss |-> [ss[s] EXCEPT !.ended = @ \/ s \in ids]]

\* The rows that _end_session stamps when asked to end `ids`: it swallows a
\* failing UPDATE, and the row stays open.
Stamped(ids, fault) == IF fault = "stamp" THEN {} ELSE ids

\* A plausible slip: the key keeps pointing at the session it ended.
ReleaseStillMapped(a, k, fault) ==
    [a EXCEPT !.sessions = Ended(@, Stamped({a.sid[k]}, fault)),
              !.order = Without(@, k), !.confirmed[k] = <<>>, !.pending[k] = <<>>]

\* The new-conversation branch of _archive: the key lets go of its session.
Release(a, k, fault) ==
    [a EXCEPT !.sessions = Ended(@, Stamped({a.sid[k]}, fault)), !.sid[k] = NoSession,
              !.order = Without(@, k), !.confirmed[k] = <<>>, !.pending[k] = <<>>]

\* A plausible slip: what the last process left open stays open.
StartBesideOpen(a, k) ==
    [a EXCEPT !.sid[k] = Len(a.sessions) + 1,
              !.sessions = Append(@, [key |-> k, ended |-> FALSE, rows |-> <<>>])]

\* _start_session ends what a previous process left open under the key.
StartSession(a, k) ==
    LET left == {s \in DOMAIN a.sessions : a.sessions[s].key = k}
    IN  [a EXCEPT !.sid[k] = Len(a.sessions) + 1,
                  !.sessions = Append(Ended(@, left),
                                      [key |-> k, ended |-> FALSE, rows |-> <<>>])]

\* A plausible slip, named by the code: the fingerprints go, the session stays.
EvictFingerprints(a, k, fault) ==
    LET idle == Evicted(a.order, k, TRUE, Cap)
    IN  [a EXCEPT !.order = Touched(@, k, TRUE, Cap),
                  !.confirmed = [j \in Keys |-> IF j \in idle THEN <<>> ELSE @[j]],
                  !.pending   = [j \in Keys |-> IF j \in idle THEN <<>> ELSE @[j]]]

\* _evict_idle_conversations: everything about an evicted key goes together.
EvictIdle(a, k, fault) ==
    LET idle == Evicted(a.order, k, TRUE, Cap)
    IN  [a EXCEPT !.order = Touched(@, k, TRUE, Cap),
                  !.confirmed = [j \in Keys |-> IF j \in idle THEN <<>> ELSE @[j]],
                  !.pending   = [j \in Keys |-> IF j \in idle THEN <<>> ELSE @[j]],
                  !.sid       = [j \in Keys |-> IF j \in idle THEN NoSession ELSE @[j]],
                  !.sessions  = Ended(@, Stamped({a.sid[j] : j \in idle}, fault))]

Unreplayed(e) == [role |-> e.role, fp |-> e.fp]

\* A plausible slip, and once a bug: a mid-turn pass confirms raw fingerprints.
ConfirmRaw(fresh, midTurn) ==
    IF fresh = <<>> THEN <<>> ELSE Fps(IF midTurn THEN fresh ELSE Front(fresh))

\* A plausible slip, and once a bug: the live current message is confirmed.
ConfirmLive(fresh, midTurn) == IF midTurn THEN <<>> ELSE Fps(fresh)

\* The fingerprints a pass confirms: what it stored in its replayed form.
Confirmable(fresh, midTurn) ==
    IF midTurn \/ fresh = <<>> THEN <<>> ELSE Fps(Front(fresh))

Larger(m, n) == IF m > n THEN m ELSE n
KeepLast(s, n) == SubSeq(s, Larger(Len(s) - n, 0) + 1, Len(s))

\* The rest of _archive once every insert has landed.
Store(a, k, entries, al, midTurn, fault) ==
    LET fresh == SubSeq(entries, al.start, Len(entries))
        rows  == [i \in DOMAIN fresh |-> [role |-> fresh[i].role, srcs |-> fresh[i].srcs]]
        known == a.confirmed[k] \o al.adopted \o Confirmable(fresh, midTurn)
        stays == IF midTurn THEN fresh ELSE KeepLast(fresh, 1)
        b == [a EXCEPT
                !.sessions[a.sid[k]].rows = @ \o rows,
                !.confirmed[k] = KeepLast(known, Larger(MaxFps, 2 * Len(entries))),
                !.pending[k] = al.keep \o [i \in DOMAIN stays |-> Unreplayed(stays[i])]]
    IN  [EvictIdle(b, k, fault) EXCEPT !.lastPass = <<k, Len(entries)>>]

\* _archive.  `fault` names what fails: starting the session or an insert, which
\* raises, or the stamping of the sessions the pass ends.
Archive(a, k, entries, midTurn, fault) ==
    LET al == Align(a.confirmed[k], a.pending[k], entries, midTurn)
        b  == IF al.isNew THEN Release(a, k, fault) ELSE a
        c  == IF b.sid[k] = NoSession THEN StartSession(b, k) ELSE b
    IN  IF b.sid[k] = NoSession /\ fault = "start" THEN [b EXCEPT !.ok = FALSE]
        ELSE IF al.start <= Len(entries) /\ fault = "insert" THEN [c EXCEPT !.ok = FALSE]
        ELSE Store(c, k, entries, al, midTurn, fault)

\* current_session_id: the last pass's own window is never judged again.
CurrentSession(a, k, entries) ==
    IF /\ a.lastPass # <<k, Len(entries)>>
       /\ Align(a.confirmed[k], a.pending[k], entries, FALSE).isNew
    THEN NoSession
    ELSE a.sid[k]

\* The fault came to pass in the step from a to b.
Bites(fault, a, b) ==
    CASE fault = "none"  -> TRUE
      [] fault = "stamp" -> b.ok /\ \E j \in Keys : /\ a.sid[j] # NoSession /\ b.sid[j] # a.sid[j]
                                                    /\ ~b.sessions[a.sid[j]].ended
      [] OTHER           -> ~b.ok

\* One hook call: archive_and_embed, whose exception the hook swallows, then
\* SessionCoordinator.sync, which bootstraps through ensure_session.
HookCall(k, entries, midTurn, fault, syncFault) ==
    /\ faults' = faults + (IF fault = "none" THEN 0 ELSE 1) + (IF syncFault = "none" THEN 0 ELSE 1)
    /\ faults' <= MaxFaults
    /\ \E a \in {Archive(Memory, k, entries, midTurn, fault)} :
       \E retried \in {CurrentSession(a, k, entries) = NoSession} :
       \E b \in {IF retried
                 THEN Archive([a EXCEPT !.ok = TRUE], k, entries, FALSE, syncFault)
                 ELSE a} :
        /\ Bites(fault, Memory, a)
        /\ IF retried THEN Bites(syncFault, a, b) ELSE syncFault = "none"
        /\ failed' = [failed EXCEPT ![k] = @ + (IF b.ok THEN 0 ELSE 1)]
        /\ Len(b.sessions) <= MaxSessions
        /\ order' = b.order /\ confirmed' = b.confirmed /\ pending' = b.pending
        /\ sid' = b.sid /\ lastPass' = b.lastPass /\ sessions' = b.sessions

Faults == {"none", "start", "insert", "stamp"}

-----------------------------------------------------------------------------
(* The steps.                                                              *)

\* The texts of the user messages the archiver or nanobot still holds of k.
Said(k) ==
    LET fps == ToSet(confirmed[k]) \cup ToSet(Fps(pending[k]))
    IN  (UNION {f[3] : f \in {g \in fps : g[1] = "user"}})
          \cup {m.body : m \in {n \in ToSet(history[k] \o appended[k]) : n.role = "user"}}

\* What a user may write.  Without the stamp a text that is repeated is the
\* same message to the archiver (archiver.py: "Residual, version-dependent").
Writes(k, body) ==
    /\ \/ body = made + 1
       \/ ~Stamps /\ upheavals < MaxBlurs /\ body \in Said(k)
    /\ upheavals' = upheavals + (IF body = made + 1 THEN 0 ELSE 1)
    /\ blurred' = [blurred EXCEPT ![k] = @ \/ body # made + 1]

\* History variable only: a window that shows of the last turn no more than the
\* follow-ups drained in it.
MarkSlid(k, hist) ==
    irregular' = [irregular EXCEPT
                    ![k] = @ \/ (hist # <<>> /\ \A i \in DOMAIN hist : ~hist[i].opens)]

\* A turn starts: the window is built, the user message is persisted, and
\* before_iteration 0 archives the window.
StartTurn(k) ==
    /\ window[k] = <<>>
    /\ made < MaxMessages
    /\ \E hist \in LegalTails(history[k]), body \in Said(k) \cup {made + 1}, f, g \in Faults :
        /\ Writes(k, body)
        /\ window' = [window EXCEPT ![k] = BuildWindow(hist, User(k, body))]
        /\ history' = [history EXCEPT ![k] = Append(hist, User(k, body))]
        /\ MarkSlid(k, hist)
        /\ HookCall(k, window'[k], FALSE, f, g)
    /\ made' = made + 1
    /\ UNCHANGED <<appended, incarnation>>

\* The same, with a follow-up drained before the first model call: the current
\* message is no longer the window's last entry.
StartTurnFollowed(k) ==
    /\ window[k] = <<>>
    /\ made + 1 < MaxMessages
    /\ upheavals < MaxBlurs
    /\ \E hist \in LegalTails(history[k]), f, g \in Faults :
        LET m    == User(k, made + 1)
            next == [FollowUp(k, made + 2) EXCEPT !.id = made + 2]
        IN  /\ window' = [window EXCEPT ![k] = Append(BuildWindow(hist, m), Raw(next))]
            /\ history' = [history EXCEPT ![k] = Append(hist, m)]
            /\ appended' = [appended EXCEPT ![k] = <<next>>]
            /\ MarkSlid(k, hist)
            /\ HookCall(k, window'[k], FALSE, f, g)
    /\ made' = made + 2
    /\ upheavals' = upheavals + 1
    /\ blurred' = [blurred EXCEPT ![k] = TRUE]
    /\ UNCHANGED incarnation

\* History variable only: a mid-turn pass found its session evicted.
MarkReopened(k) == irregular' = [irregular EXCEPT ![k] = @ \/ sid'[k] # sid[k]]

\* The runner appends to the turn's list, and the next hook call archives it.
Appends(k, m) ==
    /\ appended' = [appended EXCEPT ![k] = Append(@, m)]
    /\ window' = [window EXCEPT ![k] = Append(@, Raw(m))]
    /\ made' = made + 1
    /\ \E f, g \in Faults : HookCall(k, window'[k], TRUE, f, g)
    /\ MarkReopened(k)
    /\ UNCHANGED <<history, incarnation>>

\* A reply or a tool result.
AppendReply(k) ==
    /\ window[k] # <<>>
    /\ made < MaxMessages
    /\ Len(appended[k]) < MaxReplies
    /\ \E r \in Replies : Appends(k, Reply(k, r))
    /\ UNCHANGED <<blurred, upheavals>>

\* A user's follow-up, which the runner drains within the turn.
AppendFollowUp(k) ==
    /\ window[k] # <<>>
    /\ made < MaxMessages
    /\ Len(appended[k]) < MaxReplies
    /\ \E body \in Said(k) \cup {made + 1} :
        Writes(k, body) /\ Appends(k, FollowUp(k, body))

\* Another pass over the unchanged list: before_iteration after
\* after_iteration, several per turn.
PassAgain(k) ==
    /\ window[k] # <<>>
    /\ \E f, g \in Faults : HookCall(k, window[k], TRUE, f, g)
    /\ MarkReopened(k)
    /\ UNCHANGED <<history, window, appended, incarnation, blurred, made, upheavals>>

\* release_window, at on_finally; after an error the list itself is gone, and
\* _last_pass can match no other.
ReleaseWindow(k) ==
    lastPass' = IF lastPass # <<>> /\ lastPass[1] = k THEN <<>> ELSE lastPass

\* The turn is over and its messages are persisted.  A follow-up is drained to be
\* answered, so it is not the turn's last message.
EndTurn(k) ==
    /\ window[k] # <<>>
    /\ appended[k] # <<>> /\ Last(appended[k]).role # "user"
    /\ history' = [history EXCEPT ![k] = @ \o appended[k]]
    /\ window' = [window EXCEPT ![k] = <<>>]
    /\ appended' = [appended EXCEPT ![k] = <<>>]
    /\ ReleaseWindow(k)
    /\ UNCHANGED <<order, confirmed, pending, sid, sessions, incarnation, irregular,
                   blurred, failed, made, faults, upheavals>>

\* The turn is interrupted: only its user message was persisted.
InterruptTurn(k) ==
    /\ window[k] # <<>>
    /\ faults < MaxFaults
    /\ window' = [window EXCEPT ![k] = <<>>]
    /\ appended' = [appended EXCEPT ![k] = <<>>]
    /\ ReleaseWindow(k)
    /\ faults' = faults + 1
    /\ UNCHANGED <<order, confirmed, pending, sid, sessions, history, incarnation,
                   irregular, blurred, failed, made, upheavals>>

\* AgentLoop._save_turn drops one of the turn's messages.
EndTurnDropping(k) ==
    /\ window[k] # <<>>
    /\ faults < MaxFaults
    /\ \E i \in DOMAIN appended[k] :
        history' = [history EXCEPT ![k] = @ \o RemoveAt(appended[k], i)]
    /\ window' = [window EXCEPT ![k] = <<>>]
    /\ appended' = [appended EXCEPT ![k] = <<>>]
    /\ ReleaseWindow(k)
    /\ faults' = faults + 1
    /\ UNCHANGED <<order, confirmed, pending, sid, sessions, incarnation, irregular,
                   blurred, failed, made, upheavals>>

\* /new clears the conversation under the same key.
NewCommand(k) ==
    /\ window[k] = <<>>
    /\ history[k] # <<>>
    /\ upheavals < MaxUpheavals
    /\ history' = [history EXCEPT ![k] = <<>>]
    /\ incarnation' = [incarnation EXCEPT ![k] = @ + 1]
    /\ upheavals' = upheavals + 1
    /\ UNCHANGED <<archiver, sessions, window, appended, irregular, blurred, failed, made, faults>>

\* In-place compaction replaces the history by a summary, stored as a user message.
Compact(k) ==
    /\ window[k] = <<>>
    /\ history[k] # <<>>
    /\ made < MaxMessages
    /\ upheavals < MaxUpheavals
    /\ history' = [history EXCEPT ![k] = <<User(k, made + 1)>>]
    /\ made' = made + 1
    /\ irregular' = [irregular EXCEPT ![k] = TRUE]
    /\ upheavals' = upheavals + 1
    /\ UNCHANGED <<archiver, sessions, window, appended, incarnation, blurred, failed, faults>>

\* The process dies with every turn in flight; the database and nanobot's
\* persisted history survive.
Restart ==
    /\ faults < MaxFaults
    /\ order' = <<>>
    /\ confirmed' = [k \in Keys |-> <<>>]
    /\ pending' = [k \in Keys |-> <<>>]
    /\ sid' = [k \in Keys |-> NoSession]
    /\ lastPass' = <<>>
    /\ window' = [k \in Keys |-> <<>>]
    /\ appended' = [k \in Keys |-> <<>>]
    /\ faults' = faults + 1
    /\ UNCHANGED <<sessions, history, incarnation, irregular, blurred, failed, made, upheavals>>

Init ==
    /\ order = <<>>
    /\ confirmed = [k \in Keys |-> <<>>]
    /\ pending = [k \in Keys |-> <<>>]
    /\ sid = [k \in Keys |-> NoSession]
    /\ lastPass = <<>>
    /\ sessions = <<>>
    /\ history = [k \in Keys |-> <<>>]
    /\ window = [k \in Keys |-> <<>>]
    /\ appended = [k \in Keys |-> <<>>]
    /\ incarnation = [k \in Keys |-> 0]
    /\ irregular = [k \in Keys |-> FALSE]
    /\ blurred = [k \in Keys |-> FALSE]
    /\ failed = [k \in Keys |-> 0]
    /\ made = 0 /\ faults = 0 /\ upheavals = 0

Next ==
    \/ \E k \in Keys :
        \/ StartTurn(k) \/ StartTurnFollowed(k)
        \/ AppendReply(k) \/ AppendFollowUp(k) \/ PassAgain(k)
        \/ EndTurn(k) \/ InterruptTurn(k) \/ EndTurnDropping(k)
        \/ NewCommand(k) \/ Compact(k)
    \/ Restart

Spec == Init /\ [][Next]_vars

-----------------------------------------------------------------------------
(* What the archiver must do.                                              *)

Promise == INSTANCE SessionLedger WITH
    Lists <- {},
    owner <- [s \in DOMAIN sessions |-> sessions[s].key],
    ended <- {s \in DOMAIN sessions : sessions[s].ended},
    mapped <- sid

\* The archiver keeps its sessions as the ledger promises: a key leaves a
\* session only by ending it, and never has two open (archiver.py
\* `_end_session`, `_start_session`).
KeepsLedger == Promise!Spec

TypeOK ==
    /\ ToSet(order) \subseteq Keys /\ Len(order) <= Cap
    /\ \A k \in Keys :
        /\ \A i \in DOMAIN confirmed[k] : confirmed[k][i][1] \in {"user", "assistant", "tool"}
        /\ \A i \in DOMAIN pending[k] : pending[k][i].role \in {"user", "assistant", "tool"}
        /\ sid[k] \in {NoSession} \cup DOMAIN sessions
        /\ Len(appended[k]) <= Len(window[k])
    /\ lastPass = <<>> \/ lastPass[1] \in Keys
    /\ \A s \in DOMAIN sessions :
        sessions[s].key \in Keys /\ sessions[s].ended \in BOOLEAN

StoredIn(s) == UNION {sessions[s].rows[i].srcs : i \in DOMAIN sessions[s].rows}
StoredFor(k) == UNION {StoredIn(s) : s \in {t \in DOMAIN sessions : sessions[t].key = k}}

\* Whatever a completed pass was shown is in the transcript: rewriting, sliding,
\* follow-ups drained within a turn, /new, restarts, a failed pass or a dropped
\* message never swallow one (archiver.py `_align`: "versus swallowing a real
\* message").  Excused is a conversation with a call that left its window
\* unarchived, unless that is the only fault and nothing irregular came with it:
\* the pending run may then consume a message by its role alone.  Excused too is
\* a blurred one.
NothingLost ==
    \A k \in Keys :
        /\ window[k] # <<>> /\ lastPass = <<k, Len(window[k])>> /\ ~blurred[k]
        /\ failed[k] = 0 \/ (faults = 1 /\ ~irregular[k])
        => \A i \in DOMAIN window[k] : window[k][i].srcs \subseteq StoredFor(k)

\* /new separates: no session holds messages from both sides of it.  Excused is a
\* blurred conversation: where nanobot does not stamp, a /new that repeats an old
\* text continues the old session (archiver.py: "*Residual, version-dependent:*").
OneConversationPerSession ==
    \A s \in DOMAIN sessions :
        ~blurred[sessions[s].key] => \A m, n \in StoredIn(s) : m.era = n.era

\* Without a fault no message is stored twice in one session, whatever slides,
\* repeats or starts over, where nothing irregular or blurred happened: a window
\* of the last turn's follow-ups alone meets that turn's pending run out of step.
StoredOnce ==
    \A s \in DOMAIN sessions :
        faults = 0 /\ ~irregular[sessions[s].key] /\ ~blurred[sessions[s].key] =>
            \A i, j \in DOMAIN sessions[s].rows :
                i # j => sessions[s].rows[i].srcs \cap sessions[s].rows[j].srcs = {}

\* What the comment in `_align` says of iteration 0 ("The final entry of a window
\* is always freshly appended -- the live current message on an iteration-0
\* pass") would give: without a failed call no message shown is ever swallowed.
NoneSwallowed ==
    \A k \in Keys :
        window[k] # <<>> /\ lastPass = <<k, Len(window[k])>> /\ failed[k] = 0
        => \A i \in DOMAIN window[k] : window[k][i].srcs \subseteq StoredFor(k)

\* An ended session is never written again.
EndedStaysClosed ==
    [][\A s \in DOMAIN sessions : sessions[s].ended => sessions'[s] = sessions[s]]_vars

\* A turn whose window starts with an earlier message continues the open session,
\* wherever the window has slid (archiver.py: "`overlap == 0` against a non-empty
\* list *is* the new-conversation signal"), unless it is blurred.  After /new, and
\* after a compaction whose summary is merged into it, it starts with its own.
TurnContinues ==
    [][\A k \in Keys :
        /\ faults' = 0 /\ ~blurred'[k]
        /\ window[k] = <<>> /\ Len(window'[k]) > 1 /\ sid[k] # NoSession
        => sid'[k] = sid[k]]_vars
=============================================================================
