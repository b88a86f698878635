----------------------------- MODULE Injections -----------------------------
(***************************************************************************)
(* What a conversation is shown of what was learned, and what comes back:  *)
(* reflections of its own session, reflections of other sessions (global   *)
(* scope) and principles go in; view counts at the end of an iteration and *)
(* utility and principle credit at the session's boundary come out         *)
(* (coordinator/reflection.py as hook.py drives it).                       *)
(*                                                                         *)
(* An action is the code between two awaits.  A chat waits for the         *)
(* embedding of its task (recalling), for the model and its tools          *)
(* (answering), and for its next iteration (between).  Meanwhile other     *)
(* chats run, and 32 of them push a conversation's state out of the LRU.   *)
(***************************************************************************)
EXTENDS Integers, Sequences, FiniteSets

CONSTANTS Chats, Principles, RecentLimit, MaxReflections, MaxSessions

ASSUME InjectionsAssumption ==
  /\ RecentLimit \in Nat \ {0} /\ MaxReflections \in Nat
  /\ MaxSessions \in Nat
  /\ Principles \cap (1 .. MaxReflections) = {}

VARIABLES
  reflections, \* the session of each row of reflections, by id
  vectors,     \* ids with a row in reflections_vec
  conv,        \* _conversations: what each one's state holds, or Absent
  watermark,   \* _last_injected_reflection_id
  session,     \* the session each chat last synced in this process, or 0
  known,       \* the chats whose last session the session coordinator remembers
  latest,      \* the newest session
  run,         \* where each chat's run stands
  shown,       \* history: what the chat was shown, in this iteration and in this session
  counted,     \* history: what its last finished iteration counted as viewed
  credit,      \* history: what its last decided boundary credited, and should have
  evicted      \* history: its state was lost, in this iteration and in this session

injectionVars ==
  <<reflections, vectors, conv, watermark, session, known, latest, run, shown, counted, credit, evicted>>

Reflections == 1 .. Len(reflections)
Fresh == [there |-> TRUE, seen |-> {}, rules |-> {}, now |-> {}]
Absent == [Fresh EXCEPT !.there = FALSE]
NoCredit == [given |-> {}, due |-> {}, whole |-> TRUE]

\* _conv: a missing state is created.
Conv(k) == [conv[k] EXCEPT !.there = TRUE]

InjectionsInit ==
  /\ reflections = <<>> /\ vectors = {}
  /\ conv = [k \in Chats |-> Absent]
  /\ session = [k \in Chats |-> 0] /\ known = {} /\ latest = 0
  /\ watermark = [s \in 1 .. MaxSessions |-> 0]
  /\ run = [k \in Chats |-> "idle"]
  /\ shown = [k \in Chats |-> [now |-> {}, session |-> {}]]
  /\ counted = [k \in Chats |-> {}]
  /\ credit = [k \in Chats |-> NoCredit]
  /\ evicted = [k \in Chats |-> [now |-> FALSE, session |-> FALSE]]

-----------------------------------------------------------------------------
(* A boundary, as _sync_session runs it for this part of the state.        *)

\* What the sync finds: the same session, or another one, and then the label of
\* the one left.  A boundary is noticed when the coordinator remembers the chat.
Syncs == {"same", "ok", "fail", "neutral"}
Crosses(sync) == sync # "same"
Noticed(k, sync) == Crosses(sync) /\ k \in known

\* A plausible slip: the injected sets live on into the next session.
StillHeld(st) == st

\* attribute_principles and on_new_session empty what the session was shown.
Drained(st) == [st EXCEPT !.seen = {}, !.rules = {}]

\* back_propagate_utility, attribute_principles, on_new_session, in st.
AfterSync(k, st, sync) == IF Noticed(k, sync) THEN Drained(st) ELSE st

SyncedTo(k, sync) == IF Crosses(sync) THEN latest + 1 ELSE session[k]

\* What the boundary leaves outside the chat's own state.  A neutral label
\* moves neither utility nor principle counters.
Credited(k, st, sync) ==
  /\ Crosses(sync) => latest < MaxSessions
  /\ session[k] = 0 => Crosses(sync)
  /\ session' = [session EXCEPT ![k] = SyncedTo(k, sync)]
  /\ known' = known \cup {k}
  /\ latest' = IF Crosses(sync) THEN latest + 1 ELSE latest
  /\ credit' = [credit EXCEPT ![k] =
       IF Noticed(k, sync) /\ sync # "neutral"
       THEN [given |-> st.seen \cup st.rules, due |-> shown[k].session, whole |-> ~evicted[k].session]
       ELSE NoCredit]

\* The session whose watermark a boundary of k prunes.
PrunedMark(k, sync, mark) == IF Noticed(k, sync) THEN [mark EXCEPT ![session[k]] = 0] ELSE mark

ShownIn(k, sync, S) ==
  [now |-> S, session |-> IF Noticed(k, sync) THEN S ELSE shown[k].session \cup S]

-----------------------------------------------------------------------------
(* before_iteration                                                        *)

\* Reflections of session s past its watermark.
News(s, mark) == {r \in Reflections : reflections[r] = s /\ r > mark[s]}

\* get_session_injections: the newest RecentLimit of them.
Newest(S) == {r \in S : Cardinality({q \in S : q > r}) < RecentLimit}
Highest(S) == CHOOSE r \in S : \A q \in S : q <= r

Delivered(s, mark) == IF News(s, mark) = {} THEN mark ELSE [mark EXCEPT ![s] = Highest(News(s, mark))]

Showing(st, S) == [st EXCEPT !.seen = @ \cup S, !.now = @ \cup S]

\* A plausible slip: the log of an iteration that crashed is kept.
LogKept(st) == st

\* reset_iteration_citations
LogDropped(st) == [st EXCEPT !.now = {}]

\* Iteration 0, up to its embedding: sync, rewind_injections, the principles
\* that match the task.
BeginRun(k, sync, P) ==
  /\ run[k] = "idle" /\ P \subseteq Principles
  /\ Credited(k, LogDropped(Conv(k)), sync)
  /\ conv' = [conv EXCEPT ![k] = [AfterSync(k, LogDropped(Conv(k)), sync) EXCEPT !.rules = @ \cup P]]
  /\ watermark' = [PrunedMark(k, sync, watermark) EXCEPT ![SyncedTo(k, sync)] = 0]
  /\ shown' = [shown EXCEPT ![k] = [ShownIn(k, sync, P) EXCEPT !.now = {}]]
  /\ evicted' = [evicted EXCEPT ![k] = [now |-> FALSE, session |-> @.session /\ ~Noticed(k, sync)]]
  /\ run' = [run EXCEPT ![k] = "recalling"]
  /\ UNCHANGED <<reflections, vectors, counted>>

\* The embedding arrived (or G is empty): similar reflections of other sessions,
\* into the state taken before the wait; then this session's, into the current.
Recall(k, G) ==
  /\ run[k] = "recalling"
  /\ G \subseteq {r \in vectors : reflections[r] # session[k]} /\ Cardinality(G) <= RecentLimit
  /\ LET new == Newest(News(session[k], watermark)) IN
       /\ conv' = [conv EXCEPT ![k] = IF conv[k].there THEN Showing(conv[k], G \cup new)
                                      ELSE Showing(Fresh, new)]
       /\ shown' = [shown EXCEPT ![k] = [now |-> G \cup new, session |-> @.session \cup G \cup new]]
  /\ watermark' = Delivered(session[k], watermark)
  /\ run' = [run EXCEPT ![k] = "answering"]
  /\ UNCHANGED <<reflections, vectors, session, known, latest, counted, credit, evicted>>

\* A later iteration: what was written since the last one.
BeginIteration(k, sync) ==
  /\ run[k] = "between"
  /\ Credited(k, LogDropped(Conv(k)), sync)
  /\ LET mark == PrunedMark(k, sync, watermark)
         new == Newest(News(SyncedTo(k, sync), mark)) IN
       /\ conv' = [conv EXCEPT ![k] = Showing(AfterSync(k, LogDropped(Conv(k)), sync), new)]
       /\ watermark' = Delivered(SyncedTo(k, sync), mark)
       /\ shown' = [shown EXCEPT ![k] = ShownIn(k, sync, new)]
  /\ evicted' = [evicted EXCEPT ![k] = [now |-> FALSE, session |-> @.session /\ ~Noticed(k, sync)]]
  /\ counted' = [counted EXCEPT ![k] = {}]
  /\ run' = [run EXCEPT ![k] = "answering"]
  /\ UNCHANGED <<reflections, vectors>>

-----------------------------------------------------------------------------
(* While the model answers, and after.                                     *)

\* reflect(); in global scope its embedding follows in the background.
Reflect(k) ==
  /\ run[k] = "answering" /\ k \in known /\ Len(reflections) < MaxReflections
  /\ reflections' = Append(reflections, session[k])
  /\ UNCHANGED <<vectors, conv, watermark, session, known, latest, run, shown, counted, credit, evicted>>

EmbedReflection(r) ==
  /\ r \in Reflections \ vectors
  /\ vectors' = vectors \cup {r}
  /\ UNCHANGED <<reflections, conv, watermark, session, known, latest, run, shown, counted, credit, evicted>>

\* after_iteration: sync, then record_iteration_citations.
EndIteration(k, sync) ==
  /\ run[k] = "answering"
  /\ Credited(k, Conv(k), sync)
  /\ conv' = [conv EXCEPT ![k] = [AfterSync(k, Conv(k), sync) EXCEPT !.now = {}]]
  /\ counted' = [counted EXCEPT ![k] = Conv(k).now]
  /\ watermark' = PrunedMark(k, sync, watermark)
  /\ shown' = [shown EXCEPT ![k].session = IF Noticed(k, sync) THEN {} ELSE @]
  /\ evicted' = [evicted EXCEPT ![k].session = @ /\ ~Noticed(k, sync)]
  /\ run' = [run EXCEPT ![k] = "between"]
  /\ UNCHANGED <<reflections, vectors>>

\* The run is over, cancelled or failed; in the latter cases after_iteration is skipped.
EndRun(k) ==
  /\ run[k] # "idle"
  /\ run' = [run EXCEPT ![k] = "idle"]
  /\ shown' = [shown EXCEPT ![k].now = {}]
  /\ counted' = [counted EXCEPT ![k] = {}]
  /\ evicted' = [evicted EXCEPT ![k].now = FALSE]
  /\ UNCHANGED <<reflections, vectors, conv, watermark, session, known, latest, credit>>

\* touch: other conversations were more recent.
Evict(k) ==
  /\ conv[k].there
  /\ conv' = [conv EXCEPT ![k] = Absent]
  /\ evicted' = [evicted EXCEPT ![k] = [now |-> run[k] # "idle", session |-> TRUE]]
  /\ UNCHANGED <<reflections, vectors, watermark, session, known, latest, run, shown, counted, credit>>

\* The session coordinator's own LRU, and its own recency.
Unlearn(k) ==
  /\ k \in known /\ known' = known \ {k}
  /\ UNCHANGED <<reflections, vectors, conv, watermark, session, latest, run, shown, counted, credit, evicted>>

RestartInjections ==
  /\ conv' = [k \in Chats |-> Absent]
  /\ session' = [k \in Chats |-> 0] /\ known' = {}
  /\ watermark' = [s \in 1 .. MaxSessions |-> 0]
  /\ run' = [k \in Chats |-> "idle"]
  /\ evicted' = [k \in Chats |-> [now |-> FALSE, session |-> TRUE]]
  /\ shown' = [k \in Chats |-> [shown[k] EXCEPT !.now = {}]]
  /\ counted' = [k \in Chats |-> {}]
  /\ UNCHANGED <<reflections, vectors, latest, credit>>

InjectionsNext ==
  \/ \E k \in Chats :
       \/ \E sync \in Syncs : BeginIteration(k, sync) \/ EndIteration(k, sync)
                              \/ \E P \in SUBSET Principles : BeginRun(k, sync, P)
       \/ \E G \in SUBSET vectors : Recall(k, G)
       \/ Reflect(k) \/ EndRun(k) \/ Evict(k) \/ Unlearn(k)
  \/ \E r \in Reflections : EmbedReflection(r)
  \/ RestartInjections

-----------------------------------------------------------------------------
\* Rows, states and watermarks have their types; no watermark is ahead of the rows.
InjectionsTypeOK ==
  /\ reflections \in Seq(1 .. latest) /\ Len(reflections) <= MaxReflections
  /\ vectors \subseteq Reflections
  /\ conv \in [Chats -> [there : BOOLEAN, seen : SUBSET Reflections,
                         rules : SUBSET Principles, now : SUBSET Reflections]]
  /\ watermark \in [1 .. MaxSessions -> 0 .. Len(reflections)]
  /\ session \in [Chats -> 0 .. latest] /\ known \subseteq Chats /\ latest <= MaxSessions
  /\ run \in [Chats -> {"idle", "recalling", "answering", "between"}]
  /\ counted \in [Chats -> SUBSET Reflections]

\* record_iteration_citations: an iteration the model finished counts as viewed
\* exactly what this chat was shown in it.  Other chats' iterations in between, a
\* boundary in the middle of a run and an iteration that crashed before do not add
\* to it; only the eviction of the chat's state takes away.
CountedAsShown ==
  \A k \in Chats : run[k] = "between" =>
    /\ counted[k] \subseteq shown[k].now
    /\ ~evicted[k].now => counted[k] = shown[k].now

\* back_propagate_utility, attribute_principles: the outcome of a session is
\* credited to what was shown since the last boundary the chat was seen to cross,
\* to all of it unless the chat's state was evicted, and to nothing twice.
CreditedAsShown ==
  \A k \in Chats :
    /\ credit[k].given \subseteq credit[k].due
    /\ credit[k].whole => credit[k].given = credit[k].due

InjectionsSpec == InjectionsInit /\ [][InjectionsNext]_injectionVars
=============================================================================
