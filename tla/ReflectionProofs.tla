--------------------------- MODULE ReflectionProofs ---------------------------
(***************************************************************************)
(* What is counted and credited to a conversation is what it was shown,    *)
(* and a chat is reminded when it is due: for any number of conversations, *)
(* reflections, principles and sessions, every threshold and interval.     *)
(***************************************************************************)
EXTENDS Reflection, SequenceTheorems, WellFoundedInduction, TLAPS

(* What conversations are shown and credited.                               *)

Item == Int \cup Principles
State == [there : BOOLEAN, seen : SUBSET Int, rules : SUBSET Principles, now : SUBSET Int]
Seen == [now : SUBSET Item, session : SUBSET Item]
Losses == [now : BOOLEAN, session : BOOLEAN]
Credits == [given : SUBSET Item, due : SUBSET Item, whole : BOOLEAN]
Places == {"idle", "recalling", "answering", "between"}

Typed ==
  /\ conv \in [Chats -> State] /\ shown \in [Chats -> Seen] /\ evicted \in [Chats -> Losses]
  /\ run \in [Chats -> Places] /\ counted \in [Chats -> SUBSET Int]
  /\ credit \in [Chats -> Credits] /\ vectors \subseteq Int

\* A conversation's state holds what it was shown in this session and, while the
\* model answers, in this iteration; all of it unless the state was lost.  A run
\* that waits for its embedding finds its own state or knows that it is gone.
Held(st, sh, ev, at) ==
  /\ st.seen \cup st.rules \subseteq sh.session
  /\ ~ev.session => sh.session \subseteq st.seen \cup st.rules
  /\ at = "recalling" => st.now = {}
  /\ at = "recalling" /\ ~st.there => ev.now /\ ev.session
  /\ at = "answering" => st.now \subseteq sh.now
  /\ at = "answering" /\ ~ev.now => st.now = sh.now

WellCounted(sh, ev, at, n) ==
  at = "between" => n \subseteq sh.now /\ (~ev.now => n = sh.now)

WellCredited(cr) == cr.given \subseteq cr.due /\ (cr.whole => cr.given = cr.due)

ChatOK(k) ==
  /\ Held(conv[k], shown[k], evicted[k], run[k])
  /\ WellCounted(shown[k], evicted[k], run[k], counted[k])
  /\ WellCredited(credit[k])

\* The inductive invariant.
InjectionsInv == Typed /\ \A k \in Chats : ChatOK(k)

-----------------------------------------------------------------------------
\* A step of one chat: the others' states stay, and its own is in order after it.
LEMMA OneChat ==
    ASSUME InjectionsInv, NEW k \in Chats,
           NEW st \in State, NEW sh \in Seen, NEW ev \in Losses, NEW at \in Places,
           NEW n \in SUBSET Int, NEW cr \in Credits,
           conv' = [conv EXCEPT ![k] = st], shown' = [shown EXCEPT ![k] = sh],
           evicted' = [evicted EXCEPT ![k] = ev], run' = [run EXCEPT ![k] = at],
           counted' = [counted EXCEPT ![k] = n], credit' = [credit EXCEPT ![k] = cr],
           vectors' = vectors,
           Held(st, sh, ev, at), WellCounted(sh, ev, at, n), WellCredited(cr)
    PROVE  InjectionsInv'
<1>1. Typed'
  BY DEF InjectionsInv, Typed
<1>2. ASSUME NEW j \in Chats PROVE ChatOK(j)'
  <2>1. CASE j = k
    <3>1. /\ conv'[j] = st /\ shown'[j] = sh /\ evicted'[j] = ev /\ run'[j] = at
          /\ counted'[j] = n /\ credit'[j] = cr
      BY <2>1 DEF InjectionsInv, Typed
    <3>. QED BY <3>1 DEF ChatOK
  <2>2. CASE j # k
    <3>1. /\ conv'[j] = conv[j] /\ shown'[j] = shown[j] /\ evicted'[j] = evicted[j]
          /\ run'[j] = run[j] /\ counted'[j] = counted[j] /\ credit'[j] = credit[j]
      BY <2>2 DEF InjectionsInv, Typed
    <3>. QED BY <3>1 DEF InjectionsInv, ChatOK
  <2>. QED BY <2>1, <2>2
<1>. QED BY <1>1, <1>2 DEF InjectionsInv

LEMMA ChatTyped ==
    ASSUME InjectionsInv, NEW k \in Chats
    PROVE  /\ conv[k] \in State /\ shown[k] \in Seen /\ evicted[k] \in Losses
           /\ run[k] \in Places /\ counted[k] \in SUBSET Int /\ credit[k] \in Credits
           /\ Held(conv[k], shown[k], evicted[k], run[k])
           /\ WellCounted(shown[k], evicted[k], run[k], counted[k]) /\ WellCredited(credit[k])
BY DEF InjectionsInv, Typed, ChatOK

\* A variable that a step leaves alone is one whose k-th value is put back.
LEMMA Unchanged ==
    ASSUME InjectionsInv, NEW k \in Chats
    PROVE  /\ conv = [conv EXCEPT ![k] = conv[k]] /\ shown = [shown EXCEPT ![k] = shown[k]]
           /\ evicted = [evicted EXCEPT ![k] = evicted[k]] /\ run = [run EXCEPT ![k] = run[k]]
           /\ counted = [counted EXCEPT ![k] = counted[k]]
           /\ credit = [credit EXCEPT ![k] = credit[k]]
BY DEF InjectionsInv, Typed

LEMMA AbsentIs ==
  /\ Absent \in State /\ ~Absent.there
  /\ Absent.seen = {} /\ Absent.rules = {} /\ Absent.now = {}
BY DEF Absent, Fresh, State

LEMMA InitialInjections == InjectionsInit => InjectionsInv
<1> SUFFICES ASSUME InjectionsInit PROVE InjectionsInv
  OBVIOUS
<1>1. Absent \in State /\ ~Absent.there /\ Absent.seen = {} /\ Absent.rules = {} /\ Absent.now = {}
  BY AbsentIs
<1>2. Typed
  BY <1>1 DEF InjectionsInit, Typed, State, Seen, Losses, Credits, Places, NoCredit, Item
<1>3. ASSUME NEW k \in Chats PROVE ChatOK(k)
  BY <1>1 DEF InjectionsInit, ChatOK, Held, WellCounted, WellCredited, NoCredit
<1>. QED BY <1>2, <1>3 DEF InjectionsInv

-----------------------------------------------------------------------------
(* A boundary.                                                             *)

\* What is shown in a session after a boundary that came with S is what the state
\* then holds of it.
LEMMA Synced ==
    ASSUME NEW k \in Chats, NEW sync \in Syncs, NEW st \in State, shown[k] \in Seen,
           st.seen \cup st.rules \subseteq shown[k].session,
           ~evicted[k].session => shown[k].session \subseteq st.seen \cup st.rules,
           evicted[k] \in Losses
    PROVE  LET a == AfterSync(k, st, sync)
               before == IF Noticed(k, sync) THEN {} ELSE shown[k].session IN
           /\ a \in State /\ a.now = st.now /\ a.there = st.there
           /\ a.seen \cup a.rules \subseteq before /\ before \in SUBSET Item
           /\ ~(evicted[k].session /\ ~Noticed(k, sync)) => before \subseteq a.seen \cup a.rules
<1>1. CASE Noticed(k, sync)
  BY <1>1 DEF AfterSync, Drained, State
<1>2. CASE ~Noticed(k, sync)
  BY <1>2 DEF AfterSync, Seen
<1>. QED BY <1>1, <1>2

\* What the label is credited to.
LEMMA CreditStep ==
    ASSUME InjectionsInv, NEW k \in Chats, NEW sync \in Syncs, NEW st \in State,
           st.seen = conv[k].seen, st.rules = conv[k].rules, Credited(k, st, sync)
    PROVE  \E cr \in Credits : credit' = [credit EXCEPT ![k] = cr] /\ WellCredited(cr)
<1>1. shown[k] \in Seen /\ evicted[k] \in Losses /\ Held(conv[k], shown[k], evicted[k], run[k])
  BY ChatTyped
<1> DEFINE cr == IF Noticed(k, sync) /\ sync # "neutral"
                 THEN [given |-> st.seen \cup st.rules, due |-> shown[k].session,
                       whole |-> ~evicted[k].session]
                 ELSE NoCredit
<1>2. credit' = [credit EXCEPT ![k] = cr]
  BY DEF Credited
<1>3. CASE Noticed(k, sync) /\ sync # "neutral"
  <2> DEFINE c == [given |-> st.seen \cup st.rules, due |-> shown[k].session,
                   whole |-> ~evicted[k].session]
  <2>1. cr = c
    BY <1>3
  <2>2. c \in Credits
    BY <1>1 DEF Credits, State, Seen, Losses, Item
  <2>3. st.seen \cup st.rules \subseteq shown[k].session
    BY <1>1 DEF Held
  <2>4. ~evicted[k].session => shown[k].session \subseteq st.seen \cup st.rules
    BY <1>1 DEF Held
  <2>5. WellCredited(c)
    BY <2>3, <2>4 DEF WellCredited
  <2>. QED BY <1>2, <2>1, <2>2, <2>5
<1>4. CASE ~(Noticed(k, sync) /\ sync # "neutral")
  <2>1. NoCredit \in Credits /\ WellCredited(NoCredit)
    BY DEF NoCredit, Credits, WellCredited
  <2>. QED BY <1>2, <1>4, <2>1
<1>. QED BY <1>3, <1>4

-----------------------------------------------------------------------------
(* One lemma for each action of a chat.                                    *)

\* The state an iteration starts from: the log of one that crashed is dropped.
LEMMA Dropped ==
    ASSUME InjectionsInv, NEW k \in Chats
    PROVE  /\ Conv(k) \in State /\ Conv(k).there /\ Conv(k).now = conv[k].now
           /\ Conv(k).seen = conv[k].seen /\ Conv(k).rules = conv[k].rules
           /\ LogDropped(Conv(k)) \in State /\ LogDropped(Conv(k)).there
           /\ LogDropped(Conv(k)).now = {} /\ LogDropped(Conv(k)).seen = conv[k].seen
           /\ LogDropped(Conv(k)).rules = conv[k].rules
<1>1. conv[k] \in State
  BY ChatTyped
<1>. QED BY <1>1 DEF Conv, LogDropped, State

LEMMA BeginRunKept ==
    ASSUME InjectionsInv, NEW k \in Chats, NEW sync \in Syncs, NEW P \in SUBSET Principles,
           BeginRun(k, sync, P)
    PROVE  InjectionsInv'
<1> DEFINE st == LogDropped(Conv(k))
           a == AfterSync(k, st, sync)
           before == IF Noticed(k, sync) THEN {} ELSE shown[k].session
           b == [a EXCEPT !.rules = @ \cup P]
           sh == [ShownIn(k, sync, P) EXCEPT !.now = {}]
           ev == [now |-> FALSE, session |-> evicted[k].session /\ ~Noticed(k, sync)]
<1>1. /\ conv[k] \in State /\ shown[k] \in Seen /\ evicted[k] \in Losses /\ counted[k] \in SUBSET Int
      /\ Held(conv[k], shown[k], evicted[k], run[k])
  BY ChatTyped
<1>2. /\ st \in State /\ st.there /\ st.now = {} /\ st.seen = conv[k].seen
      /\ st.rules = conv[k].rules
  BY Dropped
<1>3. /\ conv' = [conv EXCEPT ![k] = b] /\ shown' = [shown EXCEPT ![k] = sh]
      /\ run' = [run EXCEPT ![k] = "recalling"] /\ counted' = counted /\ vectors' = vectors
      /\ Credited(k, st, sync)
  BY DEF BeginRun
<1>4. evicted' = [evicted EXCEPT ![k] = ev]
  BY DEF BeginRun, InjectionsInv, Typed
<1>5. PICK cr \in Credits : credit' = [credit EXCEPT ![k] = cr] /\ WellCredited(cr)
  <2> HIDE DEF st
  <2>. QED BY <1>2, <1>3, CreditStep
<1>6. /\ a \in State /\ a.now = {} /\ a.there /\ a.seen \cup a.rules \subseteq before
      /\ before \in SUBSET Item
      /\ ~(evicted[k].session /\ ~Noticed(k, sync)) => before \subseteq a.seen \cup a.rules
  <2>1. /\ st.seen \cup st.rules \subseteq shown[k].session
        /\ ~evicted[k].session => shown[k].session \subseteq st.seen \cup st.rules
    BY <1>1, <1>2 DEF Held
  <2> HIDE DEF st
  <2>. QED BY <1>1, <1>2, <2>1, Synced
<1>7. sh \in Seen /\ sh.now = {} /\ sh.session = before \cup P
  BY <1>6 DEF ShownIn, Seen, Item
<1>8. /\ b \in State /\ b.now = {} /\ b.there /\ b.seen = a.seen /\ b.rules = a.rules \cup P
  <2> HIDE DEF a
  <2>. QED BY <1>6 DEF State
<1>9. ev \in Losses /\ ev.session = (evicted[k].session /\ ~Noticed(k, sync)) /\ ev.now = FALSE
  BY <1>1 DEF Losses
<1> HIDE DEF a, b, sh, ev, before, st
<1>10. Held(b, sh, ev, "recalling")
  BY <1>6, <1>7, <1>8, <1>9 DEF Held
<1>11. WellCounted(sh, ev, "recalling", counted[k]) /\ "recalling" \in Places
  BY DEF WellCounted, Places
<1>12. counted' = [counted EXCEPT ![k] = counted[k]]
  BY <1>3, Unchanged
<1>. QED BY <1>1, <1>3, <1>4, <1>5, <1>7, <1>8, <1>9, <1>10, <1>11, <1>12, OneChat

LEMMA NewsAreItems == \A s, mark : Newest(News(s, mark)) \subseteq Int
BY DEF Newest, News, Reflections

\* A step that only shows: nothing is counted or credited in it.
LEMMA OneChatAnswers ==
    ASSUME InjectionsInv, NEW k \in Chats, NEW st \in State, NEW sh \in Seen,
           conv' = [conv EXCEPT ![k] = st], shown' = [shown EXCEPT ![k] = sh],
           evicted' = evicted, run' = [run EXCEPT ![k] = "answering"], counted' = counted,
           credit' = credit, vectors' = vectors, Held(st, sh, evicted[k], "answering")
    PROVE  InjectionsInv'
<1>1. /\ evicted[k] \in Losses /\ counted[k] \in SUBSET Int /\ credit[k] \in Credits
      /\ WellCredited(credit[k])
  BY ChatTyped
<1>2. /\ evicted' = [evicted EXCEPT ![k] = evicted[k]] /\ counted' = [counted EXCEPT ![k] = counted[k]]
      /\ credit' = [credit EXCEPT ![k] = credit[k]]
  BY Unchanged
<1>3. WellCounted(sh, evicted[k], "answering", counted[k]) /\ "answering" \in Places
  BY DEF WellCounted, Places
<1>. QED BY <1>1, <1>2, <1>3, OneChat

LEMMA RecallKept ==
    ASSUME InjectionsInv, NEW k \in Chats, NEW G \in SUBSET vectors, Recall(k, G)
    PROVE  InjectionsInv'
<1> DEFINE new == Newest(News(session[k], watermark))
           b == IF conv[k].there THEN Showing(conv[k], G \cup new) ELSE Showing(Fresh, new)
           sh == [now |-> G \cup new, session |-> shown[k].session \cup G \cup new]
<1>1. /\ conv[k] \in State /\ shown[k] \in Seen /\ evicted[k] \in Losses /\ counted[k] \in SUBSET Int
      /\ credit[k] \in Credits /\ WellCredited(credit[k]) /\ run[k] = "recalling"
      /\ Held(conv[k], shown[k], evicted[k], "recalling")
  BY ChatTyped DEF Recall
<1>2. new \subseteq Int /\ G \subseteq Int
  BY NewsAreItems DEF InjectionsInv, Typed
<1>3. /\ conv' = [conv EXCEPT ![k] = b] /\ run' = [run EXCEPT ![k] = "answering"]
      /\ counted' = counted /\ vectors' = vectors /\ credit' = credit /\ evicted' = evicted
  BY DEF Recall
<1>4. shown' = [shown EXCEPT ![k] = sh]
  BY DEF Recall, InjectionsInv, Typed
<1> HIDE DEF new
<1>5. sh \in Seen /\ sh.now = G \cup new /\ sh.session = shown[k].session \cup G \cup new
  BY <1>1, <1>2 DEF Seen, Item
<1>6. CASE conv[k].there
  <2>1. /\ b \in State /\ b.now = conv[k].now \cup (G \cup new) /\ b.rules = conv[k].rules
        /\ b.seen = conv[k].seen \cup (G \cup new)
    BY <1>1, <1>2, <1>6 DEF Showing, State
  <2> HIDE DEF b, sh
  <2>2. Held(b, sh, evicted[k], "answering")
    BY <1>1, <1>5, <2>1 DEF Held
  <2>. QED BY <1>3, <1>4, <1>5, <2>1, <2>2, OneChatAnswers
<1>7. CASE ~conv[k].there
  <2>1. /\ b \in State /\ b.now = new /\ b.rules = {} /\ b.seen = new
    BY <1>1, <1>2, <1>7 DEF Showing, State, Fresh
  <2>2. evicted[k].now /\ evicted[k].session
    BY <1>1, <1>7 DEF Held
  <2> HIDE DEF b, sh
  <2>3. Held(b, sh, evicted[k], "answering")
    BY <1>5, <2>1, <2>2 DEF Held
  <2>. QED BY <1>3, <1>4, <1>5, <2>1, <2>3, OneChatAnswers
<1>. QED BY <1>6, <1>7

LEMMA BeginIterationKept ==
    ASSUME InjectionsInv, NEW k \in Chats, NEW sync \in Syncs, BeginIteration(k, sync)
    PROVE  InjectionsInv'
<1> DEFINE st == LogDropped(Conv(k))
           a == AfterSync(k, st, sync)
           before == IF Noticed(k, sync) THEN {} ELSE shown[k].session
           new == Newest(News(SyncedTo(k, sync), PrunedMark(k, sync, watermark)))
           b == Showing(a, new)
           sh == ShownIn(k, sync, new)
           ev == [now |-> FALSE, session |-> evicted[k].session /\ ~Noticed(k, sync)]
<1>1. /\ conv[k] \in State /\ shown[k] \in Seen /\ evicted[k] \in Losses
      /\ Held(conv[k], shown[k], evicted[k], run[k])
  BY ChatTyped
<1>2. /\ st \in State /\ st.there /\ st.now = {} /\ st.seen = conv[k].seen
      /\ st.rules = conv[k].rules
  BY Dropped
<1>3. /\ conv' = [conv EXCEPT ![k] = b] /\ shown' = [shown EXCEPT ![k] = sh]
      /\ run' = [run EXCEPT ![k] = "answering"] /\ counted' = [counted EXCEPT ![k] = {}]
      /\ vectors' = vectors /\ Credited(k, st, sync)
  BY DEF BeginIteration
<1>4. evicted' = [evicted EXCEPT ![k] = ev]
  BY DEF BeginIteration, InjectionsInv, Typed
<1>5. PICK cr \in Credits : credit' = [credit EXCEPT ![k] = cr] /\ WellCredited(cr)
  <2> HIDE DEF st
  <2>. QED BY <1>2, <1>3, CreditStep
<1>6. /\ a \in State /\ a.now = {} /\ a.seen \cup a.rules \subseteq before
      /\ before \in SUBSET Item
      /\ ~(evicted[k].session /\ ~Noticed(k, sync)) => before \subseteq a.seen \cup a.rules
  <2>1. /\ st.seen \cup st.rules \subseteq shown[k].session
        /\ ~evicted[k].session => shown[k].session \subseteq st.seen \cup st.rules
    BY <1>1, <1>2 DEF Held
  <2> HIDE DEF st
  <2>. QED BY <1>1, <1>2, <2>1, Synced
<1>7. new \subseteq Int
  BY NewsAreItems
<1> HIDE DEF new
<1>8. sh \in Seen /\ sh.now = new /\ sh.session = before \cup new
  BY <1>6, <1>7 DEF ShownIn, Seen, Item
<1>9. b \in State /\ b.now = new /\ b.seen = a.seen \cup new /\ b.rules = a.rules
  <2> HIDE DEF a
  <2>. QED BY <1>6, <1>7 DEF State, Showing
<1>10. ev \in Losses /\ ev.session = (evicted[k].session /\ ~Noticed(k, sync)) /\ ev.now = FALSE
  BY <1>1 DEF Losses
<1> HIDE DEF a, b, sh, ev, before, st
<1>11. Held(b, sh, ev, "answering")
  BY <1>6, <1>8, <1>9, <1>10 DEF Held
<1>12. WellCounted(sh, ev, "answering", {}) /\ "answering" \in Places /\ {} \in SUBSET Int
  BY DEF WellCounted, Places
<1>. QED BY <1>3, <1>4, <1>5, <1>8, <1>9, <1>10, <1>11, <1>12, OneChat

\* What was shown in this iteration is counted before the log is emptied; a boundary
\* that after_iteration meets drains the session's, not the iteration's.
LEMMA EndIterationKept ==
    ASSUME InjectionsInv, NEW k \in Chats, NEW sync \in Syncs, EndIteration(k, sync)
    PROVE  InjectionsInv'
<1> DEFINE st == Conv(k)
           a == AfterSync(k, st, sync)
           before == IF Noticed(k, sync) THEN {} ELSE shown[k].session
           b == [a EXCEPT !.now = {}]
           sh == [shown[k] EXCEPT !.session = before]
           ev == [evicted[k] EXCEPT !.session = @ /\ ~Noticed(k, sync)]
<1>1. /\ conv[k] \in State /\ shown[k] \in Seen /\ evicted[k] \in Losses /\ run[k] = "answering"
      /\ Held(conv[k], shown[k], evicted[k], "answering")
  BY ChatTyped DEF EndIteration
<1>2. /\ st \in State /\ st.now = conv[k].now /\ st.seen = conv[k].seen /\ st.rules = conv[k].rules
  BY Dropped
<1>3. /\ conv' = [conv EXCEPT ![k] = b] /\ counted' = [counted EXCEPT ![k] = st.now]
      /\ run' = [run EXCEPT ![k] = "between"] /\ vectors' = vectors /\ Credited(k, st, sync)
  BY DEF EndIteration
<1>4. evicted' = [evicted EXCEPT ![k] = ev] /\ shown' = [shown EXCEPT ![k] = sh]
  BY DEF EndIteration, InjectionsInv, Typed
<1>5. PICK cr \in Credits : credit' = [credit EXCEPT ![k] = cr] /\ WellCredited(cr)
  <2> HIDE DEF st
  <2>. QED BY <1>2, <1>3, CreditStep
<1>6. /\ a \in State /\ a.seen \cup a.rules \subseteq before /\ before \in SUBSET Item
      /\ ~(evicted[k].session /\ ~Noticed(k, sync)) => before \subseteq a.seen \cup a.rules
  <2>1. /\ st.seen \cup st.rules \subseteq shown[k].session
        /\ ~evicted[k].session => shown[k].session \subseteq st.seen \cup st.rules
    BY <1>1, <1>2 DEF Held
  <2> HIDE DEF st
  <2>. QED BY <1>1, <1>2, <2>1, Synced
<1>7. sh \in Seen /\ sh.now = shown[k].now /\ sh.session = before
  <2> HIDE DEF before
  <2>. QED BY <1>1, <1>6 DEF Seen
<1>8. b \in State /\ b.seen = a.seen /\ b.rules = a.rules
  <2> HIDE DEF a
  <2>. QED BY <1>6 DEF State
<1>9. /\ ev \in Losses /\ ev.session = (evicted[k].session /\ ~Noticed(k, sync))
      /\ ev.now = evicted[k].now
  BY <1>1 DEF Losses
<1>10. st.now \in SUBSET Int
  BY <1>2 DEF State
<1> HIDE DEF a, b, sh, ev, before, st
<1>11. Held(b, sh, ev, "between")
  BY <1>6, <1>7, <1>8, <1>9 DEF Held
<1>12. WellCounted(sh, ev, "between", st.now) /\ "between" \in Places
  BY <1>1, <1>2, <1>7, <1>9 DEF Held, WellCounted, Places
<1>. QED BY <1>3, <1>4, <1>5, <1>7, <1>8, <1>9, <1>10, <1>11, <1>12, OneChat

LEMMA EndRunKept ==
    ASSUME InjectionsInv, NEW k \in Chats, EndRun(k)
    PROVE  InjectionsInv'
<1> DEFINE sh == [shown[k] EXCEPT !.now = {}]
           ev == [evicted[k] EXCEPT !.now = FALSE]
<1>1. /\ conv[k] \in State /\ shown[k] \in Seen /\ evicted[k] \in Losses /\ credit[k] \in Credits
      /\ Held(conv[k], shown[k], evicted[k], run[k]) /\ WellCredited(credit[k])
  BY ChatTyped
<1>2. /\ run' = [run EXCEPT ![k] = "idle"] /\ counted' = [counted EXCEPT ![k] = {}]
      /\ conv' = conv /\ credit' = credit /\ vectors' = vectors
  BY DEF EndRun
<1>3. shown' = [shown EXCEPT ![k] = sh] /\ evicted' = [evicted EXCEPT ![k] = ev]
  BY DEF EndRun, InjectionsInv, Typed
<1>4. sh \in Seen /\ sh.session = shown[k].session /\ ev \in Losses /\ ev.session = evicted[k].session
  BY <1>1 DEF Seen, Losses
<1>5. conv' = [conv EXCEPT ![k] = conv[k]] /\ credit' = [credit EXCEPT ![k] = credit[k]]
  BY <1>2, Unchanged
<1> HIDE DEF sh, ev
<1>6. Held(conv[k], sh, ev, "idle") /\ WellCounted(sh, ev, "idle", {})
  BY <1>1, <1>4 DEF Held, WellCounted
<1>7. "idle" \in Places /\ {} \in SUBSET Int
  BY DEF Places
<1>. QED BY <1>1, <1>2, <1>3, <1>4, <1>5, <1>6, <1>7, OneChat

\* An eviction takes what the state held and is remembered to have done so.
LEMMA EvictKept ==
    ASSUME InjectionsInv, NEW k \in Chats, Evict(k)
    PROVE  InjectionsInv'
<1> DEFINE ev == [now |-> run[k] # "idle", session |-> TRUE]
<1>1. /\ shown[k] \in Seen /\ credit[k] \in Credits /\ run[k] \in Places /\ counted[k] \in SUBSET Int
      /\ WellCredited(credit[k]) /\ WellCounted(shown[k], evicted[k], run[k], counted[k])
  BY ChatTyped
<1>2. /\ conv' = [conv EXCEPT ![k] = Absent] /\ evicted' = [evicted EXCEPT ![k] = ev]
      /\ vectors' = vectors
  BY DEF Evict
<1>3. /\ shown' = [shown EXCEPT ![k] = shown[k]] /\ credit' = [credit EXCEPT ![k] = credit[k]]
      /\ run' = [run EXCEPT ![k] = run[k]] /\ counted' = [counted EXCEPT ![k] = counted[k]]
  BY Unchanged DEF Evict
<1>4. ev \in Losses /\ ev.session /\ (run[k] # "idle" => ev.now)
  BY DEF Losses
<1> HIDE DEF ev
<1>5. Held(Absent, shown[k], ev, run[k])
  BY <1>4, AbsentIs DEF Held
<1>6. WellCounted(shown[k], ev, run[k], counted[k])
  BY <1>1, <1>4 DEF WellCounted
<1>7. Absent \in State
  BY AbsentIs
<1>. QED BY <1>1, <1>2, <1>3, <1>4, <1>5, <1>6, <1>7, OneChat

LEMMA RestartKept ==
    ASSUME InjectionsInv, RestartInjections
    PROVE  InjectionsInv'
<1>1. Typed'
  <2>1. \A k \in Chats : [shown[k] EXCEPT !.now = {}] \in Seen
    BY DEF InjectionsInv, Typed, Seen
  <2>2. /\ conv' \in [Chats -> State] /\ run' \in [Chats -> Places]
        /\ evicted' \in [Chats -> Losses] /\ counted' \in [Chats -> SUBSET Int]
    BY AbsentIs DEF RestartInjections, Places, Losses
  <2>3. shown' \in [Chats -> Seen] /\ credit' = credit /\ vectors' = vectors
    BY <2>1 DEF RestartInjections
  <2>. QED BY <2>2, <2>3 DEF InjectionsInv, Typed
<1>2. ASSUME NEW k \in Chats PROVE ChatOK(k)'
  <2>1. /\ conv'[k] = Absent /\ run'[k] = "idle" /\ credit'[k] = credit[k] /\ evicted'[k].session
        /\ counted'[k] = {}
    BY DEF RestartInjections
  <2>. QED BY <2>1, AbsentIs, ChatTyped DEF ChatOK, Held, WellCounted
<1>. QED BY <1>1, <1>2 DEF InjectionsInv

\* Steps that change no chat's state: vectors of known reflections, the coordinator.
LEMMA QuietKept ==
    ASSUME InjectionsInv, UNCHANGED <<conv, shown, evicted, run, counted, credit>>,
           vectors' \subseteq Int
    PROVE  InjectionsInv'
BY DEF InjectionsInv, Typed, ChatOK

LEMMA InductiveInjections ==
    ASSUME InjectionsInv, [InjectionsNext]_injectionVars
    PROVE  InjectionsInv'
<1>0. vectors \subseteq Int
  BY DEF InjectionsInv, Typed
<1>1. CASE UNCHANGED injectionVars
  BY <1>0, <1>1, QuietKept DEF injectionVars
<1>2. ASSUME NEW k \in Chats, NEW sync \in Syncs, NEW P \in SUBSET Principles,
             BeginIteration(k, sync) \/ EndIteration(k, sync) \/ BeginRun(k, sync, P)
      PROVE  InjectionsInv'
  BY <1>2, BeginRunKept, BeginIterationKept, EndIterationKept
<1>3. ASSUME NEW k \in Chats, NEW G \in SUBSET vectors, Recall(k, G) PROVE InjectionsInv'
  BY <1>3, RecallKept
<1>4. ASSUME NEW k \in Chats, EndRun(k) \/ Evict(k) PROVE InjectionsInv'
  BY <1>4, EndRunKept, EvictKept
<1>5. ASSUME NEW k \in Chats, Reflect(k) \/ Unlearn(k) PROVE InjectionsInv'
  BY <1>0, <1>5, QuietKept DEF Reflect, Unlearn
<1>6. ASSUME NEW r \in Reflections, EmbedReflection(r) PROVE InjectionsInv'
  BY <1>0, <1>6, QuietKept DEF EmbedReflection, Reflections
<1>7. CASE RestartInjections
  BY <1>7, RestartKept
<1>. QED BY <1>1, <1>2, <1>3, <1>4, <1>5, <1>6, <1>7 DEF InjectionsNext

LEMMA AlwaysInjections == InjectionsSpec => []InjectionsInv
BY InitialInjections, InductiveInjections, PTL DEF InjectionsSpec

-----------------------------------------------------------------------------
\* CountedAsShown: however other conversations, crashes, boundaries and evictions
\* fall into an iteration, record_iteration_citations counts what it was shown.
THEOREM ViewsAreCounted == InjectionsSpec => []CountedAsShown
<1>1. InjectionsInv => CountedAsShown
  BY DEF InjectionsInv, ChatOK, WellCounted, CountedAsShown
<1>. QED BY <1>1, AlwaysInjections, PTL

\* CreditedAsShown: an outcome is credited to what its own session was shown, once,
\* and to all of it unless the conversation's state was evicted.
THEOREM OutcomesAreCredited == InjectionsSpec => []CreditedAsShown
<1>1. InjectionsInv => CreditedAsShown
  BY DEF InjectionsInv, ChatOK, WellCredited, CreditedAsShown
<1>. QED BY <1>1, AlwaysInjections, PTL

-----------------------------------------------------------------------------
(* What they are reminded of.                                               *)

Minds == [score : 0 .. Threshold, armed : SUBSET Kinds, since : 0 .. Interval - 1,
          hydrated : BOOLEAN]
Stages == {"idle", "recalling", "answering", "between"}

\* Of a chat: its counter is at most the turns really spoken, what is armed is due,
\* and the tracker knows of no goal that was not in the context.
Due(m, tr, on, over, sp, un) ==
  /\ ~un => m.hydrated /\ m.since <= sp
  /\ (~un /\ "save" \in m.armed) => sp = Interval
  /\ "goal" \in m.armed => over
  /\ tr => on

\* The inductive invariant.
NudgesInv ==
  /\ NudgesTypeOK
  /\ \A k \in Talkers : Due(mind[k], tracker[k], goalOn[k], goalOver[k], spoken[k], unsure[k])

-----------------------------------------------------------------------------
\* A step concerns one chat.
Others(k) ==
  \A x \in Talkers \ {k} :
    /\ mind'[x] = mind[x] /\ tracker'[x] = tracker[x] /\ goalOn'[x] = goalOn[x]
    /\ goalOver'[x] = goalOver[x] /\ spoken'[x] = spoken[x] /\ unsure'[x] = unsure[x]

LEMMA ChatStep ==
    ASSUME NudgesInv, NEW k \in Talkers, NudgesTypeOK', Others(k),
           Due(mind'[k], tracker'[k], goalOn'[k], goalOver'[k], spoken'[k], unsure'[k])
    PROVE  NudgesInv'
<1>1. ASSUME NEW x \in Talkers
      PROVE  Due(mind'[x], tracker'[x], goalOn'[x], goalOver'[x], spoken'[x], unsure'[x])
  <2>1. CASE x = k
    BY <2>1
  <2>2. CASE x # k
    BY <2>2 DEF NudgesInv, Others
  <2>. QED BY <2>1, <2>2
<1>. QED BY <1>1 DEF NudgesInv

LEMMA MindTyped ==
    ASSUME NudgesInv, NEW k \in Talkers
    PROVE  /\ mind[k] \in Minds /\ tracker[k] \in BOOLEAN /\ goalOn[k] \in BOOLEAN
           /\ goalOver[k] \in BOOLEAN /\ spoken[k] \in 0 .. Interval /\ unsure[k] \in BOOLEAN
           /\ Due(mind[k], tracker[k], goalOn[k], goalOver[k], spoken[k], unsure[k])
BY DEF NudgesInv, NudgesTypeOK, Minds

\* Counting turns: the counter wraps, and arms the reminder when it does.
LEMMA TurnsDue ==
    ASSUME NEW m \in Minds, NEW tr, NEW on, NEW over, NEW sp \in 0 .. Interval,
           NEW un \in BOOLEAN, NEW n \in 0 .. MaxFresh, Due(m, tr, on, over, sp, un)
    PROVE  /\ AtMost(sp + n, Interval) \in 0 .. Interval
           /\ Turns(m, n) \in Minds
           /\ Due(Turns(m, n), tr, on, over, AtMost(sp + n, Interval), un)
           /\ Due(m, tr, on, over, AtMost(sp + n, Interval), un)
<1> DEFINE all == m.since + n
           sp2 == AtMost(sp + n, Interval)
<1>1. /\ Interval \in Nat /\ Interval > 0 /\ n \in Nat /\ m.since \in Nat /\ m.since < Interval
      /\ sp \in Nat /\ sp <= Interval
  BY NudgesAssumption DEF Minds
<1>2. sp2 \in 0 .. Interval /\ sp <= sp2 /\ (sp + n >= Interval => sp2 = Interval)
      /\ (sp + n < Interval => sp2 = sp + n)
  BY <1>1 DEF AtMost
<1>3. Due(m, tr, on, over, sp2, un)
  BY <1>1, <1>2 DEF Due
<1>4. CASE all < Interval
  <2>1. all % Interval = all
    BY <1>1, <1>4
  <2>2. Turns(m, n) = [m EXCEPT !.since = all]
    BY <1>1, <1>4, <2>1 DEF Turns
  <2>3. Turns(m, n) \in Minds /\ Turns(m, n).since = all /\ Turns(m, n).armed = m.armed
        /\ Turns(m, n).hydrated = m.hydrated
    BY <2>2, <1>1, <1>4 DEF Minds
  <2>4. m.since <= sp => all <= sp2
    BY <1>1, <1>2, <1>4
  <2>. QED BY <1>2, <1>3, <2>3, <2>4 DEF Due
<1>5. CASE all >= Interval
  <2> DEFINE w == all % Interval
  <2>1. w \in 0 .. Interval - 1
    BY <1>1
  <2>2. Turns(m, n) = [[m EXCEPT !.since = w] EXCEPT !.armed = @ \cup {"save"}]
    BY <1>5, <1>1 DEF Turns, Arm
  <2> HIDE DEF w
  <2>3. Turns(m, n) \in Minds /\ Turns(m, n).since = w
        /\ Turns(m, n).armed = m.armed \cup {"save"} /\ Turns(m, n).hydrated = m.hydrated
    BY <2>1, <2>2 DEF Minds, Kinds
  <2>4. m.since <= sp => sp2 = Interval
    BY <1>1, <1>2, <1>5
  <2>5. w <= Interval
    BY <2>1, <1>1
  <2>. QED BY <1>2, <1>3, <2>3, <2>4, <2>5 DEF Due
<1>. QED BY <1>1, <1>4, <1>5

\* Hydrating: a chat that is not unsure has been.
LEMMA ObservedDue ==
    ASSUME NEW m \in Minds, NEW tr, NEW on, NEW over, NEW sp \in 0 .. Interval,
           NEW un \in BOOLEAN, NEW n \in 0 .. MaxFresh, NEW window \in 0 .. Interval,
           Due(m, tr, on, over, sp, un)
    PROVE  /\ Observed(m, n, window) \in Minds
           /\ Due(Observed(m, n, window), tr, on, over, AtMost(sp + n, Interval), un)
<1>1. CASE m.hydrated
  BY <1>1, TurnsDue DEF Observed
<1>2. CASE ~m.hydrated
  <2>1. un
    BY <1>2 DEF Due
  <2>2. AtMost(window, Interval - 1) \in 0 .. Interval - 1
    BY NudgesAssumption DEF AtMost
  <2> DEFINE c == AtMost(window, Interval - 1)
  <2>3. Observed(m, n, window)
          = [m EXCEPT !.since = c, !.armed = @ \ {"save"}, !.hydrated = TRUE]
    BY <1>2 DEF Observed, Hydrated
  <2> HIDE DEF c
  <2>4. Observed(m, n, window) \in Minds
        /\ Observed(m, n, window).armed = m.armed \ {"save"}
    BY <2>2, <2>3 DEF Minds, c
  <2>. QED BY <2>1, <2>4 DEF Due
<1>. QED BY <1>1, <1>2

\* Taking the reminders.
LEMMA TakenDue ==
    ASSUME NEW m \in Minds, NEW tr, NEW on, NEW over, NEW sp, NEW un,
           Due(m, tr, on, over, sp, un)
    PROVE  /\ Taken(m) \in Minds
           /\ Due(Taken(m), tr, on, over /\ "goal" \notin m.armed, sp, un)
<1>1. Taken(m) \in Minds /\ Taken(m).armed = {} /\ Taken(m).since = m.since
      /\ Taken(m).hydrated = m.hydrated
  BY DEF Taken, Minds
<1>. QED BY <1>1 DEF Due

\* Arming others than the save and the goal.
LEMMA ArmDue ==
    ASSUME NEW m \in Minds, NEW tr, NEW on, NEW over, NEW sp, NEW un,
           Due(m, tr, on, over, sp, un), NEW kind \in {"skills", "reflect"}
    PROVE  Arm(m, kind) \in Minds /\ Due(Arm(m, kind), tr, on, over, sp, un)
<1>1. Arm(m, kind) \in Minds /\ Arm(m, kind).armed = m.armed \cup {kind}
      /\ Arm(m, kind).since = m.since /\ Arm(m, kind).hydrated = m.hydrated
  BY DEF Arm, Minds, Kinds
<1>. QED BY <1>1 DEF Due

\* The score has no part in what is due.
LEMMA ScoreDue ==
    ASSUME NEW m \in Minds, NEW tr, NEW on, NEW over, NEW sp, NEW un,
           Due(m, tr, on, over, sp, un), NEW x \in 0 .. Threshold
    PROVE  [m EXCEPT !.score = x] \in Minds /\ Due([m EXCEPT !.score = x], tr, on, over, sp, un)
<1> DEFINE z == [m EXCEPT !.score = x]
<1>1. z \in Minds /\ z.armed = m.armed /\ z.since = m.since /\ z.hydrated = m.hydrated
  BY DEF Minds
<1> HIDE DEF z
<1>2. Due(z, tr, on, over, sp, un)
  BY <1>1 DEF Due
<1>. QED BY <1>1, <1>2 DEF z

LEMMA ScoredDue ==
    ASSUME NEW m \in Minds, NEW tr, NEW on, NEW over, NEW sp, NEW un,
           Due(m, tr, on, over, sp, un), NEW points \in Nat
    PROVE  Scored(m, points) \in Minds /\ Due(Scored(m, points), tr, on, over, sp, un)
<1>1. m.score \in 0 .. Threshold /\ Threshold \in Nat
  BY NudgesAssumption DEF Minds
<1>2. AtMost(m.score + points, Threshold) \in 0 .. Threshold
  BY <1>1 DEF AtMost
<1>3. Scored(m, points) = [m EXCEPT !.score = AtMost(m.score + points, Threshold)]
  BY DEF Scored
<1>. QED BY <1>2, <1>3, ScoreDue

\* What after_iteration makes of a chat.
ScoreTaken(m, tr, error, correction, goal) ==
  LET st == Scoring(m, error, correction) IN IF tr /\ ~goal THEN Completed(st) ELSE st

\* A goal that the tracker saw go is one that went.
LEMMA ScoringDue ==
    ASSUME NEW m \in Minds, NEW tr \in BOOLEAN, NEW on \in BOOLEAN, NEW over \in BOOLEAN,
           NEW sp \in 0 .. Interval, NEW un \in BOOLEAN, Due(m, tr, on, over, sp, un),
           NEW error \in BOOLEAN, NEW correction \in BOOLEAN, NEW goal \in BOOLEAN,
           NEW more \in BOOLEAN, over => more, (on /\ ~goal) => more
    PROVE  /\ ScoreTaken(m, tr, error, correction, goal) \in Minds
           /\ Due(ScoreTaken(m, tr, error, correction, goal), goal, goal, more, sp, un)
<1> DEFINE points == (IF error THEN 3 ELSE 0) + (IF correction THEN 1 ELSE 0)
           scored == Scored(m, points)
           st == Scoring(m, error, correction)
           f == ScoreTaken(m, tr, error, correction, goal)
<1>1. points \in Nat
  OBVIOUS
<1>2. scored \in Minds /\ Due(scored, tr, on, over, sp, un)
  <2> HIDE DEF points
  <2>. QED BY <1>1, ScoredDue
<1>3. st = IF scored.score >= Threshold THEN [Arm(scored, "reflect") EXCEPT !.score = 0]
           ELSE scored
  BY DEF Scoring
<1> HIDE DEF scored, st
<1>4. Arm(scored, "reflect") \in Minds /\ Due(Arm(scored, "reflect"), tr, on, over, sp, un)
  BY <1>2, ArmDue
<1>5. st \in Minds /\ Due(st, tr, on, over, sp, un)
  <2>1. 0 \in 0 .. Threshold
    BY NudgesAssumption
  <2>. QED BY <1>2, <1>3, <1>4, <2>1, ScoreDue
<1>6. Due(st, goal, goal, more, sp, un)
  BY <1>5 DEF Due
<1>7. CASE tr /\ ~goal
  <2>1. Threshold + 1 \in Nat
    BY NudgesAssumption
  <2> DEFINE full == Scored(st, Threshold + 1)
  <2>2. full \in Minds /\ Due(full, goal, goal, more, sp, un)
    <3>. QED BY <1>5, <1>6, <2>1, ScoredDue
  <2>3. more
    BY <1>5, <1>7 DEF Due
  <2>4. f = [full EXCEPT !.armed = @ \cup {"goal"}]
    BY <1>7 DEF ScoreTaken, Completed, Arm, st
  <2> HIDE DEF full, f
  <2>5. f \in Minds /\ f.armed = full.armed \cup {"goal"} /\ f.since = full.since
        /\ f.hydrated = full.hydrated
    BY <2>2, <2>4 DEF Minds, Kinds
  <2>. QED BY <2>2, <2>3, <2>5 DEF Due, f, st
<1>8. CASE ~(tr /\ ~goal)
  BY <1>5, <1>6, <1>8 DEF ScoreTaken, st
<1>. QED BY <1>7, <1>8

\* A save starts the cadence over.
LEMMA SavedDue ==
    ASSUME NEW m \in Minds, NEW tr, NEW on, NEW over, NEW sp, NEW un, Due(m, tr, on, over, sp, un)
    PROVE  Saved(m) \in Minds /\ Due(Saved(m), tr, on, over, 0, FALSE)
<1>1. 0 \in 0 .. Interval - 1
  BY NudgesAssumption
<1>2. Saved(m) \in Minds /\ Saved(m).since = 0 /\ Saved(m).armed = m.armed \ {"save"}
      /\ Saved(m).hydrated
  BY <1>1 DEF Saved, Minds
<1>. QED BY <1>2 DEF Due

-----------------------------------------------------------------------------
LEMMA InitialNudges == NudgesInit => NudgesInv
<1> SUFFICES ASSUME NudgesInit PROVE NudgesInv
  OBVIOUS
<1>1. 0 \in 0 .. Interval /\ Blank \in Minds
  BY NudgesAssumption DEF Blank, Minds
<1>2. NudgesTypeOK
  BY <1>1 DEF NudgesInit, NudgesTypeOK, Minds
<1>3. ASSUME NEW k \in Talkers
      PROVE  Due(mind[k], tracker[k], goalOn[k], goalOver[k], spoken[k], unsure[k])
  <2>1. mind[k] = Blank /\ ~tracker[k] /\ unsure[k]
    BY DEF NudgesInit
  <2>. QED BY <2>1 DEF Due, Blank
<1>. QED BY <1>2, <1>3 DEF NudgesInv

LEMMA CountTurnDue ==
    ASSUME NudgesInv, NEW k \in Talkers, NEW n \in 0 .. MaxFresh, NEW window \in 0 .. Interval,
           CountTurn(k, n, window)
    PROVE  NudgesInv'
<1> DEFINE sp == AtMost(spoken[k] + n, Interval)
           m == IF n = 0 THEN mind[k] ELSE Observed(mind[k], n, window)
<1>0. /\ mind[k] \in Minds /\ spoken[k] \in 0 .. Interval /\ unsure[k] \in BOOLEAN
      /\ Due(mind[k], tracker[k], goalOn[k], goalOver[k], spoken[k], unsure[k])
  BY MindTyped
<1>1. /\ Observed(mind[k], n, window) \in Minds
      /\ Due(Observed(mind[k], n, window), tracker[k], goalOn[k], goalOver[k], sp, unsure[k])
  BY <1>0, ObservedDue
<1>2. /\ sp \in 0 .. Interval
      /\ Due(mind[k], tracker[k], goalOn[k], goalOver[k], sp, unsure[k])
  BY <1>0, TurnsDue
<1>3. m \in Minds /\ Due(m, tracker[k], goalOn[k], goalOver[k], sp, unsure[k])
  BY <1>0, <1>1, <1>2
<1>4. /\ mind' = [mind EXCEPT ![k] = m] /\ spoken' = [spoken EXCEPT ![k] = sp]
      /\ stage' = [stage EXCEPT ![k] = "recalling"] /\ freshTurn' \subseteq freshTurn \cup {k}
      /\ UNCHANGED <<tracker, told, goalOn, goalOver, unsure>>
  BY DEF CountTurn, NudgesInv, NudgesTypeOK
<1> HIDE DEF sp, m
<1>5. NudgesTypeOK' /\ Others(k) /\ mind'[k] = m /\ spoken'[k] = sp
  BY <1>2, <1>3, <1>4 DEF NudgesInv, NudgesTypeOK, Minds, Others
<1>. QED BY <1>3, <1>4, <1>5, ChatStep

LEMMA ToldDue ==
    ASSUME NudgesInv, NEW k \in Talkers, NEW st \in Minds, NEW sp \in 0 .. Interval,
           Due(st, tracker[k], goalOn[k], goalOver[k], sp, unsure[k]), Told(k, st),
           spoken' = [spoken EXCEPT ![k] = sp], freshTurn' \subseteq Talkers,
           UNCHANGED <<tracker, goalOn, unsure>>
    PROVE  NudgesInv'
<1> DEFINE over == goalOver[k] /\ "goal" \notin st.armed
<1>1. Taken(st) \in Minds /\ Due(Taken(st), tracker[k], goalOn[k], over, sp, unsure[k])
  BY TakenDue
<1>2. over \in BOOLEAN /\ st.armed \in SUBSET Kinds
  BY DEF Minds
<1>3. /\ mind' = [mind EXCEPT ![k] = Taken(st)] /\ goalOver' = [goalOver EXCEPT ![k] = over]
      /\ told' = [told EXCEPT ![k] = st.armed] /\ stage' = [stage EXCEPT ![k] = "answering"]
  BY DEF Told
<1> HIDE DEF over
<1>4. NudgesTypeOK' /\ Others(k) /\ mind'[k] = Taken(st) /\ spoken'[k] = sp /\ goalOver'[k] = over
  BY <1>1, <1>2, <1>3 DEF NudgesInv, NudgesTypeOK, Minds, Others
<1>. QED BY <1>1, <1>4, ChatStep

LEMMA TellDue ==
    ASSUME NudgesInv, NEW k \in Talkers, Tell(k)
    PROVE  NudgesInv'
<1>1. Told(k, mind[k]) /\ UNCHANGED <<tracker, freshTurn, goalOn, spoken, unsure>>
  BY DEF Tell
<1>2. spoken' = [spoken EXCEPT ![k] = spoken[k]] /\ freshTurn' \subseteq Talkers
  BY <1>1 DEF NudgesInv, NudgesTypeOK
<1>. QED BY <1>1, <1>2, MindTyped, ToldDue

LEMMA TellAgainDue ==
    ASSUME NudgesInv, NEW k \in Talkers, NEW n \in 0 .. MaxFresh, NEW heard \in BOOLEAN,
           TellAgain(k, n, heard)
    PROVE  NudgesInv'
<1> DEFINE sp == AtMost(spoken[k] + n, Interval)
           st == IF heard THEN Turns(mind[k], n) ELSE mind[k]
<1>0. /\ mind[k] \in Minds /\ spoken[k] \in 0 .. Interval /\ unsure[k] \in BOOLEAN
      /\ Due(mind[k], tracker[k], goalOn[k], goalOver[k], spoken[k], unsure[k])
  BY MindTyped
<1>1. sp \in 0 .. Interval /\ st \in Minds
      /\ Due(st, tracker[k], goalOn[k], goalOver[k], sp, unsure[k])
  BY <1>0, TurnsDue
<1>2. /\ Told(k, st) /\ spoken' = [spoken EXCEPT ![k] = sp] /\ freshTurn' \subseteq Talkers
      /\ UNCHANGED <<tracker, goalOn, unsure>>
  BY DEF TellAgain, NudgesInv, NudgesTypeOK
<1> HIDE DEF sp, st
<1>. QED BY <1>1, <1>2, ToldDue

\* A step that only changes the chat's state.
LEMMA MindDue ==
    ASSUME NudgesInv, NEW k \in Talkers, NEW m \in Minds,
           Due(m, tracker[k], goalOn[k], goalOver[k], spoken[k], unsure[k]),
           mind' = [mind EXCEPT ![k] = m],
           UNCHANGED <<tracker, freshTurn, stage, told, goalOn, goalOver, spoken, unsure>>
    PROVE  NudgesInv'
<1>1. NudgesTypeOK' /\ Others(k) /\ mind'[k] = m
  BY DEF NudgesInv, NudgesTypeOK, Minds, Others
<1>. QED BY <1>1, ChatStep

LEMMA ScoreIterationDue ==
    ASSUME NudgesInv, NEW k \in Talkers, NEW error \in BOOLEAN, NEW correction \in BOOLEAN,
           NEW goal \in BOOLEAN, ScoreIteration(k, error, correction, goal)
    PROVE  NudgesInv'
<1> DEFINE m == ScoreTaken(mind[k], tracker[k], error, correction, goal)
           over == goalOver[k] \/ (goalOn[k] /\ ~goal)
<1>0. /\ mind[k] \in Minds /\ spoken[k] \in 0 .. Interval /\ unsure[k] \in BOOLEAN
      /\ tracker[k] \in BOOLEAN /\ goalOn[k] \in BOOLEAN /\ goalOver[k] \in BOOLEAN
      /\ Due(mind[k], tracker[k], goalOn[k], goalOver[k], spoken[k], unsure[k])
  BY MindTyped
<1>1. over \in BOOLEAN /\ (goalOver[k] => over) /\ ((goalOn[k] /\ ~goal) => over)
  OBVIOUS
<1> HIDE DEF over
<1>2. m \in Minds /\ Due(m, goal, goal, over, spoken[k], unsure[k])
  BY <1>0, <1>1, ScoringDue, SMTT(60)
<1>3. /\ mind' = [mind EXCEPT ![k] = m] /\ tracker' = [tracker EXCEPT ![k] = goal]
      /\ goalOn' = [goalOn EXCEPT ![k] = goal] /\ goalOver' = [goalOver EXCEPT ![k] = over]
      /\ told' = [told EXCEPT ![k] = {}] /\ stage' = [stage EXCEPT ![k] = "between"]
      /\ freshTurn' = freshTurn \ {k} /\ UNCHANGED <<spoken, unsure>>
  BY DEF ScoreIteration, ScoreTaken, over
<1> HIDE DEF m
<1>4. NudgesTypeOK' /\ Others(k)
  BY <1>2, <1>3, <1>1 DEF NudgesInv, NudgesTypeOK, Minds, Others
<1>5. mind'[k] = m /\ tracker'[k] = goal /\ goalOn'[k] = goal /\ goalOver'[k] = over
  BY <1>3 DEF NudgesInv, NudgesTypeOK
<1>. QED BY <1>2, <1>3, <1>4, <1>5, ChatStep

LEMMA OtherStepsDue ==
    ASSUME NudgesInv, NEW k \in Talkers,
           \/ ToolBurst(k) \/ SaveToMemory(k) \/ SuggestSkill(k)
           \/ EndTalk(k) \/ EvictMind(k) \/ EvictTracker(k)
    PROVE  NudgesInv'
<1>0. mind[k] \in Minds /\ Due(mind[k], tracker[k], goalOn[k], goalOver[k], spoken[k], unsure[k])
  BY MindTyped
<1>1. CASE ToolBurst(k)
  <2>1. /\ Scored(mind[k], 2) \in Minds
        /\ Due(Scored(mind[k], 2), tracker[k], goalOn[k], goalOver[k], spoken[k], unsure[k])
    BY <1>0, ScoredDue
  <2>. QED BY <1>1, <2>1, MindDue DEF ToolBurst
<1>2. CASE SaveToMemory(k)
  <2>1. Saved(mind[k]) \in Minds
        /\ Due(Saved(mind[k]), tracker[k], goalOn[k], goalOver[k], 0, FALSE)
    BY <1>0, SavedDue
  <2>2. /\ mind' = [mind EXCEPT ![k] = Saved(mind[k])] /\ spoken' = [spoken EXCEPT ![k] = 0]
        /\ unsure' = [unsure EXCEPT ![k] = FALSE]
        /\ UNCHANGED <<tracker, freshTurn, stage, told, goalOn, goalOver>>
    BY <1>2 DEF SaveToMemory
  <2>3. NudgesTypeOK' /\ Others(k) /\ mind'[k] = Saved(mind[k]) /\ spoken'[k] = 0
        /\ unsure'[k] = FALSE
    BY <2>1, <2>2, NudgesAssumption DEF NudgesInv, NudgesTypeOK, Minds, Others
  <2>. QED BY <2>1, <2>2, <2>3, ChatStep
<1>3. CASE SuggestSkill(k)
  <2>1. /\ Arm(mind[k], "skills") \in Minds
        /\ Due(Arm(mind[k], "skills"), tracker[k], goalOn[k], goalOver[k], spoken[k], unsure[k])
    BY <1>0, ArmDue
  <2>. QED BY <1>3, <2>1, MindDue DEF SuggestSkill
<1>4. CASE EndTalk(k)
  <2>1. NudgesTypeOK' /\ Others(k)
    BY <1>4 DEF EndTalk, NudgesInv, NudgesTypeOK, Others
  <2>2. UNCHANGED <<mind, tracker, goalOn, goalOver, spoken, unsure>>
    BY <1>4 DEF EndTalk
  <2>. QED BY <1>0, <2>1, <2>2, ChatStep
<1>5. CASE EvictMind(k)
  <2>1. /\ mind' = [mind EXCEPT ![k] = Blank] /\ unsure' = [unsure EXCEPT ![k] = TRUE]
        /\ UNCHANGED <<tracker, freshTurn, stage, told, goalOn, goalOver, spoken>>
    BY <1>5 DEF EvictMind
  <2>2. Blank \in Minds /\ Due(Blank, tracker[k], goalOn[k], goalOver[k], spoken[k], TRUE)
    BY <1>0, NudgesAssumption DEF Due, Blank, Minds
  <2>3. NudgesTypeOK' /\ Others(k) /\ mind'[k] = Blank /\ unsure'[k] = TRUE
    BY <2>1, <2>2 DEF NudgesInv, NudgesTypeOK, Minds, Others
  <2>. QED BY <2>1, <2>2, <2>3, ChatStep
<1>6. CASE EvictTracker(k)
  <2>1. /\ tracker' = [tracker EXCEPT ![k] = FALSE]
        /\ UNCHANGED <<mind, freshTurn, stage, told, goalOn, goalOver, spoken, unsure>>
    BY <1>6 DEF EvictTracker
  <2>2. Due(mind[k], FALSE, goalOn[k], goalOver[k], spoken[k], unsure[k])
    BY <1>0 DEF Due
  <2>3. NudgesTypeOK' /\ Others(k) /\ tracker'[k] = FALSE
    BY <2>1 DEF NudgesInv, NudgesTypeOK, Others
  <2>. QED BY <2>1, <2>2, <2>3, ChatStep
<1>. QED BY <1>1, <1>2, <1>3, <1>4, <1>5, <1>6

LEMMA RestartDue ==
    ASSUME NudgesInv, RestartNudges
    PROVE  NudgesInv'
<1>1. NudgesTypeOK'
  BY NudgesAssumption DEF NudgesInv, NudgesTypeOK, RestartNudges, Blank
<1>2. ASSUME NEW x \in Talkers
      PROVE  Due(mind[x], tracker[x], goalOn[x], goalOver[x], spoken[x], unsure[x])'
  <2>1. /\ mind'[x] = Blank /\ ~tracker'[x] /\ unsure'[x]
    BY DEF RestartNudges
  <2>. QED BY <2>1 DEF Due, Blank
<1>. QED BY <1>1, <1>2 DEF NudgesInv

LEMMA InductiveNudges ==
    ASSUME NudgesInv, [NudgesNext]_nudgeVars
    PROVE  NudgesInv'
<1>1. CASE UNCHANGED nudgeVars
  BY <1>1 DEF nudgeVars, NudgesInv, NudgesTypeOK, Due
<1>. QED
  BY <1>1, CountTurnDue, TellDue, TellAgainDue, ScoreIterationDue, OtherStepsDue, RestartDue
  DEF NudgesNext

-----------------------------------------------------------------------------
DueStep ==
  \A k \in Talkers : told'[k] # told[k] =>
    /\ "save" \in told'[k] => spoken'[k] >= Interval \/ unsure[k]
    /\ "goal" \in told'[k] => goalOver[k]

\* Only the two steps that tell a chat something change what it is told to anything.
LEMMA ToldWhenDue ==
    ASSUME NudgesInv, [NudgesNext]_nudgeVars
    PROVE  DueStep
<1>1. ASSUME NEW k \in Talkers, NEW st \in Minds, NEW sp \in 0 .. Interval, Told(k, st),
             Due(st, tracker[k], goalOn[k], goalOver[k], sp, unsure[k]),
             spoken' = [spoken EXCEPT ![k] = sp]
      PROVE  DueStep
  <2>1. told' = [told EXCEPT ![k] = st.armed] /\ told \in [Talkers -> SUBSET Kinds]
        /\ spoken \in [Talkers -> 0 .. Interval]
    BY <1>1 DEF Told, NudgesInv, NudgesTypeOK
  <2>2. ASSUME NEW x \in Talkers, told'[x] # told[x] PROVE x = k
    BY <2>1, <2>2
  <2>3. told'[k] = st.armed /\ spoken'[k] = sp /\ sp \in Nat /\ Interval \in Nat
    BY <1>1, <2>1, NudgesAssumption
  <2>4. "save" \in told'[k] => spoken'[k] >= Interval \/ unsure[k]
    BY <1>1, <2>3 DEF Due
  <2>5. "goal" \in told'[k] => goalOver[k]
    BY <1>1, <2>3 DEF Due
  <2>. QED BY <2>2, <2>4, <2>5 DEF DueStep
<1>2. ASSUME told' = told PROVE DueStep
  BY <1>2 DEF DueStep
<1>3. ASSUME NEW k \in Talkers, told' = [told EXCEPT ![k] = {}] PROVE DueStep
  BY <1>3 DEF DueStep, NudgesInv, NudgesTypeOK
<1>4. ASSUME NEW k \in Talkers, Tell(k) PROVE DueStep
  <2>1. Told(k, mind[k]) /\ spoken' = spoken
    BY <1>4 DEF Tell
  <2>2. spoken' = [spoken EXCEPT ![k] = spoken[k]] /\ spoken[k] \in 0 .. Interval
    BY <2>1 DEF NudgesInv, NudgesTypeOK
  <2>3. /\ mind[k] \in Minds
        /\ Due(mind[k], tracker[k], goalOn[k], goalOver[k], spoken[k], unsure[k])
    BY MindTyped
  <2>. QED BY <2>1, <2>2, <2>3, <1>1
<1>5. ASSUME NEW k \in Talkers, NEW n \in 0 .. MaxFresh, NEW heard \in BOOLEAN,
             TellAgain(k, n, heard)
      PROVE  DueStep
  <2> DEFINE sp == AtMost(spoken[k] + n, Interval)
             st == IF heard THEN Turns(mind[k], n) ELSE mind[k]
  <2>1. sp \in 0 .. Interval /\ st \in Minds
        /\ Due(st, tracker[k], goalOn[k], goalOver[k], sp, unsure[k])
    <3>1. /\ mind[k] \in Minds /\ spoken[k] \in 0 .. Interval /\ unsure[k] \in BOOLEAN
          /\ Due(mind[k], tracker[k], goalOn[k], goalOver[k], spoken[k], unsure[k])
      BY MindTyped
    <3>. QED BY <3>1, TurnsDue
  <2>2. Told(k, st) /\ spoken' = [spoken EXCEPT ![k] = sp]
    BY <1>5 DEF TellAgain
  <2> HIDE DEF sp, st
  <2>. QED BY <2>1, <2>2, <1>1
<1>6. ASSUME NEW k \in Talkers, NEW n \in 0 .. MaxFresh, NEW window \in 0 .. Interval,
             CountTurn(k, n, window)
      PROVE  DueStep
  BY <1>2, <1>6 DEF CountTurn
<1>7. ASSUME NEW k \in Talkers,
             \/ ToolBurst(k) \/ SaveToMemory(k) \/ SuggestSkill(k) \/ EvictMind(k)
             \/ EvictTracker(k)
      PROVE  DueStep
  BY <1>2, <1>7 DEF ToolBurst, SaveToMemory, SuggestSkill, EvictMind, EvictTracker
<1>8. ASSUME NEW k \in Talkers, EndTalk(k) PROVE DueStep
  BY <1>3, <1>8 DEF EndTalk
<1>9. ASSUME NEW k \in Talkers, NEW error \in BOOLEAN, NEW correction \in BOOLEAN,
             NEW goal \in BOOLEAN, ScoreIteration(k, error, correction, goal)
      PROVE  DueStep
  BY <1>3, <1>9 DEF ScoreIteration
<1>10. CASE RestartNudges
  BY <1>10 DEF RestartNudges, DueStep
<1>11. CASE UNCHANGED nudgeVars
  BY <1>2, <1>11 DEF nudgeVars
<1>. QED
  BY <1>4, <1>5, <1>6, <1>7, <1>8, <1>9, <1>10, <1>11 DEF NudgesNext

-----------------------------------------------------------------------------
\* The cadence counter never rests at the interval, salience never past its threshold.
THEOREM NudgesTypeCorrect == NudgesSpec => []NudgesTypeOK
<1>1. NudgesInv => NudgesTypeOK
  BY DEF NudgesInv
<1>. QED BY <1>1, InitialNudges, InductiveNudges, PTL DEF NudgesSpec

\* NudgesAreDue: through evictions and restarts between a turn's count and its
\* reminder, nobody is asked to save before the interval, or told twice of a goal.
THEOREM ToldInTime == NudgesSpec => NudgesAreDue
<1>1. NudgesInv /\ [NudgesNext]_nudgeVars => [DueStep]_nudgeVars
  BY ToldWhenDue
<1>2. NudgesSpec => [][DueStep]_nudgeVars
  BY <1>1, InitialNudges, InductiveNudges, PTL DEF NudgesSpec
<1>. QED BY <1>2 DEF NudgesAreDue, DueStep

-----------------------------------------------------------------------------
(* The types of what conversations are shown.                               *)

\* A chat the coordinator remembers is in a session.
RowsTyped ==
  /\ InjectionsTypeOK /\ latest \in Nat
  /\ \A k \in known : session[k] # 0

ConvState(n) ==
  [there : BOOLEAN, seen : SUBSET (1 .. n), rules : SUBSET Principles, now : SUBSET (1 .. n)]

LEMMA ConvStates == ConvState(Len(reflections)) =
  [there : BOOLEAN, seen : SUBSET Reflections, rules : SUBSET Principles, now : SUBSET Reflections]
BY DEF ConvState, Reflections

\* A set of rows that is not empty has a newest one.
LEMMA HighestIs ==
    ASSUME NEW n \in Nat, NEW S \in SUBSET (1 .. n), S # {}
    PROVE  Highest(S) \in S
<1> DEFINE back == {n - x : x \in S}
           R == OpToRel(<, Nat)
<1>1. \A x \in S : x \in Nat /\ n - x \in Nat /\ n - x \in back
  OBVIOUS
<1>2. back \subseteq Nat /\ back # {}
  BY <1>1
<1>3. IsWellFoundedOn(R, Nat)
  BY NatLessThanWellFounded
<1>4. \A x, y \in Nat : x < y => <<x, y>> \in R
  BY DEF OpToRel
<1> HIDE DEF R
<1>5. PICK m \in back : \A k \in back : <<k, m>> \notin R
  <2> HIDE DEF back
  <2>. QED BY <1>2, <1>3, WFMin
<1>6. PICK x \in S : m = n - x
  OBVIOUS
<1>7. ASSUME NEW y \in S PROVE y <= x
  <2>1. ~(n - y < n - x)
    BY <1>1, <1>4, <1>5, <1>6
  <2>2. x \in Nat /\ y \in Nat
    BY <1>1
  <2>. QED BY <2>1, <2>2
<1>. QED BY <1>7 DEF Highest

LEMMA NewestAreRows == \A s, mark : News(s, mark) \subseteq Reflections /\ Newest(News(s, mark)) \subseteq Reflections
BY DEF News, Newest

LEMMA MarkMoves ==
    ASSUME NEW n \in Nat, NEW D, NEW mark \in [D -> 0 .. n], NEW s, NEW h \in 0 .. n
    PROVE  [mark EXCEPT ![s] = h] \in [D -> 0 .. n]
OBVIOUS

\* A watermark moves to a row that is there.
LEMMA DeliveredTyped ==
    ASSUME Len(reflections) \in Nat, NEW s, NEW mark \in [1 .. MaxSessions -> 0 .. Len(reflections)]
    PROVE  Delivered(s, mark) \in [1 .. MaxSessions -> 0 .. Len(reflections)]
<1> DEFINE new == News(s, mark)
<1>1. CASE new = {}
  BY <1>1 DEF Delivered
<1>2. CASE new # {}
  <2>1. new \in SUBSET (1 .. Len(reflections))
    BY NewestAreRows DEF Reflections
  <2>2. Highest(new) \in 1 .. Len(reflections)
    <3>. HIDE DEF new
    <3>. QED BY <1>2, <2>1, HighestIs
  <2>3. Delivered(s, mark) = [mark EXCEPT ![s] = Highest(new)]
    BY <1>2 DEF Delivered
  <2>. HIDE DEF new
  <2>4. Highest(new) \in 0 .. Len(reflections)
    BY <2>2
  <2>. QED BY <2>3, <2>4, MarkMoves
<1>. QED BY <1>1, <1>2

LEMMA StatesTyped ==
    ASSUME NEW n \in Nat, NEW st \in ConvState(n), NEW k, NEW sync, NEW S \in SUBSET (1 .. n),
           NEW P \in SUBSET Principles
    PROVE  /\ AfterSync(k, st, sync) \in ConvState(n) /\ Showing(st, S) \in ConvState(n)
           /\ LogDropped(st) \in ConvState(n) /\ [st EXCEPT !.there = TRUE] \in ConvState(n)
           /\ [st EXCEPT !.now = {}] \in ConvState(n) /\ [st EXCEPT !.rules = @ \cup P] \in ConvState(n)
           /\ Absent \in ConvState(n) /\ Fresh \in ConvState(n)
BY DEF ConvState, AfterSync, Drained, Showing, LogDropped, Absent, Fresh

\* What the sync leaves outside the chat's state.
LEMMA CreditTyped ==
    ASSUME RowsTyped, NEW k \in Chats, NEW sync, NEW st, Credited(k, st, sync), reflections' = reflections
    PROVE  /\ session' \in [Chats -> 0 .. latest'] /\ known' \subseteq Chats
           /\ latest' \in Nat /\ latest' <= MaxSessions /\ latest <= latest'
           /\ \A j \in known' : session'[j] # 0
           /\ reflections' \in Seq(1 .. latest') /\ Len(reflections') <= MaxReflections
           /\ PrunedMark(k, sync, watermark) \in [1 .. MaxSessions -> 0 .. Len(reflections)]
<1>0. /\ latest \in Nat /\ MaxSessions \in Nat /\ latest <= MaxSessions
      /\ session \in [Chats -> 0 .. latest] /\ known \subseteq Chats
      /\ reflections \in Seq(1 .. latest) /\ Len(reflections) <= MaxReflections
      /\ watermark \in [1 .. MaxSessions -> 0 .. Len(reflections)]
      /\ \A j \in known : session[j] # 0
  BY InjectionsAssumption DEF RowsTyped, InjectionsTypeOK
<1>1. /\ Crosses(sync) => latest < MaxSessions
      /\ session[k] = 0 => Crosses(sync)
      /\ session' = [session EXCEPT ![k] = SyncedTo(k, sync)]
      /\ known' = known \cup {k}
      /\ latest' = IF Crosses(sync) THEN latest + 1 ELSE latest
  BY DEF Credited
<1>2. /\ latest' \in Nat /\ latest' <= MaxSessions /\ latest <= latest'
      /\ SyncedTo(k, sync) \in 1 .. latest'
  BY <1>0, <1>1 DEF SyncedTo
<1>3. /\ session' \in [Chats -> 0 .. latest'] /\ known' \subseteq Chats
      /\ \A j \in known' : session'[j] # 0
  BY <1>0, <1>1, <1>2
<1>4. reflections' \in Seq(1 .. latest')
  <2>1. 1 .. latest \subseteq 1 .. latest'
    BY <1>0, <1>2
  <2>. QED BY <1>0, <2>1, SeqMonotonic
<1>5. PrunedMark(k, sync, watermark) \in [1 .. MaxSessions -> 0 .. Len(reflections)]
  <2>1. Len(reflections) \in Nat /\ 0 \in 0 .. Len(reflections)
    BY <1>0
  <2>. QED BY <1>0, <2>1, MarkMoves DEF PrunedMark
<1>. QED BY <1>0, <1>2, <1>3, <1>4, <1>5

\* A chat's state changes, the rows and the sessions' numbers do not.
LEMMA RowsKept ==
    ASSUME RowsTyped, reflections' = reflections, vectors' \subseteq Reflections,
           latest' = latest, known' \subseteq known,
           session' = session,
           conv' \in [Chats -> ConvState(Len(reflections))],
           watermark' \in [1 .. MaxSessions -> 0 .. Len(reflections)],
           run' \in [Chats -> Places], counted' \in [Chats -> SUBSET Reflections]
    PROVE  RowsTyped'
BY ConvStates DEF RowsTyped, InjectionsTypeOK, Places, Reflections

LEMMA ChatRows ==
    ASSUME RowsTyped
    PROVE  /\ Len(reflections) \in Nat /\ Reflections = 1 .. Len(reflections)
           /\ conv \in [Chats -> ConvState(Len(reflections))]
           /\ watermark \in [1 .. MaxSessions -> 0 .. Len(reflections)]
           /\ run \in [Chats -> Places] /\ counted \in [Chats -> SUBSET Reflections]
           /\ vectors \subseteq Reflections /\ latest \in Nat /\ MaxSessions \in Nat
           /\ \A k \in Chats : Conv(k) \in ConvState(Len(reflections))
<1>1. /\ Len(reflections) \in Nat /\ Reflections = 1 .. Len(reflections)
      /\ conv \in [Chats -> ConvState(Len(reflections))]
  BY ConvStates DEF RowsTyped, InjectionsTypeOK, Reflections
<1>2. ASSUME NEW k \in Chats PROVE Conv(k) \in ConvState(Len(reflections))
  <2>1. conv[k] \in ConvState(Len(reflections))
    BY <1>1
  <2>. QED BY <2>1 DEF Conv, ConvState
<1>. QED BY <1>1, <1>2, InjectionsAssumption DEF RowsTyped, InjectionsTypeOK, Places

\* An iteration begins or ends: after the sync, the chat's state is st.
LEMMA SyncedRows ==
    ASSUME RowsTyped, NEW k \in Chats, NEW sync, NEW before, Credited(k, before, sync),
           NEW st \in ConvState(Len(reflections)), conv' = [conv EXCEPT ![k] = st],
           watermark' \in [1 .. MaxSessions -> 0 .. Len(reflections)],
           NEW at \in Places, run' = [run EXCEPT ![k] = at],
           counted' \in [Chats -> SUBSET Reflections],
           UNCHANGED <<reflections, vectors>>
    PROVE  RowsTyped'
<1>1. /\ session' \in [Chats -> 0 .. latest'] /\ known' \subseteq Chats
      /\ latest' \in Nat /\ latest' <= MaxSessions
      /\ \A j \in known' : session'[j] # 0
      /\ reflections' \in Seq(1 .. latest') /\ Len(reflections') <= MaxReflections
  BY CreditTyped
<1>2. conv' \in [Chats -> ConvState(Len(reflections))] /\ run' \in [Chats -> Places]
  BY ChatRows
<1>3. vectors \subseteq Reflections
  BY ChatRows
<1>. QED BY <1>1, <1>2, <1>3, ConvStates DEF RowsTyped, InjectionsTypeOK, Places, Reflections

LEMMA BeginRunRows ==
    ASSUME RowsTyped, NEW k \in Chats, NEW sync \in Syncs, NEW P \in SUBSET Principles,
           BeginRun(k, sync, P)
    PROVE  RowsTyped'
<1> DEFINE n == Len(reflections)
           st == AfterSync(k, LogDropped(Conv(k)), sync)
<1>1. n \in Nat /\ Conv(k) \in ConvState(n) /\ counted \in [Chats -> SUBSET Reflections]
  BY ChatRows
<1>2. [st EXCEPT !.rules = @ \cup P] \in ConvState(n)
  BY <1>1, StatesTyped
<1>3. PrunedMark(k, sync, watermark) \in [1 .. MaxSessions -> 0 .. n]
  BY CreditTyped DEF BeginRun
<1>4. /\ Credited(k, LogDropped(Conv(k)), sync)
      /\ conv' = [conv EXCEPT ![k] = [st EXCEPT !.rules = @ \cup P]]
      /\ watermark' = [PrunedMark(k, sync, watermark) EXCEPT ![SyncedTo(k, sync)] = 0]
      /\ run' = [run EXCEPT ![k] = "recalling"]
      /\ UNCHANGED <<reflections, vectors, counted>>
  BY DEF BeginRun
<1>5. watermark' \in [1 .. MaxSessions -> 0 .. n]
  <2>. DEFINE mark == PrunedMark(k, sync, watermark)
  <2>. HIDE DEF mark
  <2>1. mark \in [1 .. MaxSessions -> 0 .. n] /\ watermark' = [mark EXCEPT ![SyncedTo(k, sync)] = 0]
    BY <1>3, <1>4 DEF mark
  <2>2. 0 \in 0 .. n
    BY <1>1
  <2>. QED BY <1>1, <2>1, <2>2, MarkMoves
<1>. HIDE DEF st
<1>6. "recalling" \in Places
  BY DEF Places
<1>. QED BY <1>1, <1>2, <1>4, <1>5, <1>6, SyncedRows

LEMMA BeginIterationRows ==
    ASSUME RowsTyped, NEW k \in Chats, NEW sync \in Syncs, BeginIteration(k, sync)
    PROVE  RowsTyped'
<1> DEFINE n == Len(reflections)
           mark == PrunedMark(k, sync, watermark)
           new == Newest(News(SyncedTo(k, sync), mark))
           st == Showing(AfterSync(k, LogDropped(Conv(k)), sync), new)
<1>1. n \in Nat /\ Conv(k) \in ConvState(n) /\ counted \in [Chats -> SUBSET Reflections]
  BY ChatRows
<1>2. new \in SUBSET (1 .. n)
  BY NewestAreRows DEF Reflections
<1>3. st \in ConvState(n)
  <2>. HIDE DEF new
  <2>1. LogDropped(Conv(k)) \in ConvState(n)
    BY <1>1, StatesTyped
  <2>2. AfterSync(k, LogDropped(Conv(k)), sync) \in ConvState(n)
    BY <1>1, <2>1, StatesTyped
  <2>. QED BY <1>1, <1>2, <2>2, StatesTyped
<1>4. /\ Credited(k, LogDropped(Conv(k)), sync)
      /\ conv' = [conv EXCEPT ![k] = st]
      /\ watermark' = Delivered(SyncedTo(k, sync), mark)
      /\ counted' = [counted EXCEPT ![k] = {}]
      /\ run' = [run EXCEPT ![k] = "answering"]
      /\ UNCHANGED <<reflections, vectors>>
  BY DEF BeginIteration
<1>5. watermark' \in [1 .. MaxSessions -> 0 .. n]
  <2>1. mark \in [1 .. MaxSessions -> 0 .. n]
    BY <1>4, CreditTyped
  <2>. HIDE DEF mark
  <2>. QED BY <1>1, <1>4, <2>1, DeliveredTyped
<1>. HIDE DEF st, mark
<1>6. "answering" \in Places /\ counted' \in [Chats -> SUBSET Reflections]
  BY <1>1, <1>4 DEF Places
<1>. QED BY <1>3, <1>4, <1>5, <1>6, SyncedRows

LEMMA EndIterationRows ==
    ASSUME RowsTyped, NEW k \in Chats, NEW sync \in Syncs, EndIteration(k, sync)
    PROVE  RowsTyped'
<1> DEFINE n == Len(reflections)
           a == AfterSync(k, Conv(k), sync)
           st == [a EXCEPT !.now = {}]
<1>1. /\ n \in Nat /\ Conv(k) \in ConvState(n) /\ counted \in [Chats -> SUBSET Reflections]
      /\ Reflections = 1 .. n
  BY ChatRows
<1>2. st \in ConvState(n)
  <2>1. a \in ConvState(n)
    BY <1>1, StatesTyped
  <2>. HIDE DEF a
  <2>. QED BY <1>1, <2>1, StatesTyped
<1>3. /\ Credited(k, Conv(k), sync)
      /\ conv' = [conv EXCEPT ![k] = st]
      /\ watermark' = PrunedMark(k, sync, watermark)
      /\ counted' = [counted EXCEPT ![k] = Conv(k).now]
      /\ run' = [run EXCEPT ![k] = "between"]
      /\ UNCHANGED <<reflections, vectors>>
  BY DEF EndIteration
<1>4. watermark' \in [1 .. MaxSessions -> 0 .. n]
  BY <1>3, CreditTyped
<1>5. "between" \in Places /\ counted' \in [Chats -> SUBSET Reflections]
  BY <1>1, <1>3 DEF Places, ConvState
<1>. HIDE DEF st
<1>. QED BY <1>2, <1>3, <1>4, <1>5, SyncedRows

LEMMA RecallRows ==
    ASSUME RowsTyped, NEW k \in Chats, NEW G \in SUBSET vectors, Recall(k, G)
    PROVE  RowsTyped'
<1> DEFINE n == Len(reflections)
           new == Newest(News(session[k], watermark))
           st == IF conv[k].there THEN Showing(conv[k], G \cup new) ELSE Showing(Fresh, new)
<1>1. /\ n \in Nat /\ Reflections = 1 .. n /\ vectors \subseteq Reflections
      /\ conv \in [Chats -> ConvState(n)] /\ run \in [Chats -> Places]
      /\ watermark \in [1 .. MaxSessions -> 0 .. n] /\ counted \in [Chats -> SUBSET Reflections]
  BY ChatRows
<1>2. new \in SUBSET (1 .. n) /\ G \cup new \in SUBSET (1 .. n)
  BY <1>1, NewestAreRows
<1>3. st \in ConvState(n)
  <2>. HIDE DEF new
  <2>1. conv[k] \in ConvState(n) /\ Fresh \in ConvState(n)
    BY <1>1, StatesTyped
  <2>. QED BY <1>1, <1>2, <2>1, StatesTyped
<1>4. /\ conv' = [conv EXCEPT ![k] = st]
      /\ watermark' = Delivered(session[k], watermark)
      /\ run' = [run EXCEPT ![k] = "answering"]
      /\ UNCHANGED <<reflections, vectors, session, known, latest, counted>>
  BY DEF Recall
<1>. HIDE DEF st
<1>5. conv' \in [Chats -> ConvState(n)] /\ run' \in [Chats -> Places]
  BY <1>1, <1>3, <1>4 DEF Places
<1>6. watermark' \in [1 .. MaxSessions -> 0 .. n]
  BY <1>1, <1>4, DeliveredTyped
<1>. QED BY <1>1, <1>4, <1>5, <1>6, RowsKept

LEMMA ReflectRows ==
    ASSUME RowsTyped, NEW k \in Chats, Reflect(k)
    PROVE  RowsTyped'
<1> DEFINE n == Len(reflections)
<1>1. /\ n \in Nat /\ Reflections = 1 .. n /\ vectors \subseteq Reflections
      /\ conv \in [Chats -> ConvState(n)]
      /\ watermark \in [1 .. MaxSessions -> 0 .. n] /\ counted \in [Chats -> SUBSET Reflections]
  BY ChatRows
<1>2. /\ k \in known /\ n < MaxReflections /\ reflections' = Append(reflections, session[k])
      /\ UNCHANGED <<vectors, conv, watermark, session, known, latest, run, counted>>
  BY DEF Reflect
<1>3. session[k] \in 1 .. latest
  BY <1>2 DEF RowsTyped, InjectionsTypeOK
<1>4. /\ reflections' \in Seq(1 .. latest) /\ Len(reflections') = n + 1 /\ n + 1 <= MaxReflections
  BY <1>1, <1>2, <1>3, InjectionsAssumption DEF RowsTyped, InjectionsTypeOK
<1>5. 1 .. n \subseteq 1 .. n + 1 /\ 0 .. n \subseteq 0 .. n + 1
  BY <1>1
<1>6. ConvState(n) \subseteq ConvState(n + 1)
  BY <1>5 DEF ConvState
<1>7. Reflections' = 1 .. n + 1 /\ conv' \in [Chats -> ConvState(n + 1)]
  BY <1>1, <1>2, <1>4, <1>6 DEF Reflections
<1>8. conv' \in [Chats -> [there : BOOLEAN, seen : SUBSET Reflections', rules : SUBSET Principles,
                           now : SUBSET Reflections']]
  BY <1>7 DEF ConvState
<1>9. /\ watermark' \in [1 .. MaxSessions -> 0 .. Len(reflections')]
      /\ counted' \in [Chats -> SUBSET Reflections'] /\ vectors' \subseteq Reflections'
  BY <1>1, <1>2, <1>4, <1>5, <1>7
<1>. QED BY <1>2, <1>4, <1>8, <1>9 DEF RowsTyped, InjectionsTypeOK

LEMMA OtherRows ==
    ASSUME RowsTyped,
           \/ \E k \in Chats : EndRun(k) \/ Evict(k) \/ Unlearn(k)
           \/ \E r \in Reflections : EmbedReflection(r)
    PROVE  RowsTyped'
<1>1. /\ Len(reflections) \in Nat /\ Reflections = 1 .. Len(reflections)
      /\ vectors \subseteq Reflections
      /\ conv \in [Chats -> ConvState(Len(reflections))] /\ run \in [Chats -> Places]
      /\ watermark \in [1 .. MaxSessions -> 0 .. Len(reflections)]
      /\ counted \in [Chats -> SUBSET Reflections]
  BY ChatRows
<1>2. ASSUME NEW k \in Chats, EndRun(k) PROVE RowsTyped'
  <2>1. run' \in [Chats -> Places] /\ counted' \in [Chats -> SUBSET Reflections]
    BY <1>1, <1>2 DEF EndRun, Places
  <2>. QED BY <1>1, <1>2, <2>1, RowsKept DEF EndRun
<1>3. ASSUME NEW k \in Chats, Evict(k) PROVE RowsTyped'
  <2>1. conv' \in [Chats -> ConvState(Len(reflections))]
    <3>1. Absent \in ConvState(Len(reflections))
      BY DEF Absent, Fresh, ConvState
    <3>. QED BY <1>1, <1>3, <3>1 DEF Evict
  <2>. QED BY <1>1, <1>3, <2>1, RowsKept DEF Evict
<1>4. ASSUME NEW k \in Chats, Unlearn(k) PROVE RowsTyped'
  BY <1>1, <1>4, RowsKept DEF Unlearn
<1>5. ASSUME NEW r \in Reflections, EmbedReflection(r) PROVE RowsTyped'
  BY <1>1, <1>5, RowsKept DEF EmbedReflection
<1>. QED BY <1>2, <1>3, <1>4, <1>5

LEMMA RestartRows ==
    ASSUME RowsTyped, RestartInjections
    PROVE  RowsTyped'
<1>1. /\ Len(reflections) \in Nat /\ Absent \in ConvState(Len(reflections))
  BY ChatRows DEF Absent, Fresh, ConvState
<1>2. /\ conv' \in [Chats -> ConvState(Len(reflections))]
      /\ session' \in [Chats -> 0 .. latest] /\ known' = {}
      /\ watermark' \in [1 .. MaxSessions -> 0 .. Len(reflections)]
      /\ run' \in [Chats -> Places] /\ counted' \in [Chats -> SUBSET Reflections]
      /\ UNCHANGED <<reflections, vectors, latest>>
  BY <1>1 DEF RestartInjections, RowsTyped, Places
<1>. QED BY <1>2, ConvStates DEF RowsTyped, InjectionsTypeOK, Places, Reflections

LEMMA InitialRows == InjectionsInit => RowsTyped
<1>1. Absent \in ConvState(0)
  BY DEF Absent, Fresh, ConvState
<1>2. Len(<<>>) = 0 /\ <<>> \in Seq(1 .. 0)
  OBVIOUS
<1>3. ASSUME InjectionsInit PROVE RowsTyped
  <2>1. Len(reflections) = 0 /\ reflections \in Seq(1 .. latest) /\ latest = 0 /\ known = {}
    BY <1>2, <1>3 DEF InjectionsInit
  <2>2. conv \in [Chats -> ConvState(Len(reflections))]
    BY <1>1, <1>3, <2>1 DEF InjectionsInit
  <2>3. /\ watermark \in [1 .. MaxSessions -> 0 .. Len(reflections)]
        /\ session \in [Chats -> 0 .. latest] /\ vectors \subseteq Reflections
        /\ run \in [Chats -> Places] /\ counted \in [Chats -> SUBSET Reflections]
        /\ latest <= MaxSessions /\ Len(reflections) <= MaxReflections
    BY <1>3, <2>1, InjectionsAssumption DEF InjectionsInit, Places
  <2>. QED BY <2>1, <2>2, <2>3, ConvStates DEF RowsTyped, InjectionsTypeOK, Places
<1>. QED BY <1>3

LEMMA InductiveRows ==
    ASSUME RowsTyped, [InjectionsNext]_injectionVars
    PROVE  RowsTyped'
<1>1. CASE UNCHANGED injectionVars
  BY <1>1 DEF injectionVars, RowsTyped, InjectionsTypeOK, Reflections
<1>. QED BY <1>1, BeginRunRows, BeginIterationRows, EndIterationRows, RecallRows, ReflectRows,
            OtherRows, RestartRows DEF InjectionsNext

-----------------------------------------------------------------------------
(* The coordinator.                                                         *)

\* A behaviour of the coordinator is one of each side.
LEMMA Sides == Spec => InjectionsSpec /\ NudgesSpec
<1>1. Init => InjectionsInit /\ NudgesInit
  BY DEF Init
<1>2. [Next]_vars => [InjectionsNext]_injectionVars /\ [NudgesNext]_nudgeVars
  BY DEF Next, InjectionStep, NudgeStep, vars
<1>. QED BY <1>1, <1>2, PTL DEF Spec, InjectionsSpec, NudgesSpec

\* Whatever other chats, boundaries, evictions and restarts fall between a chat's
\* steps: what a state, a watermark or a vector names is a row that is there, a row
\* names a session that began, and counters stay within their thresholds.
THEOREM CoordinatorTyped == Spec => []ReflectionTypeOK
<1>1. InjectionsSpec => []RowsTyped
  BY InitialRows, InductiveRows, PTL DEF InjectionsSpec
<1>2. RowsTyped => InjectionsTypeOK
  BY DEF RowsTyped
<1>3. InjectionsTypeOK /\ NudgesTypeOK => ReflectionTypeOK
  BY DEF ReflectionTypeOK
<1>. QED BY <1>1, <1>2, <1>3, Sides, NudgesTypeCorrect, PTL

\* The same for what the coordinator shows and credits: each theorem above holds of
\* the coordinator as a whole.
THEOREM CoordinatorCounts == Spec => [](CountedAsShown /\ CreditedAsShown) /\ NudgesAreDue
BY Sides, ViewsAreCounted, OutcomesAreCredited, ToldInTime, PTL
=============================================================================
