--------------------------- MODULE BackgroundProofs ---------------------------
(***************************************************************************)
(* The outcome and the lessons of a session are final; what full-text      *)
(* search misses is marked for a rebuild; a rollback finds the last        *)
(* snapshot, whole, as long as no builder died; the whole is well-typed:   *)
(* for every window, number of retries, sessions, rows, purges, providers, *)
(* callers, broken mirrors and failures.                                   *)
(***************************************************************************)
EXTENDS Background, FiniteSetTheorems, WellFoundedInduction, TLAPS

(* Judges.                                                                  *)

Modes == {"off", "shadow", "apply"}
Signals == [reactions : Seq(Reactions), heard : BOOLEAN,
            stop : {"other", "max_iterations", "failed"}, goal : {"none", "complete", "block"},
            goalActive : BOOLEAN, llmError : BOOLEAN, rated : BOOLEAN]
EndedSessions == [rule : Labels, hard : BOOLEAN, row : Labels \cup {"none"},
                  judge : {"jev", "llm", "over"}, tries : 0 .. Retries,
                  lessons : SUBSET {"ok", "fail"}, lost : BOOLEAN]

\* What the sessions followed ended up with, as a row or without one.
Result(e) == IF e.row = "none" THEN e.rule ELSE e.row

\* Of one ended session: the judge is the only one to change the outcome, in apply
\* mode only, and adds the lessons when it does.
Final(e) ==
  /\ e.hard => e.rule = "fail" /\ e.judge = "over" /\ Result(e) = "fail"
  /\ e.lost => e.judge = "over"
  /\ mode # "apply" => Result(e) = e.rule /\ e.lessons = Lessons(e.rule)
  /\ (e.judge # "over" \/ e.lost) => Result(e) = e.rule
  /\ ((e.judge # "over" \/ e.lost) /\ mode = "apply") => e.lessons = {}
  /\ (e.judge = "over" /\ ~e.lost) => e.lessons = Lessons(Result(e))

\* The inductive invariant.
VerdictInv ==
  /\ mode \in Modes /\ labelled \in BOOLEAN
  /\ sig \in Signals /\ Len(sig.reactions) <= Window
  /\ ended \in Seq(EndedSessions) /\ Len(ended) <= MaxEnded
  /\ \A s \in DOMAIN ended : Final(ended[s])

-----------------------------------------------------------------------------
LEMMA FreshTyped ==
    ASSUME NEW active \in BOOLEAN
    PROVE  Fresh(active) \in Signals /\ Len(Fresh(active).reactions) <= Window
BY VerdictAssumption DEF Fresh, Signals

\* The deque keeps its bound.
LEMMA ReactedTyped ==
    ASSUME NEW st \in Signals, Len(st.reactions) <= Window, NEW reaction \in Reactions
    PROVE  Reacted(st, reaction) \in Signals /\ Len(Reacted(st, reaction).reactions) <= Window
<1> DEFINE all == Append(st.reactions, reaction)
           kept == IF Len(all) > Window THEN Tail(all) ELSE all
<1>1. st.reactions \in Seq(Reactions)
  BY DEF Signals
<1>2. all \in Seq(Reactions) /\ Len(all) = Len(st.reactions) + 1 /\ Len(st.reactions) \in Nat
  BY <1>1
<1>3. kept \in Seq(Reactions) /\ Len(kept) <= Window
  <2>1. CASE Len(all) > Window
    BY <1>2, <2>1, VerdictAssumption
  <2>2. CASE ~(Len(all) > Window)
    BY <1>2, <2>2, VerdictAssumption
  <2>. QED BY <2>1, <2>2
<1>4. Reacted(st, reaction) = [st EXCEPT !.reactions = kept]
  BY DEF Reacted
<1> HIDE DEF kept
<1>. QED BY <1>3, <1>4 DEF Signals

\* A label is one of four, and a hard failure is one of them.
LEMMA LabelTyped ==
    ASSUME NEW st \in Signals
    PROVE  Label(st) \in Labels /\ (HardFailure(st) => Label(st) = "fail")
<1>1. st.reactions \in Seq(Reactions) /\ Len(st.reactions) \in Nat
  BY DEF Signals
<1>2. IsFiniteSet(1 .. Len(st.reactions))
  BY <1>1, FS_Interval
<1>3. Standing(st) \subseteq 1 .. Len(st.reactions)
  BY <1>1 DEF Standing, Places
<1>4. Cardinality(Standing(st)) \in Nat
  BY <1>2, <1>3, FS_Subset, FS_CardinalityType
<1>5. CASE HardFailure(st)
  BY <1>5 DEF Label, Labels
<1>6. CASE ~HardFailure(st) /\ Cardinality(Standing(st)) >= 2
  BY <1>4, <1>6 DEF Label, Labels
<1>7. CASE ~HardFailure(st) /\ Cardinality(Standing(st)) < 2
  BY <1>4, <1>7 DEF Label, Labels
<1>. QED BY <1>4, <1>5, <1>6, <1>7

\* The judge leaves a session final, whatever it says.
LEMMA SettledFinal ==
    ASSUME mode \in Modes, NEW e \in EndedSessions, Final(e), e.judge # "over",
           NEW verdict \in {"ok", "fail", "none"}
    PROVE  Settled(e, verdict) \in EndedSessions /\ Final(Settled(e, verdict))
<1> DEFINE f == Settled(e, verdict)
<1>1. Outcome(e, verdict) \in Labels
  BY DEF Outcome, EndedSessions, Labels
<1>2. Lessons(Outcome(e, verdict)) \subseteq {"ok", "fail"}
  BY DEF Lessons
<1>3. 0 \in 0 .. Retries
  BY VerdictAssumption
<1>4. /\ f \in EndedSessions
      /\ f.rule = e.rule /\ f.hard = e.hard /\ f.judge = "over" /\ f.lost = e.lost
      /\ f.row = IF e.row = "none" THEN "none" ELSE Outcome(e, verdict)
      /\ f.lessons = IF mode = "apply" THEN e.lessons \cup Lessons(Outcome(e, verdict))
                     ELSE e.lessons
  BY <1>1, <1>2, <1>3 DEF Settled, EndedSessions
<1>5. ~e.hard /\ ~e.lost /\ Result(e) = e.rule
  BY DEF Final, EndedSessions
<1>6. Result(f) = Outcome(e, verdict)
  BY <1>4, <1>1 DEF Result, Outcome, Labels
<1>7. CASE mode = "apply"
  <2>1. e.lessons = {}
    BY <1>7 DEF Final
  <2>2. f.lessons = Lessons(Result(f))
    BY <1>4, <1>6, <1>7, <2>1
  <2>. QED BY <1>4, <1>5, <1>7, <2>2 DEF Final
<1>8. CASE mode # "apply"
  <2>1. e.lessons = Lessons(e.rule) /\ Outcome(e, verdict) = e.rule
    BY <1>8 DEF Final, Outcome
  <2>. QED BY <1>4, <1>5, <1>6, <1>8, <2>1 DEF Final
<1>. QED BY <1>4, <1>7, <1>8

\* Another attempt, or another backend, leaves it as it is.
LEMMA AsksAgainFinal ==
    ASSUME NEW e \in EndedSessions, Final(e), e.judge # "over", NEW n \in 0 .. Retries,
           NEW backend \in {"jev", "llm"}
    PROVE  LET f == [e EXCEPT !.judge = backend, !.tries = n]
           IN  f \in EndedSessions /\ Final(f)
<1> DEFINE f == [e EXCEPT !.judge = backend, !.tries = n]
<1>1. /\ f \in EndedSessions /\ f.rule = e.rule /\ f.hard = e.hard /\ f.row = e.row
      /\ f.lessons = e.lessons /\ f.lost = e.lost /\ f.judge # "over"
  BY DEF EndedSessions
<1> HIDE DEF f
<1>2. Final(f)
  BY <1>1 DEF Final, Result
<1>. QED BY <1>1, <1>2 DEF f

-----------------------------------------------------------------------------
\* A change of one ended session that leaves it final.
LEMMA BecomesFinal ==
    ASSUME VerdictInv, NEW s \in DOMAIN ended, NEW e \in EndedSessions, Final(e), Becomes(s, e)
    PROVE  VerdictInv'
<1>1. /\ ended' = [ended EXCEPT ![s] = e]
      /\ mode' = mode /\ labelled' = labelled /\ sig' = sig
  BY DEF Becomes
<1>2. ended \in Seq(EndedSessions) /\ DOMAIN ended = 1 .. Len(ended)
  BY DEF VerdictInv
<1>3. ended' \in Seq(EndedSessions) /\ Len(ended') = Len(ended) /\ DOMAIN ended' = DOMAIN ended
  BY <1>1, <1>2
<1>4. ASSUME NEW i \in DOMAIN ended' PROVE Final(ended[i])' 
  <2>1. ended'[i] = IF i = s THEN e ELSE ended[i]
    BY <1>1, <1>2, <1>3
  <2>2. Final(ended'[i])
    BY <2>1, <1>3 DEF VerdictInv
  <2>. QED BY <2>2, <1>1 DEF Final, Result, Lessons
<1>. QED BY <1>1, <1>3, <1>4 DEF VerdictInv

LEMMA JudgeStepFinal ==
    ASSUME VerdictInv, NEW s \in DOMAIN ended, JudgeStep(s)
    PROVE  VerdictInv'
<1> DEFINE e == ended[s]
<1>1. e \in EndedSessions /\ Final(e) /\ mode \in Modes
  BY DEF VerdictInv
<1>2. e.tries \in Nat /\ e.tries <= Retries /\ Retries \in Nat /\ 0 \in 0 .. Retries
  BY <1>1, VerdictAssumption DEF EndedSessions
<1>3. ASSUME NEW verdict \in {"ok", "fail", "none"}, e.judge # "over",
             Becomes(s, Settled(e, verdict))
      PROVE  VerdictInv'
  BY <1>1, <1>3, SettledFinal, BecomesFinal
<1>4. ASSUME e.judge # "over", Becomes(s, [e EXCEPT !.judge = "llm", !.tries = 0])
      PROVE  VerdictInv'
  BY <1>1, <1>2, <1>4, AsksAgainFinal, BecomesFinal
<1>5. ASSUME NEW fallback \in BOOLEAN, JevFails(s, fallback) PROVE VerdictInv'
  <2> DEFINE n == AttemptsAfter(e.tries)
  <2>1. e.judge = "jev" /\ n \in Nat
    BY <1>2, <1>5 DEF JevFails, AttemptsAfter
  <2>2. CASE n <= Retries
    <3>1. Becomes(s, [e EXCEPT !.tries = n])
      BY <1>5, <2>2 DEF JevFails
    <3>2. [e EXCEPT !.tries = n] = [e EXCEPT !.judge = "jev", !.tries = n]
      BY <2>1, <1>1 DEF EndedSessions
    <3>3. n \in 0 .. Retries
      BY <2>1, <2>2, <1>2
    <3> HIDE DEF n
    <3>. QED BY <1>1, <2>1, <3>1, <3>2, <3>3, AsksAgainFinal, BecomesFinal
  <2>3. CASE n > Retries /\ fallback
    <3>1. Becomes(s, [e EXCEPT !.judge = "llm", !.tries = 0])
      BY <1>5, <2>1, <2>3, <1>2 DEF JevFails
    <3>. QED BY <2>1, <3>1, <1>4
  <2>4. CASE n > Retries /\ ~fallback
    <3>1. Becomes(s, Settled(e, "none"))
      BY <1>5, <2>1, <2>4, <1>2 DEF JevFails
    <3>. QED BY <2>1, <3>1, <1>3
  <2>. QED BY <2>1, <2>2, <2>3, <2>4, <1>2
<1>6. ASSUME NEW fallback \in BOOLEAN, JevUnavailable(s, fallback) PROVE VerdictInv'
  <2>1. e.judge # "over"
    BY <1>6 DEF JevUnavailable
  <2>2. CASE fallback
    BY <1>6, <2>1, <2>2, <1>4 DEF JevUnavailable
  <2>3. CASE ~fallback
    <3>1. Becomes(s, Settled(e, "none"))
      BY <1>6, <2>3 DEF JevUnavailable
    <3>. QED BY <2>1, <3>1, <1>3
  <2>. QED BY <2>2, <2>3
<1>7. ASSUME NEW verdict \in {"ok", "fail", "none"}, Answer(s, verdict) PROVE VerdictInv'
  <2>1. e.judge # "over" /\ Becomes(s, Settled(e, verdict))
    BY <1>7 DEF Answer
  <2>. QED BY <2>1, <1>3
<1>. QED BY <1>5, <1>6, <1>7 DEF JudgeStep

\* A boundary appends a session that is final as far as it goes.
LEMMA EndSessionFinal ==
    ASSUME VerdictInv, NEW opener \in Reactions, NEW written \in BOOLEAN,
           NEW first \in {"jev", "llm"}, EndSession(opener, written, first)
    PROVE  VerdictInv'
<1> DEFINE st == IF labelled /\ opener # "neutral" THEN Reacted(sig, opener) ELSE sig
           rule == Label(st)
           judged == mode # "off" /\ labelled /\ ~HardFailure(st)
           e == [rule |-> rule, hard |-> HardFailure(st), row |-> IF written THEN rule ELSE "none",
                 judge |-> IF judged THEN first ELSE "over", tries |-> 0,
                 lessons |-> LessonsAtEnd(rule, judged), lost |-> FALSE]
<1>1. st \in Signals
  BY ReactedTyped DEF VerdictInv
<1>2. /\ Len(ended) < MaxEnded /\ ended' = Append(ended, e) /\ sig' = Fresh(st.goalActive)
      /\ mode' = mode /\ labelled' = labelled
  BY DEF EndSession, Running
<1>3. st.goalActive \in BOOLEAN
  BY <1>1 DEF Signals
<1>4. rule \in Labels /\ (HardFailure(st) => rule = "fail") /\ HardFailure(st) \in BOOLEAN
  BY <1>1, LabelTyped DEF HardFailure
<1>5. judged \in BOOLEAN /\ LessonsAtEnd(rule, judged) \subseteq {"ok", "fail"}
  BY DEF LessonsAtEnd, Lessons
<1>6. HardFailure(st) => ~judged
  OBVIOUS
<1>7. mode = "off" => ~judged
  OBVIOUS
<1> HIDE DEF st, rule, judged
<1>8. e \in EndedSessions
  BY <1>4, <1>5, VerdictAssumption DEF EndedSessions
<1>9. Result(e) = rule
  BY <1>4 DEF Result, Labels
<1>10. Final(e)
  <2>1. e.lessons = IF judged /\ mode = "apply" THEN {} ELSE Lessons(rule)
    BY DEF LessonsAtEnd
  <2>2. e.judge = IF judged THEN first ELSE "over"
    OBVIOUS
  <2>3. /\ e.rule = rule /\ (e.hard <=> HardFailure(st)) /\ ~e.lost
    OBVIOUS
  <2> HIDE DEF e
  <2>. QED BY <2>1, <2>2, <2>3, <1>4, <1>6, <1>9 DEF Final
<1> HIDE DEF e
<1>11. /\ ended \in Seq(EndedSessions) /\ Len(ended) \in Nat
       /\ ended' \in Seq(EndedSessions) /\ Len(ended') = Len(ended) + 1
  BY <1>2, <1>8 DEF VerdictInv
<1>12. ASSUME NEW i \in DOMAIN ended' PROVE Final(ended[i])'
  <2>1. ended'[i] = IF i = Len(ended) + 1 THEN e ELSE ended[i]
    BY <1>2, <1>8, <1>11
  <2>2. i = Len(ended) + 1 \/ i \in DOMAIN ended
    BY <1>11
  <2>3. Final(ended'[i])
    BY <2>1, <2>2, <1>10, <1>11 DEF VerdictInv
  <2>. QED BY <2>3, <1>2 DEF Final, Result, Lessons
<1>. QED BY <1>2, <1>3, <1>11, <1>12, FreshTyped, VerdictAssumption DEF VerdictInv

\* The end of the process gives up the judges that were out.
LEMMA RestartFinal ==
    ASSUME VerdictInv, RestartVerdict
    PROVE  VerdictInv'
<1> DEFINE GivenUp(e) == [e EXCEPT !.judge = "over", !.tries = 0, !.lost = @ \/ e.judge # "over"]
<1>1. /\ ended' = [s \in DOMAIN ended |-> GivenUp(ended[s])]
      /\ sig' = Fresh(FALSE) /\ mode' = mode /\ labelled' = labelled
  BY DEF RestartVerdict
<1>2. ASSUME NEW e \in EndedSessions, Final(e) PROVE GivenUp(e) \in EndedSessions /\ Final(GivenUp(e))
  <2>1. /\ GivenUp(e) \in EndedSessions /\ GivenUp(e).rule = e.rule /\ GivenUp(e).hard = e.hard
        /\ GivenUp(e).row = e.row /\ GivenUp(e).lessons = e.lessons /\ GivenUp(e).judge = "over"
        /\ GivenUp(e).lost = (e.lost \/ e.judge # "over")
    <3>1. (e.lost \/ e.judge # "over") \in BOOLEAN /\ 0 \in 0 .. Retries
      BY VerdictAssumption
    <3> DEFINE lost == e.lost \/ e.judge # "over"
    <3>2. GivenUp(e) = [e EXCEPT !.judge = "over", !.tries = 0, !.lost = lost]
      OBVIOUS
    <3> HIDE DEF GivenUp, lost
    <3>3. lost \in BOOLEAN
      BY <3>1 DEF lost
    <3>4. /\ GivenUp(e) \in EndedSessions /\ GivenUp(e).rule = e.rule /\ GivenUp(e).hard = e.hard
          /\ GivenUp(e).row = e.row /\ GivenUp(e).lessons = e.lessons /\ GivenUp(e).judge = "over"
          /\ GivenUp(e).lost = lost
      BY <3>1, <3>2, <3>3 DEF EndedSessions
    <3>. QED BY <3>4 DEF lost
  <2> HIDE DEF GivenUp
  <2>. QED BY <2>1, <1>2 DEF Final, Result
<1>3. ended \in Seq(EndedSessions) /\ DOMAIN ended = 1 .. Len(ended) /\ Len(ended) \in Nat
  BY DEF VerdictInv
<1> HIDE DEF GivenUp
<1>4. \A s \in DOMAIN ended : GivenUp(ended[s]) \in EndedSessions /\ Final(GivenUp(ended[s]))
  BY <1>2, <1>3 DEF VerdictInv
<1>5. ended' \in Seq(EndedSessions) /\ Len(ended') = Len(ended) /\ DOMAIN ended' = DOMAIN ended
  BY <1>1, <1>3, <1>4
<1>6. ASSUME NEW i \in DOMAIN ended' PROVE Final(ended[i])'
  <2>1. Final(ended'[i])
    BY <1>1, <1>4, <1>5
  <2>. QED BY <2>1, <1>1 DEF Final, Result, Lessons
<1>. QED BY <1>1, <1>5, <1>6, FreshTyped DEF VerdictInv

LEMMA InductiveVerdict ==
    ASSUME VerdictInv, [VerdictNext]_verdictVars
    PROVE  VerdictInv'
<1> DEFINE Sessions == mode' = mode /\ labelled' = labelled /\ ended' = ended
<1>0. ASSUME sig' \in Signals, Len(sig'.reactions) <= Window, Sessions PROVE VerdictInv'
  BY <1>0 DEF VerdictInv, Final, Result, Lessons
<1>s. sig \in Signals /\ Len(sig.reactions) <= Window
  BY DEF VerdictInv
<1>1. ASSUME NEW reaction \in Reactions, Hear(reaction) PROVE VerdictInv'
  <2>1. Sessions
    BY <1>1 DEF Hear
  <2>2. CASE sig.heard
    <3>1. sig' = Reacted(sig, reaction)
      BY <1>1, <2>2 DEF Hear
    <3>. QED BY <1>0, <1>s, <2>1, <3>1, ReactedTyped
  <2>3. CASE ~sig.heard
    <3>1. sig' = [sig EXCEPT !.heard = TRUE]
      BY <1>1, <2>3 DEF Hear
    <3>2. sig' \in Signals /\ sig'.reactions = sig.reactions
      BY <1>s, <3>1 DEF Signals
    <3>. QED BY <1>0, <1>s, <2>1, <3>2
  <2>. QED BY <2>2, <2>3
<1>2. ASSUME NEW stop \in {"completed", "max_iterations", "failed", "other"}, RunEnds(stop)
      PROVE  VerdictInv'
  <2>1. Sessions /\ sig' \in Signals /\ sig'.reactions = sig.reactions
    BY <1>s, <1>2 DEF RunEnds, Signals
  <2>. QED BY <1>0, <1>s, <2>1
<1>3. CASE LlmError
  <2>1. Sessions /\ sig' \in Signals /\ sig'.reactions = sig.reactions
    BY <1>s, <1>3 DEF LlmError, Signals
  <2>. QED BY <1>0, <1>s, <2>1
<1>4. ASSUME NEW active \in BOOLEAN, GoalSeen(active) PROVE VerdictInv'
  <2>1. Sessions /\ sig' \in Signals /\ sig'.reactions = sig.reactions
    BY <1>s, <1>4 DEF GoalSeen, Signals
  <2>. QED BY <1>0, <1>s, <2>1
<1>5. ASSUME NEW action \in {"complete", "cancel", "block", "replace"}, UpdateGoal(action)
      PROVE  VerdictInv'
  <2>1. Sessions /\ sig' \in Signals /\ sig'.reactions = sig.reactions
    BY <1>s, <1>5 DEF UpdateGoal, Signals
  <2>. QED BY <1>0, <1>s, <2>1
<1>6. CASE RateFailure
  <2>1. Sessions /\ sig' \in Signals /\ sig'.reactions = sig.reactions
    BY <1>s, <1>6 DEF RateFailure, Signals
  <2>. QED BY <1>0, <1>s, <2>1
<1>7. CASE ForgetSignals
  <2>1. Sessions /\ sig' = Fresh(FALSE)
    BY <1>7 DEF ForgetSignals
  <2>. QED BY <1>0, <2>1, FreshTyped
<1>8. CASE UNCHANGED verdictVars
  <2>1. Sessions /\ sig' = sig
    BY <1>8 DEF verdictVars
  <2>. QED BY <1>0, <1>s, <2>1
<1>. QED
  BY <1>1, <1>2, <1>3, <1>4, <1>5, <1>6, <1>7, <1>8, EndSessionFinal, JudgeStepFinal,
     RestartFinal DEF VerdictNext

LEMMA InitialVerdict == VerdictInit => VerdictInv
<1>1. <<>> \in Seq(EndedSessions) /\ Len(<<>>) = 0 /\ DOMAIN <<>> = {}
  OBVIOUS
<1>2. Fresh(FALSE) \in Signals /\ Len(Fresh(FALSE).reactions) <= Window
  BY FreshTyped
<1>3. 0 <= MaxEnded
  BY VerdictAssumption
<1>. QED BY <1>1, <1>2, <1>3 DEF VerdictInit, VerdictInv, Modes

LEMMA InvImpliesFinal == VerdictInv => VerdictTypeOK /\ VerdictIsFinal
<1> SUFFICES ASSUME VerdictInv PROVE VerdictTypeOK /\ VerdictIsFinal
  OBVIOUS
<1>1. VerdictTypeOK
  <2>1. ASSUME NEW s \in DOMAIN ended PROVE ended[s] \in EndedSessions
    BY DEF VerdictInv
  <2>2. \A s \in DOMAIN ended :
          /\ ended[s].rule \in Labels /\ ended[s].row \in Labels \cup {"none"}
          /\ ended[s].judge \in {"jev", "llm", "over"} /\ ended[s].tries \in 0 .. Retries
          /\ ended[s].lessons \subseteq {"ok", "fail"}
          /\ {ended[s].hard, ended[s].lost} \subseteq BOOLEAN
    BY <2>1 DEF EndedSessions
  <2>3. /\ sig.reactions \in Seq(Reactions) /\ Len(sig.reactions) <= Window
        /\ sig.stop \in {"other", "max_iterations", "failed"}
        /\ sig.goal \in {"none", "complete", "block"}
    BY DEF VerdictInv, Signals
  <2>4. {sig.heard, sig.goalActive, sig.llmError, sig.rated} \subseteq BOOLEAN
    BY DEF VerdictInv, Signals
  <2>5. mode \in Modes /\ labelled \in BOOLEAN /\ Len(ended) <= MaxEnded
    BY DEF VerdictInv
  <2>. QED BY <2>2, <2>3, <2>4, <2>5 DEF VerdictTypeOK, Modes
<1>2. ASSUME NEW s \in DOMAIN ended PROVE Cardinality(ended[s].lessons) <= 1
  <2>1. ended[s].lessons = {} \/ \E x : ended[s].lessons = Lessons(x)
    BY DEF VerdictInv, Final, EndedSessions
  <2>2. ended[s].lessons = {} \/ \E x : ended[s].lessons = {x}
    BY <2>1 DEF Lessons
  <2>. QED BY <2>2, FS_EmptySet, FS_Singleton
<1>3. VerdictIsFinal
  BY <1>2 DEF VerdictInv, VerdictIsFinal, Final, Result, EndedSessions
<1>. QED BY <1>1, <1>3

-----------------------------------------------------------------------------
\* Types, and VerdictIsFinal: the lessons drawn from a session are those of the
\* outcome its trajectory ends up with, whenever the judge answers, and however
\* many sessions end and processes die meanwhile.
THEOREM OutcomeIsFinal == VerdictSpec => [](VerdictTypeOK /\ VerdictIsFinal)
<1>1. VerdictSpec => []VerdictInv
  BY InitialVerdict, InductiveVerdict, PTL DEF VerdictSpec
<1>. QED BY <1>1, InvImpliesFinal, PTL

-----------------------------------------------------------------------------
(* What is derived from the rows.                                           *)

Mirrored(t) ==
  index[t] = stored[t] \/ t \in marked \/ (t = "trajectories" /\ ~filled)

Typed ==
  /\ opened \in BOOLEAN /\ filled \in BOOLEAN
  /\ {broken, attached, marked} \subseteq SUBSET Tables
  /\ lastId \in [Tables -> Nat]
  /\ stored \in [Tables -> SUBSET Nat] /\ index \in [Tables -> SUBSET Nat]
  /\ vectors \in [Tables -> SUBSET Nat] /\ late \in [Tables -> SUBSET Nat]
  /\ flying \in [Tables -> SUBSET (SUBSET Nat)]
  /\ pass \in [table : Tables \cup {"none"}, open : SUBSET Nat, early : SUBSET Nat]

\* A write that is running: its open rows are new, those a detach committed are
\* stored, known to be marked, and nothing was derived from them yet.
PassOK ==
  /\ ~opened => pass = NoPass
  /\ pass.table = "none" => pass = NoPass
  /\ IsFiniteSet(pass.open)
  /\ \A t \in Tables : pass.table = t =>
       /\ pass.open # {}
       /\ \A i \in pass.open : lastId[t] < i /\ i <= lastId[t] + Cardinality(pass.open)
       /\ lastId[t] + Cardinality(pass.open) <= Capacity(t)
       /\ pass.early \subseteq stored[t]
       /\ pass.early # {} => t \in marked
       /\ pass.early \cap (vectors[t] \cup UNION flying[t]) = {}

\* Of one table.
TableOK(t) ==
  /\ lastId[t] <= Capacity(t)
  /\ stored[t] \cup index[t] \cup vectors[t] \cup late[t] \cup UNION flying[t] \subseteq 1 .. lastId[t]
  /\ vectors[t] \cup UNION flying[t] \subseteq stored[t] \cup late[t]
  /\ Mirrored(t)
  /\ (opened /\ t \notin attached) => t \in marked

\* The inductive invariant.
IndexInv == Typed /\ PassOK /\ \A t \in Tables : TableOK(t)

-----------------------------------------------------------------------------
LEMMA Capacities == \A t \in Tables : Capacity(t) \in Nat
BY TextIndexAssumption DEF Capacity, Tables

LEMMA InitialIndex == TextIndexInit => IndexInv
<1> SUFFICES ASSUME TextIndexInit PROVE IndexInv
  OBVIOUS
<1>1. PICK old \in {{}, {1}} :
        /\ old \in SUBSET Ids("trajectories")
        /\ stored = [t \in Tables |-> IF t = "chunks" THEN {} ELSE old]
        /\ lastId = [t \in Tables |-> IF t = "chunks" THEN 0 ELSE Cardinality(old)]
  BY DEF TextIndexInit
<1>2. (old = {} /\ Cardinality(old) = 0) \/ (old = {1} /\ Cardinality(old) = 1)
  BY FS_EmptySet, FS_Singleton
<1>3. Cardinality(old) \in Nat /\ Cardinality(old) <= Capacity("trajectories")
  BY <1>1, <1>2, Capacities DEF Ids, Tables
<1>4. old \subseteq 1 .. Cardinality(old)
  BY <1>2
<1> HIDE DEF Cardinality
<1>5. Typed
  <2>1. old \in SUBSET Nat
    BY <1>3, <1>4
  <2>2. stored \in [Tables -> SUBSET Nat] /\ lastId \in [Tables -> Nat]
    BY <1>1, <1>3, <2>1
  <2>. QED BY <2>2 DEF TextIndexInit, Typed, NoPass
<1>6. PassOK
  BY FS_EmptySet DEF TextIndexInit, PassOK, NoPass, Tables
<1>7. ASSUME NEW t \in Tables PROVE TableOK(t)
  <2>1. lastId[t] <= Capacity(t) /\ stored[t] \subseteq 1 .. lastId[t]
    BY <1>1, <1>3, <1>4, Capacities DEF Tables
  <2>2. /\ index[t] = {} /\ vectors[t] = {} /\ late[t] = {} /\ flying[t] = {} /\ ~filled
        /\ ~opened
    BY DEF TextIndexInit
  <2>3. Mirrored(t)
    BY <1>1, <2>2 DEF Mirrored, Tables
  <2>. QED BY <2>1, <2>2, <2>3 DEF TableOK
<1>. QED BY <1>5, <1>6, <1>7 DEF IndexInv

-----------------------------------------------------------------------------
LEMMA OpenOK ==
    ASSUME IndexInv, NEW repaired \in SUBSET Tables, Open(repaired)
    PROVE  IndexInv'
<1>1. /\ ~opened /\ opened' /\ attached' = Tables /\ marked' = marked \ repaired
      /\ filled' = (filled \/ Backfilled # {}) /\ broken' = broken \ repaired
      /\ index' = [t \in Tables |-> IF t \in Backfilled \cup repaired THEN stored[t] ELSE index[t]]
      /\ UNCHANGED <<stored, lastId, pass, flying, vectors, late>>
  BY DEF Open
<1>2. pass = NoPass
  BY <1>1 DEF IndexInv, PassOK
<1>3. Typed'
  BY <1>1 DEF IndexInv, Typed
<1>4. PassOK'
  BY <1>1, <1>2 DEF IndexInv, PassOK, NoPass, Tables
<1>5. ASSUME NEW t \in Tables PROVE TableOK(t)'
  <2>1. TableOK(t)
    BY DEF IndexInv
  <2>2. CASE t \in Backfilled \cup repaired
    <3>1. index'[t] = stored[t]
      BY <1>1, <2>2
    <3>. QED BY <1>1, <2>1, <3>1 DEF TableOK, Mirrored
  <2>3. CASE t \notin Backfilled \cup repaired
    <3>1. index'[t] = index[t] /\ (t \in marked => t \in marked')
      BY <1>1, <2>3
    <3>2. t = "trajectories" /\ ~filled => ~filled'
      BY <1>1, <2>3 DEF Backfilled
    <3>. QED BY <1>1, <2>1, <3>1, <3>2 DEF TableOK, Mirrored
  <2>. QED BY <2>2, <2>3
<1>. QED BY <1>3, <1>4, <1>5 DEF IndexInv

LEMMA DieOK ==
    ASSUME IndexInv, Die
    PROVE  IndexInv'
<1>1. /\ opened' = FALSE /\ pass' = NoPass /\ flying' = [t \in Tables |-> {}]
      /\ UNCHANGED <<stored, lastId, index, broken, attached, marked, filled, vectors, late>>
  BY DEF Die, databaseVars
<1>2. Typed'
  BY <1>1 DEF IndexInv, Typed, NoPass
<1>3. PassOK'
  BY <1>1, FS_EmptySet DEF PassOK, NoPass, Tables
<1>4. ASSUME NEW t \in Tables PROVE TableOK(t)'
  <2>1. flying'[t] = {}
    BY <1>1
  <2>. QED BY <1>1, <2>1 DEF IndexInv, TableOK, Mirrored
<1>. QED BY <1>2, <1>3, <1>4 DEF IndexInv

\* A new row: the ids of a pass stay apart from those stored, and countable.
LEMMA NewRow ==
    ASSUME NEW S \in SUBSET Nat, IsFiniteSet(S), NEW n \in Nat,
           \A i \in S : n < i /\ i <= n + Cardinality(S)
    PROVE  LET i == n + Cardinality(S) + 1
           IN  /\ IsFiniteSet(S \cup {i}) /\ i \in Nat
               /\ Cardinality(S \cup {i}) = Cardinality(S) + 1
               /\ \A j \in S \cup {i} : n < j /\ j <= n + Cardinality(S \cup {i})
<1> DEFINE c == Cardinality(S)
           i == n + c + 1
<1>1. c \in Nat
  BY FS_CardinalityType
<1>2. i \notin S
  BY <1>1
<1>3. IsFiniteSet(S \cup {i}) /\ Cardinality(S \cup {i}) = c + 1
  BY <1>2, FS_AddElement
<1>4. ASSUME NEW j \in S \cup {i} PROVE n < j /\ j <= n + (c + 1)
  BY <1>1
<1> HIDE DEF c
<1>5. i \in Nat
  BY <1>1
<1>. QED BY <1>3, <1>4, <1>5 DEF c

LEMMA InsertRowOK ==
    ASSUME IndexInv, NEW t \in Tables, InsertRow(t)
    PROVE  IndexInv'
<1> DEFINE i == NewId(t)
<1>1. /\ Writable(t) /\ pass' = [table |-> t, open |-> pass.open \cup {i}, early |-> pass.early]
      /\ UNCHANGED <<opened, stored, lastId, index, broken, attached, marked, filled, vectors,
                     flying, late>>
  BY DEF InsertRow, databaseVars
<1>2. /\ opened /\ pass.table \in {"none", t} /\ lastId[t] + Cardinality(pass.open) < Capacity(t)
      /\ lastId[t] \in Nat /\ IsFiniteSet(pass.open) /\ pass.open \in SUBSET Nat
  BY <1>1 DEF Writable, IndexInv, PassOK, Typed
<1>3. \A j \in pass.open : lastId[t] < j /\ j <= lastId[t] + Cardinality(pass.open)
  <2>1. CASE pass.table = "none"
    BY <2>1 DEF IndexInv, PassOK, NoPass
  <2>2. CASE pass.table = t
    BY <2>2 DEF IndexInv, PassOK
  <2>. QED BY <1>2, <2>1, <2>2
<1>4. /\ IsFiniteSet(pass.open \cup {i}) /\ i \in Nat
      /\ Cardinality(pass.open \cup {i}) = Cardinality(pass.open) + 1
      /\ \A j \in pass.open \cup {i} :
           lastId[t] < j /\ j <= lastId[t] + Cardinality(pass.open \cup {i})
  BY <1>1, <1>2, <1>3, NewRow DEF NewId
<1>5. Cardinality(pass.open) \in Nat /\ Capacity(t) \in Nat
  BY <1>2, FS_CardinalityType, Capacities
<1> HIDE DEF i
<1>6. /\ pass.early \subseteq stored[t] /\ (pass.early # {} => t \in marked)
      /\ pass.early \cap (vectors[t] \cup UNION flying[t]) = {}
  <2>1. CASE pass.table = "none"
    BY <2>1 DEF IndexInv, PassOK, NoPass
  <2>2. CASE pass.table = t
    BY <2>2 DEF IndexInv, PassOK
  <2>. QED BY <1>2, <2>1, <2>2
<1>7. Typed'
  BY <1>1, <1>4 DEF IndexInv, Typed
<1>8. /\ pass'.table = t /\ pass'.open = pass.open \cup {i} /\ pass'.early = pass.early
      /\ t # "none"
  BY <1>1 DEF Tables
<1>9. lastId[t] + Cardinality(pass.open \cup {i}) <= Capacity(t)
  BY <1>2, <1>4, <1>5
<1>10. PassOK'
  BY <1>1, <1>2, <1>4, <1>6, <1>8, <1>9 DEF PassOK
<1>11. ASSUME NEW u \in Tables PROVE TableOK(u)'
  BY <1>1 DEF IndexInv, TableOK, Mirrored
<1>. QED BY <1>7, <1>10, <1>11 DEF IndexInv

\* Where the triggers are gone, the mark is set.
LEMMA CommittedOK ==
    ASSUME IndexInv, NEW p \in Tables, pass.table = p, Committed,
           UNCHANGED <<filled, vectors, late>>, marked \subseteq marked'
    PROVE  /\ stored' \in [Tables -> SUBSET Nat] /\ index' \in [Tables -> SUBSET Nat]
           /\ lastId' \in [Tables -> Nat]
           /\ InPass \subseteq stored'[p] /\ InPass \in SUBSET Nat
           /\ \A t \in Tables :
                /\ stored[t] \subseteq stored'[t] /\ lastId[t] <= lastId'[t]
                /\ lastId'[t] <= Capacity(t)
                /\ stored'[t] \cup index'[t] \subseteq 1 .. lastId'[t]
                /\ Mirrored(t)'
<1> DEFINE n == Cardinality(pass.open)
<1>1. /\ stored' = [t \in Tables |-> IF t = p THEN stored[t] \cup pass.open ELSE stored[t]]
      /\ lastId' = [t \in Tables |-> IF t = p THEN lastId[t] + n ELSE lastId[t]]
      /\ index' = [t \in Tables |-> IF t = p /\ t \in attached THEN index[t] \cup pass.open
                                    ELSE index[t]]
  BY DEF Committed
<1>2. Typed /\ pass.open \in SUBSET Nat /\ pass.early \in SUBSET Nat
  BY DEF IndexInv, Typed
<1>3. /\ IsFiniteSet(pass.open) /\ pass.early \subseteq stored[p]
      /\ \A i \in pass.open : lastId[p] < i /\ i <= lastId[p] + n
      /\ lastId[p] + n <= Capacity(p) /\ opened
  <2>1. p # "none"
    BY DEF Tables
  <2>. QED BY <2>1 DEF IndexInv, PassOK, NoPass
<1>4. n \in Nat
  BY <1>3, FS_CardinalityType
<1> HIDE DEF n
<1>5. ASSUME NEW t \in Tables
      PROVE  /\ stored[t] \subseteq stored'[t] /\ lastId[t] <= lastId'[t]
             /\ lastId'[t] <= Capacity(t)
             /\ stored'[t] \cup index'[t] \subseteq 1 .. lastId'[t]
             /\ Mirrored(t)'
  <2>1. TableOK(t) /\ lastId[t] \in Nat
    BY <1>2 DEF IndexInv, Typed
  <2>2. CASE t # p
    <3>1. stored'[t] = stored[t] /\ lastId'[t] = lastId[t] /\ index'[t] = index[t]
      BY <1>1, <2>2
    <3>. QED BY <2>1, <3>1 DEF TableOK, Mirrored
  <2>3. CASE t = p /\ t \in attached
    <3>1. /\ stored'[t] = stored[t] \cup pass.open /\ lastId'[t] = lastId[t] + n
          /\ index'[t] = index[t] \cup pass.open
      BY <1>1, <2>3
    <3>2. pass.open \subseteq 1 .. lastId[t] + n
      BY <1>2, <1>3, <1>4, <2>1, <2>3
    <3>. QED BY <1>3, <1>4, <2>1, <2>3, <3>1, <3>2 DEF TableOK, Mirrored
  <2>4. CASE t = p /\ t \notin attached
    <3>1. /\ stored'[t] = stored[t] \cup pass.open /\ lastId'[t] = lastId[t] + n
          /\ index'[t] = index[t]
      BY <1>1, <2>4
    <3>2. pass.open \subseteq 1 .. lastId[t] + n
      BY <1>2, <1>3, <1>4, <2>1, <2>4
    <3>3. t \in marked'
      BY <1>3, <2>1, <2>4 DEF TableOK
    <3>. QED BY <1>3, <1>4, <2>1, <2>4, <3>1, <3>2, <3>3 DEF TableOK, Mirrored
  <2>. QED BY <2>2, <2>3, <2>4
<1>6. InPass \subseteq stored'[p] /\ InPass \in SUBSET Nat
  BY <1>1, <1>2, <1>3 DEF InPass
<1>7. /\ stored' \in [Tables -> SUBSET Nat] /\ index' \in [Tables -> SUBSET Nat]
      /\ lastId' \in [Tables -> Nat]
  BY <1>1, <1>2, <1>4 DEF Typed
<1>. QED BY <1>5, <1>6, <1>7

LEMMA DetachAndInsertOK ==
    ASSUME IndexInv, NEW t \in Tables, DetachAndInsert(t)
    PROVE  IndexInv'
<1> DEFINE i == NewId(t)
<1>1. /\ Writable(t) /\ Committed /\ marked' = marked \cup {t} /\ attached' = attached \ {t}
      /\ pass' = [table |-> t, open |-> {i}, early |-> InPass]
      /\ UNCHANGED <<opened, broken, filled, flying, vectors, late>>
  BY DEF DetachAndInsert, Detached
<1>2. /\ opened /\ pass.table \in {"none", t} /\ lastId[t] + Cardinality(pass.open) < Capacity(t)
      /\ Typed /\ lastId[t] \in Nat /\ IsFiniteSet(pass.open) /\ Capacity(t) \in Nat
  BY <1>1, Capacities DEF Writable, IndexInv, PassOK, Typed
<1>3. Cardinality(pass.open) \in Nat
  BY <1>2, FS_CardinalityType
<1>4. i \in Nat /\ i = lastId[t] + Cardinality(pass.open) + 1 /\ i <= Capacity(t)
  BY <1>2, <1>3 DEF NewId
<1>5. IsFiniteSet({i}) /\ Cardinality({i}) = 1
  BY FS_Singleton
<1> HIDE DEF i
<1>6. /\ stored' \in [Tables -> SUBSET Nat] /\ index' \in [Tables -> SUBSET Nat]
      /\ lastId' \in [Tables -> Nat]
      /\ InPass \subseteq stored'[t] /\ InPass \in SUBSET Nat
      /\ lastId'[t] = lastId[t] + Cardinality(pass.open)
      /\ \A u \in Tables :
           /\ stored[u] \subseteq stored'[u] /\ lastId[u] <= lastId'[u]
           /\ lastId'[u] <= Capacity(u)
           /\ stored'[u] \cup index'[u] \subseteq 1 .. lastId'[u]
           /\ Mirrored(u)'
  <2>1. CASE pass.table = t
    <3>1. lastId'[t] = lastId[t] + Cardinality(pass.open)
      BY <1>1, <2>1 DEF Committed
    <3>. QED BY <1>1, <2>1, <3>1, CommittedOK
  <2>2. CASE pass.table = "none"
    <3>1. pass.open = {} /\ InPass = {} /\ Cardinality(pass.open) = 0
      BY <2>2, FS_EmptySet DEF IndexInv, PassOK, NoPass, InPass
    <3>2. \A u \in Tables : u # pass.table
      BY <2>2 DEF Tables
    <3>3. stored' = stored /\ lastId' = lastId /\ index' = index
      BY <1>1, <1>2, <3>2 DEF Committed, Typed
    <3>4. \A u \in Tables : TableOK(u)
      BY DEF IndexInv
    <3>. QED BY <1>1, <1>2, <3>1, <3>3, <3>4 DEF TableOK, Mirrored, Typed
  <2>. QED BY <1>2, <2>1, <2>2
<1>7. InPass \cap (vectors[t] \cup UNION flying[t]) = {}
  <2>1. CASE pass.table = t
    <3>1. pass.early \cap (vectors[t] \cup UNION flying[t]) = {}
      BY <2>1 DEF IndexInv, PassOK
    <3>2. \A j \in pass.open : lastId[t] < j /\ j \in Nat
      BY <1>2, <2>1 DEF IndexInv, PassOK, Typed
    <3>3. vectors[t] \cup UNION flying[t] \subseteq 1 .. lastId[t]
      BY DEF IndexInv, TableOK
    <3>4. pass.open \cap (vectors[t] \cup UNION flying[t]) = {}
      BY <1>2, <3>2, <3>3
    <3>. QED BY <3>1, <3>4 DEF InPass
  <2>2. CASE pass.table = "none"
    BY <2>2 DEF IndexInv, PassOK, NoPass, InPass
  <2>. QED BY <1>2, <2>1, <2>2
<1>8. Typed'
  <2>1. pass' \in [table : Tables \cup {"none"}, open : SUBSET Nat, early : SUBSET Nat]
    BY <1>1, <1>4, <1>6
  <2>2. {broken', attached', marked'} \subseteq SUBSET Tables
    BY <1>1, <1>2 DEF Typed
  <2>. QED BY <1>1, <1>2, <1>6, <2>1, <2>2 DEF Typed
<1>9. pass'.table = t /\ pass'.open = {i} /\ pass'.early = InPass /\ t # "none"
  BY <1>1 DEF Tables
<1>10. PassOK'
  <2>1. /\ lastId'[t] < i /\ i <= lastId'[t] + Cardinality({i})
        /\ lastId'[t] + Cardinality({i}) <= Capacity(t)
    BY <1>2, <1>3, <1>4, <1>5, <1>6
  <2>. QED BY <1>1, <1>2, <1>5, <1>6, <1>7, <1>9, <2>1 DEF PassOK
<1>11. ASSUME NEW u \in Tables PROVE TableOK(u)'
  <2>1. TableOK(u) /\ lastId[u] \in Nat /\ lastId'[u] \in Nat
    BY <1>2, <1>6 DEF IndexInv, Typed
  <2>2. vectors[u] \cup late[u] \cup UNION flying[u] \subseteq 1 .. lastId'[u]
    BY <1>6, <2>1 DEF TableOK
  <2>3. u \notin attached' => u \in marked'
    BY <1>1, <1>2, <2>1 DEF TableOK
  <2>. QED BY <1>1, <1>6, <2>1, <2>2, <2>3 DEF TableOK
<1>. QED BY <1>8, <1>10, <1>11 DEF IndexInv

LEMMA CommitPassOK ==
    ASSUME IndexInv, CommitPass
    PROVE  IndexInv'
<1>1. /\ pass.table # "none" /\ Committed /\ pass' = NoPass
      /\ flying' = [t \in Tables |-> IF t = pass.table THEN flying[t] \cup {InPass} ELSE flying[t]]
      /\ UNCHANGED <<opened, broken, attached, marked, filled, vectors, late>>
  BY DEF CommitPass
<1>2. Typed
  BY DEF IndexInv
<1>3. PICK p \in Tables : pass.table = p
  BY <1>1, <1>2 DEF Typed
<1>4. /\ stored' \in [Tables -> SUBSET Nat] /\ index' \in [Tables -> SUBSET Nat]
      /\ lastId' \in [Tables -> Nat]
      /\ InPass \subseteq stored'[p] /\ InPass \in SUBSET Nat
      /\ \A t \in Tables :
           /\ stored[t] \subseteq stored'[t] /\ lastId[t] <= lastId'[t]
           /\ lastId'[t] <= Capacity(t)
           /\ stored'[t] \cup index'[t] \subseteq 1 .. lastId'[t]
           /\ Mirrored(t)'
  BY <1>1, <1>3, CommittedOK
<1>5. Typed'
  <2>1. flying' \in [Tables -> SUBSET (SUBSET Nat)]
    BY <1>1, <1>2, <1>4 DEF Typed
  <2>. QED BY <1>1, <1>2, <1>4, <2>1 DEF Typed, NoPass
<1>6. PassOK'
  BY <1>1, FS_EmptySet DEF PassOK, NoPass, Tables
<1>7. ASSUME NEW t \in Tables PROVE TableOK(t)'
  <2>1. TableOK(t) /\ lastId[t] \in Nat /\ lastId'[t] \in Nat
    BY <1>2, <1>4 DEF IndexInv, Typed
  <2>2. ASSUME NEW batch \in flying'[t] PROVE batch \subseteq stored'[t] \cup late[t]
    <3>1. batch \in flying[t] \/ (t = p /\ batch = InPass)
      BY <1>1, <1>3, <2>2
    <3>2. batch \in flying[t] => batch \subseteq stored[t] \cup late[t]
      BY <2>1 DEF TableOK
    <3>. QED BY <1>4, <3>1, <3>2
  <2>3. UNION flying'[t] \subseteq stored'[t] \cup late[t]
    BY <2>2
  <2>4. stored'[t] \cup late[t] \cup vectors[t] \subseteq 1 .. lastId'[t]
    BY <1>4, <2>1 DEF TableOK
  <2>5. vectors[t] \subseteq stored'[t] \cup late[t]
    BY <1>4, <2>1 DEF TableOK
  <2>. QED BY <1>1, <1>4, <2>1, <2>3, <2>4, <2>5 DEF TableOK
<1>. QED BY <1>5, <1>6, <1>7 DEF IndexInv

LEMMA FailPassOK ==
    ASSUME IndexInv, NEW deleted \in BOOLEAN, FailPass(deleted)
    PROVE  IndexInv'
<1>1. /\ pass.table # "none" /\ pass' = NoPass
      /\ stored' = [t \in Tables |-> IF t = pass.table /\ deleted THEN stored[t] \ pass.early
                                     ELSE stored[t]]
      /\ UNCHANGED <<opened, lastId, index, broken, attached, marked, filled, flying, vectors, late>>
  BY DEF FailPass
<1>2. Typed
  BY DEF IndexInv
<1>3. Typed'
  BY <1>1, <1>2 DEF Typed, NoPass
<1>4. PassOK'
  BY <1>1, FS_EmptySet DEF PassOK, NoPass, Tables
<1>5. ASSUME NEW t \in Tables PROVE TableOK(t)'
  <2>1. TableOK(t)
    BY DEF IndexInv
  <2>2. CASE t = pass.table /\ deleted
    <3>1. stored'[t] = stored[t] \ pass.early
      BY <1>1, <2>2
    <3>2. (pass.early # {} => t \in marked)
          /\ pass.early \cap (vectors[t] \cup UNION flying[t]) = {}
      BY <2>2 DEF IndexInv, PassOK
    <3>. QED BY <1>1, <2>1, <3>1, <3>2 DEF TableOK, Mirrored
  <2>3. CASE ~(t = pass.table /\ deleted)
    <3>1. stored'[t] = stored[t]
      BY <1>1, <2>3
    <3>. QED BY <1>1, <2>1, <3>1 DEF TableOK, Mirrored
  <2>. QED BY <2>2, <2>3
<1>. QED BY <1>3, <1>4, <1>5 DEF IndexInv

\* Marks and broken pages leave the rest alone.
LEMMA MarksOK ==
    ASSUME IndexInv, NEW t \in Tables, Corrupt(t) \/ SearchFails(t)
    PROVE  IndexInv'
<1>1. /\ broken' \in SUBSET Tables /\ marked \subseteq marked' /\ marked' \in SUBSET Tables
      /\ UNCHANGED <<opened, stored, lastId, index, attached, filled, pass, flying, vectors, late>>
  BY DEF Corrupt, SearchFails, IndexInv, Typed
<1>. QED BY <1>1 DEF IndexInv, Typed, PassOK, TableOK, Mirrored

LEMMA EmbedOK ==
    ASSUME IndexInv, NEW t \in Tables, NEW batch \in flying[t],
           EmbedArrives(t, batch) \/ EmbedFails(t, batch)
    PROVE  IndexInv'
<1>1. Typed
  BY DEF IndexInv
<1>2. /\ flying' = [flying EXCEPT ![t] = @ \ {batch}]
      /\ UNCHANGED <<opened, stored, lastId, index, broken, attached, marked, filled, pass, late>>
  BY DEF EmbedArrives, EmbedFails, databaseVars
<1>3. vectors' = [vectors EXCEPT ![t] = @ \cup batch] \/ vectors' = vectors
  BY DEF EmbedArrives, EmbedFails, databaseVars
<1>4. batch \in SUBSET Nat
  BY <1>1 DEF Typed
<1>5. Typed'
  BY <1>1, <1>2, <1>3, <1>4 DEF Typed
<1>6. ASSUME NEW u \in Tables
      PROVE  vectors[u] \subseteq vectors'[u]
             /\ vectors'[u] \cup UNION flying'[u] \subseteq vectors[u] \cup UNION flying[u]
  BY <1>1, <1>2, <1>3 DEF Typed
<1>7. PassOK'
  BY <1>2, <1>6 DEF IndexInv, PassOK
<1>8. ASSUME NEW u \in Tables PROVE TableOK(u)'
  BY <1>2, <1>6 DEF IndexInv, TableOK, Mirrored
<1>. QED BY <1>5, <1>7, <1>8 DEF IndexInv

LEMMA PurgeOK ==
    ASSUME IndexInv, NEW old, Purge(old)
    PROVE  IndexInv'
<1>1. /\ opened /\ pass.open = {}
      /\ stored' = [t \in Tables |-> stored[t] \ old[t]]
      /\ index' = [t \in Tables |-> IF t \in attached THEN index[t] \ old[t] ELSE index[t]]
      /\ vectors' = [t \in Tables |-> vectors[t] \ old[t]]
      /\ late' = [t \in Tables |-> late[t] \cup (old[t] \cap UNION flying[t])]
      /\ UNCHANGED <<opened, lastId, broken, attached, marked, filled, pass, flying>>
  BY DEF Purge
<1>2. Typed /\ \A t \in Tables : old[t] \subseteq stored[t]
  BY DEF IndexInv, Purge
<1>3. pass.table = "none"
  BY <1>1, <1>2 DEF IndexInv, PassOK, Typed
<1>4. Typed'
  BY <1>1, <1>2 DEF Typed
<1>5. PassOK'
  BY <1>1, <1>3 DEF IndexInv, PassOK, Tables
<1>6. ASSUME NEW t \in Tables PROVE TableOK(t)'
  <2>1. TableOK(t) /\ old[t] \subseteq stored[t]
    BY <1>2 DEF IndexInv
  <2>2. /\ stored'[t] = stored[t] \ old[t] /\ vectors'[t] = vectors[t] \ old[t]
        /\ late'[t] = late[t] \cup (old[t] \cap UNION flying[t])
        /\ index'[t] = (IF t \in attached THEN index[t] \ old[t] ELSE index[t])
    BY <1>1
  <2>3. Mirrored(t)'
    BY <1>1, <2>1, <2>2 DEF TableOK, Mirrored
  <2>. QED BY <1>1, <2>1, <2>2, <2>3 DEF TableOK
<1>. QED BY <1>4, <1>5, <1>6 DEF IndexInv

LEMMA InductiveIndex ==
    ASSUME IndexInv, [TextIndexNext]_indexVars
    PROVE  IndexInv'
<1>1. CASE UNCHANGED indexVars
  BY <1>1 DEF indexVars, IndexInv, Typed, PassOK, TableOK, Mirrored
<1>. QED
  BY <1>1, OpenOK, DieOK, InsertRowOK, DetachAndInsertOK, CommitPassOK, FailPassOK, MarksOK,
     EmbedOK, PurgeOK
  DEF TextIndexNext

-----------------------------------------------------------------------------
\* MissingIsMarked: whatever a broken mirror, a failed batch, a purge or a late
\* embedding do, full-text search lacks no row without a mark for the rebuild.
THEOREM SearchIsHonest == TextIndexSpec => []MissingIsMarked
<1>1. IndexInv => MissingIsMarked
  BY DEF IndexInv, TableOK, Mirrored, MissingIsMarked
<1>. QED BY <1>1, InitialIndex, InductiveIndex, PTL DEF TextIndexSpec

-----------------------------------------------------------------------------
(* Snapshots and the heavy-IO lock.                                         *)

JobStages == {"idle", "sleeping", "waiting", "purging", "vacuuming",
              "copying", "archiving", "renaming", "evolving"}

\* Who works on the file under the lock holds it.
Works(j) == job[j] \in {"purging", "vacuuming", "copying", "archiving", "renaming"}
LockInv == \A j \in Purges \cup {Cycle} : Works(j) => Holds(j)

Dir == [ts : Nat, by : Builders, half : BOOLEAN, parts : SUBSET Parts, beside : BOOLEAN]

HeavyTyped ==
  /\ HeavyIoTypeOK
  /\ clock \in Nat /\ job \in [Jobs -> JobStages]

\* What stands under a builder's name is its own, half built, as far as it has come.
BuilderOK(j) ==
  /\ ts[j] # 0 /\ ts[j] \notin leftovers
  /\ \A i \in Building \ {j} : ts[i] # ts[j]
  /\ \A d \in dirs : d.ts = ts[j] =>
       /\ d.half /\ d.by = j
       /\ job[j] # "copying" => "db" \in d.parts
       /\ job[j] = "renaming" => d.parts = Parts

\* A directory is named once; a half built one has its builder or outlived it; one
\* in place is whole; and the cycle's was built with no purge beside it.
DirOK(d) ==
  /\ \A e \in dirs : e.ts = d.ts => e = d
  /\ d.half => d.ts \in leftovers \/ \E j \in Building : d.ts = ts[j]
  /\ ~d.half => d.parts = Parts /\ d.ts <= newest
  /\ d.by = Cycle => ~d.beside

\* The last one put in place is there.  With one kept, or one left by a builder that
\* died, a prune may have taken it: half built ones sort last.
NewestKept ==
  Retain >= 2 /\ leftovers = {} /\ newest # 0 => \E d \in dirs : d.ts = newest /\ ~d.half

\* The inductive invariant.
HeavyInv ==
  /\ HeavyTyped /\ LockInv
  /\ \A j \in Building : BuilderOK(j)
  /\ \A d \in dirs : DirOK(d)
  /\ NewestKept

-----------------------------------------------------------------------------
LEMMA HeavyFacts ==
    ASSUME HeavyTyped
    PROVE  /\ clock \in Nat /\ clock <= MaxSnapshots /\ MaxSnapshots \in Nat
           /\ Retain \in Nat \ {0} /\ Purges \cap Builders = {}
           /\ Jobs = Purges \cup Builders /\ Cycle \in Builders /\ Approval \in Builders
           /\ Cycle # Approval /\ Cycle \notin Purges /\ Approval \notin Purges
           /\ queue \in Seq(Purges \cup {Cycle})
           /\ dirs \subseteq Dir
           /\ \A d \in dirs : d.ts \in 1 .. clock
           /\ ts \in [Builders -> 0 .. clock] /\ newest \in 0 .. clock
           /\ leftovers \subseteq 1 .. clock
           /\ Building \subseteq Builders
<1>1. 1 .. clock \subseteq Nat
  OBVIOUS
<1>. QED BY <1>1, HeavyIoAssumption, PurgesAssumption
         DEF HeavyTyped, HeavyIoTypeOK, Jobs, Builders, Dir, Cycle, Approval, Building

LEMMA InitialHeavy == HeavyIoInit => HeavyInv
<1> SUFFICES ASSUME HeavyIoInit PROVE HeavyInv
  OBVIOUS
<1>1. HeavyTyped
  <2>1. <<>> \in Seq(Purges \cup {Cycle}) /\ 0 \in 0 .. MaxSnapshots
    BY HeavyIoAssumption
  <2>2. \A j \in Jobs : job[j] = "idle"
    BY DEF HeavyIoInit
  <2>3. job \in [Jobs -> JobStages]
    BY DEF HeavyIoInit, JobStages
  <2>4. ts \in [Builders -> 0 .. clock] /\ clock \in 0 .. MaxSnapshots /\ newest \in 0 .. clock
    BY <2>1 DEF HeavyIoInit
  <2>5. /\ alive \in BOOLEAN /\ leftovers = {} /\ dirs = {} /\ clock \in Nat
        /\ queue \in Seq(Purges \cup {Cycle})
    BY <2>1 DEF HeavyIoInit
  <2>. QED BY <2>2, <2>3, <2>4, <2>5 DEF HeavyTyped, HeavyIoTypeOK, Jobs
<1>2. Building = {} /\ LockInv
  BY DEF HeavyIoInit, Building, LockInv, Works, Jobs, Builders
<1>. QED BY <1>1, <1>2 DEF HeavyIoInit, HeavyInv, NewestKept

(* The lock.                                                                *)

\* Who asks goes behind who holds; who lets go is the one that held.
LEMMA AsksKeeps ==
    ASSUME HeavyTyped, LockInv, NEW i \in Purges \cup {Cycle}, Asks(i),
           NEW stage \in JobStages, Moves(i, stage),
           stage \notin {"purging", "vacuuming", "copying", "archiving", "renaming"}
    PROVE  LockInv' /\ queue' \in Seq(Purges \cup {Cycle})
<1> DEFINE S == Purges \cup {Cycle}
<1>1. queue \in Seq(S) /\ queue' = Append(queue, i) /\ job \in [Jobs -> JobStages]
  BY HeavyFacts DEF Asks, HeavyTyped
<1>2. queue' \in Seq(S) /\ \A j \in S : Holds(j) => Holds(j)'
  <2>. HIDE DEF S
  <2>1. \A j \in S : queue # <<>> /\ Head(queue) = j => queue' # <<>> /\ Head(queue') = j
    BY <1>1
  <2>. QED BY <1>1, <2>1 DEF Holds, S
<1>3. \A j \in S : Works(j)' => Works(j)
  BY <1>1 DEF Moves, Works, Jobs, Builders
<1>. QED BY <1>2, <1>3 DEF LockInv

LEMMA ReleasedKeeps ==
    ASSUME HeavyTyped, LockInv, NEW i \in Purges \cup {Cycle}, Holds(i), Released,
           NEW stage \in JobStages, Moves(i, stage),
           stage \notin {"purging", "vacuuming", "copying", "archiving", "renaming"}
    PROVE  LockInv' /\ queue' \in Seq(Purges \cup {Cycle})
<1> DEFINE S == Purges \cup {Cycle}
<1>1. /\ queue \in Seq(S) /\ queue # <<>> /\ queue' = Tail(queue) /\ job \in [Jobs -> JobStages]
      /\ Head(queue) = i
  BY HeavyFacts DEF Released, HeavyTyped, Holds
<1>2. queue' \in Seq(S)
  <2>. HIDE DEF S
  <2>. QED BY <1>1
<1>3. ASSUME NEW j \in S PROVE ~Works(j)'
  <2>1. CASE j = i
    BY <1>1, <2>1 DEF Moves, Works, Jobs, Builders
  <2>2. CASE j # i
    <3>1. job'[j] = job[j]
      BY <1>1, <2>2 DEF Moves, Jobs, Builders
    <3>2. ~Works(j)
      BY <1>1, <2>2 DEF LockInv, Holds
    <3>. QED BY <3>1, <3>2 DEF Works
  <2>. QED BY <2>1, <2>2
<1>. QED BY <1>2, <1>3 DEF LockInv

\* A job moves and the lock stays.
LEMMA MovesKeeps ==
    ASSUME HeavyTyped, LockInv, NEW i \in Jobs, NEW stage \in JobStages, Moves(i, stage),
           UNCHANGED queue, i \in Purges \cup {Cycle} => Holds(i) \/ ~(Works(i)')
    PROVE  LockInv'
<1>1. job \in [Jobs -> JobStages] /\ job' = [job EXCEPT ![i] = stage]
  BY DEF HeavyTyped, Moves
<1>2. \A j \in Purges \cup {Cycle} : j # i => (Works(j)' <=> Works(j))
  BY <1>1 DEF Works, Jobs, Builders
<1>3. \A j : Holds(j)' <=> Holds(j)
  BY DEF Holds
<1>. QED BY <1>2, <1>3 DEF LockInv

-----------------------------------------------------------------------------
\* A step that touches no directory, builds nothing and kills nobody.
LEMMA QuietJob ==
    ASSUME HeavyInv, LockInv', HeavyTyped', Building' = Building,
           \A j \in Building : job'[j] = job[j],
           UNCHANGED <<dirs, ts, newest, leftovers>>
    PROVE  HeavyInv'
<1>1. \A j \in Building' : BuilderOK(j)'
  BY DEF HeavyInv, BuilderOK
<1>2. \A d \in dirs' : DirOK(d)'
  BY DEF HeavyInv, DirOK
<1>. QED BY <1>1, <1>2 DEF HeavyInv, NewestKept

\* The steps of a purge, and of the cycle outside its snapshot.
LEMMA OutsideOK ==
    ASSUME HeavyInv,
           \/ StartAgent \/ ScheduleCycle \/ EndCycle \/ SkipSnapshot
           \/ \E p \in Purges : SchedulePurge(p) \/ Wake(p) \/ Vacuum(p) \/ EndPurge(p)
    PROVE  HeavyInv'
<1>0. HeavyTyped /\ LockInv
  BY DEF HeavyInv
<1>1. /\ Purges \cap Builders = {} /\ Jobs = Purges \cup Builders /\ Cycle \in Builders
      /\ Builders = {Cycle, Approval} /\ Cycle # Approval
      /\ job \in [Jobs -> JobStages]
  BY <1>0, HeavyFacts DEF HeavyTyped, Builders
<1>2. CASE StartAgent
  <2>1. LockInv' /\ Building' = Building /\ HeavyTyped'
    BY <1>0, <1>2 DEF StartAgent, LockInv, Works, Holds, Building, HeavyTyped, HeavyIoTypeOK
  <2>. QED BY <1>2, <2>1, QuietJob DEF StartAgent
<1>3. ASSUME NEW p \in Purges, NEW stage \in {"idle", "sleeping", "waiting", "purging", "vacuuming"},
             Moves(p, stage), LockInv', queue' \in Seq(Purges \cup {Cycle}),
             UNCHANGED <<alive, dirs, clock, ts, newest, leftovers>>
      PROVE  HeavyInv'
  <2>1. /\ job' \in [Jobs -> JobStages] /\ job'[p] = stage
        /\ \A j \in Jobs \ {p} : job'[j] = job[j]
    BY <1>1, <1>3 DEF Moves, JobStages
  <2>2. Building' = Building /\ \A j \in Builders : job'[j] = job[j]
    BY <1>1, <2>1 DEF Building
  <2>3. HeavyTyped'
    BY <1>0, <1>1, <1>3, <2>1, <2>2 DEF HeavyTyped, HeavyIoTypeOK
  <2>. QED BY <1>1, <1>3, <2>2, <2>3, QuietJob DEF Building
<1>4. ASSUME NEW stage \in {"idle", "waiting", "evolving"}, job[Cycle] \in {"idle", "waiting", "evolving"},
             Moves(Cycle, stage), LockInv', queue' \in Seq(Purges \cup {Cycle}),
             UNCHANGED <<alive, dirs, clock, ts, newest, leftovers>>
      PROVE  HeavyInv'
  <2>1. /\ job' \in [Jobs -> JobStages] /\ job'[Cycle] = stage
        /\ \A j \in Jobs \ {Cycle} : job'[j] = job[j]
    BY <1>1, <1>4 DEF Moves, JobStages
  <2>2. Building' = Building /\ \A j \in Building : job'[j] = job[j]
    BY <1>1, <1>4, <2>1 DEF Building
  <2>3. HeavyTyped'
    BY <1>0, <1>1, <1>4, <2>1 DEF HeavyTyped, HeavyIoTypeOK
  <2>. QED BY <1>4, <2>2, <2>3, QuietJob
<1>5. ASSUME NEW p \in Purges, SchedulePurge(p) PROVE HeavyInv'
  <2>1. Moves(p, "sleeping") /\ UNCHANGED <<alive, queue, dirs, clock, ts, newest, leftovers>>
    BY <1>5 DEF SchedulePurge
  <2>2. LockInv'
    <3>1. ~(Works(p)')
      BY <1>1, <2>1 DEF Works, Moves
    <3>. QED BY <1>0, <1>1, <2>1, <3>1, MovesKeeps DEF JobStages
  <2>. QED BY <1>0, <1>3, <2>1, <2>2, HeavyFacts
<1>6. ASSUME NEW p \in Purges, Wake(p) PROVE HeavyInv'
  <2>1. Moves(p, "waiting") /\ Asks(p) /\ UNCHANGED <<alive, dirs, clock, ts, newest, leftovers>>
    BY <1>6 DEF Wake
  <2>2. LockInv' /\ queue' \in Seq(Purges \cup {Cycle})
    BY <1>0, <2>1, AsksKeeps DEF JobStages
  <2>. QED BY <1>3, <2>1, <2>2
<1>7. ASSUME NEW p \in Purges, Vacuum(p) PROVE HeavyInv'
  <2>1. /\ Moves(p, "vacuuming") /\ job[p] = "purging"
        /\ UNCHANGED <<alive, queue, dirs, clock, ts, newest, leftovers>>
    BY <1>7 DEF Vacuum
  <2>2. Holds(p)
    BY <1>0, <2>1 DEF LockInv, Works
  <2>3. LockInv'
    BY <1>0, <1>1, <2>1, <2>2, MovesKeeps DEF JobStages
  <2>. QED BY <1>0, <1>3, <2>1, <2>3, HeavyFacts
<1>8. ASSUME NEW p \in Purges, EndPurge(p) PROVE HeavyInv'
  <2>1. /\ Moves(p, "idle") /\ Released /\ job[p] \in {"purging", "vacuuming"}
        /\ UNCHANGED <<alive, dirs, clock, ts, newest, leftovers>>
    BY <1>8 DEF EndPurge, Purging
  <2>2. Holds(p)
    BY <1>0, <2>1 DEF LockInv, Works
  <2>3. LockInv' /\ queue' \in Seq(Purges \cup {Cycle})
    BY <1>0, <2>1, <2>2, ReleasedKeeps DEF JobStages
  <2>. QED BY <1>3, <2>1, <2>3
<1>9. CASE ScheduleCycle
  <2>1. /\ job[Cycle] = "idle" /\ Moves(Cycle, "waiting") /\ Asks(Cycle)
        /\ UNCHANGED <<alive, dirs, clock, ts, newest, leftovers>>
    BY <1>9 DEF ScheduleCycle
  <2>2. LockInv' /\ queue' \in Seq(Purges \cup {Cycle})
    BY <1>0, <2>1, AsksKeeps DEF JobStages
  <2>. QED BY <1>4, <2>1, <2>2
<1>10. CASE EndCycle
  <2>1. /\ job[Cycle] = "evolving" /\ Moves(Cycle, "idle")
        /\ UNCHANGED <<alive, queue, dirs, clock, ts, newest, leftovers>>
    BY <1>10 DEF EndCycle
  <2>2. LockInv'
    <3>1. ~(Works(Cycle)')
      BY <1>1, <2>1 DEF Works, Moves
    <3>. QED BY <1>0, <1>1, <2>1, <3>1, MovesKeeps DEF JobStages
  <2>. QED BY <1>0, <1>4, <2>1, <2>2, HeavyFacts
<1>11. CASE SkipSnapshot
  <2>1. /\ job[Cycle] = "waiting" /\ Holds(Cycle) /\ Moves(Cycle, "evolving") /\ Released
        /\ UNCHANGED <<alive, dirs, clock, ts, newest, leftovers>>
    BY <1>11 DEF SkipSnapshot, MayBuild
  <2>2. LockInv' /\ queue' \in Seq(Purges \cup {Cycle})
    BY <1>0, <2>1, ReleasedKeeps DEF JobStages
  <2>. QED BY <1>4, <2>1, <2>2
<1>. QED BY <1>2, <1>5, <1>6, <1>7, <1>8, <1>9, <1>10, <1>11

\* A purge that begins is beside no snapshot of the cycle: one of them has the lock.
LEMMA BeginPurgeOK ==
    ASSUME HeavyInv, NEW p \in Purges, BeginPurge(p)
    PROVE  HeavyInv'
<1>0. HeavyTyped /\ LockInv
  BY DEF HeavyInv
<1>1. /\ Purges \cap Builders = {} /\ Jobs = Purges \cup Builders /\ Cycle \in Builders
      /\ Cycle \notin Purges /\ job \in [Jobs -> JobStages] /\ dirs \subseteq Dir
      /\ Building \subseteq Builders
  BY <1>0, HeavyFacts DEF HeavyTyped
<1>2. /\ Moves(p, "purging") /\ Holds(p) /\ dirs' = Seen(dirs)
      /\ UNCHANGED <<alive, queue, clock, ts, newest, leftovers>>
  BY DEF BeginPurge
<1>3. /\ job' \in [Jobs -> JobStages] /\ job'[p] = "purging"
      /\ \A j \in Jobs \ {p} : job'[j] = job[j]
  BY <1>1, <1>2 DEF Moves, JobStages
<1>4. Building' = Building /\ \A j \in Builders : job'[j] = job[j]
  BY <1>1, <1>3 DEF Building
<1>5. LockInv'
  BY <1>0, <1>1, <1>2, MovesKeeps DEF JobStages
<1>6. Cycle \notin Building
  BY <1>0, <1>1, <1>2 DEF LockInv, Works, Building, Holds
<1> DEFINE see(d) == IF d.half /\ d.ts \notin leftovers THEN [d EXCEPT !.beside = TRUE] ELSE d
<1>7. \A d \in dirs : /\ see(d) \in Dir /\ see(d).ts = d.ts /\ see(d).by = d.by
                      /\ see(d).half = d.half /\ see(d).parts = d.parts
                      /\ ~d.beside /\ ~(d.half /\ d.ts \notin leftovers) => ~see(d).beside
  <2>1. ASSUME NEW d \in dirs
        PROVE  /\ see(d) \in Dir /\ see(d).ts = d.ts /\ see(d).by = d.by
               /\ see(d).half = d.half /\ see(d).parts = d.parts
               /\ ~d.beside /\ ~(d.half /\ d.ts \notin leftovers) => ~see(d).beside
    <3>1. d \in Dir
      BY <1>1
    <3>2. CASE d.half /\ d.ts \notin leftovers
      BY <3>1, <3>2 DEF Dir
    <3>3. CASE ~(d.half /\ d.ts \notin leftovers)
      BY <3>1, <3>3 DEF Dir
    <3>. QED BY <3>2, <3>3
  <2>. QED BY <2>1
<1>8. dirs' = {see(d) : d \in dirs}
  BY <1>2 DEF Seen
<1>9. \A d \in dirs : d.half /\ d.ts \notin leftovers => d.by # Cycle
  <2>1. ASSUME NEW d \in dirs, d.half, d.ts \notin leftovers PROVE d.by # Cycle
    <3>1. PICK j \in Building : d.ts = ts[j]
      BY <2>1 DEF HeavyInv, DirOK
    <3>2. d.by = j
      BY <3>1 DEF HeavyInv, BuilderOK
    <3>. QED BY <1>6, <3>1, <3>2
  <2>. QED BY <2>1
<1> HIDE DEF see
<1>10. HeavyTyped'
  <2>1. dirs' \subseteq [ts : 1 .. clock, by : Builders, half : BOOLEAN, parts : SUBSET Parts,
                         beside : BOOLEAN]
    <3>1. ASSUME NEW d \in dirs
          PROVE  see(d) \in [ts : 1 .. clock, by : Builders, half : BOOLEAN, parts : SUBSET Parts,
                             beside : BOOLEAN]
      <4>1. see(d) \in Dir /\ see(d).ts \in 1 .. clock
        BY <1>0, <1>7, HeavyFacts
      <4>. QED BY <4>1 DEF Dir
    <3>. QED BY <1>8, <3>1
  <2>. QED BY <1>0, <1>1, <1>2, <1>3, <1>4, <2>1 DEF HeavyTyped, HeavyIoTypeOK
<1>11. \A j \in Building' : BuilderOK(j)'
  <2>1. ASSUME NEW j \in Building PROVE BuilderOK(j)'
    <3>1. BuilderOK(j) /\ job'[j] = job[j]
      BY <1>1, <1>4 DEF HeavyInv
    <3>. QED BY <1>2, <1>4, <1>7, <1>8, <3>1 DEF BuilderOK
  <2>. QED BY <1>4, <2>1
<1>12. \A e \in dirs' : DirOK(e)'
  <2>. SUFFICES ASSUME NEW e \in dirs' PROVE DirOK(e)'
    OBVIOUS
  <2>1. PICK d \in dirs : e = see(d)
    BY <1>8
  <2>2. DirOK(d)
    BY DEF HeavyInv
  <2>3. \A f \in dirs' : f.ts = e.ts => f = e
    BY <1>7, <1>8, <2>1, <2>2 DEF DirOK
  <2>4. e.half => e.ts \in leftovers' \/ \E j \in Building' : e.ts = ts'[j]
    BY <1>2, <1>4, <1>7, <2>1, <2>2 DEF DirOK
  <2>5. (~e.half => e.parts = Parts /\ e.ts <= newest') /\ (e.by = Cycle => ~e.beside)
    BY <1>2, <1>7, <1>9, <2>1, <2>2 DEF DirOK
  <2>. QED BY <2>3, <2>4, <2>5 DEF DirOK
<1>13. NewestKept'
  <2>1. ASSUME NEW d \in dirs, d.ts = newest, ~d.half
        PROVE  \E e \in dirs' : e.ts = newest /\ ~e.half
    BY <1>7, <1>8, <2>1
  <2>. QED BY <1>2, <2>1 DEF HeavyInv, NewestKept
<1>. QED BY <1>5, <1>10, <1>11, <1>12, <1>13 DEF HeavyInv

-----------------------------------------------------------------------------
(* A builder's steps.                                                       *)

BuilderStages == {"idle", "waiting", "copying", "archiving", "renaming", "evolving"}
BuildStages == {"copying", "archiving", "renaming"}

DirUpTo(n) == [ts : 1 .. n, by : Builders, half : BOOLEAN, parts : SUBSET Parts, beside : BOOLEAN]

LEMMA BuilderMoves ==
    ASSUME HeavyTyped, NEW j \in Builders, NEW stage \in BuilderStages, Moves(j, stage)
    PROVE  /\ job' \in [Jobs -> JobStages] /\ job'[j] = stage
           /\ \A i \in Jobs \ {j} : job'[i] = job[i]
           /\ Building' = IF stage \in BuildStages THEN Building \cup {j} ELSE Building \ {j}
           /\ \A i \in Building \ {j} : i \in Building' /\ job'[i] = job[i]
<1>1. job \in [Jobs -> JobStages] /\ Jobs = Purges \cup Builders /\ stage \in JobStages
  BY HeavyFacts DEF HeavyTyped, BuilderStages, JobStages
<1>2. job' \in [Jobs -> JobStages] /\ job'[j] = stage /\ \A i \in Jobs \ {j} : job'[i] = job[i]
  BY <1>1 DEF Moves
<1>3. Building' = IF stage \in BuildStages THEN Building \cup {j} ELSE Building \ {j}
  BY <1>1, <1>2 DEF Building, BuildStages
<1>. QED BY <1>1, <1>2, <1>3 DEF Building

LEMMA TypedKeeps ==
    ASSUME HeavyTyped, NEW j \in Builders, NEW stage \in BuilderStages, Moves(j, stage),
           alive' = alive, clock' \in Nat, clock' <= MaxSnapshots,
           newest' \in 0 .. clock', ts' \in [Builders -> 0 .. clock'],
           leftovers' \subseteq 1 .. clock', queue' \in Seq(Purges \cup {Cycle}),
           dirs' \subseteq DirUpTo(clock')
    PROVE  HeavyTyped'
<1>1. /\ job' \in [Jobs -> JobStages] /\ job'[j] = stage /\ \A i \in Jobs \ {j} : job'[i] = job[i]
  BY BuilderMoves
<1>2. Purges \cap Builders = {} /\ Jobs = Purges \cup Builders
  BY HeavyFacts
<1>3. \A p \in Purges : job'[p] = job[p]
  BY <1>1, <1>2
<1>4. \A i \in Builders :
        job'[i] \in {"idle", "waiting", "copying", "archiving", "renaming", "evolving"}
  <2>1. \A i \in Builders :
          job[i] \in {"idle", "waiting", "copying", "archiving", "renaming", "evolving"}
    BY DEF HeavyTyped, HeavyIoTypeOK
  <2>2. \A i \in Builders : job'[i] = job[i] \/ job'[i] = stage
    BY <1>1, <1>2
  <2>. QED BY <2>1, <2>2 DEF BuilderStages
<1>5. \A p \in Purges : job'[p] \in {"idle", "sleeping", "waiting", "purging", "vacuuming"}
  BY <1>3 DEF HeavyTyped, HeavyIoTypeOK
<1>6. clock' \in 0 .. MaxSnapshots /\ alive' \in BOOLEAN
  BY HeavyIoAssumption DEF HeavyTyped, HeavyIoTypeOK
<1>7. dirs' \subseteq [ts : 1 .. clock', by : Builders, half : BOOLEAN, parts : SUBSET Parts,
                      beside : BOOLEAN]
  BY DEF DirUpTo
<1>. QED BY <1>1, <1>4, <1>5, <1>6, <1>7 DEF HeavyTyped, HeavyIoTypeOK

\* The cycle builds with the lock, the approval without.
LEMMA BuilderLock ==
    ASSUME HeavyTyped, LockInv, NEW j \in Builders, NEW stage \in BuilderStages, Moves(j, stage),
           UNCHANGED queue, j = Cycle => Holds(Cycle)
    PROVE  LockInv'
<1>1. j \in Jobs /\ stage \in JobStages /\ (j \in Purges \cup {Cycle} => j = Cycle)
  BY HeavyFacts DEF BuilderStages, JobStages
<1>. QED BY <1>1, MovesKeeps

LEMMA DoneLock ==
    ASSUME HeavyTyped, LockInv, NEW j \in Building, Moves(j, After(j)), Leaves(j)
    PROVE  LockInv' /\ queue' \in Seq(Purges \cup {Cycle}) /\ After(j) \in {"idle", "evolving"}
<1>1. /\ j \in Builders /\ Cycle # Approval /\ After(j) \in {"idle", "evolving"}
      /\ queue \in Seq(Purges \cup {Cycle})
  BY HeavyFacts DEF After
<1>2. CASE j = Cycle
  <2>1. Holds(Cycle)
    BY <1>2 DEF LockInv, Works, Building
  <2>2. After(j) \in JobStages
            /\ After(j) \notin {"purging", "vacuuming", "copying", "archiving", "renaming"}
    BY DEF After, JobStages
  <2>. QED BY <1>1, <1>2, <2>1, <2>2, ReleasedKeeps DEF Leaves
<1>3. CASE j # Cycle
  <2>1. UNCHANGED queue /\ After(j) \in BuilderStages
    BY <1>1, <1>3 DEF Leaves, BuilderStages
  <2>. QED BY <1>1, <1>3, <2>1, BuilderLock
<1>. QED BY <1>2, <1>3

\* j builds under the name `at`: what stood there is replaced by m.
LEMMA BuildOK ==
    ASSUME HeavyInv, NEW j \in Builders, NEW at \in Nat \ {0},
           ts' = [ts EXCEPT ![j] = at], j \in Building => at = ts[j],
           NEW m \in Dir, dirs' = {d \in dirs : d.ts # at} \cup {m},
           m.ts = at, m.by = j, m.half, j = Cycle => ~m.beside,
           NEW stage \in BuildStages, Moves(j, stage),
           stage # "copying" => "db" \in m.parts, stage = "renaming" => m.parts = Parts,
           at \notin leftovers, \A i \in Building \ {j} : ts[i] # at,
           \A d \in dirs : d.ts = at => d.half,
           UNCHANGED <<alive, newest, leftovers>>, LockInv', queue' \in Seq(Purges \cup {Cycle}),
           clock' \in Nat, clock <= clock', clock' <= MaxSnapshots, at <= clock'
    PROVE  HeavyInv'
<1>0. HeavyTyped /\ LockInv /\ stage \in BuilderStages
  BY DEF HeavyInv, BuildStages, BuilderStages
<1>1. /\ clock \in Nat /\ ts \in [Builders -> 0 .. clock] /\ newest \in 0 .. clock
      /\ leftovers \subseteq 1 .. clock /\ dirs \subseteq Dir /\ \A d \in dirs : d.ts \in 1 .. clock
  BY <1>0, HeavyFacts
<1>2. /\ Building' = Building \cup {j} /\ job'[j] = stage
      /\ \A i \in Building \ {j} : job'[i] = job[i]
  BY <1>0, BuilderMoves
<1>3. ts'[j] = at /\ (\A i \in Builders \ {j} : ts'[i] = ts[i]) /\ ts' \in [Builders -> 0 .. clock']
  BY <1>1
<1>4. HeavyTyped'
  <2>1. dirs' \subseteq DirUpTo(clock')
    <3>1. ASSUME NEW d \in dirs' PROVE d \in DirUpTo(clock')
      <4>1. d \in Dir /\ d.ts \in 1 .. clock'
        BY <1>1
      <4>. QED BY <4>1 DEF Dir, DirUpTo
    <3>. QED BY <3>1
  <2>. QED BY <1>0, <1>1, <1>3, <2>1, TypedKeeps
<1>5. ASSUME NEW i \in Building' PROVE BuilderOK(i)'
  <2>1. CASE i = j
    <3>1. \A k \in Building' \ {j} : ts'[k] # at
      BY <1>2, <1>3 DEF Building
    <3>2. \A d \in dirs' : d.ts = at => d = m
      OBVIOUS
    <3>. QED BY <1>2, <1>3, <2>1, <3>1, <3>2 DEF BuilderOK
  <2>2. CASE i # j
    <3>1. BuilderOK(i) /\ i \in Building /\ i \in Builders
      BY <1>2, <2>2 DEF HeavyInv, Building
    <3>2. ts'[i] = ts[i] /\ job'[i] = job[i] /\ ts[i] # at
      BY <1>2, <1>3, <2>2, <3>1
    <3>3. \A k \in Building' \ {i} : ts'[k] # ts[i]
      BY <1>2, <1>3, <3>1, <3>2 DEF BuilderOK, Building
    <3>. QED BY <3>1, <3>2, <3>3 DEF BuilderOK
  <2>. QED BY <2>1, <2>2
<1>6. ASSUME NEW d \in dirs' PROVE DirOK(d)'
  <2>1. CASE d = m
    <3>1. \E i \in Building' : d.ts = ts'[i]
      BY <1>2, <1>3, <2>1
    <3>2. \A e \in dirs' : e.ts = d.ts => e = d
      BY <2>1
    <3>. QED BY <2>1, <3>1, <3>2 DEF DirOK
  <2>2. CASE d # m
    <3>1. d \in dirs /\ d.ts # at /\ DirOK(d)
      BY <2>2 DEF HeavyInv
    <3>2. d.half => d.ts \in leftovers' \/ \E i \in Building' : d.ts = ts'[i]
      <4>1. ASSUME NEW i \in Building, d.ts = ts[i] PROVE \E k \in Building' : d.ts = ts'[k]
        <5>1. i # j /\ i \in Builders
          BY <3>1, <4>1 DEF Building
        <5>. QED BY <1>2, <1>3, <4>1, <5>1
      <4>. QED BY <3>1, <4>1 DEF DirOK
    <3>3. \A e \in dirs' : e.ts = d.ts => e = d
      BY <3>1 DEF DirOK
    <3>. QED BY <3>1, <3>2, <3>3 DEF DirOK
  <2>. QED BY <2>1, <2>2
<1>7. NewestKept'
  <2>1. ASSUME NEW d \in dirs, d.ts = newest, ~d.half PROVE \E e \in dirs' : e.ts = newest /\ ~e.half
    BY <2>1
  <2>. QED BY <2>1 DEF HeavyInv, NewestKept
<1>. QED BY <1>4, <1>5, <1>6, <1>7 DEF HeavyInv

\* While the cycle builds, or may, no purge is at work: it has the lock.
LEMMA NoPurgeBeside ==
    ASSUME HeavyTyped, LockInv, Holds(Cycle)
    PROVE  Purging = {}
<1>1. Cycle \notin Purges
  BY HeavyFacts
<1>. QED BY <1>1 DEF Purging, LockInv, Works, Holds

LEMMA HalfIs ==
    ASSUME NEW j \in Builders, NEW at \in Nat, NEW parts \in SUBSET Parts
    PROVE  /\ Half(j, at, parts) \in Dir /\ Half(j, at, parts).ts = at
           /\ Half(j, at, parts).by = j /\ Half(j, at, parts).half
           /\ Half(j, at, parts).parts = parts
           /\ Purging = {} => ~Half(j, at, parts).beside
BY DEF Half, Dir

LEMMA BeginSnapshotOK ==
    ASSUME HeavyInv, NEW j \in Builders, BeginSnapshot(j)
    PROVE  HeavyInv'
<1> DEFINE at == clock + 1
           m == Half(j, at, {})
<1>0. HeavyTyped /\ LockInv
  BY DEF HeavyInv
<1>1. /\ clock \in Nat /\ MaxSnapshots \in Nat /\ leftovers \subseteq 1 .. clock
      /\ ts \in [Builders -> 0 .. clock] /\ \A d \in dirs : d.ts \in 1 .. clock
      /\ queue \in Seq(Purges \cup {Cycle}) /\ Building \subseteq Builders
  BY <1>0, HeavyFacts
<1>2. /\ MayBuild(j) /\ clock < MaxSnapshots /\ clock' = at /\ ts' = [ts EXCEPT ![j] = at]
      /\ dirs' = dirs \cup {m} /\ Moves(j, "copying")
      /\ UNCHANGED <<alive, queue, newest, leftovers>>
  BY DEF BeginSnapshot
<1>3. j = Cycle => Holds(Cycle)
  BY <1>2 DEF MayBuild
<1>4. j \notin Building
  BY <1>2 DEF MayBuild, Building
<1>5. LockInv'
  BY <1>0, <1>2, <1>3, BuilderLock DEF BuilderStages
<1>6. /\ m \in Dir /\ m.ts = at /\ m.by = j /\ m.half /\ m.parts = {}
      /\ Purging = {} => ~m.beside
  <2>1. at \in Nat /\ {} \in SUBSET Parts
    BY <1>1
  <2>. HIDE DEF at
  <2>. QED BY <2>1, HalfIs
<1>7. j = Cycle => ~m.beside
  BY <1>0, <1>3, <1>6, NoPurgeBeside
<1>8. dirs' = {d \in dirs : d.ts # at} \cup {m} /\ at \in Nat \ {0} /\ at <= MaxSnapshots
  BY <1>1, <1>2
<1>9. /\ at \notin leftovers /\ \A i \in Building \ {j} : ts[i] # at
      /\ \A d \in dirs : d.ts # at
  BY <1>1
<1>10. "copying" \in BuildStages
  BY DEF BuildStages
<1> HIDE DEF m, at
<1>11. clock <= clock' /\ clock' \in Nat /\ clock' <= MaxSnapshots /\ at <= clock'
  BY <1>1, <1>2, <1>8 DEF at
<1>. QED BY <1>1, <1>2, <1>4, <1>5, <1>6, <1>7, <1>8, <1>9, <1>10, <1>11, BuildOK

\* What a builder finds under its name.
LEMMA MineIs ==
    ASSUME HeavyInv, NEW j \in Building
    PROVE  /\ j \in Builders /\ ts[j] \in Nat \ {0} /\ ts[j] <= clock /\ ts[j] \notin leftovers
           /\ ts = [ts EXCEPT ![j] = ts[j]]
           /\ \A i \in Building \ {j} : ts[i] # ts[j]
           /\ \A d \in dirs : d.ts = ts[j] => d.half
           /\ dirs \ Mine(j) = {d \in dirs : d.ts # ts[j]}
           /\ Mine(j) # {} => \E d \in dirs : /\ Mine(j) = {d} /\ d.ts = ts[j] /\ d.half /\ d.by = j
                                              /\ job[j] # "copying" => "db" \in d.parts
                                              /\ job[j] = "renaming" => d.parts = Parts
                                              /\ j = Cycle => ~d.beside
           /\ j = Cycle => Holds(Cycle)
<1>0. HeavyTyped /\ LockInv /\ BuilderOK(j)
  BY DEF HeavyInv
<1>1. j \in Builders /\ ts \in [Builders -> 0 .. clock] /\ clock \in Nat
  BY <1>0, HeavyFacts
<1>2. ts[j] \in Nat \ {0} /\ ts[j] <= clock /\ ts = [ts EXCEPT ![j] = ts[j]]
  BY <1>0, <1>1 DEF BuilderOK
<1>3. ASSUME Mine(j) # {}
      PROVE  \E d \in dirs : /\ Mine(j) = {d} /\ d.ts = ts[j] /\ d.half /\ d.by = j
                             /\ job[j] # "copying" => "db" \in d.parts
                             /\ job[j] = "renaming" => d.parts = Parts
                             /\ j = Cycle => ~d.beside
  <2>1. PICK d \in Mine(j) : TRUE
    BY <1>3
  <2>2. d \in dirs /\ d.ts = ts[j] /\ d.half /\ DirOK(d)
    BY <2>1 DEF Mine, HeavyInv
  <2>3. Mine(j) = {d}
    BY <2>1, <2>2 DEF Mine, DirOK
  <2>4. d.by = j
    BY <1>0, <2>2 DEF BuilderOK
  <2>. QED BY <1>0, <2>2, <2>3, <2>4 DEF BuilderOK, DirOK
<1>4. j = Cycle => Holds(Cycle)
  BY <1>0 DEF LockInv, Works, Building
<1>5. dirs \ Mine(j) = {d \in dirs : d.ts # ts[j]}
  BY <1>0 DEF Mine, BuilderOK
<1>. QED BY <1>0, <1>1, <1>2, <1>3, <1>4, <1>5 DEF BuilderOK

\* A step that goes on building leaves j's directory as m.
LEMMA GoesOnOK ==
    ASSUME HeavyInv, NEW j \in Building, NEW m \in Dir,
           dirs' = (dirs \ Mine(j)) \cup {m},
           m.ts = ts[j], m.by = j, m.half, j = Cycle => ~m.beside,
           NEW stage \in BuildStages, Moves(j, stage),
           stage # "copying" => "db" \in m.parts, stage = "renaming" => m.parts = Parts,
           UNCHANGED <<alive, queue, clock, ts, newest, leftovers>>
    PROVE  HeavyInv'
<1>0. HeavyTyped /\ LockInv /\ stage \in BuilderStages
  BY DEF HeavyInv, BuildStages, BuilderStages
<1>1. clock \in Nat /\ clock <= MaxSnapshots /\ queue \in Seq(Purges \cup {Cycle})
  BY <1>0, HeavyFacts
<1>2. /\ j \in Builders /\ ts[j] \in Nat \ {0} /\ ts[j] <= clock /\ ts[j] \notin leftovers
      /\ ts' = [ts EXCEPT ![j] = ts[j]] /\ \A i \in Building \ {j} : ts[i] # ts[j]
      /\ \A d \in dirs : d.ts = ts[j] => d.half
      /\ dirs' = {d \in dirs : d.ts # ts[j]} \cup {m}
      /\ j = Cycle => Holds(Cycle)
  BY MineIs
<1>3. LockInv'
  BY <1>0, <1>2, BuilderLock
<1>4. /\ clock' \in Nat /\ clock <= clock' /\ clock' <= MaxSnapshots /\ ts[j] <= clock'
      /\ queue' \in Seq(Purges \cup {Cycle})
  BY <1>1, <1>2
<1> DEFINE at == ts[j]
<1> HIDE DEF at
<1>5. /\ at \in Nat \ {0} /\ ts' = [ts EXCEPT ![j] = at] /\ at <= clock' /\ m.ts = at
      /\ at \notin leftovers /\ \A i \in Building \ {j} : ts[i] # at
  BY <1>2, <1>4 DEF at
<1>6. /\ \A d \in dirs : d.ts = at => d.half
      /\ dirs' = {d \in dirs : d.ts # at} \cup {m}
      /\ j \in Building => at = ts[j]
  BY <1>2 DEF at
<1>. QED BY <1>2, <1>3, <1>4, <1>5, <1>6, BuildOK

LEMMA PartAdded ==
    ASSUME NEW d \in Dir, NEW p \in Parts, NEW e, e = [d EXCEPT !.parts = @ \cup {p}]
    PROVE  /\ e \in Dir /\ e.ts = d.ts /\ e.by = d.by
           /\ d.half => e.half
           /\ e.parts = d.parts \cup {p} /\ d.parts \subseteq Parts
           /\ ~d.beside => ~e.beside
<1>1. e = [ts |-> d.ts, by |-> d.by, half |-> d.half, parts |-> d.parts \cup {p}, beside |-> d.beside]
  BY DEF Dir
<1>2. d.parts \subseteq Parts
  BY DEF Dir
<1>3. d.ts \in Nat /\ d.by \in Builders /\ d.half \in BOOLEAN /\ d.beside \in BOOLEAN
  BY DEF Dir
<1>. QED BY <1>1, <1>2, <1>3 DEF Dir

LEMMA CopyDbOK ==
    ASSUME HeavyInv, NEW j \in Builders, CopyDb(j)
    PROVE  HeavyInv'
<1>1. /\ job[j] = "copying" /\ Moves(j, "archiving")
      /\ dirs' = IF Mine(j) = {} THEN dirs \cup {Half(j, ts[j], {"db"})}
                 ELSE Rebuilt(j, {[d EXCEPT !.parts = @ \cup {"db"}] : d \in Mine(j)})
      /\ UNCHANGED <<alive, queue, clock, ts, newest, leftovers>>
  BY DEF CopyDb
<1>2. j \in Building /\ "archiving" \in BuildStages /\ HeavyTyped /\ LockInv
  BY <1>1 DEF Building, BuildStages, HeavyInv
<1>3. dirs \subseteq Dir
  BY <1>2, HeavyFacts
<1>4. CASE Mine(j) = {}
  <2> DEFINE m == Half(j, ts[j], {"db"})
  <2>1. ts[j] \in Nat /\ {"db"} \in SUBSET Parts
    BY <1>2, MineIs DEF Parts
  <2>2. /\ m \in Dir /\ m.ts = ts[j] /\ m.by = j /\ m.half /\ m.parts = {"db"}
        /\ Purging = {} => ~m.beside
    BY <2>1, HalfIs
  <2>3. j = Cycle => ~m.beside
    BY <1>2, <2>2, MineIs, NoPurgeBeside
  <2>4. dirs' = (dirs \ Mine(j)) \cup {m}
    BY <1>1, <1>4
  <2>. HIDE DEF m
  <2>. QED BY <1>1, <1>2, <2>2, <2>3, <2>4, GoesOnOK
<1>5. CASE Mine(j) # {}
  <2>1. PICK d \in dirs : /\ Mine(j) = {d} /\ d.ts = ts[j] /\ d.half /\ d.by = j
                          /\ j = Cycle => ~d.beside
    BY <1>2, <1>5, MineIs
  <2> DEFINE m == [d EXCEPT !.parts = @ \cup {"db"}]
  <2>2. /\ m \in Dir /\ m.ts = ts[j] /\ m.by = j /\ m.half /\ "db" \in m.parts
        /\ ~d.beside => ~m.beside
    <3>1. d \in Dir /\ "db" \in Parts
      BY <1>3 DEF Parts
    <3>. HIDE DEF m
    <3>2. m = [d EXCEPT !.parts = @ \cup {"db"}]
      BY DEF m
    <3>3. /\ m \in Dir /\ m.ts = d.ts /\ m.by = d.by /\ m.parts = d.parts \cup {"db"}
          /\ d.half => m.half
          /\ ~d.beside => ~m.beside
      BY <3>1, <3>2, PartAdded
    <3>. QED BY <2>1, <3>3
  <2>3. dirs' = (dirs \ Mine(j)) \cup {m}
    BY <1>1, <1>5, <2>1 DEF Rebuilt
  <2>. HIDE DEF m
  <2>4. j = Cycle => ~m.beside
    BY <2>1, <2>2
  <2>. QED BY <1>1, <1>2, <2>2, <2>3, <2>4, GoesOnOK
<1>. QED BY <1>4, <1>5

LEMMA ArchiveSkillsOK ==
    ASSUME HeavyInv, NEW j \in Builders, ArchiveSkills(j)
    PROVE  HeavyInv'
<1>1. /\ job[j] = "archiving" /\ Mine(j) # {} /\ Moves(j, "renaming")
      /\ dirs' = Rebuilt(j, {[d EXCEPT !.parts = @ \cup {"skills"}] : d \in Mine(j)})
      /\ UNCHANGED <<alive, queue, clock, ts, newest, leftovers>>
  BY DEF ArchiveSkills
<1>2. j \in Building /\ "renaming" \in BuildStages /\ HeavyTyped
  BY <1>1 DEF Building, BuildStages, HeavyInv
<1>3. dirs \subseteq Dir
  BY <1>2, HeavyFacts
<1>4. PICK d \in dirs : /\ Mine(j) = {d} /\ d.ts = ts[j] /\ d.half /\ d.by = j
                        /\ "db" \in d.parts
                        /\ j = Cycle => ~d.beside
  BY <1>1, <1>2, MineIs
<1> DEFINE m == [d EXCEPT !.parts = @ \cup {"skills"}]
<1>5. /\ m \in Dir /\ m.ts = ts[j] /\ m.by = j /\ m.half /\ m.parts = Parts
      /\ "db" \in m.parts
      /\ ~d.beside => ~m.beside
  <2>1. d \in Dir /\ "skills" \in Parts
    BY <1>3 DEF Parts
  <2>. HIDE DEF m
  <2>2. m = [d EXCEPT !.parts = @ \cup {"skills"}]
    BY DEF m
  <2>3. /\ m \in Dir /\ m.ts = d.ts /\ m.by = d.by /\ m.parts = d.parts \cup {"skills"}
        /\ d.half => m.half
        /\ d.parts \subseteq Parts
        /\ ~d.beside => ~m.beside
    BY <2>1, <2>2, PartAdded
  <2>4. m.parts = Parts /\ "db" \in m.parts
    BY <1>4, <2>3 DEF Parts
  <2>. QED BY <1>4, <2>3, <2>4
<1>6. dirs' = (dirs \ Mine(j)) \cup {m}
  BY <1>1, <1>4 DEF Rebuilt
<1> HIDE DEF m
<1>7. j = Cycle => ~m.beside
  BY <1>4, <1>5
<1>. QED BY <1>1, <1>2, <1>5, <1>6, <1>7, GoesOnOK

\* A builder is done: its directory is gone from the half built ones, and some of the
\* others may be.
LEMMA DoneOK ==
    ASSUME HeavyInv, NEW j \in Building, Moves(j, After(j)), Leaves(j),
           UNCHANGED <<alive, clock, ts, leftovers>>, newest' \in 0 .. clock,
           newest <= newest', NewestKept', dirs' \subseteq DirUpTo(clock),
           \A d \in dirs' : \/ d \in dirs \ Mine(j)
                            \/ /\ ~d.half /\ d.parts = Parts /\ d.ts = ts[j] /\ d.ts <= newest'
                               /\ d.by = Cycle => ~d.beside,
           \A d, e \in dirs' : d.ts = e.ts => d = e
    PROVE  HeavyInv'
<1>0. HeavyTyped /\ LockInv
  BY DEF HeavyInv
<1>1. /\ LockInv' /\ queue' \in Seq(Purges \cup {Cycle}) /\ After(j) \in {"idle", "evolving"}
  BY <1>0, DoneLock
<1>2. /\ j \in Builders /\ clock \in Nat /\ clock <= MaxSnapshots
      /\ ts \in [Builders -> 0 .. clock] /\ newest \in 0 .. clock /\ leftovers \subseteq 1 .. clock
      /\ \A d \in dirs : d.ts \in 1 .. clock
  BY <1>0, HeavyFacts
<1>3. /\ Building' = Building \ {j} /\ \A i \in Building \ {j} : job'[i] = job[i]
      /\ After(j) \in BuilderStages
  <2>1. After(j) \in BuilderStages /\ After(j) \notin BuildStages
    BY <1>1 DEF BuilderStages, BuildStages
  <2>. QED BY <1>0, <1>2, <2>1, BuilderMoves
<1>4. HeavyTyped'
  BY <1>0, <1>1, <1>2, <1>3, TypedKeeps
<1>5. ASSUME NEW i \in Building' PROVE BuilderOK(i)'
  <2>1. BuilderOK(i) /\ ts[j] # ts[i] /\ i \in Building \ {j}
    BY <1>3 DEF HeavyInv, BuilderOK
  <2>2. \A d \in dirs' : d.ts = ts[i] => d \in dirs
    BY <2>1
  <2>. QED BY <1>3, <2>1, <2>2 DEF BuilderOK
<1>6. ASSUME NEW d \in dirs' PROVE DirOK(d)'
  <2>1. CASE d \in dirs \ Mine(j)
    <3>1. DirOK(d) /\ (d.half => d.ts # ts[j])
      BY <2>1 DEF HeavyInv, Mine
    <3>2. d.half => d.ts \in leftovers' \/ \E i \in Building' : d.ts = ts'[i]
      BY <1>3, <3>1 DEF DirOK
    <3>3. ~d.half => d.parts = Parts /\ d.ts <= newest'
      <4>1. ~d.half => d.parts = Parts /\ d.ts <= newest
        BY <3>1 DEF DirOK
      <4>2. d.ts \in Nat /\ newest \in Nat /\ newest' \in Nat
        BY <1>2, <2>1
      <4>. QED BY <4>1, <4>2
    <3>. QED BY <3>1, <3>2, <3>3 DEF DirOK
  <2>2. CASE d \notin dirs \ Mine(j)
    BY <2>2 DEF DirOK
  <2>. QED BY <2>1, <2>2
<1>. QED BY <1>1, <1>4, <1>5, <1>6 DEF HeavyInv

LEMMA SnapshotFailsOK ==
    ASSUME HeavyInv, NEW j \in Builders, SnapshotFails(j)
    PROVE  HeavyInv'
<1>0. HeavyTyped
  BY DEF HeavyInv
<1>1. /\ j \in Building /\ Moves(j, After(j)) /\ Leaves(j) /\ dirs' = dirs \ Mine(j)
      /\ UNCHANGED <<alive, clock, ts, newest, leftovers>>
  BY DEF SnapshotFails, HalfIsRemoved
<1>2. NewestKept'
  <2>1. ASSUME NEW d \in dirs, d.ts = newest, ~d.half PROVE \E e \in dirs' : e.ts = newest /\ ~e.half
    BY <1>1, <2>1 DEF Mine
  <2>. QED BY <1>1, <2>1 DEF HeavyInv, NewestKept
<1>3. dirs' \subseteq DirUpTo(clock) /\ newest \in 0 .. clock /\ clock \in Nat
  BY <1>0, <1>1, HeavyFacts DEF HeavyTyped, HeavyIoTypeOK, DirUpTo
<1>4. \A d, e \in dirs' : d.ts = e.ts => d = e
  BY <1>1 DEF HeavyInv, DirOK
<1>5. newest <= newest' /\ newest' \in 0 .. clock
  BY <1>1, <1>3
<1>. QED BY <1>1, <1>2, <1>3, <1>4, <1>5, DoneOK

LEMMA AtMostOne ==
    ASSUME NEW S, \A a, b \in S : a = b
    PROVE  Cardinality(S) \in Nat /\ Cardinality(S) <= 1
<1>1. CASE S = {}
  BY <1>1, FS_EmptySet
<1>2. CASE S # {}
  <2>1. PICK a \in S : S = {a}
    BY <1>2
  <2>. QED BY <2>1, FS_Singleton
<1>. QED BY <1>1, <1>2

\* With two kept and nothing left behind, the prune spares the last one in place: at
\* most the other builder's directory sorts after it.
LEMMA PruneSpares ==
    ASSUME HeavyInv, NEW j \in Building, Retain >= 2, leftovers = {},
           NEW m, m.ts = ts[j], ~m.half,
           NEW w \in (dirs \ Mine(j)) \cup {m}, ~w.half,
           \A d \in (dirs \ Mine(j)) \cup {m} : ~d.half => d.ts <= w.ts
    PROVE  w \in Kept((dirs \ Mine(j)) \cup {m})
<1> DEFINE all == (dirs \ Mine(j)) \cup {m}
           later == {e \in all : Before(w, e)}
<1>0. HeavyTyped
  BY DEF HeavyInv
<1>1. /\ Retain \in Nat /\ Building \subseteq Builders /\ Builders = {Cycle, Approval}
      /\ ts[j] \in Nat /\ \A d \in dirs : d.ts \in Nat
  BY <1>0, MineIs, HeavyFacts DEF Builders
<1>2. ASSUME NEW e \in later PROVE e \in dirs /\ e.half /\ \E i \in Building \ {j} : e.ts = ts[i]
  <2>1. e \in all /\ ((~w.half /\ e.half) \/ (w.half = e.half /\ w.ts < e.ts))
    BY DEF Before
  <2>2. e.half
    <3>1. ~e.half => e.ts <= w.ts /\ e.ts \in Nat /\ w.ts \in Nat
      BY <1>1, <2>1
    <3>. QED BY <2>1, <3>1
  <2>3. e \in dirs \ Mine(j)
    BY <2>1, <2>2
  <2>4. e.ts # ts[j]
    BY <2>2, <2>3 DEF Mine
  <2>. QED BY <2>2, <2>3, <2>4 DEF HeavyInv, DirOK
<1>3. \A a, b \in later : a = b
  <2>1. ASSUME NEW a \in later, NEW b \in later PROVE a = b
    <3>1. PICK i \in Building \ {j} : a.ts = ts[i]
      BY <1>2
    <3>2. PICK k \in Building \ {j} : b.ts = ts[k]
      BY <1>2
    <3>3. i = k
      BY <1>1
    <3>. QED BY <1>2, <3>1, <3>2, <3>3 DEF HeavyInv, DirOK
  <2>. QED BY <2>1
<1>4. Cardinality(later) \in Nat /\ Cardinality(later) <= 1
  <2>. HIDE DEF later
  <2>. QED BY <1>3, AtMostOne
<1>5. Cardinality(later) < Retain
  BY <1>1, <1>4
<1>. QED BY <1>5 DEF Kept

LEMMA Renamed ==
    ASSUME NEW d \in Dir, NEW e, e = [d EXCEPT !.half = FALSE]
    PROVE  /\ e \in Dir /\ e.ts = d.ts /\ e.by = d.by /\ ~e.half /\ e.parts = d.parts
           /\ ~d.beside => ~e.beside
<1>1. e = [ts |-> d.ts, by |-> d.by, half |-> FALSE, parts |-> d.parts, beside |-> d.beside]
  BY DEF Dir
<1>2. /\ d.ts \in Nat /\ d.by \in Builders /\ d.parts \in SUBSET Parts
      /\ d.beside \in BOOLEAN
  BY DEF Dir
<1>. QED BY <1>1, <1>2 DEF Dir

LEMMA PutInPlaceOK ==
    ASSUME HeavyInv, NEW j \in Builders, PutInPlace(j)
    PROVE  HeavyInv'
<1>0. HeavyTyped
  BY DEF HeavyInv
<1>1. /\ job[j] = "renaming" /\ Mine(j) # {} /\ Moves(j, After(j)) /\ Leaves(j)
      /\ dirs' = Kept(Rebuilt(j, {[d EXCEPT !.half = FALSE] : d \in Mine(j)}))
      /\ newest' = IF ts[j] > newest THEN ts[j] ELSE newest
      /\ UNCHANGED <<alive, clock, ts, leftovers>>
  BY DEF PutInPlace
<1>2. j \in Building
  BY <1>1 DEF Building
<1>3. /\ clock \in Nat /\ newest \in 0 .. clock /\ dirs \subseteq DirUpTo(clock)
      /\ ts[j] \in 1 .. clock /\ \A d \in dirs : d.ts \in Nat
      /\ dirs \ Mine(j) = {d \in dirs : d.ts # ts[j]}
  BY <1>0, <1>2, HeavyFacts, MineIs DEF HeavyTyped, HeavyIoTypeOK, DirUpTo
<1>4. PICK o \in dirs : /\ Mine(j) = {o} /\ o.ts = ts[j] /\ o.half /\ o.by = j
                        /\ o.parts = Parts
                        /\ j = Cycle => ~o.beside
  BY <1>1, <1>2, MineIs
<1> DEFINE m == [o EXCEPT !.half = FALSE]
           all == (dirs \ Mine(j)) \cup {m}
<1>5. /\ m \in DirUpTo(clock) /\ m.ts = ts[j] /\ ~m.half /\ m.by = j /\ m.parts = Parts
      /\ ~o.beside => ~m.beside
  <2>1. o \in Dir /\ o \in DirUpTo(clock)
    BY <1>0, <1>3, HeavyFacts
  <2>. HIDE DEF m
  <2>2. m = [o EXCEPT !.half = FALSE]
    BY DEF m
  <2>3. /\ m \in Dir /\ m.ts = o.ts /\ m.by = o.by /\ ~m.half /\ m.parts = o.parts
        /\ ~o.beside => ~m.beside
    BY <2>1, <2>2, Renamed
  <2>4. m \in DirUpTo(clock)
    BY <2>1, <2>3 DEF Dir, DirUpTo
  <2>. QED BY <1>4, <2>3, <2>4
<1>6. dirs' = Kept(all)
  BY <1>1, <1>4 DEF Rebuilt
<1> HIDE DEF m
<1>7. dirs' \subseteq all
  BY <1>6 DEF Kept
<1>8. /\ newest' \in 0 .. clock /\ newest <= newest' /\ ts[j] <= newest'
      /\ newest' \in {newest, ts[j]} /\ newest' # 0
  BY <1>1, <1>3
<1>9. \A d \in all : ~d.half => d.ts <= newest'
  <2>1. ASSUME NEW d \in dirs, ~d.half PROVE d.ts <= newest'
    <3>1. d.ts <= newest
      BY <2>1 DEF HeavyInv, DirOK
    <3>. QED BY <1>3, <1>8, <3>1
  <2>. QED BY <1>5, <1>8, <2>1
<1>10. NewestKept'
  <2>. SUFFICES ASSUME Retain >= 2, leftovers = {}
       PROVE  \E d \in dirs' : d.ts = newest' /\ ~d.half
    BY <1>1 DEF NewestKept
  <2>1. PICK w \in all : w.ts = newest' /\ ~w.half
    <3>1. CASE newest' = ts[j]
      BY <1>5, <3>1
    <3>2. CASE newest' = newest
      <4>1. PICK d \in dirs : d.ts = newest /\ ~d.half
        BY <1>8, <3>2 DEF HeavyInv, NewestKept
      <4>2. d \notin Mine(j)
        BY <4>1 DEF Mine
      <4>. QED BY <3>2, <4>1, <4>2
    <3>. QED BY <1>8, <3>1, <3>2
  <2>2. \A d \in all : ~d.half => d.ts <= w.ts
    BY <1>9, <2>1
  <2>3. w \in Kept(all)
    BY <1>2, <1>5, <2>1, <2>2, PruneSpares
  <2>. QED BY <1>6, <2>1, <2>3
<1>11. \A d, e \in dirs' : d.ts = e.ts => d = e
  <2>1. \A d, e \in all : d.ts = e.ts => d = e
    BY <1>3, <1>5 DEF HeavyInv, DirOK
  <2>. QED BY <1>7, <2>1
<1>12. dirs' \subseteq DirUpTo(clock)
  BY <1>3, <1>5, <1>7
<1>13. m.by = Cycle => ~m.beside
  BY <1>4, <1>5
<1>14. \A d \in dirs' : \/ d \in dirs \ Mine(j)
                        \/ /\ ~d.half /\ d.parts = Parts /\ d.ts = ts[j] /\ d.ts <= newest'
                           /\ d.by = Cycle => ~d.beside
  BY <1>5, <1>7, <1>8, <1>13
<1>. QED BY <1>1, <1>2, <1>8, <1>10, <1>11, <1>12, <1>14, DoneOK

-----------------------------------------------------------------------------
\* What died leaves its directory, and the names of those who live are others'.
LEMMA DiesOK ==
    ASSUME HeavyInv, NEW gone \in SUBSET Jobs, Dies(gone), alive' \in BOOLEAN,
           \/ queue' = queue
           \/ queue' = <<>> /\ Purges \cup {Cycle} \subseteq gone
    PROVE  HeavyInv'
<1>0. HeavyTyped /\ LockInv
  BY DEF HeavyInv
<1>1. /\ job' = [j \in Jobs |-> IF j \in gone THEN "idle" ELSE job[j]]
      /\ leftovers' = leftovers \cup {ts[j] : j \in Building \cap gone}
      /\ UNCHANGED <<dirs, clock, ts, newest>>
  BY DEF Dies
<1>2. /\ job \in [Jobs -> JobStages] /\ Jobs = Purges \cup Builders /\ Building \subseteq Builders
      /\ clock \in Nat /\ leftovers \subseteq 1 .. clock /\ queue \in Seq(Purges \cup {Cycle})
      /\ Cycle \in Builders
  BY <1>0, HeavyFacts DEF HeavyTyped
<1>3. /\ job' \in [Jobs -> JobStages]
      /\ \A j \in Jobs : job'[j] = IF j \in gone THEN "idle" ELSE job[j]
  BY <1>1, <1>2 DEF JobStages
<1>4. Building' = Building \ gone
  BY <1>2, <1>3 DEF Building
<1>5. LockInv'
  <2>1. \A j \in Jobs : Works(j)' => Works(j) /\ j \notin gone
    BY <1>3 DEF Works
  <2>2. CASE queue' = queue
    BY <1>0, <1>2, <2>1, <2>2 DEF LockInv, Holds
  <2>3. CASE Purges \cup {Cycle} \subseteq gone
    BY <1>2, <2>1, <2>3 DEF LockInv
  <2>. QED BY <2>2, <2>3
<1>6. leftovers' \subseteq 1 .. clock
  <2>1. \A j \in Building : ts[j] \in 1 .. clock
    BY <1>2, MineIs
  <2>. QED BY <1>1, <1>2, <2>1
<1>7. HeavyTyped'
  <2>1. <<>> \in Seq(Purges \cup {Cycle})
    OBVIOUS
  <2>2. queue' \in Seq(Purges \cup {Cycle})
    BY <1>2, <2>1
  <2>3. /\ \A p \in Purges : job'[p] \in {"idle", "sleeping", "waiting", "purging", "vacuuming"}
        /\ \A j \in Builders :
             job'[j] \in {"idle", "waiting", "copying", "archiving", "renaming", "evolving"}
    BY <1>0, <1>2, <1>3 DEF HeavyTyped, HeavyIoTypeOK
  <2>4. /\ clock \in 0 .. MaxSnapshots /\ newest \in 0 .. clock /\ ts \in [Builders -> 0 .. clock]
        /\ dirs \subseteq [ts : 1 .. clock, by : Builders, half : BOOLEAN, parts : SUBSET Parts,
                           beside : BOOLEAN]
    BY <1>0 DEF HeavyTyped, HeavyIoTypeOK
  <2>. QED BY <1>1, <1>2, <1>3, <1>6, <2>2, <2>3, <2>4 DEF HeavyTyped, HeavyIoTypeOK
<1>8. ASSUME NEW j \in Building' PROVE BuilderOK(j)'
  <2>1. BuilderOK(j) /\ job'[j] = job[j] /\ j \in Building \ gone
    BY <1>2, <1>3, <1>4 DEF HeavyInv
  <2>2. ts[j] \notin leftovers'
    BY <1>1, <2>1 DEF BuilderOK
  <2>. QED BY <1>1, <1>4, <2>1, <2>2 DEF BuilderOK
<1>9. ASSUME NEW d \in dirs' PROVE DirOK(d)'
  <2>1. d \in dirs /\ DirOK(d)
    BY <1>1 DEF HeavyInv
  <2>2. d.half => d.ts \in leftovers' \/ \E j \in Building' : d.ts = ts'[j]
    BY <1>1, <1>4, <2>1 DEF DirOK
  <2>. QED BY <1>1, <2>1, <2>2 DEF DirOK
<1>10. NewestKept'
  BY <1>1 DEF HeavyInv, NewestKept
<1>. QED BY <1>5, <1>7, <1>8, <1>9, <1>10 DEF HeavyInv

LEMMA InductiveHeavy ==
    ASSUME HeavyInv, [HeavyIoNext]_heavyVars
    PROVE  HeavyInv'
<1>0. HeavyTyped /\ alive \in BOOLEAN
  BY DEF HeavyInv, HeavyTyped, HeavyIoTypeOK
<1>1. CASE UNCHANGED heavyVars
  <2>1. HeavyTyped' /\ LockInv' /\ Building' = Building
    BY <1>1 DEF heavyVars, HeavyInv, HeavyTyped, HeavyIoTypeOK, LockInv, Works, Holds, Building
  <2>. QED BY <1>1, <2>1, QuietJob DEF heavyVars
<1>2. CASE AgentDies
  <2>1. PICK gone \in {Jobs, Jobs \ {Approval}} : Dies(gone)
    BY <1>2 DEF AgentDies
  <2>2. gone \in SUBSET Jobs /\ Purges \cup {Cycle} \subseteq gone
    BY <1>0, HeavyFacts
  <2>. QED BY <1>2, <2>1, <2>2, DiesOK DEF AgentDies
<1>3. CASE ApprovalDies
  <2>1. Dies({Approval}) /\ UNCHANGED <<alive, queue>> /\ {Approval} \in SUBSET Jobs
    BY <1>0, <1>3, HeavyFacts DEF ApprovalDies
  <2>. QED BY <1>0, <2>1, DiesOK
<1>4. ASSUME NEW p \in Purges,
             SchedulePurge(p) \/ Wake(p) \/ BeginPurge(p) \/ Vacuum(p) \/ EndPurge(p)
      PROVE  HeavyInv'
  BY <1>4, OutsideOK, BeginPurgeOK
<1>5. ASSUME NEW j \in Builders,
             BeginSnapshot(j) \/ CopyDb(j) \/ ArchiveSkills(j) \/ PutInPlace(j) \/ SnapshotFails(j)
      PROVE  HeavyInv'
  BY <1>5, BeginSnapshotOK, CopyDbOK, ArchiveSkillsOK, PutInPlaceOK, SnapshotFailsOK
<1>6. CASE StartAgent \/ ScheduleCycle \/ EndCycle \/ SkipSnapshot
  BY <1>6, OutsideOK
<1>. QED BY <1>1, <1>2, <1>3, <1>4, <1>5, <1>6 DEF HeavyIoNext

LEMMA AlwaysHeavy == HeavyIoSpec => []HeavyInv
BY InitialHeavy, InductiveHeavy, PTL DEF HeavyIoSpec

\* RollbackRestoresWhole, for every number of snapshots kept but one: whatever the
\* cycle, approvals and purges do beside each other, a rollback finds the last
\* snapshot put in place, whole, unless a builder died.
THEOREM RollbackIsWhole ==
    ASSUME Retain >= 2
    PROVE  HeavyIoSpec => []RollbackRestoresWhole
<1>1. HeavyInv => RollbackRestoresWhole
  <2>. SUFFICES ASSUME HeavyInv, Building = {}, leftovers = {}
       PROVE  /\ newest # 0 => \E d \in dirs : d.ts = newest
              /\ \A d \in dirs : /\ IsLatest(d) => d.ts = newest
                                 /\ ~d.half /\ d.parts = Parts
                                 /\ d.by = Cycle => ~d.beside
    BY DEF RollbackRestoresWhole
  <2>1. newest # 0 => \E d \in dirs : d.ts = newest /\ ~d.half
    BY DEF HeavyInv, NewestKept
  <2>2. \A d \in dirs : /\ ~d.half /\ d.parts = Parts /\ d.ts <= newest
                        /\ d.by = Cycle => ~d.beside
    BY DEF HeavyInv, DirOK
  <2>3. newest \in Nat /\ \A d \in dirs : d.ts \in Nat \ {0}
    BY HeavyFacts DEF HeavyInv
  <2>4. ASSUME NEW d \in dirs, IsLatest(d) PROVE d.ts = newest
    <3>1. newest # 0
      BY <2>2, <2>3
    <3>2. PICK w \in dirs : w.ts = newest
      BY <2>1, <3>1
    <3>3. w # d => w.ts < d.ts
      BY <2>2, <2>4 DEF IsLatest, Before
    <3>. QED BY <2>2, <2>3, <3>2, <3>3
  <2>. QED BY <2>1, <2>2, <2>4
<1>. QED BY <1>1, AlwaysHeavy, PTL

-----------------------------------------------------------------------------
(* Calls to the embedding providers.                                        *)

CallState == [asks : 0 .. Last, age : Nat, waits : 0 .. Timeout, failed : BOOLEAN]

\* Each provider asked before the present one took a timeout at most.
AgeOK(st) == st.asks # 0 => st.age <= (st.asks - 1) * Timeout + st.waits

\* The inductive invariant: a call's age follows the provider it has come to.
ChainInv ==
  /\ up \subseteq Providers /\ cool \in [Providers -> -MaxAge .. Ttl]
  /\ call \in [Callers -> CallState]
  /\ \A c \in Callers : /\ call[c].asks = 0 => call[c].age = 0
                        /\ AgeOK(call[c])

LEMMA TimesMonotone ==
    ASSUME NEW a \in Nat, NEW b \in Nat, a <= b, NEW t \in Nat
    PROVE  a * t <= b * t /\ a * t \in Nat /\ b * t \in Nat
<1>1. b - a \in Nat /\ (b - a) * t \in Nat
  OBVIOUS
<1>2. b * t = a * t + (b - a) * t
  OBVIOUS
<1>. QED BY <1>1, <1>2

LEMMA OneMore ==
    ASSUME NEW a \in Nat, NEW t \in Nat
    PROVE  (a + 1) * t = a * t + t
OBVIOUS

\* No call is older than a timeout for each provider.
LEMMA AgeIsBounded ==
    ASSUME NEW st \in CallState, st.asks = 0 => st.age = 0, AgeOK(st)
    PROVE  st.age \in 0 .. MaxAge /\ MaxAge \in Nat
<1>1. /\ st.asks \in 0 .. Last /\ st.age \in Nat /\ st.waits \in 0 .. Timeout
      /\ Last \in Nat \ {0} /\ Timeout \in Nat
  BY ChainAssumption DEF CallState
<1>2. MaxAge \in Nat
  BY <1>1 DEF MaxAge
<1>3. CASE st.asks = 0
  BY <1>1, <1>2, <1>3
<1>4. CASE st.asks # 0
  <2> DEFINE n == st.asks - 1
  <2>1. n \in Nat /\ Last - 1 \in Nat /\ n <= Last - 1
    BY <1>1, <1>4
  <2>2. n * Timeout <= (Last - 1) * Timeout /\ n * Timeout \in Nat /\ (Last - 1) * Timeout \in Nat
    BY <1>1, <2>1, TimesMonotone
  <2>3. ((Last - 1) + 1) * Timeout = (Last - 1) * Timeout + Timeout
    BY <1>1, <2>1, OneMore
  <2>4. MaxAge = (Last - 1) * Timeout + Timeout
    <3>1. (Last - 1) + 1 = Last
      BY <1>1
    <3>. QED BY <2>3, <3>1 DEF MaxAge
  <2>5. st.age <= n * Timeout + st.waits
    BY <1>4 DEF AgeOK
  <2>. QED
    <3> DEFINE x == n * Timeout
               y == (Last - 1) * Timeout
    <3>1. x \in Nat /\ y \in Nat /\ x <= y /\ st.age <= x + st.waits /\ MaxAge = y + Timeout
      BY <2>2, <2>4, <2>5
    <3>. HIDE DEF x, y
    <3>. QED BY <1>1, <1>2, <3>1
<1>. QED BY <1>3, <1>4

\* The next provider of a list that is not empty is one of it.
LEMMA NextOneIs ==
    ASSUME NEW from \in Nat, NEW age, Left(from, age) # {}
    PROVE  NextOne(from, age) \in Left(from, age)
<1> DEFINE S == Left(from, age)
           R == OpToRel(<, Nat)
<1>1. S \subseteq Nat /\ S # {}
  BY ChainAssumption DEF Left
<1>2. IsWellFoundedOn(R, Nat)
  BY NatLessThanWellFounded
<1>3. \A x, y \in Nat : x < y => <<x, y>> \in R
  BY DEF OpToRel
<1> HIDE DEF R, S
<1>4. PICK m \in S : \A k \in S : <<k, m>> \notin R
  BY <1>1, <1>2, WFMin
<1>5. ASSUME NEW q \in S PROVE m <= q
  <2>1. m \in Nat /\ q \in Nat
    BY <1>1
  <2>2. ~(q < m)
    BY <1>3, <1>4, <2>1
  <2>. QED BY <2>1, <2>2
<1>. QED BY <1>4, <1>5 DEF NextOne, S

LEMMA GoesOnTyped ==
    ASSUME ChainInv, NEW c \in Callers, NEW from \in Nat \ {0}, NEW age \in Nat,
           age <= (from - 1) * Timeout, GoesOn(c, from, age)
    PROVE  /\ call' \in [Callers -> CallState]
           /\ \A b \in Callers : /\ call'[b].asks = 0 => call'[b].age = 0
                                 /\ AgeOK(call'[b])
<1>1. Last \in Nat \ {0} /\ Timeout \in Nat \ {0} /\ call \in [Callers -> CallState]
  BY ChainAssumption DEF ChainInv
<1> DEFINE failing == [NoCall EXCEPT !.failed = TRUE]
           asking == [asks |-> NextOne(from, age), age |-> age, waits |-> 0, failed |-> FALSE]
           next == IF Left(from, age) = {} THEN failing ELSE asking
<1>2. failing \in CallState /\ failing.asks = 0 /\ failing.age = 0
  <2>1. NoCall \in CallState /\ NoCall.asks = 0 /\ NoCall.age = 0
    BY <1>1 DEF NoCall, CallState
  <2>. QED BY <2>1 DEF CallState
<1>3. ASSUME Left(from, age) # {}
      PROVE  asking \in CallState /\ asking.asks # 0 /\ AgeOK(asking)
  <2> DEFINE n == NextOne(from, age)
  <2>1. n \in from .. Last
    BY <1>3, NextOneIs DEF Left
  <2> HIDE DEF n
  <2>2. n \in 0 .. Last /\ n # 0 /\ n - 1 \in Nat /\ from - 1 \in Nat /\ from - 1 <= n - 1
    BY <1>1, <2>1
  <2>3. (from - 1) * Timeout <= (n - 1) * Timeout /\ (n - 1) * Timeout \in Nat
        /\ (from - 1) * Timeout \in Nat
    BY <1>1, <2>2, TimesMonotone
  <2> DEFINE x == (from - 1) * Timeout
             y == (n - 1) * Timeout
  <2>4. x \in Nat /\ y \in Nat /\ x <= y /\ age <= x
    BY <2>3
  <2>5. age <= y + 0
    <3> HIDE DEF x, y
    <3>. QED BY <2>4
  <2>6. asking = [asks |-> n, age |-> age, waits |-> 0, failed |-> FALSE]
    BY DEF n
  <2>7. asking \in CallState /\ asking.asks = n /\ asking.age = age /\ asking.waits = 0
    BY <1>1, <2>2, <2>6 DEF CallState
  <2>. QED BY <2>2, <2>5, <2>7 DEF AgeOK
<1>4. next \in CallState /\ (next.asks = 0 => next.age = 0) /\ AgeOK(next)
  <2>1. CASE Left(from, age) = {}
    BY <1>2, <2>1 DEF AgeOK
  <2>2. CASE Left(from, age) # {}
    BY <1>3, <2>2
  <2>. QED BY <2>1, <2>2
<1>5. call' = [call EXCEPT ![c] = next]
  BY DEF GoesOn
<1> HIDE DEF next
<1>6. call' \in [Callers -> CallState] /\ \A b \in Callers : call'[b] = call[b] \/ call'[b] = next
  BY <1>1, <1>4, <1>5
<1>7. ASSUME NEW b \in Callers
      PROVE  (call'[b].asks = 0 => call'[b].age = 0) /\ AgeOK(call'[b])
  <2>1. (call[b].asks = 0 => call[b].age = 0) /\ AgeOK(call[b])
    BY DEF ChainInv
  <2>. QED BY <1>4, <1>6, <2>1
<1>. QED BY <1>6, <1>7

LEMMA NoCallTyped == NoCall \in CallState /\ NoCall.asks = 0 /\ NoCall.age = 0 /\ AgeOK(NoCall)
BY ChainAssumption DEF NoCall, CallState, AgeOK

LEMMA ChainFacts ==
    ASSUME ChainInv
    PROVE  /\ MaxAge \in Nat /\ Last \in Nat \ {0} /\ Ttl \in Nat \ {0} /\ Timeout \in Nat \ {0}
           /\ cool \in [Providers -> -MaxAge .. Ttl] /\ call \in [Callers -> CallState]
           /\ up \subseteq Providers
BY ChainAssumption DEF ChainInv, MaxAge

LEMMA InitialChain == ChainInit => ChainInv
<1> SUFFICES ASSUME ChainInit PROVE ChainInv
  OBVIOUS
<1>1. -MaxAge \in -MaxAge .. Ttl
  BY ChainAssumption DEF MaxAge
<1>2. cool \in [Providers -> -MaxAge .. Ttl] /\ up \subseteq Providers
  BY <1>1 DEF ChainInit
<1>3. call \in [Callers -> CallState] /\ \A c \in Callers : call[c] = NoCall
  BY NoCallTyped DEF ChainInit
<1>. QED BY <1>2, <1>3, NoCallTyped DEF ChainInv

LEMMA BackToNone ==
    ASSUME ChainInv, NEW c \in Callers, call' = [call EXCEPT ![c] = NoCall]
    PROVE  /\ call' \in [Callers -> CallState]
           /\ \A b \in Callers : /\ call'[b].asks = 0 => call'[b].age = 0
                                 /\ AgeOK(call'[b])
<1>1. call' \in [Callers -> CallState] /\ \A b \in Callers : call'[b] = call[b] \/ call'[b] = NoCall
  BY NoCallTyped DEF ChainInv
<1>2. ASSUME NEW b \in Callers
      PROVE  (call'[b].asks = 0 => call'[b].age = 0) /\ AgeOK(call'[b])
  <2>1. (call[b].asks = 0 => call[b].age = 0) /\ AgeOK(call[b])
    BY DEF ChainInv
  <2>. QED BY <1>1, <2>1, NoCallTyped
<1>. QED BY <1>1, <1>2

LEMMA EmbedCallOK ==
    ASSUME ChainInv, NEW c \in Callers, Embed(c)
    PROVE  ChainInv'
<1>1. GoesOn(c, 1, 0) /\ UNCHANGED <<up, cool>>
  BY DEF Embed
<1>2. 0 <= (1 - 1) * Timeout
  BY ChainFacts
<1>. QED BY <1>1, <1>2, GoesOnTyped DEF ChainInv

LEMMA FailsOK ==
    ASSUME ChainInv, NEW c \in Callers, NEW marks \in BOOLEAN, Fails(c, marks)
    PROVE  ChainInv'
<1> DEFINE a == call[c].asks
           age == call[c].age
<1>1. /\ a \in Providers /\ UNCHANGED up
      /\ cool' = IF marks THEN [cool EXCEPT ![a] = Ttl - age] ELSE cool
      /\ GoesOn(c, a + 1, age)
  BY DEF Fails, Asked
<1>2. call[c] \in CallState /\ AgeOK(call[c]) /\ (call[c].asks = 0 => call[c].age = 0)
  BY DEF ChainInv
<1>3. age \in 0 .. MaxAge /\ MaxAge \in Nat
  BY <1>2, AgeIsBounded
<1>4. a \in Nat \ {0} /\ a \in 1 .. Last /\ call[c].waits \in 0 .. Timeout
  BY <1>1, <1>2, ChainFacts DEF Providers, CallState
<1>5. age <= ((a + 1) - 1) * Timeout
  <2>1. age <= (a - 1) * Timeout + call[c].waits
    BY <1>2, <1>4 DEF AgeOK
  <2>2. a - 1 \in Nat /\ Timeout \in Nat
    BY <1>4, ChainFacts
  <2>3. ((a - 1) + 1) * Timeout = (a - 1) * Timeout + Timeout /\ (a - 1) * Timeout \in Nat
    BY <2>2, OneMore
  <2>4. (a - 1) + 1 = a /\ (a + 1) - 1 = a
    BY <1>4
  <2> DEFINE x == (a - 1) * Timeout
             y == a * Timeout
  <2>5. x \in Nat /\ y = x + Timeout /\ age <= x + call[c].waits
    BY <2>1, <2>3, <2>4
  <2>6. age <= y
    <3> HIDE DEF x, y
    <3>. QED BY <1>3, <1>4, <2>2, <2>5
  <2>. QED BY <2>4, <2>6
<1>6. cool' \in [Providers -> -MaxAge .. Ttl]
  <2>1. Ttl - age \in -MaxAge .. Ttl
    BY <1>3, ChainFacts
  <2> HIDE DEF age, a
  <2>. QED BY <1>1, <2>1, ChainFacts
<1> HIDE DEF a, age
<1>7. a + 1 \in Nat \ {0} /\ age \in Nat
  BY <1>3, <1>4
<1> DEFINE from == a + 1
<1>8. from \in Nat \ {0} /\ age <= (from - 1) * Timeout /\ GoesOn(c, from, age)
  <2>1. GoesOn(c, from, age)
    BY <1>1
  <2>2. from \in Nat \ {0} /\ age <= (from - 1) * Timeout
    <3>1. age <= (from - 1) * Timeout
      BY <1>5 DEF from
    <3>2. from \in Nat \ {0}
      BY <1>7 DEF from
    <3>. QED BY <3>1, <3>2
  <2>. QED BY <2>1, <2>2
<1> HIDE DEF from
<1>9. /\ call' \in [Callers -> CallState]
      /\ \A b \in Callers : /\ call'[b].asks = 0 => call'[b].age = 0
                            /\ AgeOK(call'[b])
  BY <1>7, <1>8, GoesOnTyped
<1>. QED BY <1>1, <1>6, <1>9 DEF ChainInv

LEMMA TickOK ==
    ASSUME ChainInv, Tick
    PROVE  ChainInv'
<1>1. /\ \A c \in Callers : call[c].waits < Timeout
      /\ cool' = [p \in Providers |-> IF cool[p] > -MaxAge THEN cool[p] - 1 ELSE cool[p]]
      /\ call' = [c \in Callers |-> Older(call[c])] /\ UNCHANGED up
  BY DEF Tick
<1>2. cool' \in [Providers -> -MaxAge .. Ttl]
  <2>1. ASSUME NEW p \in Providers
        PROVE  (IF cool[p] > -MaxAge THEN cool[p] - 1 ELSE cool[p]) \in -MaxAge .. Ttl
    <3>1. cool[p] \in -MaxAge .. Ttl /\ MaxAge \in Nat /\ Ttl \in Nat
      BY ChainFacts
    <3>. QED BY <3>1
  <2>. QED BY <1>1, <2>1
<1>3. ASSUME NEW c \in Callers
      PROVE  /\ Older(call[c]) \in CallState
             /\ Older(call[c]).asks = 0 => Older(call[c]).age = 0
             /\ AgeOK(Older(call[c]))
  <2> DEFINE st == call[c]
  <2>1. /\ st \in CallState /\ (st.asks = 0 => st.age = 0) /\ AgeOK(st)
        /\ st.waits < Timeout /\ Timeout \in Nat
    BY <1>1, ChainFacts DEF ChainInv
  <2> HIDE DEF st
  <2>2. CASE st.asks = 0
    BY <2>1, <2>2 DEF Older, st
  <2>3. CASE st.asks # 0
    <3>1. /\ st.asks \in 0 .. Last /\ st.age \in Nat /\ st.waits \in 0 .. Timeout
          /\ st.failed \in BOOLEAN
      BY <2>1 DEF CallState
    <3>2. Older(st) = [asks |-> st.asks, age |-> st.age + 1, waits |-> st.waits + 1,
                       failed |-> st.failed]
      BY <2>1, <2>3 DEF Older, CallState
    <3>3. st.age + 1 \in Nat /\ st.waits + 1 \in 0 .. Timeout
      BY <2>1, <3>1
    <3>4. Older(st) \in CallState /\ Older(st).asks = st.asks /\ Older(st).age = st.age + 1
          /\ Older(st).waits = st.waits + 1
      BY <3>1, <3>2, <3>3 DEF CallState
    <3> DEFINE x == (st.asks - 1) * Timeout
    <3>5. st.asks - 1 \in Nat /\ Timeout \in Nat
      BY <2>1, <2>3, <3>1, ChainFacts
    <3>6. x \in Nat /\ st.age <= x + st.waits
      BY <2>1, <2>3, <3>5, TimesMonotone DEF AgeOK
    <3>7. st.age + 1 <= x + (st.waits + 1)
      <4> HIDE DEF x
      <4>. QED BY <3>1, <3>6
    <3>. QED BY <2>3, <3>4, <3>7 DEF AgeOK, st
  <2>. QED BY <2>2, <2>3
<1>4. call' \in [Callers -> CallState] /\ \A c \in Callers : call'[c] = Older(call[c])
  BY <1>1, <1>3
<1>. QED BY <1>1, <1>2, <1>3, <1>4 DEF ChainInv

LEMMA InductiveChain ==
    ASSUME ChainInv, [ChainNext]_chainVars
    PROVE  ChainInv'
<1>1. CASE UNCHANGED chainVars
  BY <1>1 DEF chainVars, ChainInv
<1>2. ASSUME NEW p \in Providers, Flips(p) PROVE ChainInv'
  BY <1>2 DEF Flips, ChainInv
<1>3. ASSUME NEW c \in Callers, Succeeds(c) PROVE ChainInv'
  <2>1. /\ call' = [call EXCEPT ![c] = NoCall] /\ UNCHANGED up
        /\ cool' = [cool EXCEPT ![Asked(c)] = -MaxAge]
    BY <1>3 DEF Succeeds
  <2>2. -MaxAge \in -MaxAge .. Ttl
    BY ChainFacts
  <2>3. cool' \in [Providers -> -MaxAge .. Ttl]
    BY <2>1, <2>2, ChainFacts
  <2>. QED BY <2>1, <2>3, BackToNone DEF ChainInv
<1>4. ASSUME NEW c \in Callers, GivesUp(c) PROVE ChainInv'
  <2>1. call' = [call EXCEPT ![c] = NoCall] /\ UNCHANGED <<up, cool>>
    BY <1>4 DEF GivesUp
  <2>. QED BY <2>1, BackToNone DEF ChainInv
<1>. QED BY <1>1, <1>2, <1>3, <1>4, EmbedCallOK, FailsOK, TickOK DEF ChainNext, CallStep

-----------------------------------------------------------------------------
(* The parts together.                                                      *)

LEMMA IndexTyped == IndexInv => TextIndexTypeOK
<1> SUFFICES ASSUME IndexInv PROVE TextIndexTypeOK
  OBVIOUS
<1>1. \A t \in Tables : /\ Capacity(t) \in Nat /\ lastId[t] \in 0 .. Capacity(t)
                        /\ Capacity(t) <= MaxChunks + MaxTrajectories
  <2>1. ASSUME NEW t \in Tables
        PROVE  /\ Capacity(t) \in Nat /\ lastId[t] \in 0 .. Capacity(t)
               /\ Capacity(t) <= MaxChunks + MaxTrajectories
    <3>1. Capacity(t) \in Nat /\ lastId[t] \in Nat /\ lastId[t] <= Capacity(t)
      BY Capacities DEF IndexInv, Typed, TableOK
    <3>2. Capacity(t) <= MaxChunks + MaxTrajectories
      BY TextIndexAssumption DEF Capacity
    <3>. QED BY <3>1, <3>2
  <2>. QED BY <2>1
<1> DEFINE all == 1 .. MaxChunks + MaxTrajectories
<1>2. \A t \in Tables : 1 .. lastId[t] \subseteq all /\ 1 .. Capacity(t) \subseteq all
  BY <1>1, TextIndexAssumption
<1>3. \A t \in Tables : /\ stored[t] \cup index[t] \cup vectors[t] \cup late[t] \subseteq 1 .. lastId[t]
                        /\ flying[t] \subseteq SUBSET (1 .. lastId[t])
  BY DEF IndexInv, TableOK
<1>4. stored \in [Tables -> SUBSET all]
  <2> HIDE DEF all
  <2>1. stored \in [Tables -> SUBSET Nat] /\ \A t \in Tables : stored[t] \in SUBSET all
    BY <1>2, <1>3 DEF IndexInv, Typed
  <2>. QED BY <2>1
<1>5. pass.table \in Tables \cup {"none"} /\ pass.open \subseteq Nat
  BY DEF IndexInv, Typed
<1>6. InPass \subseteq all
  <2>1. CASE pass.table = "none"
    BY <2>1 DEF IndexInv, PassOK, NoPass, InPass
  <2>2. CASE pass.table # "none"
    <3> DEFINE t == pass.table
    <3>1. t \in Tables
      BY <1>5, <2>2
    <3>2. /\ \A i \in pass.open : lastId[t] < i /\ i <= lastId[t] + Cardinality(pass.open)
          /\ lastId[t] + Cardinality(pass.open) <= Capacity(t)
          /\ pass.early \subseteq stored[t] /\ IsFiniteSet(pass.open)
      BY <3>1 DEF IndexInv, PassOK
    <3>3. Cardinality(pass.open) \in Nat
      BY <3>2, FS_CardinalityType
    <3>4. pass.open \subseteq 1 .. Capacity(t)
      <4> HIDE DEF t
      <4>1. lastId[t] \in Nat /\ Capacity(t) \in Nat
        BY <1>1, <3>1
      <4>. QED BY <1>5, <3>2, <3>3, <4>1
    <3>5. pass.early \subseteq all
      BY <1>2, <1>3, <3>1, <3>2
    <3>6. pass.open \subseteq all
      BY <1>2, <3>1, <3>4
    <3>. QED BY <3>5, <3>6 DEF InPass
  <2>. QED BY <2>1, <2>2
<1>7. /\ opened \in BOOLEAN /\ filled \in BOOLEAN
      /\ {broken, attached, marked} \subseteq SUBSET Tables
  BY DEF IndexInv, Typed
<1> HIDE DEF all
<1>. QED BY <1>1, <1>3, <1>4, <1>5, <1>6, <1>7 DEF TextIndexTypeOK, all

LEMMA ChainTyped == ChainInv => ChainTypeOK
<1> SUFFICES ASSUME ChainInv PROVE ChainTypeOK
  OBVIOUS
<1>1. ASSUME NEW c \in Callers
      PROVE  call[c] \in [asks : 0 .. Last, age : 0 .. MaxAge, waits : 0 .. Timeout, failed : BOOLEAN]
  <2>1. call[c] \in CallState /\ call[c].age \in 0 .. MaxAge
    BY AgeIsBounded DEF ChainInv
  <2>. QED BY <2>1 DEF CallState
<1>2. call \in [Callers -> [asks : 0 .. Last, age : 0 .. MaxAge, waits : 0 .. Timeout,
                            failed : BOOLEAN]]
  BY <1>1 DEF ChainInv
<1>. QED BY <1>2 DEF ChainTypeOK, ChainInv

\* A behaviour of the process is one of each of its parts.
LEMMA Parted == Spec => VerdictSpec /\ TextIndexSpec /\ HeavyIoSpec /\ ChainSpec
<1>1. Init => VerdictInit /\ TextIndexInit /\ HeavyIoInit /\ ChainInit
  BY DEF Init
<1>2. [Next]_vars => /\ [VerdictNext]_verdictVars /\ [TextIndexNext]_indexVars
                     /\ [HeavyIoNext]_heavyVars /\ [ChainNext]_chainVars
  BY DEF Next, VerdictStep, IndexStep, HeavyStep, ChainStep, vars, otherVars
<1>. QED
  BY <1>1, <1>2, PTL DEF Spec, Fairness, VerdictSpec, TextIndexSpec, HeavyIoSpec, ChainSpec

\* Whatever dies, fails, waits or comes late in any of the parts: identifiers, locks,
\* directories and marks keep their ranges, and no embedding is older than one timeout
\* for each provider.
THEOREM BackgroundTyped == Spec => []BackgroundTypeOK
<1>1. VerdictTypeOK /\ IndexInv /\ HeavyInv /\ ChainInv => BackgroundTypeOK
  BY IndexTyped, ChainTyped DEF BackgroundTypeOK, HeavyInv, HeavyTyped
<1>2. TextIndexSpec => []IndexInv
  BY InitialIndex, InductiveIndex, PTL DEF TextIndexSpec
<1>3. ChainSpec => []ChainInv
  BY InitialChain, InductiveChain, PTL DEF ChainSpec
<1>. QED BY <1>1, <1>2, <1>3, Parted, OutcomeIsFinal, AlwaysHeavy, PTL

\* The same for what the parts promise: each theorem above holds of the process.
THEOREM ProcessKeeps == Spec => [](VerdictIsFinal /\ MissingIsMarked)
BY Parted, OutcomeIsFinal, SearchIsHonest, PTL
=============================================================================
