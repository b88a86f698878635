------------------------------- MODULE Verdict -------------------------------
(***************************************************************************)
(* How one conversation's sessions get their outcome: the signals of a     *)
(* session (session/outcome.py), the rule label taken from them at its     *)
(* boundary (hook._sync_session), the background judge that may overrule   *)
(* it (memory/outcome_judge.py), and the lessons drawn with the outcome.   *)
(* The judge answers while later sessions of the conversation run and end. *)
(***************************************************************************)
EXTENDS Integers, Sequences, FiniteSets

CONSTANTS
  Window,    \* _WINDOW: reactions kept
  Retries,   \* _RETRIES
  MaxEnded   \* sessions followed (a bound of the model)

ASSUME VerdictAssumption ==
  Window \in Nat \ {0} /\ Retries \in Nat /\ MaxEnded \in Nat

VARIABLES
  mode,     \* outcome_judge: "off", "shadow" or "apply"
  labelled, \* OutcomeTracker.labelled: a user is there to react
  sig,      \* _states: the signals of the session now running
  ended     \* the sessions that ended, as trajectories and their judges

verdictVars == <<mode, labelled, sig, ended>>

Reactions == {"correction", "positive", "neutral"}
Labels == {"ok", "partial", "fail", "unknown"}

Fresh(active) ==
  [reactions |-> <<>>, heard |-> FALSE, stop |-> "other", goal |-> "none",
   goalActive |-> active, llmError |-> FALSE, rated |-> FALSE]

VerdictInit ==
  /\ mode \in {"off", "shadow", "apply"} /\ labelled \in BOOLEAN
  /\ sig = Fresh(FALSE) /\ ended = <<>>

\* The process follows the conversation while sessions are left to end.
Running == Len(ended) < MaxEnded

-----------------------------------------------------------------------------
(* Signals.                                                                *)

\* A plausible slip: the deque has no maxlen.
ReactedForEver(st, reaction) == [st EXCEPT !.reactions = Append(@, reaction)]

\* A deque of Window reactions.
Reacted(st, reaction) ==
  [st EXCEPT !.reactions =
     LET all == Append(@, reaction)
     IN IF Len(all) > Window THEN Tail(all) ELSE all]

\* record_user_messages: the session's first message reacts to nothing.
Hear(reaction) ==
  /\ Running /\ labelled
  /\ sig' = IF sig.heard THEN Reacted(sig, reaction) ELSE [sig EXCEPT !.heard = TRUE]
  /\ UNCHANGED <<mode, labelled, ended>>

\* record_run: a later run that completes recovers from an error of the model.  No
\* label tells a completed run from one that stopped in another harmless way.
RunEnds(stop) ==
  /\ Running
  /\ sig' = [sig EXCEPT !.stop = IF stop = "completed" THEN "other" ELSE stop,
                        !.llmError = @ /\ stop # "completed"]
  /\ UNCHANGED <<mode, labelled, ended>>

\* after_iteration: record_llm_error
LlmError ==
  /\ Running /\ sig' = [sig EXCEPT !.llmError = TRUE]
  /\ UNCHANGED <<mode, labelled, ended>>

\* after_iteration: what the context shows, then what update_goal did.
GoalSeen(active) ==
  /\ Running /\ sig' = [sig EXCEPT !.goalActive = active]
  /\ UNCHANGED <<mode, labelled, ended>>

\* Nor one that cancels a goal from none.
UpdateGoal(action) ==
  /\ Running
  /\ sig' = [sig EXCEPT !.goal = IF action \in {"complete", "block"} THEN action ELSE "none",
                        !.goalActive = action = "replace"]
  /\ UNCHANGED <<mode, labelled, ended>>

\* record_skill_rating(success=False)
RateFailure ==
  /\ Running /\ sig' = [sig EXCEPT !.rated = TRUE]
  /\ UNCHANGED <<mode, labelled, ended>>

\* touch: the LRU forgets the conversation's signals.
ForgetSignals ==
  /\ Running /\ sig' = Fresh(FALSE)
  /\ UNCHANGED <<mode, labelled, ended>>

-----------------------------------------------------------------------------
(* The rule label.                                                         *)

\* is_hard_failure
HardFailure(st) ==
  \/ st.stop = "failed" \/ (st.stop = "max_iterations" /\ ~st.goalActive)
  \/ st.llmError \/ st.goal = "block"

Places(st, reaction) == {i \in DOMAIN st.reactions : st.reactions[i] = reaction}

\* Corrections the user did not take back.
Standing(st) == {i \in Places(st, "correction") : \A j \in Places(st, "positive") : j < i}

LastIsPositive(st) == Len(st.reactions) \in Places(st, "positive")

Label(st) ==
  CASE HardFailure(st) -> "fail"
    [] ~HardFailure(st) /\ Cardinality(Standing(st)) >= 2 -> "fail"
    [] ~HardFailure(st) /\ Cardinality(Standing(st)) < 2 ->
         IF Standing(st) # {} \/ (st.rated /\ Places(st, "positive") = {}) THEN "partial"
         ELSE IF LastIsPositive(st) THEN "ok"
         ELSE IF st.goal = "complete" /\ Places(st, "correction") = {} THEN "ok"
         ELSE "unknown"

-----------------------------------------------------------------------------
(* The boundary, and the judge.                                            *)

\* _schedule_lessons: both kinds need a clean outcome.
Lessons(outcome) == {outcome} \cap {"ok", "fail"}

\* A plausible slip: apply mode does not leave the lessons to the judge.
LessonsAtOnce(rule, judged) == Lessons(rule)

\* In apply mode a judged session's lessons wait for the verdict.
LessonsAtEnd(rule, judged) == IF judged /\ mode = "apply" THEN {} ELSE Lessons(rule)

\* _sync_session at a boundary; the opener of the new window may still react to
\* the old session; the trajectory may not be written (no task, or it failed).
EndSession(opener, written, first) ==
  LET st     == IF labelled /\ opener # "neutral" THEN Reacted(sig, opener) ELSE sig
      rule   == Label(st)
      judged == mode # "off" /\ labelled /\ ~HardFailure(st)
  IN /\ Running
     /\ ended' = Append(ended,
          [rule |-> rule, hard |-> HardFailure(st), row |-> IF written THEN rule ELSE "none",
           judge |-> IF judged THEN first ELSE "over", tries |-> 0,
           lessons |-> LessonsAtEnd(rule, judged), lost |-> FALSE])
     /\ sig' = Fresh(st.goalActive)
     /\ UNCHANGED <<mode, labelled>>

\* record and combine: what the verdict makes of the outcome.
Outcome(e, verdict) ==
  IF mode = "apply" /\ verdict # "none" /\ e.row # "none" THEN verdict ELSE e.rule

\* record, then _judge_session: the row, and in apply mode the lessons.
Settled(e, verdict) ==
  [e EXCEPT !.judge = "over", !.tries = 0,
            !.row = IF e.row = "none" THEN "none" ELSE Outcome(e, verdict),
            !.lessons = IF mode = "apply" THEN @ \cup Lessons(Outcome(e, verdict)) ELSE @]

Becomes(s, e) == ended' = [ended EXCEPT ![s] = e] /\ UNCHANGED <<mode, labelled, sig>>

\* A plausible slip: the attempts are counted afresh.
AttemptsStartOver(n) == IF n = Retries THEN 0 ELSE n + 1

AttemptsAfter(n) == n + 1

\* _post_jev: a transport error or a busy server, up to Retries + 1 attempts; then
\* the fallback answers, if there is one.
JevFails(s, fallback) ==
  LET n == AttemptsAfter(ended[s].tries) IN
  /\ ended[s].judge = "jev"
  /\ Becomes(s, IF n <= Retries THEN [ended[s] EXCEPT !.tries = n]
                ELSE IF fallback THEN [ended[s] EXCEPT !.judge = "llm", !.tries = 0]
                ELSE Settled(ended[s], "none"))

\* No key, another status, an answer that is no answer.
JevUnavailable(s, fallback) ==
  /\ ended[s].judge = "jev"
  /\ Becomes(s, IF fallback THEN [ended[s] EXCEPT !.judge = "llm", !.tries = 0]
                ELSE Settled(ended[s], "none"))

\* An answer of either backend, or of neither.
Answer(s, verdict) ==
  /\ ended[s].judge \in {"jev", "llm"}
  /\ Becomes(s, Settled(ended[s], verdict))

JudgeStep(s) ==
  \/ \E fallback \in BOOLEAN : JevFails(s, fallback) \/ JevUnavailable(s, fallback)
  \/ \E verdict \in {"ok", "fail", "none"} : Answer(s, verdict)

\* The process ends: signals and pending judges are in memory only.
RestartVerdict ==
  /\ sig' = Fresh(FALSE)
  /\ ended' = [s \in DOMAIN ended |->
                 [ended[s] EXCEPT !.judge = "over", !.tries = 0,
                                  !.lost = @ \/ ended[s].judge # "over"]]
  /\ UNCHANGED <<mode, labelled>>

VerdictNext ==
  \/ \E reaction \in Reactions : Hear(reaction)
  \/ \E stop \in {"completed", "max_iterations", "failed", "other"} : RunEnds(stop)
  \/ LlmError
  \/ \E active \in BOOLEAN : GoalSeen(active)
  \/ \E action \in {"complete", "cancel", "block", "replace"} : UpdateGoal(action)
  \/ RateFailure \/ ForgetSignals
  \/ \E opener \in Reactions, written \in BOOLEAN, first \in {"jev", "llm"} :
       EndSession(opener, written, first)
  \/ \E s \in DOMAIN ended : JudgeStep(s)
  \/ RestartVerdict

\* Tasks of a live event loop run, and every call of theirs has a timeout.
VerdictFairness == \A s \in 1 .. MaxEnded : WF_verdictVars(s \in DOMAIN ended /\ JudgeStep(s))

-----------------------------------------------------------------------------
VerdictTypeOK ==
  /\ mode \in {"off", "shadow", "apply"} /\ labelled \in BOOLEAN
  /\ sig.reactions \in Seq(Reactions) /\ Len(sig.reactions) <= Window
  /\ sig.stop \in {"other", "max_iterations", "failed"}
  /\ sig.goal \in {"none", "complete", "block"}
  /\ {sig.heard, sig.goalActive, sig.llmError, sig.rated} \subseteq BOOLEAN
  /\ Len(ended) <= MaxEnded
  /\ \A s \in DOMAIN ended :
       /\ ended[s].rule \in Labels /\ ended[s].row \in Labels \cup {"none"}
       /\ ended[s].judge \in {"jev", "llm", "over"} /\ ended[s].tries \in 0 .. Retries
       /\ ended[s].lessons \subseteq {"ok", "fail"}
       /\ {ended[s].hard, ended[s].lost} \subseteq BOOLEAN

\* The lessons of a session are drawn once, with the outcome its trajectory ends
\* up with and only when it is a clean one; a shadow judge changes nothing; nobody
\* overrules a hard failure.  A judge that died with the process leaves the rule
\* label, and no lessons in apply mode.
VerdictIsFinal ==
  \A s \in DOMAIN ended :
    LET e == ended[s]
        outcome == IF e.row = "none" THEN e.rule ELSE e.row
    IN /\ Cardinality(e.lessons) <= 1
       /\ e.judge = "over" /\ ~(e.lost /\ mode = "apply") => e.lessons = Lessons(outcome)
       /\ e.judge # "over" => ~e.hard /\ e.row \in {e.rule, "none"}
       /\ e.hard => outcome = "fail"
       /\ mode # "apply" => outcome = e.rule

\* Every judge comes to an end, whatever the services it asks answer: an apply
\* mode session gets its lessons, unless the process dies first.
LessonsComeOut ==
  \A s \in 1 .. MaxEnded :
    (s \in DOMAIN ended /\ ended[s].judge # "over")
      ~> (s \in DOMAIN ended /\ ended[s].judge = "over")

VerdictSpec == VerdictInit /\ [][VerdictNext]_verdictVars /\ VerdictFairness
=============================================================================
