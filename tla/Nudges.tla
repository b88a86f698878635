------------------------------- MODULE Nudges -------------------------------
(***************************************************************************)
(* The reminders a conversation gets from coordinator/reflection.py: to    *)
(* reflect (salience of errors, tool bursts, corrections and completed     *)
(* goals), to save to memory (a cadence of user turns), to note a goal     *)
(* that wrapped up, and suggestions about its skills.  They are armed in   *)
(* one iteration and delivered at the start of a later one; in between     *)
(* the chat waits and its state may be pushed out of the LRU.  Chats share *)
(* none of this state.                                                     *)
(*                                                                         *)
(* Salience stops counting at the threshold: it is only compared with it.  *)
(***************************************************************************)
EXTENDS Integers, FiniteSets

CONSTANTS
  Talkers,    \* the chats followed
  Threshold,  \* reflection.threshold
  Interval,   \* memory_save_nudge_interval
  MaxFresh    \* user messages that may come at once

ASSUME NudgesAssumption ==
  Threshold \in Nat \ {0} /\ Interval \in Nat \ {0} /\ MaxFresh \in 1 .. Interval

VARIABLES
  mind,      \* _conversations: salience, the armed reminders, the cadence
  tracker,   \* GoalTracker.active, by chat
  freshTurn, \* _fresh_user_turn: chats whose last user text is still to be scored
  stage,     \* where each chat's run stands
  told,      \* the reminders of this iteration
  goalOn,    \* the chat's last context held an active goal
  goalOver,  \* history: a goal went since the chat was last told so
  spoken,    \* history: user turns since the last save, up to Interval
  unsure     \* history: the chat's state was lost, or never built, since the last save

nudgeVars == <<mind, tracker, freshTurn, stage, told, goalOn, goalOver, spoken, unsure>>

Kinds == {"reflect", "save", "goal", "skills"}
Blank == [score |-> 0, armed |-> {}, since |-> 0, hydrated |-> FALSE]
AtMost(n, m) == IF n < m THEN n ELSE m

NudgesInit ==
  /\ mind = [k \in Talkers |-> Blank] /\ tracker = [k \in Talkers |-> FALSE]
  /\ freshTurn = {} /\ stage = [k \in Talkers |-> "idle"]
  /\ told = [k \in Talkers |-> {}]
  /\ goalOn = [k \in Talkers |-> FALSE] /\ goalOver = [k \in Talkers |-> FALSE]
  /\ spoken = [k \in Talkers |-> 0] /\ unsure = [k \in Talkers |-> TRUE]

Arm(st, kind) == [st EXCEPT !.armed = @ \cup {kind}]

-----------------------------------------------------------------------------
(* before_iteration                                                        *)

\* A plausible slip: the counter that armed the reminder is not started over.
TurnsPastInterval(st, n) ==
  LET on == [st EXCEPT !.since = @ + n]
  IN IF on.since >= Interval THEN Arm(on, "save") ELSE on

\* note_user_turn, n times.
Turns(st, n) ==
  LET all == st.since + n
      on  == [st EXCEPT !.since = all % Interval]
  IN IF all >= Interval THEN Arm(on, "save") ELSE on

\* hydrate_save_counter_from_history: a full window leaves the chat one turn.
Hydrated(st, window) ==
  [st EXCEPT !.since = AtMost(window, Interval - 1), !.armed = @ \ {"save"}, !.hydrated = TRUE]

\* observe_user_turn
Observed(st, n, window) == IF st.hydrated THEN Turns(st, n) ELSE Hydrated(st, window)

\* Iteration 0, up to its embedding: n trailing user messages, none for the
\* result of a subagent; the window shows them and older ones.
CountTurn(k, n, window) ==
  /\ stage[k] = "idle" /\ n <= window
  /\ mind' = IF n = 0 THEN mind ELSE [mind EXCEPT ![k] = Observed(@, n, window)]
  /\ freshTurn' = IF n = 0 THEN freshTurn ELSE freshTurn \cup {k}
  /\ spoken' = [spoken EXCEPT ![k] = AtMost(@ + n, Interval)]
  /\ stage' = [stage EXCEPT ![k] = "recalling"]
  /\ UNCHANGED <<tracker, told, goalOn, goalOver, unsure>>

\* take_nudge, take_save_nudge, take_goal_completion, take_skill_suggestions
Taken(st) == [st EXCEPT !.armed = {}]

\* What the chat is told: all that its state, as it now is, has armed.
Told(k, st) ==
  /\ told' = [told EXCEPT ![k] = st.armed]
  /\ mind' = [mind EXCEPT ![k] = Taken(st)]
  /\ goalOver' = [goalOver EXCEPT ![k] = @ /\ "goal" \notin st.armed]
  /\ stage' = [stage EXCEPT ![k] = "answering"]

Tell(k) ==
  /\ stage[k] = "recalling"
  /\ Told(k, mind[k])
  /\ UNCHANGED <<tracker, freshTurn, goalOn, spoken, unsure>>

\* A later iteration counts the user messages the runner drained into the turn,
\* unless its count of the turn was evicted, and awaits nothing before telling.
TellAgain(k, n, heard) ==
  /\ stage[k] = "between"
  /\ Told(k, IF heard THEN Turns(mind[k], n) ELSE mind[k])
  /\ freshTurn' = IF heard /\ n > 0 THEN freshTurn \cup {k} ELSE freshTurn
  /\ spoken' = [spoken EXCEPT ![k] = AtMost(@ + n, Interval)]
  /\ UNCHANGED <<tracker, goalOn, unsure>>

-----------------------------------------------------------------------------
(* Tools, and after_iteration.                                             *)

Scored(st, points) == [st EXCEPT !.score = AtMost(@ + points, Threshold)]

\* record_tool_burst: five or more calls in a batch.
ToolBurst(k) ==
  /\ stage[k] = "answering"
  /\ mind' = [mind EXCEPT ![k] = Scored(@, 2)]
  /\ UNCHANGED <<tracker, freshTurn, stage, told, goalOn, goalOver, spoken, unsure>>

\* A plausible slip, named by the code: a save does not count as hydrated.
SavedUnhydrated(st) == [st EXCEPT !.since = 0, !.armed = @ \ {"save"}]

\* note_memory_save
Saved(st) == [st EXCEPT !.since = 0, !.armed = @ \ {"save"}, !.hydrated = TRUE]

\* memory_patch(action="add")
SaveToMemory(k) ==
  /\ stage[k] = "answering"
  /\ mind' = [mind EXCEPT ![k] = Saved(@)]
  /\ spoken' = [spoken EXCEPT ![k] = 0] /\ unsure' = [unsure EXCEPT ![k] = FALSE]
  /\ UNCHANGED <<tracker, freshTurn, stage, told, goalOn, goalOver>>

\* A rated skill has a mixed success rate: queue_skill_suggestions.
SuggestSkill(k) ==
  /\ stage[k] = "answering"
  /\ mind' = [mind EXCEPT ![k] = Arm(@, "skills")]
  /\ UNCHANGED <<tracker, freshTurn, stage, told, goalOn, goalOver, spoken, unsure>>

\* score_iteration: an error weighs 3, a correction 1; a text is scored once.
Scoring(st, error, correction) ==
  LET on == Scored(st, (IF error THEN 3 ELSE 0) + (IF correction THEN 1 ELSE 0)) IN
  IF on.score >= Threshold THEN [Arm(on, "reflect") EXCEPT !.score = 0] ELSE on

\* A goal the tracker knew of left the context: salience past the threshold, for
\* the next scoring, and the reminder for the next iteration.
Completed(st) == Arm(Scored(st, Threshold + 1), "goal")

ScoreIteration(k, error, correction, goal) ==
  /\ stage[k] = "answering"
  /\ correction => k \in freshTurn
  /\ LET st == Scoring(mind[k], error, correction) IN
       mind' = [mind EXCEPT ![k] = IF tracker[k] /\ ~goal THEN Completed(st) ELSE st]
  /\ tracker' = [tracker EXCEPT ![k] = goal]
  /\ goalOn' = [goalOn EXCEPT ![k] = goal]
  /\ goalOver' = [goalOver EXCEPT ![k] = @ \/ (goalOn[k] /\ ~goal)]
  /\ freshTurn' = freshTurn \ {k}
  /\ told' = [told EXCEPT ![k] = {}]
  /\ stage' = [stage EXCEPT ![k] = "between"]
  /\ UNCHANGED <<spoken, unsure>>

\* The run is over, cancelled or failed.
EndTalk(k) ==
  /\ stage[k] # "idle"
  /\ stage' = [stage EXCEPT ![k] = "idle"]
  /\ told' = [told EXCEPT ![k] = {}]
  /\ UNCHANGED <<mind, tracker, freshTurn, goalOn, goalOver, spoken, unsure>>

\* touch, on either dict: other conversations were more recent.
EvictMind(k) ==
  /\ mind[k] # Blank /\ mind' = [mind EXCEPT ![k] = Blank]
  /\ unsure' = [unsure EXCEPT ![k] = TRUE]
  /\ UNCHANGED <<tracker, freshTurn, stage, told, goalOn, goalOver, spoken>>

EvictTracker(k) ==
  /\ tracker[k] /\ tracker' = [tracker EXCEPT ![k] = FALSE]
  /\ UNCHANGED <<mind, freshTurn, stage, told, goalOn, goalOver, spoken, unsure>>

RestartNudges ==
  /\ mind' = [k \in Talkers |-> Blank] /\ tracker' = [k \in Talkers |-> FALSE]
  /\ freshTurn' = {} /\ stage' = [k \in Talkers |-> "idle"] /\ told' = [k \in Talkers |-> {}]
  /\ unsure' = [k \in Talkers |-> TRUE]
  /\ UNCHANGED <<goalOn, goalOver, spoken>>

NudgesNext ==
  \/ \E k \in Talkers :
       \/ \E n \in 0 .. MaxFresh : \/ \E window \in 0 .. Interval : CountTurn(k, n, window)
                                   \/ \E heard \in BOOLEAN : TellAgain(k, n, heard)
       \/ Tell(k) \/ ToolBurst(k) \/ SaveToMemory(k) \/ SuggestSkill(k)
       \/ \E error, correction, goal \in BOOLEAN : ScoreIteration(k, error, correction, goal)
       \/ EndTalk(k) \/ EvictMind(k) \/ EvictTracker(k)
  \/ RestartNudges

-----------------------------------------------------------------------------
\* The cadence counter never rests at the interval, salience never past the threshold.
NudgesTypeOK ==
  /\ mind \in [Talkers -> [score : 0 .. Threshold, armed : SUBSET Kinds,
                           since : 0 .. Interval - 1, hydrated : BOOLEAN]]
  /\ tracker \in [Talkers -> BOOLEAN] /\ freshTurn \subseteq Talkers
  /\ stage \in [Talkers -> {"idle", "recalling", "answering", "between"}]
  /\ told \in [Talkers -> SUBSET Kinds]
  /\ goalOn \in [Talkers -> BOOLEAN] /\ goalOver \in [Talkers -> BOOLEAN]
  /\ spoken \in [Talkers -> 0 .. Interval] /\ unsure \in [Talkers -> BOOLEAN]

\* The agent is asked to save only when its user has spoken Interval times since
\* it last saved; a chat whose state was lost since then is asked by a guess from
\* its window.  "Goal completed" is said once for a goal that went.
NudgesAreDue ==
  [][\A k \in Talkers : told'[k] # told[k] =>
       /\ "save" \in told'[k] => spoken'[k] >= Interval \/ unsure[k]
       /\ "goal" \in told'[k] => goalOver[k]]_nudgeVars

NudgesSpec == NudgesInit /\ [][NudgesNext]_nudgeVars
=============================================================================
