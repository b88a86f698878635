----------------------------- MODULE Reflection -----------------------------
(***************************************************************************)
(* The reflection coordinator of one process: what its conversations are   *)
(* shown and credited (Injections) and what they are reminded of (Nudges). *)
(* The two use different fields of a conversation's state and their steps  *)
(* commute, so one behaviour exercises one of them (side).                 *)
(***************************************************************************)
EXTENDS Injections, Nudges

VARIABLE side

vars == <<injectionVars, nudgeVars, side>>

Init == InjectionsInit /\ NudgesInit /\ side \in {"injections", "nudges"}

InjectionStep == side = "injections" /\ InjectionsNext /\ UNCHANGED <<nudgeVars, side>>
NudgeStep == side = "nudges" /\ NudgesNext /\ UNCHANGED <<injectionVars, side>>

Next == InjectionStep \/ NudgeStep

Spec == Init /\ [][Next]_vars

\* Conversations, watermarks, counters and reminders have their types.
ReflectionTypeOK == InjectionsTypeOK /\ NudgesTypeOK
=============================================================================
