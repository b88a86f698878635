----------------------------- MODULE Background -----------------------------
(***************************************************************************)
(* What one process does behind its replies: the judges of ended sessions  *)
(* (Verdict), what is derived from the rows it stores (TextIndex), the     *)
(* heavy work on its files (HeavyIo) and the embedding providers its tasks *)
(* call (Chain).  They share no variable and their steps commute, so one   *)
(* behaviour exercises one of them (part).                                 *)
(***************************************************************************)
EXTENDS Verdict, TextIndex, HeavyIo, Chain

VARIABLE part

otherVars == <<verdictVars, indexVars, heavyVars, chainVars>>
vars == <<otherVars, part>>

Init ==
  /\ VerdictInit /\ TextIndexInit /\ HeavyIoInit /\ ChainInit
  /\ part \in {"verdict", "index", "heavy", "chain"}
  \* What the other parts might have begun with tells nothing apart.
  /\ part # "verdict" => mode = "off" /\ ~labelled
  /\ part # "index" => stored["trajectories"] = {}

VerdictStep ==
  part = "verdict" /\ VerdictNext /\ UNCHANGED <<indexVars, heavyVars, chainVars, part>>
IndexStep ==
  part = "index" /\ TextIndexNext /\ UNCHANGED <<verdictVars, heavyVars, chainVars, part>>
HeavyStep ==
  part = "heavy" /\ HeavyIoNext /\ UNCHANGED <<verdictVars, indexVars, chainVars, part>>
ChainStep ==
  part = "chain" /\ ChainNext /\ UNCHANGED <<verdictVars, indexVars, heavyVars, part>>

Next == VerdictStep \/ IndexStep \/ HeavyStep \/ ChainStep

\* A part that takes no step has nothing to be fair to.
Fairness == VerdictFairness /\ HeavyIoFairness /\ ChainFairness

Spec == Init /\ [][Next]_vars /\ Fairness

-----------------------------------------------------------------------------
\* Outcomes, rows, locks and calls have their types.
BackgroundTypeOK == VerdictTypeOK /\ TextIndexTypeOK /\ HeavyIoTypeOK /\ ChainTypeOK

\* Whatever the process schedules behind its replies is done, or fails, as long as
\* it lives: a judge is over, a purge or a snapshot gets the lock it waits for, and
\* embedding works again once a provider does.
ScheduledIsDone == LessonsComeOut /\ HeavyIoServed /\ EmbeddingsComeBack
=============================================================================
