------------------------------ MODULE Knowledge ------------------------------
(***************************************************************************)
(* What the agent knows across sessions: semantic facts and lessons, the   *)
(* principles, and the memory files.  The three stores share no state and  *)
(* their steps commute, so one behaviour exercises one of them (part) and  *)
(* leaves the others as they started; every property below is about one.   *)
(***************************************************************************)
EXTENDS Facts, Principles, MemoryFiles

VARIABLE part

vars == <<factVars, principleVars, memoryVars, part>>

Init ==
  /\ FactsInit /\ PrinciplesInit /\ MemoryInit
  /\ part \in {"facts", "principles", "files"}

FactsStep == part = "facts" /\ FactsNext /\ UNCHANGED <<principleVars, memoryVars, part>>
PrinciplesStep == part = "principles" /\ PrinciplesNext /\ UNCHANGED <<factVars, memoryVars, part>>
FilesStep == part = "files" /\ MemoryNext /\ UNCHANGED <<factVars, principleVars, part>>

Next == FactsStep \/ PrinciplesStep \/ FilesStep

Spec == Init /\ [][Next]_vars

\* Every store holds rows, entries and pending work of its own kind only.
KnowledgeTypeOK == FactsTypeOK /\ PrinciplesTypeOK /\ MemoryTypeOK
=============================================================================
