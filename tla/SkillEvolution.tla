--------------------------- MODULE SkillEvolution ---------------------------
(***************************************************************************)
(* The evolution cycle over the skill library (hook.py                     *)
(* `_run_evolution_cycle`: GEPA, rewriter, umbrella merge, ratchet, skill  *)
(* designer) and the write-approval gate (governance/write_approval.py).   *)
(*                                                                         *)
(* The cycle is one background task.  It gives way only while it waits for *)
(* a model's answer, so a step runs from one answer to the next wait: the  *)
(* jobs of a phase are chosen when it starts, a job's text is read when it *)
(* is taken up, and what is written is decided when the answer is in.      *)
(* Meanwhile the agent, people, curator and indexer change the library.    *)
(* Scores and judgements are left out: any eligible skill may be chosen.   *)
(***************************************************************************)
EXTENDS SkillStore, Sequences

CONSTANTS MaxPending, MaxCycles, MaxChanges, MaxFaults   \* bounds of the model

VARIABLES
    gate,        \* skill_stats.write_approval: "off" or "approve"
    cyc,         \* the cycle: its phase, the texts in the model's hands, jobs left
    pending,     \* pending_writes rows of skills, by id
    shielded,    \* history: skills exempt from evolution since the cycle began
    cycles, changes, faults  \* bounds of the model

vars == <<store, gate, cyc, pending, shielded, cycles, changes, faults>>

Nothing == [k \in {} |-> NoFile]
Idle == [phase |-> "idle", read |-> Nothing, jobs |-> {}, evolved |-> {}]

-----------------------------------------------------------------------------
(* Where the cycle may wait next, as sets of <<library, cycle>> pairs.     *)

\* A plausible slip: the file is read without asking whether it exists.
Assumed(s, J) == J

\* The skills of a job that still have a file to read.
Readable(s, J) == {k \in J : s.file[k] # NoFile}

\* A phase takes up one of its jobs, passing over others and over those with
\* too little to read: a merge needs two texts.
Waiting(s, phase, jobs, evolved) ==
    LET least == IF phase = "umbrella" THEN 2 ELSE 1
    IN  UNION {{<<s, [phase |-> phase, read |-> [k \in Readable(s, J) |-> s.file[k]],
                      jobs |-> rest, evolved |-> evolved]>> : rest \in SUBSET (jobs \ {J})} :
               J \in {I \in jobs : Cardinality(Readable(s, I)) >= least}}

Singles(S) == {{k} : k \in S}

\* find_merge_clusters: disjoint clusters of two or more.
Clusterings(S) ==
    {C \in SUBSET {J \in SUBSET S : Cardinality(J) >= 2} :
        \A I, J \in C : I # J => I \cap J = {}}

\* What the cycle does after its designer, OPRO's prompts (default off), touches
\* no skill.
Designer(s) == {<<s, Idle>>, <<s, [Idle EXCEPT !.phase = "designer"]>>}

\* run_ratchet keeps no version.
Retired(s, R) ==
    [s EXCEPT !.status = [k \in Skills |-> IF k \in R THEN "deprecated" ELSE @[k]]]

Ratchet(s) == UNION {Designer(Retired(s, R)) : R \in SUBSET Evolvable(s)}

Umbrella(s, jobs) == Ratchet(s) \cup Waiting(s, "umbrella", jobs, {})
Umbrellas(s) == UNION {Umbrella(s, C) : C \in Clusterings(Evolvable(s))}

Rewriter(s, jobs) == Umbrellas(s) \cup Waiting(s, "rewriter", jobs, {})
Rewriters(s, skip) == Rewriter(s, Singles(Evolvable(s) \ skip))

Gepa(s, jobs, evolved) == Rewriters(s, evolved) \cup Waiting(s, "gepa", jobs, evolved)

\* The job is done; the phase goes on.
Onward(s, evolved) ==
    CASE cyc.phase = "gepa"     -> Gepa(s, cyc.jobs, evolved)
      [] cyc.phase = "rewriter" -> Rewriter(s, cyc.jobs)
      [] cyc.phase = "umbrella" -> Umbrella(s, cyc.jobs)
      [] cyc.phase = "designer" -> Designer(s)

\* The phase raised, and the cycle goes on with the next; what GEPA had
\* evolved is not reported.
NextPhase(s) ==
    CASE cyc.phase = "gepa"     -> Rewriters(s, {})
      [] cyc.phase = "rewriter" -> Umbrellas(s)
      [] cyc.phase = "umbrella" -> Ratchet(s)
      [] cyc.phase = "designer" -> {<<s, Idle>>}

Reach(outcomes) == \E o \in outcomes : BecomeLibrary(o[1]) /\ cyc' = o[2]

\* The pins and origins that exempt a skill.
Exempt == {k \in Skills : status[k] # "none" /\ (pinned[k] \/ origin[k] # "agent")}

StartCycle ==
    /\ cyc = Idle
    /\ cycles < MaxCycles
    /\ cycles' = cycles + 1
    /\ Reach(Gepa(Library, Singles(Evolvable(Library)), {}))
    /\ shielded' = Exempt
    /\ UNCHANGED <<scan, gate, pending, changes, faults>>

-----------------------------------------------------------------------------
(* Staging and merging.                                                    *)

\* A plausible slip: the gate is asked for another subsystem, which has none.
NotGated == FALSE

\* is_gated(hook, "skills")
Gated == gate = "approve"

\* stage_skill_write and stage_umbrella_write: what is replaced, as it is now.
Staged(k, t, siblings) ==
    [skill |-> k, text |-> t, base |-> file[k],
     siblings |-> [j \in siblings |-> file[j]], state |-> "pending"]

Stage(k, siblings) ==
    /\ Len(pending) < MaxPending
    /\ pending' = Append(pending, Staged(k, NewText(Library, k), siblings))

\* A plausible slip: the umbrella's row is left as it is.
Unregistered(s, u, t, D, texts) ==
    Transitioned(WithFile(s, u, t), D, "deprecated", texts)

\* A merge writes the umbrella and its row, then deprecates siblings one by one;
\* this is how far it gets with the siblings D done.
Merged(s, u, t, D, texts) ==
    LET w == [WithFile(s, u, t) EXCEPT !.status[u] = "active", !.origin[u] = "agent"]
    IN  Transitioned(w, D, "deprecated", texts)

-----------------------------------------------------------------------------
(* The answers.                                                            *)

\* A skill that loses its exemption is shielded no more.
StillShielded ==
    shielded' = {k \in shielded : status'[k] # "none" /\ (pinned'[k] \/ origin'[k] # "agent")}

Beside == StillShielded /\ UNCHANGED <<scan, gate, cycles, changes>>

\* No answer, a refused one, or nothing better than what there is.
Decline ==
    /\ cyc # Idle
    /\ Reach(Onward(Library, cyc.evolved))
    /\ UNCHANGED <<pending, faults>> /\ Beside

\* GEPA has a better text for the skill it read.  Reading a file that is gone
\* raises.
GepaAnswers ==
    /\ cyc.phase = "gepa"
    /\ \E k \in DOMAIN cyc.read :
        LET s == Composed(Library, k)
            t == NewText(Library, k)
        IN  /\ Room(Library, k)
            /\ IF Gated
               THEN Stage(k, {}) /\ Reach(Onward(s, cyc.evolved))
               ELSE /\ UNCHANGED pending
                    /\ IF file[k] = NoFile THEN Reach(NextPhase(s))
                       ELSE Reach(Onward(Edited(Saved(s, k, file[k]), k, t),
                                         cyc.evolved \cup (IF Editable(s, k) THEN {k} ELSE {})))
    /\ UNCHANGED faults /\ Beside

\* A plausible slip: nothing is kept of what the rewriter replaces.
SavedNothing(s, k) == s

\* rewrite_skill keeps the text it read, gated or not.
SavedAsRead(s, k) == Saved(s, k, cyc.read[k])

\* The rewriter has a text that passed its critics.
RewriterAnswers ==
    /\ cyc.phase = "rewriter"
    /\ \E k \in DOMAIN cyc.read :
        LET s == SavedAsRead(Composed(Library, k), k)
        IN  /\ Room(Library, k)
            /\ IF Gated
               THEN Stage(k, {}) /\ Reach(Onward(s, cyc.evolved))
               ELSE /\ UNCHANGED pending
                    /\ Reach(Onward(Edited(s, k, NewText(Library, k)), cyc.evolved))
    /\ UNCHANGED faults /\ Beside

\* A plausible slip: any name is good for the umbrella.
AnyName(u) == TRUE

\* The name of the umbrella: one of the cluster's, or one without a row.
NameFree(u) == u \in DOMAIN cyc.read \/ status[u] = "none"

\* The merge of two or more of the skills that were read.
UmbrellaAnswers ==
    /\ cyc.phase = "umbrella"
    /\ \E A \in SUBSET DOMAIN cyc.read, u \in {k \in Skills : NameFree(k)} :
        LET s == Composed(Library, u)
        IN  /\ Cardinality(A) >= 2
            /\ Room(Library, u)
            /\ IF Gated
               THEN Stage(u, A) /\ Reach(Onward(s, cyc.evolved))
               ELSE /\ UNCHANGED pending
                    /\ Reach(Onward(Merged(s, u, NewText(Library, u), A \ {u}, cyc.read),
                                    cyc.evolved))
    /\ UNCHANGED faults /\ Beside

\* The designer has a new skill; nothing keeps it from an existing name.
DesignerAnswers ==
    /\ cyc.phase = "designer"
    /\ \E k \in Skills :
        LET s == Composed(Library, k)
        IN  /\ Room(Library, k)
            /\ IF Gated
               THEN Stage(k, {}) /\ Reach(Onward(s, cyc.evolved))
               ELSE /\ UNCHANGED pending
                    /\ Reach(Onward(Created(s, k, NewText(Library, k)), cyc.evolved))
    /\ UNCHANGED faults /\ Beside

\* An exception the phase does not catch, or an error that ends the cycle.
CycleFails ==
    /\ cyc # Idle
    /\ faults < MaxFaults
    /\ \/ Reach(NextPhase(Library))
       \/ cyc' = Idle /\ UNCHANGED library
    /\ faults' = faults + 1
    /\ UNCHANGED pending /\ Beside

\* A merge that is not gated fails on its way.
UmbrellaFails ==
    /\ cyc.phase = "umbrella" /\ ~Gated
    /\ faults < MaxFaults
    /\ \E A \in SUBSET DOMAIN cyc.read, u \in {k \in Skills : NameFree(k)} :
        /\ Cardinality(A) >= 2
        /\ Room(Library, u)
        /\ LET s == Composed(Library, u)
               t == NewText(Library, u)
           IN  \/ Reach(NextPhase(WithFile(s, u, t)))
               \/ \E D \in SUBSET (A \ {u}) :
                    D # A \ {u} /\ Reach(NextPhase(Merged(s, u, t, D, cyc.read)))
    /\ faults' = faults + 1
    /\ UNCHANGED pending /\ Beside

-----------------------------------------------------------------------------
(* A person resolves staged writes: pending_review, or the CLI offline.    *)

\* A plausible slip: only the absorbed siblings are compared.
CurrentSiblings(w) == \A j \in DOMAIN w.siblings : file[j] = w.siblings[j]

\* Nothing the write replaces or absorbs has changed since it was staged.
Current(w) ==
    file[w.skill] = w.base /\ \A j \in DOMAIN w.siblings : file[j] = w.siblings[j]

Resolve(i, state) == pending' = [pending EXCEPT ![i].state = state]

\* approve_skill with the siblings D done.
Applied(w, D) ==
    LET s == Saved(Library, w.skill, file[w.skill])
    IN  IF DOMAIN w.siblings = {} THEN WithFile(s, w.skill, w.text)
        ELSE Merged(s, w.skill, w.text, D, file)

Approve(i) ==
    /\ pending[i].state = "pending"
    /\ LET w == pending[i]
       IN  IF Current(w)
           THEN /\ Resolve(i, "approved")
                /\ BecomeLibrary(Applied(w, DOMAIN w.siblings \ {w.skill}))
           ELSE Resolve(i, "stale") /\ UNCHANGED library
    /\ UNCHANGED <<cyc, faults>> /\ Beside

\* approve_skill raises, or the process dies, after the file is written: the row
\* stays pending.
ApproveFails(i) ==
    /\ faults < MaxFaults
    /\ pending[i].state = "pending"
    /\ LET w == pending[i]
       IN  /\ Current(w)
           /\ \/ BecomeLibrary(WithFile(Saved(Library, w.skill, file[w.skill]), w.skill, w.text))
              \/ \E D \in SUBSET (DOMAIN w.siblings \ {w.skill}) : BecomeLibrary(Applied(w, D))
    /\ faults' = faults + 1
    /\ UNCHANGED <<cyc, pending>> /\ Beside

Reject(i) ==
    /\ pending[i].state = "pending"
    /\ Resolve(i, "rejected")
    /\ UNCHANGED <<store, gate, cyc, shielded, cycles, changes, faults>>

\* The agent, people, curator or indexer.
Foreground ==
    /\ \/ Change /\ changes < MaxChanges /\ changes' = changes + 1
       \/ Refresh /\ UNCHANGED changes
    /\ StillShielded
    /\ UNCHANGED <<gate, cyc, pending, cycles, faults>>

\* The process restarts: files and database are left.
Restart ==
    /\ cyc # Idle \/ scan # NoScan
    /\ faults < MaxFaults
    /\ cyc' = Idle /\ scan' = NoScan
    /\ faults' = faults + 1
    /\ UNCHANGED <<library, gate, pending, shielded, cycles, changes>>

Init ==
    /\ StoreInit
    /\ gate \in {"off", "approve"}
    /\ cyc = Idle /\ pending = <<>> /\ shielded = {}
    /\ cycles = 0 /\ changes = 0 /\ faults = 0

CycleAnswers == GepaAnswers \/ RewriterAnswers \/ UmbrellaAnswers \/ DesignerAnswers
CycleStep == StartCycle \/ Decline \/ CycleAnswers \/ CycleFails \/ UmbrellaFails

Next ==
    \/ CycleStep
    \/ \E i \in DOMAIN pending : Approve(i) \/ ApproveFails(i) \/ Reject(i)
    \/ Foreground
    \/ Restart

Spec == Init /\ [][Next]_vars

-----------------------------------------------------------------------------
EvolutionTypeOK ==
    /\ StoreTypeOK
    /\ gate \in {"off", "approve"}
    /\ cyc.phase \in {"idle", "gepa", "rewriter", "umbrella", "designer"}
    /\ DOMAIN cyc.read \subseteq Skills
    /\ \A k \in DOMAIN cyc.read : cyc.read[k] \in 1 .. made[k]
    /\ cyc.jobs \subseteq SUBSET Skills /\ cyc.evolved \subseteq Skills
    /\ \A i \in DOMAIN pending :
        /\ pending[i].skill \in Skills /\ pending[i].text \in 1 .. made[pending[i].skill]
        /\ pending[i].base < pending[i].text
        /\ DOMAIN pending[i].siblings \subseteq Skills
        /\ pending[i].state \in {"pending", "approved", "rejected", "stale"}
    /\ shielded \subseteq Skills

ApprovalStep == \E i \in DOMAIN pending : Approve(i) \/ ApproveFails(i)

\* The step replaces a text that is in no file and no skill_versions row after it.
Loses(k) == file'[k] # file[k] /\ file[k] # NoFile /\ <<k, file[k]>> \notin kept'

\* What GEPA, the rewriter or an approval replaces stays in skill_versions,
\* except what someone wrote while the rewriter was waiting (see
\* RewriterPreserves).
OverwrittenIsKept ==
    [][\A k \in Skills : Loses(k) =>
        /\ ~GepaAnswers /\ ~ApprovalStep
        /\ RewriterAnswers => cyc.read[k] # file[k]]_vars

\* rewriter.py:342, "Preserve the old version before overwriting": what the
\* rewriter replaces stays in skill_versions, whenever it was written.
RewriterPreserves == [][\A k \in Skills : Loses(k) => ~RewriterAnswers]_vars

\* umbrella.py:165, "Refuse to hijack a skill outside this cluster": a merge
\* replaces no text but those of the skills it read.
MergeStaysInCluster ==
    [][\A k \in Skills \ DOMAIN cyc.read : Loses(k) => ~UmbrellaAnswers]_vars

\* A skill that was pinned, or not the agent's own, during the whole cycle comes
\* out of it with its text, status and origin (propose_tool.py `_set_pinned`),
\* whatever the phases chose, read and waited for; but a stale or deprecated one
\* may be created anew by the designer.
ShieldedUntouched ==
    [][\A k \in shielded \ {j \in Skills : Creatable(Library, j)} :
        file'[k] # file[k] \/ status'[k] # status[k] \/ origin'[k] # origin[k]
        => ~CycleStep]_vars

\* Whatever an approval deprecates, also one that fails on its way, leaves
\* behind an active umbrella with the text approved (`_finish_umbrella`).
AbsorbedIsCovered ==
    [][(\E k \in Skills : status[k] # status'[k] /\ status'[k] = "deprecated")
       /\ (\A u \in Skills : status'[u] = "active" => file'[u] = file[u])
       => ~ApprovalStep]_vars

\* Under the gate no step of the cycle changes a text; every text comes from a
\* person or from a write that a person approved.
GateHolds == [][gate = "approve" /\ file' # file => ~CycleStep]_vars

\* The text was brought in by a staged write.
WasStaged(k, t) == \E i \in DOMAIN pending : pending[i].skill = k /\ pending[i].text = t

\* Of the writes staged on the same text of a skill, one at most is approved:
\* the others would overwrite what the first one wrote (write_approval.py:
\* "anti-clobber").  Excused is a text that an approval wrote before it failed:
\* approved again, it can come back after a deletion.
OneWinsPerBase ==
    \A i, j \in DOMAIN pending :
        /\ pending[i].state = "approved" /\ pending[j].state = "approved"
        /\ pending[i].skill = pending[j].skill
        /\ pending[i].base = pending[j].base /\ pending[i].base # NoFile
        /\ faults = 0 \/ ~WasStaged(pending[i].skill, pending[i].base)
        => i = j
=============================================================================
