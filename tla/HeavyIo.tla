------------------------------ MODULE HeavyIo ------------------------------
(***************************************************************************)
(* The heavy work on the state database's file: the retention purge and    *)
(* its VACUUM (hook._background_purge), the snapshot before an evolution   *)
(* cycle (hook._run_evolution_cycle), both under _heavy_io_lock, and the   *)
(* snapshot an approval takes without it (governance/write_approval.py),   *)
(* in the agent or in the process of governance/pending.py.  What a        *)
(* rollback would restore is the last of the snapshot directories by name  *)
(* (skills/evolution_snapshot.py), and half built ones sort last.          *)
(***************************************************************************)
EXTENDS Integers, Sequences, FiniteSets

CONSTANTS
  Purges,       \* purge tasks, one per turn
  Retain,       \* snapshot_retain
  MaxSnapshots  \* snapshots ever begun (a bound of the model)

ASSUME HeavyIoAssumption == Retain \in Nat \ {0} /\ MaxSnapshots \in Nat

VARIABLES
  alive,    \* the agent's process
  job,      \* where each purge, the cycle and the approval stand
  queue,    \* _heavy_io_lock, fair: its holder and those who wait
  dirs,     \* the directories under snapshots/evolution
  clock,    \* time_ns of the last snapshot begun
  ts,       \* `ts` of the snapshot the cycle, or the approval, last began
  newest,   \* history: the last begun of the snapshots put in place
  leftovers \* history: snapshots whose builder died

heavyVars == <<alive, job, queue, dirs, clock, ts, newest, leftovers>>

Cycle == "cycle"
Approval == "approval"
Builders == {Cycle, Approval}
Jobs == Purges \cup Builders

ASSUME PurgesAssumption == Purges \cap Builders = {}

Parts == {"db", "skills"}
Building == {j \in Builders : job[j] \in {"copying", "archiving", "renaming"}}
Purging == {p \in Purges : job[p] \in {"purging", "vacuuming"}}
Holds(j) == queue # <<>> /\ Head(queue) = j

HeavyIoInit ==
  /\ alive = FALSE /\ job = [j \in Jobs |-> "idle"] /\ queue = <<>>
  /\ dirs = {} /\ clock = 0 /\ ts = [j \in Builders |-> 0] /\ newest = 0 /\ leftovers = {}

Moves(j, stage) == job' = [job EXCEPT ![j] = stage]

StartAgent ==
  /\ ~alive /\ alive' = TRUE
  /\ UNCHANGED <<job, queue, dirs, clock, ts, newest, leftovers>>

-----------------------------------------------------------------------------
(* The lock.                                                               *)

\* Iteration 0 of a turn: the task sleeps two seconds first.
SchedulePurge(p) ==
  /\ alive /\ job[p] = "idle" /\ Moves(p, "sleeping")
  /\ UNCHANGED <<alive, queue, dirs, clock, ts, newest, leftovers>>

\* async with self._heavy_io_lock
Asks(j) == queue' = Append(queue, j)

Wake(p) ==
  /\ alive /\ job[p] = "sleeping" /\ Moves(p, "waiting") /\ Asks(p)
  /\ UNCHANGED <<alive, dirs, clock, ts, newest, leftovers>>

\* The cadence fires and no cycle is running, and nothing gates its writes.
ScheduleCycle ==
  /\ alive /\ job[Cycle] = "idle" /\ Moves(Cycle, "waiting") /\ Asks(Cycle)
  /\ UNCHANGED <<alive, dirs, clock, ts, newest, leftovers>>

\* The block is left, in whatever way: the lock goes to the next that waits.
Released == queue' = Tail(queue)

-----------------------------------------------------------------------------
(* The purge, in a thread.                                                 *)

\* A snapshot being built sees the purge beside it.
Seen(ds) == {IF d.half /\ d.ts \notin leftovers THEN [d EXCEPT !.beside = TRUE] ELSE d : d \in ds}

BeginPurge(p) ==
  /\ alive /\ job[p] = "waiting" /\ Holds(p) /\ Moves(p, "purging")
  /\ dirs' = Seen(dirs)
  /\ UNCHANGED <<alive, queue, clock, ts, newest, leftovers>>

\* Rows were removed, and the last VACUUM is long enough ago.
Vacuum(p) ==
  /\ alive /\ job[p] = "purging" /\ Moves(p, "vacuuming")
  /\ UNCHANGED <<alive, queue, dirs, clock, ts, newest, leftovers>>

\* Done, or failed.
EndPurge(p) ==
  /\ alive /\ p \in Purging /\ Moves(p, "idle") /\ Released
  /\ UNCHANGED <<alive, dirs, clock, ts, newest, leftovers>>

-----------------------------------------------------------------------------
(* snapshot_evolution                                                      *)

\* The cycle builds under the lock, the approval as it comes.
MayBuild(j) ==
  IF j = Cycle THEN alive /\ job[j] = "waiting" /\ Holds(j) ELSE job[j] = "idle"

\* The directory _tmp_<at>, as j finds or leaves it.
Half(j, at, parts) ==
  [ts |-> at, by |-> j, half |-> TRUE, parts |-> parts, beside |-> Purging # {}]

BeginSnapshot(j) ==
  /\ j \in Builders /\ MayBuild(j) /\ clock < MaxSnapshots
  /\ clock' = clock + 1 /\ ts' = [ts EXCEPT ![j] = clock + 1]
  /\ dirs' = dirs \cup {Half(j, clock + 1, {})}
  /\ Moves(j, "copying")
  /\ UNCHANGED <<alive, queue, newest, leftovers>>

\* The directory j builds in, unless another's prune took it.
Mine(j) == {d \in dirs : d.half /\ d.ts = ts[j]}

Rebuilt(j, built) == (dirs \ Mine(j)) \cup built

\* snapshot_db: the online backup; it makes its directory when there is none.
CopyDb(j) ==
  /\ job[j] = "copying" /\ Moves(j, "archiving")
  /\ dirs' = IF Mine(j) = {} THEN dirs \cup {Half(j, ts[j], {"db"})}
             ELSE Rebuilt(j, {[d EXCEPT !.parts = @ \cup {"db"}] : d \in Mine(j)})
  /\ UNCHANGED <<alive, queue, clock, ts, newest, leftovers>>

\* The tar of the skills.
ArchiveSkills(j) ==
  /\ job[j] = "archiving" /\ Mine(j) # {} /\ Moves(j, "renaming")
  /\ dirs' = Rebuilt(j, {[d EXCEPT !.parts = @ \cup {"skills"}] : d \in Mine(j)})
  /\ UNCHANGED <<alive, queue, clock, ts, newest, leftovers>>

\* By name: a time, or "_tmp_" and a time, which sorts after every time.
Before(d, e) == (~d.half /\ e.half) \/ (d.half = e.half /\ d.ts < e.ts)

\* _prune: all but the last Retain of the list.
Kept(ds) == {d \in ds : Cardinality({e \in ds : Before(d, e)}) < Retain}

\* What follows the snapshot: the cycle has left the lock and mutates skills; the
\* approval has written its skill.
After(j) == IF j = Cycle THEN "evolving" ELSE "idle"

Leaves(j) == IF j = Cycle THEN Released ELSE UNCHANGED queue

PutInPlace(j) ==
  /\ job[j] = "renaming" /\ Mine(j) # {} /\ Moves(j, After(j)) /\ Leaves(j)
  /\ dirs' = Kept(Rebuilt(j, {[d EXCEPT !.half = FALSE] : d \in Mine(j)}))
  /\ newest' = IF ts[j] > newest THEN ts[j] ELSE newest
  /\ UNCHANGED <<alive, clock, ts, leftovers>>

\* A plausible slip: nobody takes away what an exception left half built.
HalfIsLeft(j) == dirs

\* shutil.rmtree(tmp) in the except clause.
HalfIsRemoved(j) == dirs \ Mine(j)

\* An exception, a missing directory among them, is swallowed by the caller: the work
\* goes on without a snapshot.
SnapshotFails(j) ==
  /\ j \in Building /\ Moves(j, After(j)) /\ Leaves(j)
  /\ dirs' = HalfIsRemoved(j)
  /\ UNCHANGED <<alive, clock, ts, newest, leftovers>>

\* No snapshot is begun (a bound of the model): as if it had failed at once.
SkipSnapshot ==
  /\ MayBuild(Cycle) /\ clock = MaxSnapshots /\ Moves(Cycle, "evolving") /\ Released
  /\ UNCHANGED <<alive, dirs, clock, ts, newest, leftovers>>

EndCycle ==
  /\ alive /\ job[Cycle] = "evolving" /\ Moves(Cycle, "idle")
  /\ UNCHANGED <<alive, queue, dirs, clock, ts, newest, leftovers>>

\* The agent dies, or the process of an approval: what it was building stays.
Dies(gone) ==
  /\ job' = [j \in Jobs |-> IF j \in gone THEN "idle" ELSE job[j]]
  /\ leftovers' = leftovers \cup {ts[j] : j \in Building \cap gone}
  /\ UNCHANGED <<dirs, clock, ts, newest>>

AgentDies ==
  /\ alive /\ alive' = FALSE /\ queue' = <<>>
  /\ \E gone \in {Jobs, Jobs \ {Approval}} : Dies(gone)

ApprovalDies ==
  /\ Approval \in Building
  /\ Dies({Approval}) /\ UNCHANGED <<alive, queue>>

\* rollback_evolution changes no directory here: it reads the last one.
HeavyIoNext ==
  \/ StartAgent \/ ScheduleCycle \/ EndCycle \/ SkipSnapshot \/ AgentDies \/ ApprovalDies
  \/ \E p \in Purges : SchedulePurge(p) \/ Wake(p) \/ BeginPurge(p) \/ Vacuum(p) \/ EndPurge(p)
  \/ \E j \in Builders :
       BeginSnapshot(j) \/ CopyDb(j) \/ ArchiveSkills(j) \/ PutInPlace(j) \/ SnapshotFails(j)

PurgeStep(p) == BeginPurge(p) \/ EndPurge(p)

BuildStep(j) == CopyDb(j) \/ ArchiveSkills(j) \/ PutInPlace(j) \/ SnapshotFails(j)

\* Tasks and threads of a live process run; a copy, a tar and a VACUUM end.
HeavyIoFairness ==
  /\ \A p \in Purges : WF_heavyVars(PurgeStep(p))
  /\ WF_heavyVars(BeginSnapshot(Cycle) \/ SkipSnapshot \/ BuildStep(Cycle))

-----------------------------------------------------------------------------
HeavyIoTypeOK ==
  /\ alive \in BOOLEAN /\ clock \in 0 .. MaxSnapshots /\ newest \in 0 .. clock
  /\ ts \in [Builders -> 0 .. clock]
  /\ \A p \in Purges : job[p] \in {"idle", "sleeping", "waiting", "purging", "vacuuming"}
  /\ \A j \in Builders :
       job[j] \in {"idle", "waiting", "copying", "archiving", "renaming", "evolving"}
  /\ leftovers \subseteq 1 .. clock
  /\ queue \in Seq(Purges \cup {Cycle})
  /\ dirs \subseteq [ts : 1 .. clock, by : Builders, half : BOOLEAN, parts : SUBSET Parts,
                     beside : BOOLEAN]

\* latest_snapshot
IsLatest(d) == \A e \in dirs \ {d} : Before(e, d)

\* With nothing being built, a rollback finds the last snapshot put in place, whole,
\* and a cycle's copy was made with no purge or VACUUM beside it.  A builder that died
\* leaves a directory which is found instead, ever after.
RollbackRestoresWhole ==
  (Building = {} /\ leftovers = {}) =>
    /\ newest # 0 => \E d \in dirs : d.ts = newest
    /\ \A d \in dirs : /\ IsLatest(d) => d.ts = newest
                       /\ ~d.half /\ d.parts = Parts
                       /\ d.by = Cycle => ~d.beside

\* evolution_snapshot.py: a snapshot is renamed into place "only after BOTH artifacts
\* succeed, so latest_snapshot() never points at a half-written snapshot a rollback
\* would then trust".
LatestIsWhole == Building = {} => \A d \in dirs : IsLatest(d) => ~d.half

\* Nobody waits for the lock for ever.
HeavyIoServed == \A j \in Purges \cup {Cycle} : job[j] = "waiting" ~> job[j] # "waiting"

HeavyIoSpec == HeavyIoInit /\ [][HeavyIoNext]_heavyVars /\ HeavyIoFairness
=============================================================================
