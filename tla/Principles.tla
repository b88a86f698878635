----------------------------- MODULE Principles -----------------------------
(***************************************************************************)
(* The principles table: if-then rules written by the record_principle     *)
(* tool, by the curator's delta operations, and by the approval of a       *)
(* staged list of such operations.  Each writer awaits an embedding in     *)
(* upsert_principle and decides on what it then finds.                     *)
(*                                                                         *)
(* A rule stands for the meaning of condition and action together: texts   *)
(* of one rule are nearer than dedup_threshold.  by is who wrote the       *)
(* action last.  pinned is written nowhere and stays 0.                    *)
(***************************************************************************)
EXTENDS Integers, Sequences, FiniteSets

CONSTANTS Rules, MaxRows, MaxOps, MaxPrinciples, MaxPending

ASSUME PrinciplesAssumption ==
  MaxRows \in Nat /\ MaxOps \in Nat /\ MaxPrinciples \in Nat /\ MaxPending \in Nat

VARIABLES
  rows,     \* principles: every row ever inserted, by id
  index,    \* principles_fts: ids with a row in the index
  broken,   \* the full-text index is corrupt
  marked,   \* meta holds fts_stale:principles_fts
  call,     \* the writers: record_principle, the curator task, one approval
  pending   \* pending_writes of subsystem 'principles': their status

principleVars == <<rows, index, broken, marked, call, pending>>

Writers == {"tool", "curator", "approval"}
RowIds == 1 .. Len(rows)
Live(i) == rows[i].live
None == "none"

Resting == [pc |-> "idle", rule |-> None, left |-> 0, item |-> 0]

PrinciplesInit ==
  /\ rows = <<>> /\ index = {} /\ broken = FALSE /\ marked = FALSE
  /\ call = [w \in Writers |-> Resting]
  /\ pending = <<>>

Origin(w) == IF w = "tool" THEN "agent" ELSE "curator"
Author == {"agent", "curator"}

\* A plausible slip: only the curator's own rows are compared.
DuplicatesAmongCurated(r) == {i \in RowIds : Live(i) /\ rows[i].vec = r /\ rows[i].origin = "curator"}

\* find_duplicate: the nearest embedded principle, when near enough.
Duplicates(r) == {i \in RowIds : Live(i) /\ rows[i].vec = r}

-----------------------------------------------------------------------------
(* Who wants to write.                                                     *)

RecordPrinciple(r) ==
  /\ call["tool"].pc = "idle"
  /\ call' = [call EXCEPT !["tool"] = [Resting EXCEPT !.pc = "embedding", !.rule = r]]
  /\ UNCHANGED <<rows, index, broken, marked, pending>>

\* Past its cooldown, with failures to learn from, the curator asks the model.
StartCuration ==
  /\ call["curator"].pc = "idle"
  /\ call' = [call EXCEPT !["curator"].pc = "asking"]
  /\ UNCHANGED <<rows, index, broken, marked, pending>>

\* An unusable answer is an empty list; of a longer one max_ops_per_run apply.
CuratorApplies(n) ==
  /\ call["curator"].pc = "asking"
  /\ call' = [call EXCEPT !["curator"] = [Resting EXCEPT !.pc = "applying", !.left = n]]
  /\ UNCHANGED <<rows, index, broken, marked, pending>>

\* The approval gate is on (it is configuration, and may differ after a restart).
CuratorStages ==
  /\ call["curator"].pc = "asking" /\ Len(pending) < MaxPending
  /\ pending' = Append(pending, "pending")
  /\ call' = [call EXCEPT !["curator"] = Resting]
  /\ UNCHANGED <<rows, index, broken, marked>>

\* The status is read here and written when the last operation is done.
StartApproval(p, n) ==
  /\ call["approval"].pc = "idle" /\ pending[p] = "pending"
  /\ call' = [call EXCEPT !["approval"] =
                [Resting EXCEPT !.pc = "applying", !.left = n, !.item = p]]
  /\ UNCHANGED <<rows, index, broken, marked, pending>>

Reject(p) ==
  /\ pending[p] = "pending"
  /\ pending' = [pending EXCEPT ![p] = "rejected"]
  /\ UNCHANGED <<rows, index, broken, marked, call>>

-----------------------------------------------------------------------------
(* apply_ops: each operation names what the model wrote, ids included.     *)

Applying(w) == call[w].pc = "applying" /\ call[w].left > 0
OneLess(w) == [call EXCEPT ![w].left = @ - 1]

ApplyAdd(w, r) ==
  /\ Applying(w)
  /\ call' = [call EXCEPT ![w].pc = "embedding", ![w].rule = r]
  /\ UNCHANGED <<rows, index, broken, marked, pending>>

\* A plausible slip: the statement names the row by id alone.
AnyRow(i) == Live(i)

\* WHERE id = ? AND origin = 'curator' AND pinned = 0
Curated(i) == Live(i) /\ rows[i].origin = "curator"

\* The text changes; the index and the vector keep the old one.
ApplyUpdate(w, i, r) ==
  /\ Applying(w)
  /\ rows' = IF Curated(i) THEN [rows EXCEPT ![i].rule = r, ![i].by = "curator"] ELSE rows
  /\ call' = OneLess(w)
  /\ UNCHANGED <<index, broken, marked, pending>>

\* Triggers clear the index row and the vector; on a corrupt index the
\* statement fails and the row stays.
Without(S) == [i \in RowIds |-> IF i \in S THEN [rows[i] EXCEPT !.live = FALSE, !.vec = None, !.rule = None]
                                ELSE rows[i]]

ApplyPrune(w, i) ==
  /\ Applying(w)
  /\ LET S == IF Curated(i) /\ ~broken THEN {i} ELSE {} IN
       rows' = Without(S) /\ index' = index \ S
  /\ call' = OneLess(w)
  /\ UNCHANGED <<broken, marked, pending>>

Goes(w) == IF w = "tool" THEN [call EXCEPT ![w] = Resting]
           ELSE [call EXCEPT ![w].pc = "applying", ![w].rule = None, ![w].left = @ - 1]

\* upsert_principle from the embedding's arrival (or failure) to its return.
Upsert(w, embedded) ==
  /\ call[w].pc = "embedding"
  /\ LET r == call[w].rule
         dups == IF embedded THEN Duplicates(r) ELSE {}
         id == Len(rows) + 1 IN
       \/ /\ dups # {}
          /\ \E d \in dups :
               rows' = IF w # "tool" /\ rows[d].origin = "agent" THEN rows
                       ELSE [rows EXCEPT ![d].by = Origin(w)]
          /\ UNCHANGED <<index, marked>>
       \/ /\ dups = {} /\ Len(rows) < MaxRows
          /\ rows' = Append(rows, [rule |-> r, origin |-> Origin(w), by |-> Origin(w),
                                   vec |-> IF embedded THEN r ELSE None, live |-> TRUE])
          /\ index' = IF broken THEN index ELSE index \cup {id}
          /\ marked' = (marked \/ broken)
  /\ call' = Goes(w)
  /\ UNCHANGED <<broken, pending>>

Over == Cardinality({i \in RowIds : Live(i)}) - MaxPrinciples

\* _prune_over_budget takes the Over lowest-valued curator rows, or all there are.
OverBudget(S) ==
  LET curated == {i \in RowIds : Curated(i)} IN
  /\ S \subseteq curated
  /\ IF Over <= 0 \/ broken THEN S = {}
     ELSE Cardinality(S) = IF Over < Cardinality(curated) THEN Over ELSE Cardinality(curated)

FinishCuration(S) ==
  /\ call["curator"].pc = "applying" /\ call["curator"].left = 0
  /\ OverBudget(S)
  /\ rows' = Without(S) /\ index' = index \ S
  /\ call' = [call EXCEPT !["curator"] = Resting]
  /\ UNCHANGED <<broken, marked, pending>>

FinishApproval ==
  /\ call["approval"].pc = "applying" /\ call["approval"].left = 0
  /\ pending' = [pending EXCEPT ![call["approval"].item] = "approved"]
  /\ call' = [call EXCEPT !["approval"] = Resting]
  /\ UNCHANGED <<rows, index, broken, marked>>

-----------------------------------------------------------------------------
(* The full-text index and the process.                                    *)

BreakIndex ==
  /\ ~broken /\ broken' = TRUE
  /\ UNCHANGED <<rows, index, marked, call, pending>>

\* get_principle_injections: a query that meets corruption marks the index.
SearchPrinciples ==
  /\ broken /\ ~marked /\ marked' = TRUE
  /\ UNCHANGED <<rows, index, broken, call, pending>>

\* A plausible slip: 'rebuild' only re-reads the index itself, so rows written
\* while it was broken stay out of it when the marker is cleared.
ReopenWithoutRebuild(repaired) ==
  /\ call' = [w \in Writers |-> Resting]
  /\ IF marked /\ repaired THEN broken' = FALSE /\ marked' = FALSE
     ELSE UNCHANGED <<broken, marked>>
  /\ UNCHANGED <<rows, index, pending>>

\* The process ends, and open_db rebuilds the index if it is marked; a rebuild
\* that fails leaves it emptied or untouched, and marked.
ReopenPrinciples(repaired) ==
  /\ call' = [w \in Writers |-> Resting]
  /\ IF ~marked THEN UNCHANGED <<index, broken, marked>>
     ELSE IF repaired
     THEN index' = {i \in RowIds : Live(i)} /\ broken' = FALSE /\ marked' = FALSE
     ELSE index' \in {index, {}} /\ UNCHANGED <<broken, marked>>
  /\ UNCHANGED <<rows, pending>>

PrinciplesNext ==
  \/ \E r \in Rules : RecordPrinciple(r)
  \/ StartCuration \/ CuratorStages \/ \E n \in 0 .. MaxOps : CuratorApplies(n)
  \/ \E p \in 1 .. Len(pending) : Reject(p) \/ \E n \in 1 .. MaxOps : StartApproval(p, n)
  \/ \E w \in Writers :
       \/ \E r \in Rules : ApplyAdd(w, r) \/ \E i \in RowIds : ApplyUpdate(w, i, r)
       \/ \E i \in RowIds : ApplyPrune(w, i)
       \/ \E embedded \in BOOLEAN : Upsert(w, embedded)
  \/ \E S \in SUBSET RowIds : FinishCuration(S)
  \/ FinishApproval
  \/ BreakIndex \/ SearchPrinciples \/ \E repaired \in BOOLEAN : ReopenPrinciples(repaired)

-----------------------------------------------------------------------------
\* Rows, index, writers and staged lists have their types.
PrinciplesTypeOK ==
  /\ rows \in Seq([rule : Rules \cup {None}, origin : Author, by : Author,
                   vec : Rules \cup {None}, live : BOOLEAN])
  /\ Len(rows) <= MaxRows
  /\ index \subseteq RowIds /\ broken \in BOOLEAN /\ marked \in BOOLEAN
  /\ call \in [Writers -> [pc : {"idle", "asking", "embedding", "applying"},
                           rule : Rules \cup {None}, left : 0 .. MaxOps, item : 0 .. MaxPending]]
  /\ pending \in Seq({"pending", "approved", "rejected"}) /\ Len(pending) <= MaxPending

\* Whatever breaks, and whenever the process ends, a principle the full-text
\* index misses is one the marker remembers; the index never names a dead row.
Findable ==
  /\ index \subseteq {i \in RowIds : Live(i)}
  /\ marked \/ \A i \in RowIds : Live(i) => i \in index

\* Three writers that wait for embeddings side by side never leave one rule in
\* two live rows with vectors: the duplicate is looked for after the wait.
NoTwinPrinciples ==
  \A i, j \in RowIds : i # j /\ Live(i) /\ Live(j) /\ rows[i].vec = rows[j].vec => rows[i].vec = None

\* No sequence of the curator's or an approved list's operations, with ids a model
\* made up, rewrites, prunes or takes over a row the agent recorded for its user.
\* A rule merged into a curated row stays of that origin, and unprotected.
HumanRowsAreTheirs ==
  [][\A i \in RowIds : Live(i) /\ rows[i].origin = "agent"
        => /\ rows'[i].live /\ rows'[i].origin = "agent"
           /\ rows'[i].by = "agent" /\ rows'[i].rule = rows[i].rule]_principleVars

PrinciplesSpec == PrinciplesInit /\ [][PrinciplesNext]_principleVars
=============================================================================
