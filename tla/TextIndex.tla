----------------------------- MODULE TextIndex -----------------------------
(***************************************************************************)
(* The rows of the state database and what is derived from them: the       *)
(* full-text mirrors of chunks and trajectories, kept by triggers, and     *)
(* their vectors, which arrive later (session/db.py, and the writes of     *)
(* archiver.py and trajectory.py).  A corrupt mirror is taken out of the   *)
(* write path, remembered by a marker, and rebuilt when the database is    *)
(* next opened.  The retention purge works on a connection of its own.     *)
(*                                                                         *)
(* The pages of a broken mirror are unknown; index is what a sound one     *)
(* would hold.  Row ids are AUTOINCREMENT: never given twice.              *)
(***************************************************************************)
EXTENDS Integers, FiniteSets

CONSTANTS
  MaxChunks,       \* rows ever stored (bounds of the model)
  MaxTrajectories,
  MaxPass          \* rows of one archive pass (a bound of the model)

ASSUME TextIndexAssumption ==
  MaxChunks \in Nat /\ MaxTrajectories \in Nat /\ MaxPass \in Nat \ {0}

VARIABLES
  opened,   \* the process runs, with the database open
  stored,   \* committed rows, by table
  lastId,   \* sqlite_sequence
  index,    \* rows in the table's mirror
  broken,   \* tables whose mirror is corrupt
  attached, \* tables whose triggers exist
  marked,   \* tables with a stale marker in meta
  filled,   \* the backfill flag of trajectories
  pass,     \* the write now running: its table, rows not yet and already committed
  flying,   \* batches of rows being embedded, by table
  vectors,  \* rows with a vector, by table
  late      \* history: rows purged while their embedding was on its way

indexVars == <<opened, stored, lastId, index, broken, attached, marked, filled, pass, flying,
               vectors, late>>
databaseVars == <<stored, lastId, index, broken, attached, marked, filled, vectors>>

Tables == {"chunks", "trajectories"}
Capacity(t) == IF t = "chunks" THEN MaxChunks ELSE MaxTrajectories
Ids(t) == 1 .. Capacity(t)

NoPass == [table |-> "none", open |-> {}, early |-> {}]
InPass == pass.open \cup pass.early

\* A database of before trajectories_fts has rows its mirror never saw.
TextIndexInit ==
  /\ opened = FALSE /\ pass = NoPass
  /\ \E old \in SUBSET Ids("trajectories") :
       /\ old \in {{}, {1}}
       /\ stored = [t \in Tables |-> IF t = "chunks" THEN {} ELSE old]
       /\ lastId = [t \in Tables |-> IF t = "chunks" THEN 0 ELSE Cardinality(old)]
  /\ index = [t \in Tables |-> {}] /\ broken = {} /\ attached = {} /\ marked = {}
  /\ filled = FALSE
  /\ flying = [t \in Tables |-> {}] /\ vectors = [t \in Tables |-> {}]
  /\ late = [t \in Tables |-> {}]

-----------------------------------------------------------------------------
(* Opening, and what may happen to the file.                               *)

\* _backfill_trajectories_fts, once: a broken mirror raises, and leaves it undone.
Backfilled ==
  IF ~filled /\ "trajectories" \notin broken THEN {"trajectories"} ELSE {}

\* open_db: the schema brings the triggers back, rebuild_stale_fts rebuilds what is
\* marked (repaired: those it can), clearing the marker with it.
Open(repaired) ==
  /\ ~opened /\ repaired \subseteq marked
  /\ opened' = TRUE /\ attached' = Tables
  /\ filled' = (filled \/ Backfilled # {})
  /\ index' = [t \in Tables |-> IF t \in Backfilled \cup repaired THEN stored[t] ELSE index[t]]
  /\ broken' = broken \ repaired /\ marked' = marked \ repaired
  /\ UNCHANGED <<stored, lastId, pass, flying, vectors, late>>

\* The process dies: an open transaction and the embeddings on their way are lost.
Die ==
  /\ opened /\ opened' = FALSE
  /\ pass' = NoPass /\ flying' = [t \in Tables |-> {}]
  /\ UNCHANGED <<databaseVars, late>>

\* Pages of a mirror go bad.
Corrupt(t) ==
  /\ t \notin broken /\ broken' = broken \cup {t}
  /\ UNCHANGED <<opened, stored, lastId, index, attached, marked, filled, pass, flying, vectors,
                 late>>

-----------------------------------------------------------------------------
(* Writing rows: SessionArchiver._archive, TrajectoryWriter.write.         *)

Writable(t) ==
  /\ opened /\ pass.table \in {"none", t}
  /\ Cardinality(InPass) < (IF t = "chunks" THEN MaxPass ELSE 1)
  /\ lastId[t] + Cardinality(pass.open) < Capacity(t)

NewId(t) == lastId[t] + Cardinality(pass.open) + 1

\* The INSERT goes through, with its trigger if there is one.
InsertRow(t) ==
  /\ Writable(t) /\ ~(t \in broken /\ t \in attached)
  /\ pass' = [table |-> t, open |-> pass.open \cup {NewId(t)}, early |-> pass.early]
  /\ UNCHANGED <<opened, databaseVars, flying, late>>

\* A plausible slip: the triggers go, and nothing remembers the index by it.
DetachedUnmarked(t) == marked

\* detach_fts: the marker, in the transaction that drops the triggers.
Detached(t) == marked \cup {t}

\* What a commit makes of the open rows.
Committed ==
  /\ stored' = [t \in Tables |-> IF t = pass.table THEN stored[t] \cup pass.open ELSE stored[t]]
  /\ lastId' = [t \in Tables |->
                  IF t = pass.table THEN lastId[t] + Cardinality(pass.open) ELSE lastId[t]]
  /\ index' = [t \in Tables |-> IF t = pass.table /\ t \in attached
                                THEN index[t] \cup pass.open ELSE index[t]]

\* fts_guarded_write: the trigger meets the corrupt mirror; the mirror is detached,
\* which commits the rows before, and the row is written without it.
DetachAndInsert(t) ==
  /\ Writable(t) /\ t \in broken /\ t \in attached
  /\ Committed
  /\ marked' = Detached(t) /\ attached' = attached \ {t}
  /\ pass' = [table |-> t, open |-> {NewId(t)}, early |-> InPass]
  /\ UNCHANGED <<opened, broken, filled, flying, vectors, late>>

\* The write ends: its rows are embedded in the background.
CommitPass ==
  /\ pass.table # "none"
  /\ Committed
  /\ flying' = [t \in Tables |-> IF t = pass.table THEN flying[t] \cup {InPass} ELSE flying[t]]
  /\ pass' = NoPass
  /\ UNCHANGED <<opened, broken, attached, marked, filled, vectors, late>>

\* An archive pass fails: rolled back, and the rows a detach had committed are
\* deleted, if that works.
FailPass(deleted) ==
  /\ pass.table # "none"
  /\ stored' = [t \in Tables |->
                  IF t = pass.table /\ deleted THEN stored[t] \ pass.early ELSE stored[t]]
  /\ pass' = NoPass
  /\ UNCHANGED <<opened, lastId, index, broken, attached, marked, filled, flying, vectors, late>>

-----------------------------------------------------------------------------
(* Readers, embeddings and the purge.                                      *)

\* _fts_rows: a search meets the corruption and remembers it.
SearchFails(t) ==
  /\ opened /\ pass = NoPass /\ t \in broken
  /\ marked' = marked \cup {t}
  /\ UNCHANGED <<opened, stored, lastId, index, broken, attached, filled, pass, flying, vectors,
                 late>>

\* _embed_and_write and run_vec_write: on a connection of its own, once no
\* transaction holds the database.
EmbedArrives(t, batch) ==
  /\ opened /\ pass.open = {} /\ batch \in flying[t]
  /\ flying' = [flying EXCEPT ![t] = @ \ {batch}]
  /\ vectors' = [vectors EXCEPT ![t] = @ \cup batch]
  /\ UNCHANGED <<opened, stored, lastId, index, broken, attached, marked, filled, pass, late>>

EmbedFails(t, batch) ==
  /\ opened /\ batch \in flying[t]
  /\ flying' = [flying EXCEPT ![t] = @ \ {batch}]
  /\ UNCHANGED <<opened, databaseVars, pass, late>>

\* purge_older_than: rows of both tables in one transaction, the chunks of sessions
\* that ended before the cutoff and the trajectories written before it; a delete
\* whose trigger meets a corrupt mirror undoes them all.
Purge(old) ==
  /\ opened /\ pass.open = {}
  /\ \A t \in Tables : old[t] \subseteq stored[t]
  /\ \E t \in Tables : old[t] # {}
  /\ \A t \in broken \cap attached : old[t] = {}
  /\ stored' = [t \in Tables |-> stored[t] \ old[t]]
  /\ index' = [t \in Tables |-> IF t \in attached THEN index[t] \ old[t] ELSE index[t]]
  /\ vectors' = [t \in Tables |-> vectors[t] \ old[t]]
  /\ late' = [t \in Tables |-> late[t] \cup (old[t] \cap UNION flying[t])]
  /\ UNCHANGED <<opened, lastId, broken, attached, marked, filled, pass, flying>>

TextIndexNext ==
  \/ \E repaired \in SUBSET Tables : Open(repaired)
  \/ Die
  \/ \E t \in Tables : \/ Corrupt(t) \/ InsertRow(t) \/ DetachAndInsert(t) \/ SearchFails(t)
                       \/ \E batch \in flying[t] : EmbedArrives(t, batch) \/ EmbedFails(t, batch)
  \/ CommitPass
  \/ \E deleted \in BOOLEAN : FailPass(deleted)
  \* Sessions end in any order, trajectories are written in that of their ids.
  \/ \E chunks \in SUBSET stored["chunks"], last \in 0 .. MaxTrajectories :
       Purge([t \in Tables |-> IF t = "chunks" THEN chunks ELSE {i \in stored[t] : i <= last}])

-----------------------------------------------------------------------------
TextIndexTypeOK ==
  /\ opened \in BOOLEAN /\ filled \in BOOLEAN
  /\ stored \in [Tables -> SUBSET (1 .. MaxChunks + MaxTrajectories)]
  /\ \A t \in Tables : stored[t] \cup index[t] \cup vectors[t] \cup late[t] \subseteq 1 .. lastId[t]
  /\ \A t \in Tables : lastId[t] \in 0 .. Capacity(t)
  /\ {broken, attached, marked} \subseteq SUBSET Tables
  /\ pass.table \in Tables \cup {"none"} /\ InPass \subseteq 1 .. MaxChunks + MaxTrajectories
  /\ \A t \in Tables : flying[t] \subseteq SUBSET (1 .. lastId[t])

\* Whatever full-text search cannot find, or finds though it is gone, is remembered
\* for a rebuild; a vector without its row is one whose row was purged while it was
\* computed.  (Damage to a mirror that no statement has met yet is known to nobody:
\* index is what the mirror would hold without it.)
MissingIsMarked ==
  \A t \in Tables :
    /\ \/ index[t] = stored[t] \/ t \in marked
       \/ t = "trajectories" /\ ~filled
    /\ vectors[t] \subseteq stored[t] \cup late[t]

TextIndexSpec == TextIndexInit /\ [][TextIndexNext]_indexVars
=============================================================================
