# nano-hermes in TLA+

A model of [nano-hermes](../src/README.md): the memory, skill and
self-reflection plugin that attaches a lifecycle hook and fourteen tools to the
nanobot agent loop. Paths below are relative to `src/nano_hermes/`.

`PROJECT.json` holds the machine-readable side: which lines each definition
stands for (`map`), the runs, a mutant for every property, the hazards, the
findings and the theorems.

## 1. The system

Everything runs in one asyncio process over one SQLite file. nanobot calls the
hook before and after each model iteration and at the end of a turn, with its
own list of messages; turns of different chats interleave at every await.
Background tasks (embedding, evolution, curation, judging, purging) interleave
with the turns in the same way. Nothing is preempted: between two awaits a task
is alone, and that is what decides the grain of every action here.

| Component | Code | State | Operations | What makes it correct |
|---|---|---|---|---|
| Session archiver | `session/archiver.py`, `lru.py` | fingerprints, pending runs, session ids and turn counts per conversation; `sessions`, `chunks` | archive a window, ensure a session, release a window, evict, prune | every message shown is stored once, in one session per conversation; an ended session is not written |
| Session boundary | `coordinator/session.py`, `hook.py` `_sync_session`, `session/outcome.py` | last session synced per conversation, the keyless one, outcome evidence; `trajectories` | sync, finalize, prune, collect | a session is finalized once, when over, with its own evidence |
| Lifecycle hook | `hook.py` | turn counters, pending injections, background tasks | before/after iteration, finally, error; schedule tasks | a turn's state is its own, whatever other turns do during its awaits |
| Skill library | `skills/propose_tool.py`, `skills/curator.py`, `coordinator/skills.py` | `skills/*/SKILL.md`, `skill_stats`, `skill_versions` | create, edit, patch, pin, rate, promote, stale, deprecate | file and row agree; a pin exempts |
| Skill index | `skills/indexer.py` | `skill_stats` rows, `skill_vec` | refresh, search | every file has a row and no row lacks a file |
| Skill evolution | `skills/gepa.py`, `rewriter.py`, `umbrella.py`, `skill_retirement.py`, `skill_designer.py` | the texts in the model's hands | choose, ask, write | nothing replaced is lost; exempt skills are left alone |
| Write approval | `governance/write_approval.py`, `review_tool.py`, `pending.py` | `pending_writes` | stage, approve, reject | nothing is written unapproved; an approval clobbers nothing newer |
| Evolution snapshots | `skills/evolution_snapshot.py`, `backup.py` | snapshot directories | snapshot, prune, roll back | a rollback finds the last snapshot, whole |
| Principles | `skills/principle_*.py` | `principles`, its mirror | record, curate, stage, approve, prune | no duplicates; what the agent recorded is its own; findable |
| Prompt optimizer | `governance/prompt_optimizer.py` | `prompt_versions` | propose, score, promote | the best score is used |
| Reflection | `coordinator/reflection.py`, `citation.py`, `reflect/` | reflections, watermarks, each conversation's injections, salience and cadence | recall, inject, count, credit, remind | views and outcomes go to what the conversation was shown; reminders come when due |
| Goals | `coordinator/goal.py` | the active goal | see, update, complete, carry over | a completed goal is told once |
| Lessons | `memory/cheatsheet.py`, `expel.py`; `decay.py` | lessons with trust | extract, retrieve, credit, evict | one lesson is stored once |
| Outcome judge | `session/outcome.py`, `memory/outcome_judge.py` | signals, labels, verdicts | label, judge, retry, fall back | lessons and row agree on one outcome |
| Memory files | `memory/tool.py`, `budgets.py`, `guard.py`, `consolidation.py` | memory files | add, replace, remove, consolidate | nothing is forgotten by consolidating |
| Facts | `memory/bitemporal.py`, `links.py` | `semantic_facts`, vectors, links | distil, link, supersede, sweep, evict | a fact is retired by a later one only |
| Embedding chain | `embedding/` | provider health | embed with failover | a provider that recovered is used again |
| Database | `session/db.py` | rows, full-text mirrors, markers | open, rebuild, detach, purge, evict | rows, vectors and mirrors agree, or it is known that they do not |
| Search, browsing, reports | `session/search.py`, `browse.py`, `mmr.py`, ... | none | read | none that another component depends on |
| Installation and configuration | `__init__.py`, `cli.py`, `config.py`, `redact.py`, ... | none at run time | parse, wire | outside a state model |

The hard parts, each with its line in `PROJECT.json` under `hazards`:

* **Alignment.** nanobot's window slides, is re-serialised between turns, merges
  messages and repeats texts. The archiver must tell what it has stored from
  what is new by fingerprints only.
* **Five dicts, one cap.** The archiver, the coordinator and each collector keep
  an LRU of conversations of their own, touched at different moments. Each may
  forget a conversation that the others still know.
* **Awaits.** The evolution phases read a skill, wait minutes for a model and
  then write, while the agent, people, the curator and the indexer go on.
* **Waits in the memory.** Distillations, lesson extractors, the curator and a
  consolidation each read, wait for vectors or a model, and write.
* **Late answers.** A judge answers after its session, or never; embeddings
  arrive after their rows were purged; the process may stop before either.
* **Files under load.** The purge, VACUUM and the snapshots share one database
  file, one lock and one directory, and an approval's snapshot takes no lock.
* **Partial failure.** Inserts, stamps, files and rows are written one after the
  other; errors are logged and swallowed, and the process may stop anywhere.

## 2. The modules

    Lru                 lru.py `touch`: a bounded dict's order of keys
    Alignment           archiver.py `_align`, `_overlap`, `_fingerprint`, as functions
    SessionLedger       what the archiver promises about `sessions` rows (abstract)
      SessionArchiver   archiver.py under nanobot's windows; implements SessionLedger
      SessionBoundary   coordinator and hook on top of SessionLedger
    SkillStore          the skill library and everything that changes it but evolution
      SkillEvolution    the evolution cycle and the approval gate over SkillStore

    Facts               semantic facts and lessons, their vectors and links
    Principles          the if-then rules and their three writers
    MemoryFiles         one memory file under edits and consolidations
      Knowledge         the three stores of what is known across sessions

    Injections          what conversations are shown, and what is counted and credited
    Nudges              what conversations are reminded of
      Reflection        both halves of the reflection coordinator

    Verdict             signals, rule labels and the judge of ended sessions
    TextIndex           rows, their full-text mirrors and vectors
    HeavyIo             purge, VACUUM and snapshots under one lock
    Chain               embedding providers with failover
      Background        what one process does behind its replies

    LruProofs, SessionArchiverProofs, SessionContentsProofs, SessionBoundaryProofs,
    SkillEvolutionProofs, KnowledgeProofs, ReflectionProofs, BackgroundProofs   theorems
    MCSessionArchiver, MCSessionBoundary, MCSkillEvolution, MCKnowledge,
    MCReflection, MCBackground   model values, symmetry

`Knowledge`, `Reflection` and `Background` put together parts that share no
variable. Their steps commute, so any interleaving of them is equal to one after
the other, and a behaviour exercises one part, chosen at the start (`part`,
`side`); the others stay as they began. That keeps the sum of the state spaces
from becoming their product and loses nothing, as every property speaks of one
part.

`SessionLedger` joins the two halves of the session story. `SessionArchiver`
keeps messages and implements it (`KeepsLedger`, an `INSTANCE` with a refinement
mapping that forgets the messages; checked by TLC and proved);
`SessionBoundary` extends it and knows no messages. So messages and boundaries
need not be explored together.

### SessionArchiver

One action per hook call: `StartTurn` (`before_iteration` of the first
iteration), `PassAgain` (a later one), `AppendReply` (`after_iteration`),
`AppendFollowUp` (the same pass, after the runner drained a user's follow-up into the
turn's list), `StartTurnFollowed` (one was drained before the first model call),
`EndTurn` (`on_finally`), `InterruptTurn` (`on_error`). Archiving, the eviction
of idle conversations and `ensure_session` happen in the same call without an
await, so they are one step (`HookCall`). nanobot is external and modelled by
what it does to the window: `BuildWindow` and `LegalTails` (replayed history
that may slide), `MergedLive` (the current message joined to a trailing user
message), `EndTurnDropping`, `NewCommand` and `Compact`. `Restart` forgets what
is in memory. Each pass sees one new message, or none; a follow-up is answered, so it is
not the last message of its turn. Turns whose current message is a subagent's result
(an assistant message) are not modelled.

A message is a number, and its fingerprint is made of its role, its text and the form
nanobot shows it in (live, raw, replayed), which is what makes alignment hard. With
`Stamps`, nanobot prefixes what it replays of a user with its time, and no two user
messages look alike; without, a text that is written again does (`Writes`), and raw and
replayed form are the same. A reply is known by its text alone and may repeat in either
case. `_archive` may fail at an insert and at the session start; what was stored before
stays stored (`Store`, `Archive`). An `ended_at` UPDATE may fail too (the fault `stamp`):
`_end_session` swallows it and the row stays open until the key's next start; those of
one pass fail together.

Two history variables name what the source cannot promise. `blurred` is a conversation
whose messages the archiver cannot tell apart by design: a text was repeated where
nanobot does not stamp, which `archiver.py:45-52` declares as its residual (a `/new` with
an identical first message continues the old session), or a follow-up was drained before
the first model call, which makes the current message a middle one of its window. No
property speaks of such a conversation, but `NoneSwallowed`, which says what it costs.
`irregular` is a conversation that was compacted (the summary stores again what it
summarises), that lost its session to an eviction within a turn, or whose window slid
so far that it shows of the last turn nothing but follow-ups drained in it and their
answers. The last one meets that turn's pending run out of step: with user, tool, user,
assistant pending and a window that begins at the second of the users, the run stops at
the tool result and the answer is stored twice.

`StoredOnce` speaks of conversations that are neither, without a fault. `NothingLost`
excuses less, since a duplicate is the price the source pays for it: only a conversation
one of whose calls left its window unarchived (`failed`, a history variable that counts
those), and not even that one while it is the only fault of all and nothing irregular
happened. With two such calls, or one and a compaction, the pending run may stand for
other messages than the window shows, and consume one of these by its role alone.

`TurnContinues` asks of every turn whose window starts with a message before its own
that it goes on in the open session. After `/new` the window is the turn's own message,
and after a compaction the summary is merged into that, which the source declares to
start a session. `OneConversationPerSession` needs no excuse but `blurred`.

### SessionLedger and SessionBoundary

The ledger has three variables: `owner` (who opened each row), `ended`,
`mapped` (`_session_ids`). A pass continues, releases or opens a session, may
evict any idle conversations and fails to stamp any of them (`_end_session`
swallows the error). This is more than the LRU of the archiver would do: the
boundary is checked for every order of eviction.

`SessionBoundary.HookCall` archives, syncs and, at a boundary, labels,
finalizes, prunes and resets, in one step as in the code. The coordinator's
dict and those of the collectors are concrete LRUs. A collector stands for
outcome signals, lessons, skills or reflections; what it holds is reduced to
the sessions it came from, and a trajectory records what it was given. A turn whose
session could not be started (`unbound`) collects all the same, as the hook records
outcomes whether or not it has a session (`hook.py:663-668`); what it left belongs to no
session (`NoSession` in `held`) and counts for the next one of its key. Keyless
chats share one key in the hook and are told apart in the archiver only.
`forgotten` is a history variable: the sessions whose boundary nobody will see.
The goal carried over a boundary, and the credit a next session's opener gives
to the one just ended, are in `Verdict`, which looks at one conversation.

### SkillStore and SkillEvolution

`SkillStore` has one action per operation on a skill: `Create`, `Edit` (edit and
patch), `SetPinned`, `CheckPromotion`, `Curate`, an index refresh in two steps
(`BeginRefresh`, `EndRefresh`, with the wait for embeddings between them) and a
person at the files (`WriteByHand`, `Delete`). Texts are numbers, new for each
write of a skill. The operations are operators on a record of the library, so
that the cycle can compose several of them in one step.

`SkillEvolution` runs the phases of `_run_evolution_cycle`. The task gives way
only while it waits for a model, so a step runs from an answer to the next
wait: `Onward` and `NextPhase` give every place the cycle may wait next, through
skills passed over, whole phases with nothing to do, and the ratchet, which does
not wait. When a phase starts, its candidates are chosen; when a job is taken
up, its texts are read (`Waiting`); what is written is decided when the answer
is in (`GepaAnswers`, `RewriterAnswers`, `UmbrellaAnswers`, `DesignerAnswers`,
`Decline`). Scores, critics and judgements are any outcome. Clusters and the
ratchet's choice are any the filters allow.

The gate and the staged writes are in the same module: `Stage`, `Approve`,
`ApproveFails` (the prefixes of `approve_skill` that an error or a crash leaves
behind), `Reject`. Left out: companion files, the security scan, external skill
directories; snapshots and the gate of the principles have modules of their own
(`HeavyIo`, `Principles`). The offline CLI is used without a
running agent, as its docstring says, so an approval is one step.

`ShieldedUntouched` excepts a stale or deprecated skill, which the designer may
create anew even when it is pinned (`_create` accepts those states and keeps the
pin). `OneWinsPerBase` speaks of writes that replace a file: two staged creations
of a name that was deleted in between may both be approved. And it excuses a base
that was itself a staged text, once something failed: an approval that wrote its
text and failed stays pending, and after a deletion and a retry that text is in
the file a second time.

### Facts, Principles, MemoryFiles

An action is the code between two awaits, here and in all modules below.

`Facts` follows `memory_patch(action="distill")` (`StartDistil`, `WriteFact`,
`LinkFact`, `Supersede`), its audit sweep (`StartSweep`, `SweepAnswer`), the two
lesson extractors of an ended session (`FindContrast`, `StoreLesson`,
`DieStoringLesson`), retrieval, the boundary's movement of trust and retention.
A fact's content is its topic: facts of one topic are nearer than every
threshold. Trust is above or below the retrieval floor, not a number; what a
label does to it is any subset of the lessons shown. `together` remembers which
facts were distilled at the same time: either may then find the other written
and retire it, which is the one exception `RetiredByLater` makes.

`Principles` has the three writers of `upsert_principle`: the tool, the curator
task and an approval. Each waits for an embedding and then looks for a duplicate
and inserts without a wait. The curator's other operations (`ApplyUpdate`,
`ApplyPrune`) name any row, because the ids come from a model; the budget
(`FinishCuration`) may take any curated rows of the right number. The mirror
breaks, is marked by the write or the search that notices, and is rebuilt, or
not, when the database is opened again. A rule of the agent's that is merged into a
curated row leaves the row curated: `HumanRowsAreTheirs` speaks of rows whose origin is
the agent only.

`MemoryFiles` keeps one file as paragraphs of lines, because `split_entries`
cuts by blank lines if there are any. A line is an entry and belongs to a
meaning; `Budget` counts lines where the code counts tokens. A consolidation
reads, waits, and writes over whatever is there: `overtaken` names the chats
whose file changed meanwhile. `NothingForgotten` says of all that what they write says
what they read, and of the others that the file loses nothing; what came meanwhile
may be overwritten (section 4). nanobot's Dream / Consolidator writes the
same file and skips the budget on purpose (`budgets.py:4-7`): `BackgroundWrite` puts any
of the texts in `Drafts` in its place, of any size, and `patched` says whose text the file
holds, as the budget binds `memory_patch` only.

### Injections, Nudges

`Injections` has an iteration in three steps: `BeginRun` up to the wait for the
task's embedding, `Recall` up to the model's answer, `EndIteration`; later
iterations wait once (`BeginIteration`). A boundary may be met at each
(`Credited`, `AfterSync`). States are lost to the LRU (`Evict`), the session
coordinator forgets on its own (`Unlearn`), runs are cancelled and the process
restarts. `shown`, `credit` and `evicted` are history variables, written by what
the chat was given and not by what the code remembers of it.

`Nudges` has the counters: salience (`ScoreIteration`, `ToolBurst`), the cadence
of user turns (`CountTurn`, `TellAgain`, `SaveToMemory`) with the guess made from
the window when the counter was lost, and the goal's completion. Salience stops
at the threshold, `spoken` at the interval: both are only compared with them.

### Verdict, TextIndex, HeavyIo, Chain

`Verdict` collects one conversation's signals with the code's window of
reactions, labels at the boundary by the code's rules (`Label`), and lets judges
of ended sessions retry, fall back, answer late or die with the process, in the
three modes. A trajectory may fail to be written (`row = "none"`), and the judge
finds none.

`TextIndex` follows a write through `fts_guarded_write`: a corrupt mirror is
detached in the middle of a pass, which commits the rows before, and the marker
with them. `Open` re-attaches, rebuilds what it can and backfills the old
trajectories. Embeddings arrive when no transaction is open; the purge may be
first. `Purge` takes any of the chunks, since which sessions ended before the cutoff has
nothing to do with their ids, and of the trajectories the oldest. `index` is what a sound
mirror would hold, so `MissingIsMarked` speaks of damage that some statement noticed; a
mirror that answers wrongly without an error is outside.

`HeavyIo` has the lock's queue, the purge tasks, the cycle and the approval, and
the snapshot directories sorted by name as `latest_snapshot` sorts them. A builder
works in the directory named after the time it began (`ts`); another's prune may
take that away, and then the copy of the database makes it anew (`CopyDb`) and the
archive and the rename fail.
`rollback_evolution` is what it would find.

`Chain` has one entry for each provider and keeps its mark relative to the present
(`cool`). Two entries of one provider and model under different URLs would share a mark
in the code, which keys it by both; a failing one could then keep a healthy one from
being asked. A call reads the clock once and compares and sets marks with that time,
older than the timeouts before it.

## 3. The runs

| Run | Question | Bounds |
|---|---|---|
| `archiver_one_chat` | Is anything lost, doubled or misfiled by a single conversation? | 1 key, 7 messages, 2 replies a turn, window of 4, 2 of /new and compaction, 2 faults, 4 sessions; no stamps; 1 text that repeats an earlier one or 1 follow-up drained first |
| `archiver_two_chats` | Is anything lost when chats evict each other, and is the ledger kept? | 2 keys over a table of 1, 6 messages, 1 fault; stamps |
| `boundary_interleaved` | Do interleaved chats finalize only what is over, once, and tools attach rightly? Does every ended session stay accounted for, with its own evidence? | 2 keys, 2 keyless lists, dicts of 1, 3 sessions, 2 faults |
| `lessons_of_forgotten_session` | Are lessons credited to their session? (violation) | 2 keys, dicts of 1 |
| `evolution_cycle` | Does a cycle keep what it replaces, spare what is exempt, keep the gate? | 3 skills, 3 texts each, 2 staged writes, 1 cycle, 1 change, 1 fault |
| `knowledge` | Do facts, principles and memory files survive what their writers wait for? | 1 topic, 2 sessions, 2 calls, 3 facts; 2 rules, 2 rows, 1 operation, 1 staged list; 3 lines of 2 meanings, a budget of 3, 2 chats |
| `reflection` | Is what is counted, credited and reminded what the chat was shown and said? | 2 chats, 1 principle, 1 reflection, 3 sessions; threshold 5, interval 3, 2 messages at once |
| `background` | Do judges, indexes, snapshots and providers keep their promises, and is all that is scheduled done? | window 2, 1 retry, 2 ended sessions; 2 chunks, 1 trajectory, passes of 2; 1 purge, 3 snapshots of which 2 are kept; 2 callers, 2 providers, marks of 3 timeouts |
| `follow_up_drained_first` | Is the last entry of a first window always the current message? (violation) | 1 key, 7 messages, no fault, 1 follow-up drained first |
| `rewriter_loses_edit` | Does the rewriter preserve what it overwrites? (violation) | 2 skills, 1 change |
| `umbrella_overwrites_unindexed` | Does a merge stay in its cluster? (violation) | 3 skills, 1 change |
| `half_written_found` | Does `latest_snapshot` never point at a half-written one? (violation) | as `background` |

Why the bounds suffice: a table of one over two keys evicts at every change of
chat, the worst case of an LRU; a window of four over seven messages slides past
everything a first turn stored, and two fingerprints kept are fewer than a
window has; three sessions allow two boundaries and a session after them. Three
skills are a merge of two and a bystander, or an umbrella and its two siblings;
two staged writes are a pair on the same base; three texts are what was there,
an edit and what evolution wrote. One fault may strike at any step, and a second one
in a single conversation. A turn appends two messages, each a reply, a tool result or a
follow-up, so that a window may slide to a follow-up within a turn. The single
conversation is unstamped and has one blurring step, which `/new` or a compaction may
follow; in its other behaviours all texts differ, and stamped and unstamped replays are
then told apart alike. The two conversations are stamped and never blurred
(`MaxBlurs = 0`). The theorems hold for any bound, stamped or not.

With one topic every fact is a near duplicate of every other; three facts are two
written at once and one that supersedes. Two rules and two rows are a twin or a
pair, and a budget of one is over at the second row. Three lines of two meanings
make a cluster and an entry that must survive beside it; the one draft of nanobot's
is over the budget and says each of its two meanings twice. Two chats suffice for
state that leaks from one to the other, three sessions for two boundaries and a
session after them. A threshold of five lies between one error (3) and an error
with a burst (3 + 2); two messages may pass an interval of three from any count.
A window of two reactions drops the third, one retry is the last. A pass of two
rows has a row before and a row after a detach. Three snapshots of which two are
kept prune one. Two providers are one to skip and one to fall back on; a mark of
three outlasts two timeouts of one.

`CHECK_DEADLOCK FALSE` everywhere: the bounds end every behaviour, and the system
itself may stay idle for ever.

Fairness is stated where the code owes progress, in `background` only, and all of
it is weak:

* a judge's step (`VerdictFairness`): a task of a live event loop runs, and every
  request it waits for has a timeout; the retries are counted;
* a purge's start and end, and the cycle's snapshot (`HeavyIoFairness`): a copy, a
  tar and a VACUUM end, in success or failure, and `asyncio.Lock` serves those who
  wait in their order. None of it holds while the process is down: the steps are
  not enabled then;
* the clock, and the end of a request (`ChainFairness`).

No fairness is assumed of users, chats, crashes, providers or corruption. The
other components may wait for ever for a model, and their properties are safety
properties. `EmbeddingsComeBack` is conditional: if some provider answers from a
time on, embeddings succeed from a time on.

## 4. What the runs show

They pass except for five disagreements between the code and what it says of
itself, each with its run (`findings`):

1. **Lessons outlive their session** (`hook.py:156`). The coordinator forgets a
   conversation, `_lessons_by_key` does not, and the lessons of the forgotten
   session are credited with the outcome of the next.
2. **The rewriter loses an edit** (`skills/rewriter.py:343`). It preserves the
   text it read before its model calls, not the one it overwrites. GEPA reads
   again before it saves, and `OverwrittenIsKept` holds for it.
3. **A merge overwrites a skill that is not indexed** (`skills/umbrella.py:165`).
   The clash is looked for in `skill_stats`, not on disk.
4. **A half-written snapshot is the latest** (`skills/evolution_snapshot.py:57`). The
   comment says that `latest_snapshot()` "never points at a half-written snapshot".
   When the process dies while one is built, its directory stays, `_tmp_` sorts after
   every time, and it is the latest from then on. Exceptions are cleaned up after, and
   for states without such `leftovers` `RollbackRestoresWhole` holds.
5. **A first message is swallowed** (`session/archiver.py:342`). The comment in `_align`
   takes the last entry of a first window for the current message; `hook.py:640` says that
   follow-ups may have been drained after it. When the window begins with the current
   message, after `/new` or when it has slid past all of the last turn, the pending message
   of the last turn adopts it by its role. It is never stored, and after `/new` the old
   session goes on.

Everything else holds in every state explored: within the excuses stated in section 2
nothing shown is lost or stored twice, and no session is finalized alive or twice; every
approval leaves an umbrella wherever it deprecates; the gate is never passed;
rules and lessons stay single and findable; views, credit and reminders go to
whom they belong; every judge, purge and snapshot comes to its end.

What a reader of the code should also know, and no run is given to:

* **A consolidation overwrites what came meanwhile** (`memory/tool.py:326`). It merges
  the text it read before it waited for vectors, and writes that over entries another
  chat or nanobot added, though `config.py:53` speaks of "preserving meaningfully
  distinct entries". `NothingForgotten` excepts those entries and nothing else.
* **A recorded rule is pruned** (`skills/principle_tool.py:129`). The origin that
  protects it is set on an insert only (`principle_index.py:98-110`); merged into a row of
  the curator's, it stays the curator's to prune.
* **A write reported as "not applied" that was applied**
  (`governance/write_approval.py:322`). An approval that fails after writing the
  file is retried, finds its own text and calls the base stale.
* **Keeping a single snapshot.** With `snapshot_retain = 1`, an approval that
  builds while a cycle's snapshot is put in place makes the prune take the
  complete one (a half built one sorts last). The default is 3, the run keeps 2, and
  the theorem `RollbackIsWhole` assumes 2 at least.
* **A prune that takes a directory still built in.** `_prune` counts half-built
  directories, its own excepted, so with enough of them, or with leftovers, it removes
  one that an approval is building in. The model has that; it takes more snapshots than
  the run has, and the theorem covers it.
* **The threshold of salience.** `config.py:103` and `reflect/salience.py` say that
  5.0 fires on any one error, one burst or three corrections; those weigh 3.0, 2.0
  and 3 x 1.0.
* **Credit before the verdict.** In apply mode the lessons wait for the judge, but
  trust, utility and the principles' counters are moved at the boundary with the
  rule label.
* **A rejection during an approval** of principles is overwritten by `approved`
  (`governance/write_approval.py:407`), after its operations were applied.
* **Two distillations at once** may retire the newer fact of the two (`Facts`).

## 5. What is proved

TLAPS checks these for every value of the constants: every set of keys, lists,
skills, rules, chats and reflections, every capacity, threshold and interval and
any number of sessions, texts, rows, staged writes and faults.

| Theorem | Module | Says |
|---|---|---|
| `LedgerSafety` | `SessionBoundaryProofs` | types, `WritesToOwnOpen`, `OneOpenPerKey` of the ledger |
| `ArchiverTyped` | `SessionArchiverProofs` | `TypeOK` of the archiver |
| `Separated` | `SessionArchiverProofs` | `OneConversationPerSession` |
| `StaysClosed` | `SessionArchiverProofs` | the action property `EndedStaysClosed` |
| `LedgerImplemented` | `SessionArchiverProofs` | the refinement `KeepsLedger` |
| `TranscriptComplete` | `SessionContentsProofs` | `NothingLost` |
| `TranscriptOnce` | `SessionContentsProofs` | `StoredOnce` |
| `ConversationsContinue` | `SessionContentsProofs` | the action property `TurnContinues` |
| `BoundaryTyped` | `SessionBoundaryProofs` | `BoundaryTypeOK` |
| `Finality`, `FinalityCloses` | `SessionBoundaryProofs` | `FinalizedOnce`; `FinalizedIsClosed` |
| `LedgerKept`, `OpenOnce` | `SessionBoundaryProofs` | the ledger's promises under pruning and forgetting: `WritesToOwnOpen`; `OneOpenPerKey` |
| `Evidenced`, `Accounted` | `SessionBoundaryProofs` | `OwnEvidence`; `EndedIsAccounted` |
| `ToolsSeeOwn` | `SessionBoundaryProofs` | `ToolsSeeOwnSession` |
| `Crossing` | `SessionBoundaryProofs` | the action property `BoundaryIsCrossed` |
| `TypeCorrect` | `SkillEvolutionProofs` | `EvolutionTypeOK` |
| `OneApprovalPerBase` | `SkillEvolutionProofs` | `OneWinsPerBase` |
| `GatedCycleOnlyStages` | `SkillEvolutionProofs` | the action property `GateHolds` |
| `ExemptIsUntouched` | `SkillEvolutionProofs` | the action property `ShieldedUntouched` |
| `ReplacedIsKept` | `SkillEvolutionProofs` | the action property `OverwrittenIsKept` |
| `NothingAbsorbedIsLost` | `SkillEvolutionProofs` | the action property `AbsorbedIsCovered` |
| `NoneIsHidden` | `KnowledgeProofs` | `PrinciplesTypeOK`, `Findable` |
| `RulesStayApart` | `KnowledgeProofs` | `NoTwinPrinciples` |
| `PersonsRowsStay` | `KnowledgeProofs` | the action property `HumanRowsAreTheirs` |
| `TimeRunsForward` | `KnowledgeProofs` | `RetiredByLater` |
| `OneLessonEach` | `KnowledgeProofs` | `NoLiveTwins` |
| `ConsolidationKeeps` | `KnowledgeProofs` | the action property `NothingForgotten` |
| `KnowledgeTyped` | `KnowledgeProofs` | `KnowledgeTypeOK` |
| `ViewsAreCounted` | `ReflectionProofs` | `CountedAsShown` |
| `OutcomesAreCredited` | `ReflectionProofs` | `CreditedAsShown` |
| `ToldInTime` | `ReflectionProofs` | the action property `NudgesAreDue` |
| `CoordinatorTyped` | `ReflectionProofs` | `ReflectionTypeOK` |
| `OutcomeIsFinal` | `BackgroundProofs` | `VerdictTypeOK`, `VerdictIsFinal` |
| `SearchIsHonest` | `BackgroundProofs` | `MissingIsMarked` |
| `RollbackIsWhole` | `BackgroundProofs` | `RollbackRestoresWhole`, if `Retain >= 2` |
| `BackgroundTyped` | `BackgroundProofs` | `BackgroundTypeOK` |

The theorems on `Facts`, `Principles`, `MemoryFiles`, `Injections`, `Nudges`, `Verdict`,
`TextIndex` and `HeavyIo` speak of each one's own specification (`FactsSpec`, ...).
`KnowledgeKeeps`, `KnowledgeSteps`, `CoordinatorCounts` and `ProcessKeeps` carry them
over to `Knowledge`, `Reflection` and `Background`, which run those side by side: every
step of the whole is a step of one part, or none, for each part.

Assumptions: session keys are no list ids, and the shared key of keyless chats is no
session key (`KeysAssumption`, `SharedAssumption`); a skill has at least one text
(`MaxTextsAssumption`). Of the newer modules: counts are numbers
(`PrinciplesAssumption`, `FactsAssumption`, `TextIndexAssumption`, `VerdictAssumption`,
`HeavyIoAssumption`, the archiver's `LimitsAssumption`); a reply is an assistant's or a
tool's message, follow-ups being an action of their own (`RepliesAssumption`); a nanobot
stamps or does not (`StampsAssumption`); what it puts in the place of a memory file is a
text (`DraftsAssumption`); a purge is neither the cycle nor an approval
(`PurgesAssumption`); two texts of different meaning share no line (`MemoryAssumption`);
a window of reactions and a threshold are not zero, and no more messages come at once
than an interval holds (`NudgesAssumption`; a longer run of them arms the reminder all
the same). The caps on texts, rows, staged writes, cycles, changes and faults remain
guards of the model, and the theorems hold for each of their values.

The argument for the ledger: `Sound` says that a mapped row is the
conversation's own and open and that a key with an open row that it is not
mapped to has no other; `LetGo` and `Open` keep it, so every pass does.
`OneOpenPerKey` alone is not inductive: a failed stamp leaves a row open and
unmapped, and only `Open`'s clean-up of the key's rows restores it.

The argument for the archiver: `ArchOK` says of its memory that a mapped key's session
is an open one of its own and, once it has rows, is remembered by a fingerprint or a
pending message, that an unmapped key has neither, and that a session's rows are of one
era, the time between two `/new`, unless its conversation is blurred. `Chats` adds for
each conversation that its history and window are of its present era and numbered no
higher than the messages made, and that, as soon as either is not empty, what it would
write to is of that era too (`Fits`). What is left is the first turn after `/new`, with
the old fingerprints still in memory: its window is one user message no fingerprint
knows, so `_align` calls it new (`UnseenIsNew`), and the session of the old era is let
go before anything is stored (`Separated`). What `_align` returns is read off its
definition by the longest runs being runs (`LongestIsOne`). Every hook call is a move
(`Moves`): it ends none, or the key's and any idle sessions, opens at most one, and
writes to the mapped one only. From that follow `StaysClosed` and, move by move, a pass
of the ledger (`LedgerPass`); a failed insert is a pass that starts nothing and a
restart is the ledger's `Forget`. `LruProofs` has what `touch` does to a dict's order of
keys: it stays without repetition and within the cap (`TouchKeeps`), which also bounds
the dicts of the boundary.

The argument for what the sessions contain (`SessionContentsProofs`): `NothingLost` and
`StoredOnce` say that `_align` finds the right place in every window nanobot may show,
and neither is inductive, because they say nothing of what is remembered. The invariant
`Contents` says that of each conversation that is not blurred, in terms of its `View`: what
the archiver remembers of it, its history and window, and the identities its sessions hold.
Its parts (`Good`):

* `Whole`: as long as no call failed, all a turn shows is stored, and memory is empty or
  `Covers` the window: the fingerprints end with those of its first entries, the pending
  run has the roles of the others, and no fingerprint is that of the entry where the run
  begins, which could prolong the overlap. Between turns all of the history is stored,
  but for a summary that a compaction put at its end.
* `Clean`: with at most one fault, and nothing irregular, memory `Remembers` the history,
  or lags behind by its last message; and the window has `Shape`: the history replayed,
  the live message, what the turn appended. To remember a history is to have confirmed
  all but its last turn and to hold pending what that turn's messages are by role, from
  the one that opened it (`opens`). So a tail of the history that holds that message is met
  where it begins; one that shows that turn's follow-ups alone is what `irregular` excuses.
* `Led`: a window and the pending run of an open session start with a user's message, so
  a window that starts with an earlier message matches at least by role and is not new.
* `Numbered`: messages are numbered in the order they came, so the one that has just come
  is in no session.

The proof keeps apart what the steps do. Lemmas on `Align` say where it goes on in a window
that memory covers (`CoveredGoesOn`, `CoveredStored`), and that a first pass remembers its
window wherever it goes on (`UnseenStored`), as the live message that ends it has a
fingerprint no other message has; what a first pass skips is replayed history, stored
already. `Took`, `Missed` and `TookAnew`
say what one pass makes of a view (`HookIs`): it stored the window as it was aligned, or
raised, or raised and then stored it anew through `ensure_session`. A first pass of a turn
(`Begins`) sees a tail of the history, replayed; a later one (`GoesOn`) the same list or one
entry more. For each of those and each part of the invariant there is one lemma, over views
alone; then each action is shown to be such a step of its own conversation's view, and to
leave the others' as they are, or cleared by an eviction (`OthersAside`). `StoredOnce`
follows from what a pass adds: one message, new by its number (`AddsLast`, `LastIsNew`), or
a whole window, whose entries share nothing (`ShapeApart`), in a new session.

While this was proved, `NothingLost` turned out to be false for two faults or more as it
stood, excusing a fault only together with a compaction or an eviction: the runs then had
one fault. It now counts `failed` calls, and `archiver_one_chat` has two. `TurnContinues`
needed less than it asked for and lost a premise.

The argument for the boundary: `BoundaryInv` adds that what the coordinator
remembers under a key is a row of that key (`Remembered`), that what a collector
or a turn holds is the remembered session or one that was forgotten (`HeldIsOwn`,
`TurnIsOwn`), and that every row is remembered, forgotten or finalized
(`RowsAccounted`). Without these, a session already finalized could be the one
crossed out of. The lemmas on `HookCall` treat one conjunct each.

The argument for the evolution cycle: `Outcome` says what every path to the next
wait leaves alone, by one lemma for each phase; with what the cycle holds and has
left to do kept clear of the shielded skills (`CycleOK`), every answer is either
staged (`StagedInstead`) or written out (`WrittenOut`). `OneWinsPerBase` is not
inductive alone. It needs that no two writes bring in the same text (`Distinct`),
that what an approval replaced does not come back (`Gone`), and, for a base that
was itself a staged text, that without failures a text of a write not approved is
in no file and no base (`Unapproved`): all others write only texts nobody had
before (`WritesFresh`).

The argument for the principles: an embedding that is waited for belongs to an
operation still to be counted down (`Calls`), a row of the agent's has the agent's
text (`OwnHand`), and every step keeps the rows there were: their origin, the
vectors of those still live, and the agent's own altogether (`RowsKept`). Rows only
merge or are added when none has their vector, in the same step as the search.

The argument for the facts: what a call carries across its waits stays harmless
while the table moves on (`HandOK`): the fact it is about to link is a fact, and every
row after it was written during that wait (`together`); the candidates it asked about
are older than their anchor, or were written beside it. Ids grow, so an answer may come
as late as it likes. Every step only ages the rows there were (`Aged`): none becomes
valid, or a lesson, again. `RetiredByLater` alone says nothing of what is still being
asked. That a sweep's anchor is a row at all needs that a bounded set of ids has a
newest one (`Greatest`), from the library's theorem on well-founded relations. The types
need more (`FactsBounds`): retention skips the fact a call is about to link or to judge,
so a fact to be indexed and linked is live (`LinkingLive`), and what it does take loses its
vector and its links in the same transaction, so neither outlives its fact
(`NothingDangles`).

The argument for the memory files: a copy the file has not left behind is the file
(`HeldIsCurrent`), so a consolidation merges what is there. That merging loses no meaning
(`MergesSayAll`) is about data: the lines of a text are those of its paragraphs, because
the recursion that joins them has a value for every length (`Flattens`, by a least
counterexample); its entries say what it says, cut either way (`EntriesSayAll`); every
entry has a first of its cluster (`SomeoneBegins`), every first has its place among the
survivors (`EachHasItsPlace`), and a survivor says what its cluster does.

The argument for the injections: what a conversation's state holds is what its
session was shown (`Held`), all of it unless an eviction was noted; while an
embedding is waited for, the log of the iteration is empty and a state that went
missing was noted. `CountedAsShown` alone says nothing of the iterations under way.

The argument for the reminders: `Due` bounds the counter by what was spoken since the
last save, unless the state was lost, and says that an armed reminder is already
due. For the verdict, every ended session is `Final`: what the judge may still do to
it keeps row and lessons together. For the mirrors, `TableOK` ties the rows of a
pass under way to what its commit or its failure will make of them (`PassOK`).

The argument for the snapshots: what stands under a builder's name is its own, half
built, and holds what it has copied so far (`BuilderOK`); a directory is named once, and
is half built only by a builder or by one that died (`DirOK`); who works holds the lock,
at the queue's head (`LockInv`), so no purge runs beside a cycle's copy. That the last
snapshot survives every prune (`NewestKept`) needs two to be kept: of the complete ones
it is the greatest, and one prune finds at most one half-built directory above it, the
other builder's.

Only model-checked: liveness, `ScheduledIsDone` (`LessonsComeOut`, `HeavyIoServed`,
`EmbeddingsComeBack`), under the weak fairness of each part; neither fairness nor `ENABLED`
is in this prover's reach. And the five properties the code violates, each by a run. All
other properties of the runs are theorems.

## 6. Not modelled, and why

* **Prompt optimizer** (`governance/prompt_optimizer.py`): the evolution cycle awaits
  `run_opro` at its end (`hook.py:798-802`), on the shared connection; it is off by default
  (`config.py:253`). It alone writes `prompt_versions`, and what it decides is the wording
  of prompts. Its inserts stay uncommitted while the next candidates are waited for, which
  another connection's writes have to wait out and a failing archive pass rolls back: a
  hazard that is listed and not checked.
* **Search, browsing, reports, read-only skill tools**: they rank and format. Their one
  write, the detaching of a broken mirror, is `SearchFails` and `SearchPrinciples`.
* **Schema migrations** (`session/db.py:505`): run once, on a database no other process
  has open; a table is dropped, created and filled again in steps that need
  not be one transaction, which a model of the file across versions could check.
* **Scores**: GEPA's, the critics', the ratchet's and the trust's arithmetic are any
  outcome. So is the order the retirement cap takes (`skills/skill_retirement.py:92`).
* **The hook's per-turn scalars** (`_tool_calls`, `_pending_injections`), which reach a
  log line and the text of a prompt only.
* **Texts**: prompts, parsing, redaction, the security scan, chunk splitting, contextual
  prefixes, configuration, installation and the evaluation harness. Their results are
  choices of the model wherever they decide anything.
* **Archives**: unpacking and verifying a snapshot, companion files of a skill, external
  skill directories.

## 7. What is left

1. The retirement cap over counted uses, and a batch of memory operations as one unit.
2. A migration interrupted between its statements.
3. How many duplicates a conversation with failed calls may get: `StoredOnce` speaks of
   conversations without a fault only.
