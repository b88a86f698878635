------------------------------- MODULE Facts -------------------------------
(***************************************************************************)
(* The semantic_facts table and the workers that share it: the distil      *)
(* call of memory_patch, its audit sweep, the lesson task of an ended      *)
(* session, and retention.  All run on one event loop, so a worker is cut  *)
(* exactly where it awaits an embedding or a model's answer.               *)
(*                                                                         *)
(* A fact's content is its topic: two facts of one topic are nearer to     *)
(* each other than every similarity threshold, two of different topics     *)
(* farther.  trusted is trust_score >= fact_trust_min, keep is importance  *)
(* >= fact_evict_importance_floor (of a lesson always).  A fact's id is    *)
(* its place in the table (AUTOINCREMENT: never reused), which is also its *)
(* place in time.                                                          *)
(***************************************************************************)
EXTENDS Integers, Sequences, FiniteSets

CONSTANTS Topics, Sessions, Workers, MaxFacts, MinSessions, TopK, MaxEvictions, Importances

ASSUME FactsAssumption == /\ MaxFacts \in Nat /\ TopK \in Nat /\ MaxEvictions \in Nat
                          /\ MinSessions \in Nat \ {0} /\ Importances \subseteq BOOLEAN

VARIABLES
  facts,      \* semantic_facts: every row ever inserted, by id
  vecs,       \* ids with a row in semantic_facts_vec
  links,      \* semantic_fact_links: pairs <<a, b>> with a < b
  job,        \* what each memory_patch call holds across its awaits
  session,    \* the sessions whose chunks, label and lesson task feed the table
  together,   \* history: pairs of facts that were being distilled at one time
  passedOver  \* history: lessons hidden by the trust floor when a twin was stored

factVars == <<facts, vecs, links, job, session, together, passedOver>>

Labels == {"ok", "fail", "partial", "unknown"}
Ids == 1 .. Len(facts)
Valid(f) == facts[f].live /\ facts[f].by = 0      \* invalid_at IS NULL
Kind(f) == facts[f].kind
Indexed(t) == {f \in vecs : facts[f].topic = t}
Free(w) == job[w].pc = "idle"

Idle == [pc |-> "idle", todo |-> {}, fact |-> 0, cands |-> {}, retired |-> {}]
Extractors == {"cheatsheet", "expel"}
NoTasks == [x \in Extractors |-> "over"]
Waiting == [label |-> "none", topic |-> "none", tasks |-> NoTasks, shown |-> {}]

FactsInit ==
  /\ facts = <<>> /\ vecs = {} /\ links = {}
  /\ job = [w \in Workers |-> Idle]
  /\ session \in [Sessions -> {[Waiting EXCEPT !.topic = t] : t \in Topics}]
  /\ together = {} /\ passedOver = {}

NewFact(t, k, keep) ==
  [topic |-> t, kind |-> k, by |-> 0, trusted |-> TRUE, keep |-> keep, live |-> TRUE]

Gone(t) == [NewFact(t, "fact", FALSE) EXCEPT !.live = FALSE]

\* A row written while another call waits for the embedding of its own.
Overlaps(id) == {{id, job[v].fact} : v \in {v \in Workers : job[v].pc = "linking"}}

\* UPDATE ... SET invalid_at WHERE id = ? AND invalid_at IS NULL, for each id in S.
Stamped(S, by) ==
  [f \in Ids |-> IF f \in S /\ Valid(f) THEN [facts[f] EXCEPT !.by = by] ELSE facts[f]]

-----------------------------------------------------------------------------
(* memory_patch(action="distill")                                          *)

\* Themes that recur in at least MinSessions successful sessions.
Hubs == {t \in Topics :
           Cardinality({s \in Sessions : session[s].label = "ok" /\ t = session[s].topic})
             >= MinSessions}

StartDistil(w) ==
  /\ Free(w) /\ Hubs # {}
  /\ job' = [job EXCEPT ![w] = [Idle EXCEPT !.pc = "distilling", !.todo = Hubs]]
  /\ UNCHANGED <<facts, vecs, links, session, together, passedOver>>

NextHub(w) ==
  [Idle EXCEPT !.pc = IF job[w].todo = {} THEN "idle" ELSE "distilling", !.todo = job[w].todo]

\* The model gave no usable fact for the hub: go on with the next one.
HubGivesNothing(w, t) ==
  /\ job[w].pc = "distilling" /\ t \in job[w].todo
  /\ LET rest == job[w].todo \ {t} IN
       job' = [job EXCEPT ![w] = [Idle EXCEPT !.pc = IF rest = {} THEN "idle" ELSE "distilling",
                                              !.todo = rest]]
  /\ UNCHANGED <<facts, vecs, links, session, together, passedOver>>

\* The row is committed before its text is embedded.
WriteFact(w, t, keep) ==
  /\ job[w].pc = "distilling" /\ t \in job[w].todo
  /\ Len(facts) < MaxFacts
  /\ LET id == Len(facts) + 1 IN
       /\ facts' = Append(facts, NewFact(t, "fact", keep))
       /\ job' = [job EXCEPT ![w].pc = "linking", ![w].todo = @ \ {t}, ![w].fact = id]
       /\ together' = together \cup Overlaps(id)
  /\ UNCHANGED <<vecs, links, session, passedOver>>

\* link_new_fact, and invalidate_superseded_facts up to its question: one
\* stretch of code, from the embedding's arrival to the next await.
LinkFact(w) ==
  /\ job[w].pc = "linking"
  /\ LET f == job[w].fact
         near == {g \in Indexed(facts[f].topic) \ {f} : Valid(g)} IN
       /\ vecs' = vecs \cup {f}
       /\ \E linked \in {L \in SUBSET near : Cardinality(L) <= TopK
                                             /\ (Cardinality(L) < TopK => L = near)} :
            links' = links \cup {<<IF f < g THEN f ELSE g, IF f < g THEN g ELSE f>> : g \in linked}
       /\ job' = [job EXCEPT ![w] = IF near = {} THEN NextHub(w)
                                     ELSE [job[w] EXCEPT !.pc = "judging", !.cands = near]]
  /\ UNCHANGED <<facts, session, together, passedOver>>

\* Every provider is down: the row stays without vector, links or supersession.
EmbedOfFactFails(w) ==
  /\ job[w].pc = "linking"
  /\ job' = [job EXCEPT ![w] = NextHub(w)]
  /\ UNCHANGED <<facts, vecs, links, session, together, passedOver>>

\* The answer is applied to the candidates read before the question was asked.
Supersede(w, S) ==
  /\ job[w].pc = "judging" /\ S \subseteq job[w].cands
  /\ facts' = Stamped(S, job[w].fact)
  /\ job' = [job EXCEPT ![w] = NextHub(w)]
  /\ UNCHANGED <<vecs, links, session, together, passedOver>>

-----------------------------------------------------------------------------
(* memory_patch(action="audit"): todo holds the anchors not yet walked.    *)

\* A plausible slip: any neighbour of the anchor loses, newer ones included.
EitherLoses(tab, a, retired) ==
  {g \in Indexed(tab[a].topic) \ {a} : tab[g].live /\ tab[g].by = 0 /\ g \notin retired}

\* Older valid neighbours of anchor a, as this sweep sees them in table tab.
Losers(tab, a, retired) ==
  {g \in Indexed(tab[a].topic) : g < a /\ tab[g].live /\ tab[g].by = 0 /\ g \notin retired}

\* The next anchor, newest first, that this sweep has not retired and that has
\* somebody to ask about; the walk up to it awaits nothing.
Walk(tab, todo, retired) ==
  LET asks == {a \in (todo \ retired) \cap vecs : Losers(tab, a, retired) # {}}
      a == CHOOSE x \in asks : \A y \in asks : y <= x
  IN IF asks = {} THEN Idle
     ELSE [pc |-> "sweeping", todo |-> {b \in todo : b < a}, fact |-> a,
           cands |-> Losers(tab, a, retired), retired |-> retired]

StartSweep(w) ==
  /\ Free(w)
  /\ LET next == Walk(facts, {f \in Ids : Valid(f)}, {}) IN
       next # Idle /\ job' = [job EXCEPT ![w] = next]
  /\ UNCHANGED <<facts, vecs, links, session, together, passedOver>>

SweepAnswer(w, S) ==
  /\ job[w].pc = "sweeping" /\ S \subseteq job[w].cands
  /\ facts' = Stamped(S, job[w].fact)
  /\ job' = [job EXCEPT ![w] = Walk(facts', job[w].todo, job[w].retired \cup S)]
  /\ UNCHANGED <<vecs, links, session, together, passedOver>>

-----------------------------------------------------------------------------
(* Sessions: lessons shown to them, their label, the lessons they leave.   *)

\* retrieve_lessons: the nearest valid, trusted, indexed lessons.
Retrieve(s, t) ==
  /\ session[s].label = "none"
  /\ LET live == {f \in Indexed(t) : Kind(f) = "lesson" /\ Valid(f) /\ facts[f].trusted} IN
       \E S \in SUBSET live :
         /\ S # {} /\ Cardinality(S) <= TopK
         /\ session' = [session EXCEPT ![s].shown = @ \cup S]
  /\ UNCHANGED <<facts, vecs, links, job, together, passedOver>>

\* A similar session of the opposite class exists (find_contrasting_session).
HasContrast(s) ==
  \E r \in Sessions \ {s} :
    /\ session[r].topic = session[s].topic
    /\ session[r].label \in IF session[s].label = "ok" THEN {"fail", "partial"} ELSE {"ok"}

\* The boundary: trust of the shown lessons moves with the label (a fail may
\* take one below the floor, an ok may lift one back), then two lesson tasks run
\* side by side.
EndSession(s, o, moved) ==
  /\ session[s].label = "none"
  /\ moved \subseteq {f \in session[s].shown : facts[f].live /\ o \in {"ok", "fail"}}
  /\ facts' = [f \in Ids |-> IF f \in moved THEN [facts[f] EXCEPT !.trusted = (o = "ok")]
                             ELSE facts[f]]
  /\ session' = [session EXCEPT ![s].label = o, ![s].shown = {},
                    ![s].tasks = IF o \in {"ok", "fail"}
                                 THEN [cheatsheet |-> "asking", expel |-> "starting"] ELSE NoTasks]
  /\ UNCHANGED <<vecs, links, job, together, passedOver>>

TaskGoesTo(s, x, pc) == session' = [session EXCEPT ![s].tasks[x] = pc]

\* Before its first await: no similar session ended the other way, no insight.
FindContrast(s) ==
  /\ session[s].tasks["expel"] = "starting"
  /\ TaskGoesTo(s, "expel", IF HasContrast(s) THEN "asking" ELSE "over")
  /\ UNCHANGED <<facts, vecs, links, job, together, passedOver>>

\* The model's answer and then its embedding are waited for, nothing in between.
\* SKIP, an error, no evidence; or no vector: retrieval could never inject it.
LessonDropped(s, x) ==
  /\ session[s].tasks[x] = "asking"
  /\ TaskGoesTo(s, x, "over")
  /\ UNCHANGED <<facts, vecs, links, job, together, passedOver>>

Twins(t) == {f \in Indexed(t) : Kind(f) = "lesson" /\ Valid(f)}

\* A plausible slip: the nearest-lesson query returns nothing.
AlwaysNovel(t) == TRUE

Novel(t) == \A f \in Twins(t) : ~facts[f].trusted

\* store_if_novel after its await: looked up, inserted and indexed in one go.
StoreLesson(s, x, t) ==
  /\ session[s].tasks[x] = "asking"
  /\ IF Novel(t)
     THEN /\ Len(facts) < MaxFacts
          /\ facts' = Append(facts, NewFact(t, "lesson", TRUE))
          /\ vecs' = vecs \cup {Len(facts) + 1}
          /\ passedOver' = passedOver \cup {f \in Twins(t) : ~facts[f].trusted}
          /\ together' = together \cup Overlaps(Len(facts) + 1)
     ELSE UNCHANGED <<facts, vecs, passedOver, together>>
  /\ TaskGoesTo(s, x, "over")
  /\ UNCHANGED <<links, job>>

-----------------------------------------------------------------------------
(* Retention, and the end of the process.                                  *)

\* Superseded past the grace window, or old and of low value.  A fact some
\* worker has just written is younger than every window.
Evictable(f) ==
  /\ facts[f].live
  /\ \A w \in Workers : job[w].pc \in {"linking", "judging"} => job[w].fact # f
  /\ facts[f].by # 0 \/ ~facts[f].keep \/ ~facts[f].trusted

\* A plausible slip: the delete trigger of the vectors is missing.
EvictKeepingVectors(S) ==
  /\ S # {} /\ Cardinality(S) <= MaxEvictions /\ \A f \in S : Evictable(f)
  /\ facts' = [f \in Ids |-> IF f \in S THEN Gone(facts[f].topic) ELSE facts[f]]
  /\ links' = {p \in links : p[1] \notin S /\ p[2] \notin S}
  /\ passedOver' = passedOver \ S
  /\ UNCHANGED <<vecs, job, session, together>>

\* The rows, their vectors (trigger) and their links (cascade), in one transaction.
EvictFacts(S) ==
  /\ S # {} /\ Cardinality(S) <= MaxEvictions /\ \A f \in S : Evictable(f)
  /\ facts' = [f \in Ids |-> IF f \in S THEN Gone(facts[f].topic) ELSE facts[f]]
  /\ vecs' = vecs \ S
  /\ links' = {p \in links : p[1] \notin S /\ p[2] \notin S}
  /\ passedOver' = passedOver \ S
  /\ UNCHANGED <<job, session, together>>

Restarted ==
  /\ job' = [w \in Workers |-> Idle]
  /\ session' = [s \in Sessions |-> [session[s] EXCEPT !.shown = {}, !.tasks = NoTasks]]

RestartFacts ==
  /\ Restarted
  /\ UNCHANGED <<facts, vecs, links, together, passedOver>>

\* insert() commits the row before the vector: the process may end in between.
DieStoringLesson(s, t) ==
  /\ \E x \in Extractors : session[s].tasks[x] = "asking"
  /\ Novel(t) /\ Len(facts) < MaxFacts
  /\ facts' = Append(facts, NewFact(t, "lesson", TRUE))
  /\ Restarted
  /\ UNCHANGED <<vecs, links, together, passedOver>>

FactsNext ==
  \/ \E w \in Workers :
       \/ StartDistil(w) \/ StartSweep(w) \/ LinkFact(w) \/ EmbedOfFactFails(w)
       \/ \E t \in Topics : HubGivesNothing(w, t) \/ \E keep \in Importances : WriteFact(w, t, keep)
       \/ \E S \in SUBSET job[w].cands : Supersede(w, S) \/ SweepAnswer(w, S)
  \/ \E s \in Sessions :
       \/ FindContrast(s)
       \/ \E x \in Extractors : LessonDropped(s, x)
       \/ \E t \in Topics : Retrieve(s, t)
       \/ \E o \in Labels, moved \in SUBSET session[s].shown : EndSession(s, o, moved)
       \/ \E t \in Topics : DieStoringLesson(s, t) \/ \E x \in Extractors : StoreLesson(s, x, t)
  \/ \E S \in SUBSET Ids : EvictFacts(S)
  \/ RestartFacts

-----------------------------------------------------------------------------
\* The tables, and what each call holds, have their types; no vector and no link
\* outlives its fact, whichever of eviction and a late embedding comes first.
FactsTypeOK ==
  /\ facts \in Seq([topic : Topics, kind : {"fact", "lesson"}, by : 0 .. MaxFacts,
                    trusted : BOOLEAN, keep : BOOLEAN, live : BOOLEAN])
  /\ Len(facts) <= MaxFacts
  /\ vecs \subseteq Ids /\ passedOver \subseteq Ids
  /\ links \subseteq {p \in Ids \X Ids : p[1] < p[2]}
  /\ together \subseteq SUBSET Ids
  /\ job \in [Workers -> [pc : {"idle", "distilling", "linking", "judging", "sweeping"},
                          todo : SUBSET (Topics \cup Ids), fact : Ids \cup {0},
                          cands : SUBSET Ids, retired : SUBSET Ids]]
  /\ session \in [Sessions -> [label : Labels \cup {"none"}, topic : Topics,
                               tasks : [Extractors -> {"starting", "asking", "over"}],
                               shown : SUBSET Ids]]
  /\ \A f \in vecs : facts[f].live
  /\ \A p \in links : facts[p[1]].live /\ facts[p[2]].live

\* Time runs forward: a superseded fact was superseded by a later one, whatever
\* audits and distillations interleave over answers to stale questions.  The one
\* exception is a pair distilled at the same time, either of which may find the
\* other already written.
RetiredByLater ==
  \A f \in Ids : facts[f].by # 0 => facts[f].by > f \/ {f, facts[f].by} \in together

\* Two sessions that end on the same lesson leave it once: of two retrievable
\* lessons of one content, the older had lost its trust when the newer came.
NoLiveTwins ==
  \A f, g \in vecs :
    /\ f < g /\ Kind(f) = "lesson" /\ Kind(g) = "lesson" /\ facts[f].topic = facts[g].topic
    /\ Valid(f) /\ Valid(g)
    => f \in passedOver

FactsSpec == FactsInit /\ [][FactsNext]_factVars
=============================================================================
