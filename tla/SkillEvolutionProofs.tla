------------------------ MODULE SkillEvolutionProofs ------------------------
(***************************************************************************)
(* What evolution and approval never do, for any number of skills, texts,  *)
(* staged writes, cycles, changes and failures.                            *)
(***************************************************************************)
EXTENDS SkillEvolution, TLAPS

Texts == 0 .. MaxTexts
Statuses == {"none", "draft", "active", "stale", "deprecated"}
Phases == {"idle", "gepa", "rewriter", "umbrella", "designer"}

Libraries ==
    [file : [Skills -> Texts], made : [Skills -> Texts], status : [Skills -> Statuses],
     origin : [Skills -> {"agent", "user"}], pinned : [Skills -> BOOLEAN],
     kept : SUBSET (Skills \X (1 .. MaxTexts))]

\* A library that the program can have: no file holds a text not yet written.
Sound(s) == s \in Libraries /\ \A k \in Skills : s.file[k] <= s.made[k]

-----------------------------------------------------------------------------
(* The operations on a library, field by field.                            *)

LEMMA WithFileIs ==
    ASSUME NEW s \in Libraries, NEW k \in Skills, NEW t \in Texts
    PROVE  LET r == WithFile(s, k, t)
           IN  /\ r \in Libraries
               /\ r.file = [s.file EXCEPT ![k] = t] /\ r.made = s.made
               /\ r.status = s.status /\ r.origin = s.origin
               /\ r.pinned = s.pinned /\ r.kept = s.kept
BY DEF WithFile, Libraries

LEMMA ComposedIs ==
    ASSUME NEW s, Sound(s), NEW k \in Skills, Room(s, k)
    PROVE  LET r == Composed(s, k)
           IN  /\ Sound(r)
               /\ r.made = [s.made EXCEPT ![k] = @ + 1] /\ r.file = s.file
               /\ r.status = s.status /\ r.origin = s.origin
               /\ r.pinned = s.pinned /\ r.kept = s.kept
<1> DEFINE r == Composed(s, k)
<1>1. /\ r.made = [s.made EXCEPT ![k] = @ + 1] /\ r.file = s.file
      /\ r.status = s.status /\ r.origin = s.origin
      /\ r.pinned = s.pinned /\ r.kept = s.kept
  BY DEF Composed, Sound, Libraries
<1>2. s.made[k] \in Texts /\ s.made[k] + 1 \in Texts
  BY MaxTextsAssumption DEF Sound, Libraries, Room, Texts
<1>3. r \in Libraries
  BY <1>2 DEF Composed, Sound, Libraries
<1>4. \A j \in Skills : r.file[j] <= r.made[j]
  BY <1>1, <1>2, MaxTextsAssumption DEF Sound, Libraries, Texts
<1> QED BY <1>1, <1>3, <1>4 DEF Sound

LEMMA SavedIs ==
    ASSUME NEW s \in Libraries, NEW k \in Skills, NEW t \in Texts
    PROVE  LET r == Saved(s, k, t)
           IN  /\ r \in Libraries
               /\ s.kept \subseteq r.kept
               /\ t # NoFile => <<k, t>> \in r.kept
               /\ r.file = s.file /\ r.made = s.made /\ r.status = s.status
               /\ r.origin = s.origin /\ r.pinned = s.pinned
<1> DEFINE r == Saved(s, k, t)
<1>1. /\ r.kept = s.kept \cup ({<<k, t>>} \ {<<k, NoFile>>})
      /\ r.file = s.file /\ r.made = s.made /\ r.status = s.status
      /\ r.origin = s.origin /\ r.pinned = s.pinned
  BY DEF Saved, Libraries
<1>2. t = NoFile \/ t \in 1 .. MaxTexts
  BY MaxTextsAssumption DEF Texts, NoFile
<1>3. r.kept \subseteq Skills \X (1 .. MaxTexts)
  BY <1>1, <1>2 DEF Libraries
<1>4. r \in Libraries
  BY <1>3 DEF Saved, Libraries
<1>5. t # NoFile => <<k, t>> \in r.kept
  BY <1>1
<1> QED BY <1>1, <1>4, <1>5

LEMMA TransitionedIs ==
    ASSUME NEW s \in Libraries, NEW new \in Statuses, NEW texts,
           NEW D \in SUBSET {j \in Skills : texts[j] \in Texts}
    PROVE  LET r == Transitioned(s, D, new, texts)
           IN  /\ r \in Libraries
               /\ \A k \in Skills : r.status[k] = IF k \in D /\ s.status[k] # "none"
                                                THEN new ELSE s.status[k]
               /\ s.kept \subseteq r.kept
               /\ r.file = s.file /\ r.made = s.made
               /\ r.origin = s.origin /\ r.pinned = s.pinned
<1> DEFINE r == Transitioned(s, D, new, texts)
           more == {<<k, texts[k]>> : k \in {j \in D : texts[j] # NoFile}}
           moved == [k \in Skills |-> IF k \in D /\ s.status[k] # "none" THEN new
                                      ELSE s.status[k]]
<1>1. r = [s EXCEPT !.status = moved, !.kept = @ \cup more]
  BY DEF Transitioned, Libraries
<1>2. /\ r.kept = s.kept \cup more /\ r.status = moved
      /\ r.file = s.file /\ r.made = s.made
      /\ r.origin = s.origin /\ r.pinned = s.pinned
  BY <1>1 DEF Libraries
<1>3. more \subseteq Skills \X (1 .. MaxTexts)
  BY MaxTextsAssumption DEF Texts, NoFile
<1>4. moved \in [Skills -> Statuses]
  BY DEF Libraries
<1>5. r \in Libraries
  BY <1>1, <1>3, <1>4 DEF Libraries
<1> QED BY <1>2, <1>5

\* _edit and _create touch one skill's file, and a creation its row.
LEMMA EditedIs ==
    ASSUME NEW s \in Libraries, NEW k \in Skills, NEW t \in Texts
    PROVE  LET r == Edited(s, k, t)
           IN  /\ r \in Libraries
               /\ r.file = s.file \/ r.file = [s.file EXCEPT ![k] = t]
               /\ r.made = s.made /\ r.status = s.status /\ r.origin = s.origin
               /\ r.pinned = s.pinned /\ r.kept = s.kept
BY WithFileIs DEF Edited

LEMMA CreatedIs ==
    ASSUME NEW s \in Libraries, NEW k \in Skills, NEW t \in Texts
    PROVE  LET r == Created(s, k, t)
           IN  /\ r \in Libraries
               /\ r.made = s.made /\ r.pinned = s.pinned /\ r.kept = s.kept
               /\ ~Creatable(s, k) => r = s
               /\ r.file \in {s.file, [s.file EXCEPT ![k] = t]}
               /\ \A j \in Skills \ {k} :
                    r.status[j] = s.status[j] /\ r.origin[j] = s.origin[j]
<1> DEFINE r == Created(s, k, t)
           w == WithFile(s, k, t)
<1>1. CASE ~Creatable(s, k)
  BY <1>1 DEF Created
<1>2. CASE Creatable(s, k)
  <2>1. r = [w EXCEPT !.status[k] = "draft", !.origin[k] = "agent"]
    BY <1>2 DEF Created
  <2>2. /\ w \in Libraries /\ w.file = [s.file EXCEPT ![k] = t] /\ w.made = s.made
        /\ w.status = s.status /\ w.origin = s.origin
        /\ w.pinned = s.pinned /\ w.kept = s.kept
    BY WithFileIs
  <2>3. /\ r.file = w.file /\ r.made = w.made /\ r.pinned = w.pinned /\ r.kept = w.kept
        /\ r.status = [w.status EXCEPT ![k] = "draft"]
        /\ r.origin = [w.origin EXCEPT ![k] = "agent"]
    BY <2>1, <2>2 DEF Libraries
  <2>4. /\ [w.status EXCEPT ![k] = "draft"] \in [Skills -> Statuses]
        /\ [w.origin EXCEPT ![k] = "agent"] \in [Skills -> {"agent", "user"}]
    BY <2>2 DEF Libraries, Statuses
  <2>5. r = [w EXCEPT !.status = [w.status EXCEPT ![k] = "draft"],
                      !.origin = [w.origin EXCEPT ![k] = "agent"]]
    BY <2>1, <2>2 DEF Libraries
  <2>6. r \in Libraries
    BY <2>2, <2>4, <2>5 DEF Libraries
  <2> QED BY <1>2, <2>2, <2>3, <2>6 DEF Libraries
<1> QED BY <1>1, <1>2

LEMMA MergedIs ==
    ASSUME NEW s \in Libraries, NEW u \in Skills, NEW t \in Texts,
           NEW texts, NEW D \in SUBSET {j \in Skills : texts[j] \in Texts}
    PROVE  LET r == Merged(s, u, t, D, texts)
           IN  /\ r \in Libraries
               /\ r.file = [s.file EXCEPT ![u] = t] /\ r.made = s.made
               /\ r.pinned = s.pinned /\ s.kept \subseteq r.kept
               /\ \A k \in Skills \ {u} : r.origin[k] = s.origin[k]
               /\ \A k \in Skills \ (D \cup {u}) : r.status[k] = s.status[k]
               /\ u \notin D => r.status[u] = "active"
<1> DEFINE f == WithFile(s, u, t)
           w == [f EXCEPT !.status[u] = "active", !.origin[u] = "agent"]
           r == Transitioned(w, D, "deprecated", texts)
<1>1. /\ f \in Libraries /\ f.file = [s.file EXCEPT ![u] = t] /\ f.made = s.made
      /\ f.status = s.status /\ f.origin = s.origin
      /\ f.pinned = s.pinned /\ f.kept = s.kept
  BY WithFileIs
<1>2. /\ w.file = f.file /\ w.made = f.made /\ w.pinned = f.pinned /\ w.kept = f.kept
      /\ w.status = [s.status EXCEPT ![u] = "active"]
      /\ w.origin = [s.origin EXCEPT ![u] = "agent"]
  BY <1>1 DEF Libraries
<1>3. /\ [s.status EXCEPT ![u] = "active"] \in [Skills -> Statuses]
      /\ [s.origin EXCEPT ![u] = "agent"] \in [Skills -> {"agent", "user"}]
  BY DEF Libraries, Statuses
<1>4. w = [f EXCEPT !.status = [s.status EXCEPT ![u] = "active"],
                    !.origin = [s.origin EXCEPT ![u] = "agent"]]
  BY <1>1 DEF Libraries
<1>5. w \in Libraries
  BY <1>1, <1>3, <1>4 DEF Libraries
<1>6. "deprecated" \in Statuses
  BY DEF Statuses
<1> HIDE DEF w, f
<1>7. /\ r \in Libraries
      /\ \A k \in Skills : r.status[k] = IF k \in D /\ w.status[k] # "none"
                                       THEN "deprecated" ELSE w.status[k]
      /\ w.kept \subseteq r.kept
      /\ r.file = w.file /\ r.made = w.made
      /\ r.origin = w.origin /\ r.pinned = w.pinned
  BY <1>5, <1>6, TransitionedIs
<1>8. r = Merged(s, u, t, D, texts)
  BY DEF Merged, w, f
<1>9. s.status \in [Skills -> Statuses] /\ s.origin \in [Skills -> {"agent", "user"}]
  BY DEF Libraries
<1>10. /\ \A k \in Skills \ {u} : r.origin[k] = s.origin[k]
       /\ \A k \in Skills \ (D \cup {u}) : r.status[k] = s.status[k]
       /\ u \notin D => r.status[u] = "active"
  BY <1>2, <1>7, <1>9
<1> QED BY <1>1, <1>2, <1>7, <1>8, <1>10

LEMMA RetiredIs ==
    ASSUME NEW s \in Libraries, NEW R \in SUBSET Skills
    PROVE  LET r == Retired(s, R)
           IN  /\ r \in Libraries
               /\ \A k \in Skills \ R : r.status[k] = s.status[k]
               /\ r.file = s.file /\ r.made = s.made /\ r.origin = s.origin
               /\ r.pinned = s.pinned /\ r.kept = s.kept
<1> DEFINE moved == [k \in Skills |-> IF k \in R THEN "deprecated" ELSE s.status[k]]
<1>1. moved \in [Skills -> Statuses]
  BY DEF Libraries, Statuses
<1>2. Retired(s, R) = [s EXCEPT !.status = moved]
  BY DEF Retired, Libraries
<1> QED BY <1>1, <1>2 DEF Libraries

-----------------------------------------------------------------------------
(* Where the cycle may wait next: whatever it passes over, no text changes, *)
(* and what it holds and has left to do avoids the skills of X.             *)

CycleOK(c, made_, X) ==
    /\ c.phase \in Phases /\ (c.phase = "idle" => c = Idle)
    /\ DOMAIN c.read \subseteq Skills \ X
    /\ \A k \in DOMAIN c.read : c.read[k] \in 1 .. made_[k]
    /\ c.jobs \subseteq SUBSET (Skills \ X)
    /\ c.evolved \subseteq Skills

Outcome(o, s, X) ==
    /\ Sound(o[1])
    /\ o[1].file = s.file /\ o[1].made = s.made /\ o[1].origin = s.origin
    /\ o[1].pinned = s.pinned /\ o[1].kept = s.kept
    /\ \A k \in X : o[1].status[k] = s.status[k]
    /\ CycleOK(o[2], s.made, X)

\* X is spared by whatever is chosen now.
Spared(X, s) == X \subseteq Skills /\ X \cap Evolvable(s) = {}

LEMMA WaitingOutcome ==
    ASSUME NEW s, Sound(s), NEW X \in SUBSET Skills, NEW phase \in Phases \ {"idle"},
           NEW jobs \in SUBSET SUBSET (Skills \ X), NEW evolved \in SUBSET Skills,
           NEW o \in Waiting(s, phase, jobs, evolved)
    PROVE  Outcome(o, s, X)
<1>1. PICK J \in jobs, rest \in SUBSET jobs :
        o = <<s, [phase |-> phase, read |-> [k \in Readable(s, J) |-> s.file[k]],
                  jobs |-> rest, evolved |-> evolved]>>
  BY DEF Waiting
<1>2. \A k \in Readable(s, J) : k \in Skills \ X /\ s.file[k] \in 1 .. s.made[k]
  BY MaxTextsAssumption DEF Readable, Sound, Libraries, Texts, NoFile
<1>3. CycleOK(o[2], s.made, X)
  BY <1>1, <1>2 DEF CycleOK
<1> QED BY <1>1, <1>3 DEF Outcome

LEMMA DesignerOutcome ==
    ASSUME NEW s, Sound(s), NEW X, NEW o \in Designer(s)
    PROVE  Outcome(o, s, X)
<1>1. CycleOK(Idle, s.made, X) /\ CycleOK([Idle EXCEPT !.phase = "designer"], s.made, X)
  BY DEF CycleOK, Idle, Nothing, Phases
<1>2. o = <<s, Idle>> \/ o = <<s, [Idle EXCEPT !.phase = "designer"]>>
  BY DEF Designer
<1> QED BY <1>1, <1>2 DEF Outcome

LEMMA RatchetOutcome ==
    ASSUME NEW s, Sound(s), NEW X, Spared(X, s), NEW o \in Ratchet(s)
    PROVE  Outcome(o, s, X)
<1>1. PICK R \in SUBSET Evolvable(s) : o \in Designer(Retired(s, R))
  BY DEF Ratchet
<1> DEFINE r == Retired(s, R)
<1>2. R \subseteq Skills /\ X \cap R = {} /\ X \subseteq Skills
  BY DEF Spared, Evolvable
<1>3. /\ r \in Libraries
      /\ \A k \in Skills \ R : r.status[k] = s.status[k]
      /\ r.file = s.file /\ r.made = s.made /\ r.origin = s.origin
      /\ r.pinned = s.pinned /\ r.kept = s.kept
  BY <1>2, RetiredIs DEF Sound
<1>4. Sound(r)
  BY <1>3 DEF Sound
<1>5. Outcome(o, r, X)
  BY <1>1, <1>4, DesignerOutcome
<1> QED BY <1>2, <1>3, <1>5 DEF Outcome

LEMMA UmbrellaOutcome ==
    ASSUME NEW s, Sound(s), NEW X, Spared(X, s),
           NEW jobs \in SUBSET SUBSET (Skills \ X), NEW o \in Umbrella(s, jobs)
    PROVE  Outcome(o, s, X)
<1>1. CASE o \in Ratchet(s)
  BY <1>1, RatchetOutcome
<1>2. CASE o \in Waiting(s, "umbrella", jobs, {})
  BY <1>2, WaitingOutcome DEF Phases, Spared
<1> QED BY <1>1, <1>2 DEF Umbrella

LEMMA UmbrellasOutcome ==
    ASSUME NEW s, Sound(s), NEW X, Spared(X, s), NEW o \in Umbrellas(s)
    PROVE  Outcome(o, s, X)
<1>1. PICK C \in Clusterings(Evolvable(s)) : o \in Umbrella(s, C)
  BY DEF Umbrellas
<1>2. C \in SUBSET SUBSET (Skills \ X)
  BY DEF Clusterings, Spared, Evolvable
<1> QED BY <1>1, <1>2, UmbrellaOutcome

LEMMA RewriterOutcome ==
    ASSUME NEW s, Sound(s), NEW X, Spared(X, s),
           NEW jobs \in SUBSET SUBSET (Skills \ X), NEW o \in Rewriter(s, jobs)
    PROVE  Outcome(o, s, X)
<1>1. CASE o \in Umbrellas(s)
  BY <1>1, UmbrellasOutcome
<1>2. CASE o \in Waiting(s, "rewriter", jobs, {})
  BY <1>2, WaitingOutcome DEF Phases, Spared
<1> QED BY <1>1, <1>2 DEF Rewriter

\* Jobs of one skill each, of skills that may evolve.
LEMMA SinglesSpare ==
    ASSUME NEW s, NEW X, Spared(X, s), NEW skip
    PROVE  Singles(Evolvable(s) \ skip) \in SUBSET SUBSET (Skills \ X)
BY DEF Singles, Spared, Evolvable

LEMMA RewritersOutcome ==
    ASSUME NEW s, Sound(s), NEW X, Spared(X, s), NEW skip, NEW o \in Rewriters(s, skip)
    PROVE  Outcome(o, s, X)
BY SinglesSpare, RewriterOutcome DEF Rewriters

LEMMA GepaOutcome ==
    ASSUME NEW s, Sound(s), NEW X, Spared(X, s),
           NEW jobs \in SUBSET SUBSET (Skills \ X), NEW evolved \in SUBSET Skills,
           NEW o \in Gepa(s, jobs, evolved)
    PROVE  Outcome(o, s, X)
<1>1. CASE o \in Rewriters(s, evolved)
  BY <1>1, RewritersOutcome
<1>2. CASE o \in Waiting(s, "gepa", jobs, evolved)
  BY <1>2, WaitingOutcome DEF Phases, Spared
<1> QED BY <1>1, <1>2 DEF Gepa

LEMMA OnwardOutcome ==
    ASSUME NEW s, Sound(s), NEW X, Spared(X, s), CycleOK(cyc, made, X), cyc # Idle,
           NEW evolved \in SUBSET Skills, NEW o \in Onward(s, evolved)
    PROVE  Outcome(o, s, X)
<1>1. cyc.jobs \in SUBSET SUBSET (Skills \ X)
  BY DEF CycleOK
<1>2. CASE cyc.phase = "gepa"
  BY <1>1, <1>2, GepaOutcome DEF Onward
<1>3. CASE cyc.phase = "rewriter"
  BY <1>1, <1>3, RewriterOutcome DEF Onward
<1>4. CASE cyc.phase = "umbrella"
  BY <1>1, <1>4, UmbrellaOutcome DEF Onward
<1>5. CASE cyc.phase = "designer"
  BY <1>5, DesignerOutcome DEF Onward
<1> QED BY <1>2, <1>3, <1>4, <1>5 DEF CycleOK, Phases

LEMMA NextPhaseOutcome ==
    ASSUME NEW s, Sound(s), NEW X, Spared(X, s), CycleOK(cyc, made, X), cyc # Idle,
           NEW o \in NextPhase(s)
    PROVE  Outcome(o, s, X)
<1>1. CASE cyc.phase = "gepa"
  BY <1>1, RewritersOutcome DEF NextPhase
<1>2. CASE cyc.phase = "rewriter"
  BY <1>2, UmbrellasOutcome DEF NextPhase
<1>3. CASE cyc.phase = "umbrella"
  BY <1>3, RatchetOutcome DEF NextPhase
<1>4. CASE cyc.phase = "designer"
  BY <1>4, DesignerOutcome DEF NextPhase, Designer
<1> QED BY <1>1, <1>2, <1>3, <1>4 DEF CycleOK, Phases

\* A step that reaches one of the outcomes.
LEMMA Reached ==
    ASSUME NEW s, NEW X, NEW outcomes, Reach(outcomes), \A o \in outcomes : Outcome(o, s, X)
    PROVE  /\ Sound(Library)'
           /\ file' = s.file /\ made' = s.made /\ origin' = s.origin
           /\ pinned' = s.pinned /\ kept' = s.kept
           /\ \A k \in X : status'[k] = s.status[k]
           /\ CycleOK(cyc', made', X)
<1>1. PICK o \in outcomes : BecomeLibrary(o[1]) /\ cyc' = o[2]
  BY DEF Reach
<1>2. Library' = o[1]
  BY <1>1 DEF Outcome, Sound, Libraries, Library, BecomeLibrary
<1> QED BY <1>1, <1>2 DEF Outcome, BecomeLibrary

-----------------------------------------------------------------------------
(* The inductive invariant.                                                *)

Writes ==
    [skill : Skills, text : Nat, base : Nat,
     siblings : UNION {[S -> Nat] : S \in SUBSET Skills},
     state : {"pending", "approved", "rejected", "stale"}]

\* A staged text exists, and was composed after the text it is to replace.
WritesOK ==
    /\ pending \in Seq(Writes)
    /\ \A i \in DOMAIN pending :
        LET w == pending[i] IN w.text \in 1 .. made[w.skill] /\ w.base < w.text

\* No two writes bring in the same text.
Distinct ==
    \A i, j \in DOMAIN pending :
        pending[i].skill = pending[j].skill /\ pending[i].text = pending[j].text => i = j

\* Without failures, a staged text that is or was in the file was approved.
Known(i, k) == k = pending[i].skill /\ faults = 0 /\ pending[i].state # "approved"

Unapproved ==
    \A i \in DOMAIN pending :
        /\ Known(i, pending[i].skill) => file[pending[i].skill] # pending[i].text
        /\ \A j \in DOMAIN pending :
            Known(i, pending[j].skill) => pending[j].base # pending[i].text

\* What an approval replaced does not come back.
Plain(w) == w.base # NoFile /\ (faults = 0 \/ ~WasStaged(w.skill, w.base))

Gone ==
    \A i \in DOMAIN pending :
        pending[i].state = "approved" /\ Plain(pending[i])
        => file[pending[i].skill] # pending[i].base

Approvals == WritesOK /\ Distinct /\ Unapproved /\ Gone /\ OneWinsPerBase

EvolutionInv ==
    /\ Sound(Library)
    /\ CycleOK(cyc, made, shielded) /\ shielded \subseteq Exempt
    /\ Approvals
    /\ gate \in {"off", "approve"} /\ faults \in Nat
    /\ scan \in [files : SUBSET Skills, rows : SUBSET Skills]

\* A step that writes only what nobody had thought of before.
WritesFresh ==
    \A k \in Skills :
        made[k] <= made'[k] /\ (file'[k] \in {file[k], NoFile} \/ file'[k] > made[k])

\* The fields of a staged write.
LEMMA WritesTyped ==
    ASSUME WritesOK, NEW i \in DOMAIN pending
    PROVE  /\ pending[i].skill \in Skills /\ pending[i].text \in Nat /\ pending[i].base \in Nat
           /\ pending[i].siblings \in UNION {[S -> Nat] : S \in SUBSET Skills}
           /\ pending[i].text \in 1 .. made[pending[i].skill]
           /\ pending[i].base < pending[i].text
<1>1. pending[i] \in Writes
  BY DEF WritesOK
<1> QED BY <1>1 DEF WritesOK, Writes

\* What is neither staged nor approved is new, so no staged text and no base comes back.
LEMMA FreshKeepsApprovals ==
    ASSUME Sound(Library), Approvals, WritesFresh, pending' = pending,
           file' \in [Skills -> Texts], made' \in [Skills -> Texts],
           faults \in Nat, faults' \in {faults, faults + 1}
    PROVE  Approvals'
<1>1. file \in [Skills -> Texts] /\ made \in [Skills -> Texts]
  BY DEF Sound, Libraries, Library
<1>2. \A i \in DOMAIN pending :
        /\ pending[i].skill \in Skills /\ pending[i].text \in Nat /\ pending[i].base \in Nat
        /\ pending[i].text \in 1 .. made[pending[i].skill]
        /\ pending[i].base < pending[i].text
  BY WritesTyped DEF Approvals
<1>3. faults' = 0 => faults = 0
  OBVIOUS
<1>4. WritesOK'
  BY <1>1, <1>2, MaxTextsAssumption DEF Approvals, WritesOK, WritesFresh, Texts
<1>5. Distinct'
  BY DEF Approvals, Distinct
<1>6. Unapproved'
  <2>1. ASSUME NEW i \in DOMAIN pending, Known(i, pending[i].skill)'
        PROVE  file'[pending[i].skill] # pending[i].text
    <3>1. file[pending[i].skill] # pending[i].text
      BY <2>1, <1>3 DEF Approvals, Unapproved, Known
    <3> QED BY <3>1, <1>1, <1>2, MaxTextsAssumption DEF WritesFresh, Texts, NoFile
  <2>2. ASSUME NEW i \in DOMAIN pending, NEW j \in DOMAIN pending,
               Known(i, pending[j].skill)'
        PROVE  pending[j].base # pending[i].text
    BY <2>2, <1>3 DEF Approvals, Unapproved, Known
  <2> QED BY <2>1, <2>2 DEF Unapproved
<1>7. Gone'
  <2>1. ASSUME NEW i \in DOMAIN pending, pending[i].state = "approved", Plain(pending[i])'
        PROVE  file'[pending[i].skill] # pending[i].base
    <3>1. Plain(pending[i])
      BY <2>1, <1>3 DEF Plain, WasStaged
    <3>2. file[pending[i].skill] # pending[i].base /\ pending[i].base # NoFile
      BY <2>1, <3>1 DEF Approvals, Gone, Plain
    <3> QED BY <3>2, <1>1, <1>2, MaxTextsAssumption DEF WritesFresh, Texts, NoFile
  <2> QED BY <2>1 DEF Gone
<1>8. OneWinsPerBase'
  BY <1>3 DEF Approvals, OneWinsPerBase, WasStaged
<1> QED BY <1>4, <1>5, <1>6, <1>7, <1>8 DEF Approvals

\* A write is staged with a text newer than any other and the file as its base.
LEMMA StagingKeepsApprovals ==
    ASSUME Sound(Library), Approvals, NEW k \in Skills, NEW S \in SUBSET Skills,
           file' = file, made' \in [Skills -> Texts], made'[k] = made[k] + 1,
           \A j \in Skills : made[j] <= made'[j],
           pending' = Append(pending, Staged(k, made[k] + 1, S)), faults' = faults
    PROVE  Approvals'
<1> DEFINE w == Staged(k, made[k] + 1, S)
           n == Len(pending) + 1
<1>1. /\ file \in [Skills -> Nat] /\ made \in [Skills -> Nat]
      /\ file[k] <= made[k] /\ made' \in [Skills -> Nat]
  <2>1. Texts \subseteq Nat
    BY MaxTextsAssumption DEF Texts
  <2>2. /\ file \in [Skills -> Texts] /\ made \in [Skills -> Texts]
        /\ file[k] <= made[k]
    BY DEF Sound, Libraries, Library
  <2> QED BY <2>1, <2>2
<1>2. /\ w.skill = k /\ w.text = made[k] + 1 /\ w.base = file[k] /\ w.state = "pending"
      /\ w \in Writes
  <2>1. [j \in S |-> file[j]] \in UNION {[R -> Nat] : R \in SUBSET Skills}
    BY <1>1
  <2>2. w = [skill |-> k, text |-> made[k] + 1, base |-> file[k],
             siblings |-> [j \in S |-> file[j]], state |-> "pending"]
    BY DEF Staged
  <2>3. made[k] + 1 \in Nat /\ file[k] \in Nat
    BY <1>1
  <2> QED BY <2>1, <2>2, <2>3 DEF Writes
<1> HIDE DEF w
<1>3. /\ Len(pending) \in Nat /\ DOMAIN pending = 1 .. Len(pending)
      /\ pending' \in Seq(Writes) /\ DOMAIN pending' = 1 .. n
      /\ \A i \in DOMAIN pending : pending'[i] = pending[i]
      /\ pending'[n] = w
  BY <1>2 DEF Approvals, WritesOK, w
<1>4. \A i \in DOMAIN pending :
        /\ pending[i].skill \in Skills /\ pending[i].text \in Nat /\ pending[i].base \in Nat
        /\ pending[i].text \in 1 .. made[pending[i].skill]
        /\ pending[i].base < pending[i].text
  BY WritesTyped DEF Approvals
<1>5. \A i \in DOMAIN pending' : i \in DOMAIN pending \/ i = n
  BY <1>3
<1>6. WritesOK'
  <2>1. ASSUME NEW i \in DOMAIN pending'
        PROVE  pending'[i].text \in 1 .. made'[pending'[i].skill]
               /\ pending'[i].base < pending'[i].text
    <3>1. CASE i \in DOMAIN pending
      <4>1. /\ pending'[i].skill \in Skills
            /\ made[pending'[i].skill] \in Nat /\ made'[pending'[i].skill] \in Nat
            /\ made[pending'[i].skill] <= made'[pending'[i].skill]
        BY <3>1, <1>1, <1>3, <1>4
      <4>2. /\ pending'[i].text \in 1 .. made[pending'[i].skill]
            /\ pending'[i].base < pending'[i].text
        BY <3>1, <1>3, <1>4
      <4> QED BY <4>1, <4>2
    <3>2. CASE i = n
      <4>1. /\ made[k] \in Nat /\ file[k] \in Nat /\ file[k] <= made[k]
            /\ made'[k] = made[k] + 1
        BY <1>1
      <4>2. /\ pending'[i].skill = k /\ pending'[i].text = made[k] + 1
            /\ pending'[i].base = file[k]
        BY <3>2, <1>2, <1>3
      <4> QED BY <4>1, <4>2
    <3> QED BY <3>1, <3>2, <1>5
  <2> QED BY <2>1, <1>3 DEF WritesOK
<1>7. \A i \in DOMAIN pending : pending[i].skill = k => pending[i].text < w.text
  <2>1. ASSUME NEW i \in DOMAIN pending, pending[i].skill = k
        PROVE  pending[i].text < w.text
    <3>1. made[k] \in Nat /\ pending[i].text \in 1 .. made[k]
      BY <2>1, <1>1, <1>4
    <3>2. w.text = made[k] + 1
      BY <1>2
    <3> QED BY <3>1, <3>2
  <2> QED BY <2>1
<1>8. Distinct'
  <2>1. ASSUME NEW i \in DOMAIN pending', NEW j \in DOMAIN pending',
               pending'[i].skill = pending'[j].skill, pending'[i].text = pending'[j].text
        PROVE  i = j
    <3>1. CASE i \in DOMAIN pending /\ j \in DOMAIN pending
      BY <2>1, <3>1, <1>3 DEF Approvals, Distinct
    <3>2. CASE i = n /\ j \in DOMAIN pending
      BY <2>1, <3>2, <1>2, <1>3, <1>7, <1>4, <1>1
    <3>3. CASE j = n /\ i \in DOMAIN pending
      BY <2>1, <3>3, <1>2, <1>3, <1>7, <1>4, <1>1
    <3> QED BY <3>1, <3>2, <3>3, <1>5
  <2> QED BY <2>1 DEF Distinct
<1>9. Unapproved'
  <2>1. ASSUME NEW i \in DOMAIN pending', Known(i, pending[i].skill)'
        PROVE  file'[pending'[i].skill] # pending'[i].text
    <3>1. CASE i \in DOMAIN pending
      BY <2>1, <3>1, <1>3 DEF Approvals, Unapproved, Known
    <3>2. CASE i = n
      BY <3>2, <1>1, <1>2, <1>3
    <3> QED BY <3>1, <3>2, <1>5
  <2>2. ASSUME NEW i \in DOMAIN pending', NEW j \in DOMAIN pending',
               Known(i, pending[j].skill)'
        PROVE  pending'[j].base # pending'[i].text
    <3>1. CASE i \in DOMAIN pending /\ j \in DOMAIN pending
      BY <2>2, <3>1, <1>3 DEF Approvals, Unapproved, Known
    <3>2. CASE i = n /\ j \in DOMAIN pending
      <4>1. pending[j].base < pending[j].text /\ pending[j].text < w.text
        BY <2>2, <3>2, <1>2, <1>3, <1>4, <1>7 DEF Known
      <4> QED BY <4>1, <3>2, <1>1, <1>2, <1>3, <1>4
    <3>3. CASE j = n /\ i \in DOMAIN pending
      BY <2>2, <3>3, <1>2, <1>3 DEF Approvals, Unapproved, Known
    <3>4. CASE i = n /\ j = n
      BY <3>4, <1>1, <1>2, <1>3
    <3> QED BY <3>1, <3>2, <3>3, <3>4, <1>5
  <2> QED BY <2>1, <2>2 DEF Unapproved
<1>10. ASSUME NEW j \in Skills, NEW t, WasStaged(j, t)
       PROVE  WasStaged(j, t)'
  BY <1>10, <1>3 DEF WasStaged
<1>11. Gone'
  <2>1. ASSUME NEW i \in DOMAIN pending', pending'[i].state = "approved", Plain(pending[i])'
        PROVE  file'[pending'[i].skill] # pending'[i].base
    <3>1. i \in DOMAIN pending /\ pending'[i] = pending[i]
      BY <2>1, <1>2, <1>3, <1>5
    <3>2. Plain(pending[i])
      BY <2>1, <3>1, <1>4, <1>10 DEF Plain
    <3> QED BY <2>1, <3>1, <3>2 DEF Approvals, Gone
  <2> QED BY <2>1 DEF Gone
<1>12. OneWinsPerBase'
  <2>1. ASSUME NEW i \in DOMAIN pending', NEW j \in DOMAIN pending',
               pending'[i].state = "approved", pending'[j].state = "approved",
               pending'[i].skill = pending'[j].skill, pending'[i].base = pending'[j].base,
               Plain(pending[i])'
        PROVE  i = j
    <3>1. /\ i \in DOMAIN pending /\ pending'[i] = pending[i]
          /\ j \in DOMAIN pending /\ pending'[j] = pending[j]
      BY <2>1, <1>2, <1>3, <1>5
    <3>2. Plain(pending[i])
      BY <2>1, <3>1, <1>4, <1>10 DEF Plain
    <3> QED BY <2>1, <3>1, <3>2 DEF Approvals, OneWinsPerBase, Plain
  <2> QED BY <2>1 DEF OneWinsPerBase, Plain
<1> QED BY <1>6, <1>8, <1>9, <1>11, <1>12 DEF Approvals

-----------------------------------------------------------------------------
(* Resolving a staged write.                                               *)

\* Resolving a write changes its state and nothing else of it.
LEMMA ResolvedIs ==
    ASSUME WritesOK, NEW i \in DOMAIN pending,
           NEW x \in {"approved", "rejected", "stale"}, Resolve(i, x)
    PROVE  /\ pending' \in Seq(Writes) /\ DOMAIN pending' = DOMAIN pending
           /\ pending'[i].state = x
           /\ \A j \in DOMAIN pending :
                /\ pending'[j].skill = pending[j].skill /\ pending'[j].text = pending[j].text
                /\ pending'[j].base = pending[j].base
                /\ j # i => pending'[j].state = pending[j].state
           /\ \A k, t : WasStaged(k, t)' <=> WasStaged(k, t)
<1> DEFINE w == [pending[i] EXCEPT !.state = x]
<1>1. pending \in Seq(Writes) /\ pending[i] \in Writes
  BY DEF WritesOK
<1>2. w \in Writes
  BY <1>1 DEF Writes
<1>3. /\ w.skill = pending[i].skill /\ w.text = pending[i].text
      /\ w.base = pending[i].base /\ w.state = x
  BY <1>1 DEF Writes
<1>4. pending' = [pending EXCEPT ![i] = w]
  BY DEF Resolve
<1> HIDE DEF w
<1>5. /\ pending' \in Seq(Writes) /\ DOMAIN pending' = DOMAIN pending
      /\ pending'[i] = w /\ \A j \in DOMAIN pending \ {i} : pending'[j] = pending[j]
  BY <1>1, <1>2, <1>4
<1>6. /\ pending'[i].state = x
      /\ \A j \in DOMAIN pending :
            /\ pending'[j].skill = pending[j].skill /\ pending'[j].text = pending[j].text
            /\ pending'[j].base = pending[j].base
            /\ j # i => pending'[j].state = pending[j].state
  BY <1>3, <1>5
<1>7. \A k, t : WasStaged(k, t)' <=> WasStaged(k, t)
  BY <1>5, <1>6 DEF WasStaged
<1> QED BY <1>5, <1>6, <1>7

\* A rejected or stale write is out of the way.
LEMMA PutAsideKeepsApprovals ==
    ASSUME Approvals, NEW i \in DOMAIN pending, pending[i].state = "pending",
           NEW x \in {"rejected", "stale"}, Resolve(i, x),
           file' = file, made' = made, faults' = faults
    PROVE  Approvals'
<1>1. /\ pending' \in Seq(Writes) /\ DOMAIN pending' = DOMAIN pending
      /\ pending'[i].state = x
      /\ \A j \in DOMAIN pending :
            /\ pending'[j].skill = pending[j].skill /\ pending'[j].text = pending[j].text
            /\ pending'[j].base = pending[j].base
            /\ j # i => pending'[j].state = pending[j].state
      /\ \A k, t : WasStaged(k, t)' <=> WasStaged(k, t)
  BY ResolvedIs DEF Approvals
<1>2. \A j \in DOMAIN pending :
        /\ pending'[j].state = "approved" <=> pending[j].state = "approved"
        /\ Plain(pending[j])' <=> Plain(pending[j])
  BY <1>1 DEF Plain
<1>3. WritesOK' /\ Distinct'
  BY <1>1 DEF Approvals, WritesOK, Distinct
<1>4. Unapproved'
  BY <1>1, <1>2 DEF Approvals, Unapproved, Known
<1>5. Gone'
  BY <1>1, <1>2 DEF Approvals, Gone
<1>6. OneWinsPerBase'
  BY <1>1, <1>2 DEF Approvals, OneWinsPerBase, Plain
<1> QED BY <1>3, <1>4, <1>5, <1>6 DEF Approvals

\* An approval replaces its base, which no plain write approved before can share: it
\* would have been replaced then, and what is gone does not come back.
LEMMA ApprovingKeepsApprovals ==
    ASSUME Sound(Library), Approvals, NEW i \in DOMAIN pending,
           pending[i].state = "pending", Current(pending[i]), Resolve(i, "approved"),
           file' = [file EXCEPT ![pending[i].skill] = pending[i].text],
           made' = made, faults' = faults
    PROVE  Approvals'
<1> DEFINE k == pending[i].skill
<1>1. /\ pending' \in Seq(Writes) /\ DOMAIN pending' = DOMAIN pending
      /\ pending'[i].state = "approved"
      /\ \A j \in DOMAIN pending :
            /\ pending'[j].skill = pending[j].skill /\ pending'[j].text = pending[j].text
            /\ pending'[j].base = pending[j].base
            /\ j # i => pending'[j].state = pending[j].state
      /\ \A j, t : WasStaged(j, t)' <=> WasStaged(j, t)
  BY ResolvedIs DEF Approvals
<1>2. k \in Skills /\ pending[i].text \in Nat /\ pending[i].base < pending[i].text
  BY WritesTyped DEF Approvals
<1>3. /\ file[k] = pending[i].base /\ file'[k] = pending[i].text
      /\ \A j \in DOMAIN pending : pending[j].skill # k =>
            file'[pending[j].skill] = file[pending[j].skill]
  BY <1>2 DEF Current, Sound, Libraries, Library
<1>4. \A j \in DOMAIN pending : Plain(pending[j])' <=> Plain(pending[j])
  BY <1>1 DEF Plain
<1>5. WritesOK' /\ Distinct'
  BY <1>1 DEF Approvals, WritesOK, Distinct
<1>6. Unapproved'
  <2>1. ASSUME NEW j \in DOMAIN pending, Known(j, pending[j].skill)'
        PROVE  file'[pending[j].skill] # pending[j].text
    <3>1. j # i /\ Known(j, pending[j].skill)
      BY <2>1, <1>1 DEF Known
    <3>2. CASE pending[j].skill = k
      BY <3>1, <3>2, <1>3 DEF Approvals, Distinct
    <3>3. CASE pending[j].skill # k
      BY <3>1, <3>3, <1>3 DEF Approvals, Unapproved
    <3> QED BY <3>2, <3>3
  <2>2. ASSUME NEW j \in DOMAIN pending, NEW l \in DOMAIN pending,
               Known(j, pending[l].skill)'
        PROVE  pending[l].base # pending[j].text
    <3>1. Known(j, pending[l].skill)
      BY <2>2, <1>1 DEF Known
    <3> QED BY <3>1 DEF Approvals, Unapproved
  <2> QED BY <2>1, <2>2, <1>1 DEF Unapproved
\* What the approval writes is not what another approval replaced.
<1>7. ASSUME NEW j \in DOMAIN pending, j # i, pending[j].skill = k,
             pending[j].state = "approved", Plain(pending[j])
      PROVE  pending[j].base # pending[i].text
  <2>1. CASE faults = 0
    BY <2>1, <1>7 DEF Approvals, Unapproved, Known
  <2>2. CASE ~WasStaged(k, pending[j].base)
    BY <2>2 DEF WasStaged
  <2> QED BY <2>1, <2>2, <1>7 DEF Plain
<1>8. Gone'
  <2>1. ASSUME NEW j \in DOMAIN pending, pending'[j].state = "approved", Plain(pending[j])
        PROVE  file'[pending[j].skill] # pending[j].base
    <3>1. CASE j = i
      <4>1. pending[i].base \in Nat
        BY WritesTyped DEF Approvals
      <4> QED BY <3>1, <4>1, <1>2, <1>3
    <3>2. CASE j # i /\ pending[j].skill = k
      BY <2>1, <3>2, <1>1, <1>3, <1>7
    <3>3. CASE j # i /\ pending[j].skill # k
      BY <2>1, <3>3, <1>1, <1>3 DEF Approvals, Gone
    <3> QED BY <3>1, <3>2, <3>3
  <2> QED BY <2>1, <1>1, <1>4 DEF Gone
<1>9. OneWinsPerBase'
  \* The write approved now is not on a base approved before.
  <2>1. ASSUME NEW j \in DOMAIN pending, j # i, pending[j].skill = k,
               pending[j].state = "approved", Plain(pending[j])
        PROVE  pending[j].base # pending[i].base
    BY <2>1, <1>3 DEF Approvals, Gone
  <2>2. ASSUME NEW j \in DOMAIN pending, NEW l \in DOMAIN pending,
               pending'[j].state = "approved", pending'[l].state = "approved",
               pending[j].skill = pending[l].skill, pending[j].base = pending[l].base,
               Plain(pending[j])
        PROVE  j = l
    <3>1. Plain(pending[l])
      BY <2>2 DEF Plain
    <3>2. CASE j # i /\ l # i
      BY <2>2, <3>2, <1>1 DEF Approvals, OneWinsPerBase, Plain
    <3>3. CASE j = i /\ l # i
      BY <2>2, <3>1, <3>3, <1>1, <2>1
    <3>4. CASE l = i /\ j # i
      BY <2>2, <3>4, <1>1, <2>1
    <3> QED BY <3>2, <3>3, <3>4
  <2> QED BY <2>2, <1>1, <1>4 DEF OneWinsPerBase, Plain
<1> QED BY <1>5, <1>6, <1>8, <1>9 DEF Approvals

\* An approval that fails brings in a staged text, and counts as a failure.
LEMMA FailingKeepsApprovals ==
    ASSUME Sound(Library), Approvals, NEW i \in DOMAIN pending,
           file' = [file EXCEPT ![pending[i].skill] = pending[i].text],
           pending' = pending, made' = made, faults \in Nat, faults' = faults + 1
    PROVE  Approvals'
<1>1. faults' # 0
  OBVIOUS
<1>2. \A j \in DOMAIN pending : Plain(pending[j])' =>
        Plain(pending[j]) /\ ~WasStaged(pending[j].skill, pending[j].base)
  BY <1>1 DEF Plain, WasStaged
<1>3. WritesOK' /\ Distinct'
  BY DEF Approvals, WritesOK, Distinct
<1>4. Unapproved'
  BY <1>1 DEF Unapproved, Known
<1>5. Gone'
  <2>1. ASSUME NEW j \in DOMAIN pending, pending[j].state = "approved", Plain(pending[j])'
        PROVE  file'[pending[j].skill] # pending[j].base
    <3>1. pending[j].skill \in Skills
      BY WritesTyped DEF Approvals
    <3>2. CASE pending[j].skill = pending[i].skill
      <4>1. pending[i].text # pending[j].base
        BY <2>1, <3>2, <1>2 DEF WasStaged
      <4> QED BY <4>1, <3>1, <3>2 DEF Sound, Libraries, Library
    <3>3. CASE pending[j].skill # pending[i].skill
      <4>1. file[pending[j].skill] # pending[j].base
        BY <2>1, <1>2 DEF Approvals, Gone
      <4> QED BY <4>1, <3>1, <3>3 DEF Sound, Libraries, Library
    <3> QED BY <3>2, <3>3
  <2> QED BY <2>1 DEF Gone
<1>6. OneWinsPerBase'
  BY <1>1 DEF Approvals, OneWinsPerBase, WasStaged
<1> QED BY <1>3, <1>4, <1>5, <1>6 DEF Approvals

-----------------------------------------------------------------------------
(* The steps, one by one.                                                  *)

\* The library after BecomeLibrary.
LEMMA Became ==
    ASSUME NEW s, Sound(s), BecomeLibrary(s)
    PROVE  /\ Library' = s /\ Sound(Library)'
           /\ file' = s.file /\ made' = s.made /\ status' = s.status
           /\ origin' = s.origin /\ pinned' = s.pinned /\ kept' = s.kept
<1>1. Library' = s
  BY DEF Sound, Libraries, Library, BecomeLibrary
<1> QED BY <1>1 DEF BecomeLibrary, Sound

\* The library's fields are the variables.
LEMMA LibraryIs ==
    /\ Library.file = file /\ Library.made = made /\ Library.status = status
    /\ Library.origin = origin /\ Library.pinned = pinned /\ Library.kept = kept
BY DEF Library

\* A library in which one skill has a new text, or not even that.
Rewritten(r, k) ==
    /\ r \in Libraries /\ r.made = [made EXCEPT ![k] = @ + 1]
    /\ r.file \in {file, [file EXCEPT ![k] = NewText(Library, k)]}

LEMMA RewrittenIs ==
    ASSUME Sound(Library), NEW k \in Skills, Room(Library, k), NEW r, Rewritten(r, k)
    PROVE  /\ Sound(r) /\ NewText(Library, k) = made[k] + 1 /\ NewText(Library, k) \in Texts
           /\ file' = r.file /\ made' = r.made => WritesFresh
<1>1. file \in [Skills -> Nat] /\ made \in [Skills -> Nat]
  <2>1. Texts \subseteq Nat
    BY MaxTextsAssumption DEF Texts
  <2> QED BY <2>1 DEF Sound, Libraries, Library
<1>2. NewText(Library, k) = made[k] + 1 /\ NewText(Library, k) \in Texts
  BY <1>1, MaxTextsAssumption DEF NewText, Room, Library, Texts
<1>3. \A j \in Skills : made[j] <= r.made[j]
  BY <1>1 DEF Rewritten
<1>4. \A j \in Skills : file[j] <= made[j]
  BY DEF Sound, Library
<1>5. \A j \in Skills :
        r.file[j] = file[j] \/ (r.file[j] = made[j] + 1 /\ r.made[j] = made[j] + 1)
  BY <1>1, <1>2 DEF Rewritten
<1>6. \A j \in Skills :
        file[j] \in Nat /\ made[j] \in Nat /\ r.made[j] \in {made[j], made[j] + 1}
  BY <1>1 DEF Rewritten
<1>7. Sound(r)
  <2>1. \A j \in Skills : r.file[j] <= r.made[j]
    BY <1>3, <1>4, <1>5, <1>6
  <2> QED BY <2>1 DEF Sound, Rewritten
<1>8. ASSUME file' = r.file, made' = r.made
      PROVE  WritesFresh
  BY <1>8, <1>3, <1>5, <1>6 DEF WritesFresh
<1> QED BY <1>2, <1>7, <1>8

\* A text was thought up and not yet written.
LEMMA StartedIs ==
    ASSUME Sound(Library), NEW k \in Skills, Room(Library, k)
    PROVE  LET s == Composed(Library, k)
           IN  /\ Rewritten(s, k) /\ s.file = file /\ s.status = status /\ s.origin = origin
               /\ s.pinned = pinned /\ s.kept = kept
BY ComposedIs, SMTT(30) DEF Library, Rewritten, Sound

\* The cycle avoids what is still shielded, also when fewer skills are.
LEMMA FewerSkills ==
    ASSUME NEW c, NEW X, NEW Y \in SUBSET X, NEW m, NEW n, CycleOK(c, m, X),
           m \in [Skills -> Texts], n \in [Skills -> Texts], \A k \in Skills : m[k] <= n[k]
    PROVE  CycleOK(c, n, Y)
<1>1. \A k \in DOMAIN c.read : c.read[k] \in 1 .. n[k]
  <2>1. ASSUME NEW k \in DOMAIN c.read
        PROVE  c.read[k] \in 1 .. n[k]
    <3>1. k \in Skills /\ c.read[k] \in 1 .. m[k] /\ m[k] <= n[k]
      BY DEF CycleOK
    <3>2. m[k] \in Nat /\ n[k] \in Nat
      BY <3>1, MaxTextsAssumption DEF Texts
    <3> QED BY <3>1, <3>2
  <2> QED BY <2>1
<1>2. c.jobs \subseteq SUBSET (Skills \ Y)
  BY DEF CycleOK
<1> QED BY <1>1, <1>2 DEF CycleOK

\* Steps that recompute what is shielded.
LEMMA BesideKeeps ==
    ASSUME EvolutionInv, StillShielded, Sound(Library)', Approvals', gate' = gate,
           \/ CycleOK(cyc', made', shielded)
           \/ cyc' = cyc /\ \A k \in Skills : made[k] <= made'[k],
           faults' \in {faults, faults + 1},
           scan' \in [files : SUBSET Skills, rows : SUBSET Skills]
    PROVE  EvolutionInv'
<1>1. shielded' \subseteq shielded /\ shielded \subseteq Skills
  BY DEF StillShielded, EvolutionInv, Exempt
<1>2. shielded' \subseteq Exempt'
  BY <1>1 DEF StillShielded, Exempt
<1>3. made \in [Skills -> Texts] /\ made' \in [Skills -> Texts]
  BY DEF EvolutionInv, Sound, Libraries, Library
<1>4. CycleOK(cyc', made', shielded')
  <2>1. CASE CycleOK(cyc', made', shielded)
    <3>1. \A k \in Skills : made'[k] \in Nat
      BY <1>3, MaxTextsAssumption DEF Texts
    <3>2. \A k \in Skills : made'[k] <= made'[k]
      BY <3>1
    <3> QED BY <2>1, <3>2, <1>1, <1>3, FewerSkills
  <2>2. CASE cyc' = cyc /\ \A k \in Skills : made[k] <= made'[k]
    <3>1. CycleOK(cyc, made, shielded)
      BY DEF EvolutionInv
    <3> QED BY <2>2, <3>1, <1>1, <1>3, FewerSkills
  <2> QED BY <2>1, <2>2
<1>5. faults' \in Nat
  BY DEF EvolutionInv
<1> QED BY <1>2, <1>4, <1>5 DEF EvolutionInv

\* What a step of the cycle never does.
CycleKeeps ==
    /\ EvolutionInv'
    /\ \A k \in shielded \ {j \in Skills : Creatable(Library, j)} :
        file'[k] = file[k] /\ status'[k] = status[k] /\ origin'[k] = origin[k]
    /\ gate = "approve" => file' = file

\* An answer was dealt with, leaving the library s, and the cycle went on.
LEMMA GoneOn ==
    ASSUME EvolutionInv, cyc # Idle, NEW s, Sound(s), StillShielded,
           UNCHANGED <<scan, gate>>, faults' \in {faults, faults + 1},
           cyc.phase = "designer" \/ \A k \in shielded :
             s.status[k] = status[k] /\ s.origin[k] = origin[k] /\ s.pinned[k] = pinned[k],
           \/ \E evolved \in SUBSET Skills : Reach(Onward(s, evolved))
           \/ Reach(NextPhase(s)),
           file' = s.file /\ made' = s.made => Approvals'
    PROVE  /\ EvolutionInv'
           /\ file' = s.file /\ made' = s.made /\ origin' = s.origin
           /\ pinned' = s.pinned /\ kept' = s.kept
           /\ \A k \in shielded : status'[k] = s.status[k]
<1>1. CycleOK(cyc, made, shielded) /\ shielded \subseteq Skills
  BY DEF EvolutionInv, Exempt
<1>2. PICK outcomes : Reach(outcomes) /\ \A o \in outcomes : Outcome(o, s, shielded)
  <2>1. CASE cyc.phase = "designer"
    <3>1. CASE Reach(NextPhase(s))
      <4>1. NextPhase(s) = {<<s, Idle>>}
        BY <2>1 DEF NextPhase
      <4>2. \A o \in NextPhase(s) : Outcome(o, s, shielded)
        BY <4>1, DesignerOutcome DEF Designer
      <4> QED BY <3>1, <4>2
    <3>2. CASE \E evolved \in SUBSET Skills : Reach(Onward(s, evolved))
      BY <2>1, <3>2, DesignerOutcome DEF Onward
    <3> QED BY <3>1, <3>2
  <2>2. CASE \A k \in shielded :
               s.status[k] = status[k] /\ s.origin[k] = origin[k] /\ s.pinned[k] = pinned[k]
    <3>1. Spared(shielded, s)
      BY <2>2, <1>1 DEF EvolutionInv, Spared, Exempt, Evolvable
    <3>2. CASE Reach(NextPhase(s))
      BY <3>1, <3>2, <1>1, NextPhaseOutcome
    <3>3. CASE \E evolved \in SUBSET Skills : Reach(Onward(s, evolved))
      BY <3>1, <3>3, <1>1, OnwardOutcome
    <3> QED BY <3>2, <3>3
  <2> QED BY <2>1, <2>2
<1>3. /\ Sound(Library)'
      /\ file' = s.file /\ made' = s.made /\ origin' = s.origin
      /\ pinned' = s.pinned /\ kept' = s.kept
      /\ \A k \in shielded : status'[k] = s.status[k]
      /\ CycleOK(cyc', made', shielded)
  BY <1>2, Reached
<1>4. scan' \in [files : SUBSET Skills, rows : SUBSET Skills]
  BY DEF EvolutionInv
<1>5. Approvals' /\ gate' = gate
  BY <1>3
<1>6. EvolutionInv'
  BY <1>3, <1>4, <1>5, BesideKeeps
<1> QED BY <1>3, <1>6

\* The cycle chose and read, and nothing else.
LEMMA NothingWritten ==
    ASSUME EvolutionInv, file' = file, made' = made, pending' = pending,
           faults' \in {faults, faults + 1}
    PROVE  Approvals'
<1>1. file \in [Skills -> Texts] /\ made \in [Skills -> Texts]
  BY DEF EvolutionInv, Sound, Libraries, Library
<1>2. WritesFresh
  <2>1. Texts \subseteq Nat
    BY MaxTextsAssumption DEF Texts
  <2>2. \A k \in Skills : made[k] \in Nat
    BY <1>1, <2>1
  <2> QED BY <2>2 DEF WritesFresh
<1> QED BY <1>1, <1>2, FreshKeepsApprovals DEF EvolutionInv

\* An answer that is staged changes no file.
LEMMA StagedInstead ==
    ASSUME EvolutionInv, cyc # Idle, NEW k \in Skills, Room(Library, k),
           NEW S \in SUBSET Skills, Stage(k, S), NEW s, Rewritten(s, k),
           s.file = file, s.status = status, s.origin = origin, s.pinned = pinned,
           Reach(Onward(s, cyc.evolved)), UNCHANGED faults, Beside
    PROVE  CycleKeeps /\ file' = file
<1>1. Sound(Library) /\ Approvals /\ shielded \subseteq Skills /\ cyc.evolved \subseteq Skills
  BY DEF EvolutionInv, Exempt, CycleOK
<1>2. Sound(s) /\ NewText(Library, k) = made[k] + 1
  BY <1>1, RewrittenIs
<1>3. ASSUME file' = s.file, made' = s.made
      PROVE  Approvals'
  <2>1. made \in [Skills -> Nat]
    <3>1. Texts \subseteq Nat
      BY MaxTextsAssumption DEF Texts
    <3> QED BY <1>1, <3>1 DEF Sound, Libraries, Library
  <2>2. made'[k] = made[k] + 1 /\ \A j \in Skills : made[j] <= made'[j]
    BY <1>3, <2>1 DEF Rewritten
  <2>3. pending' = Append(pending, Staged(k, made[k] + 1, S))
    BY <1>2 DEF Stage
  <2>4. file' = file /\ made' \in [Skills -> Texts]
    BY <1>2, <1>3 DEF Sound, Libraries
  <2> QED BY <1>1, <2>2, <2>3, <2>4, StagingKeepsApprovals
<1>4. \E evolved \in SUBSET Skills : Reach(Onward(s, evolved))
  BY <1>1
<1>5. UNCHANGED <<scan, gate>> /\ StillShielded
  BY DEF Beside
<1>6. /\ EvolutionInv'
      /\ file' = s.file /\ made' = s.made /\ origin' = s.origin
      /\ pinned' = s.pinned /\ kept' = s.kept
      /\ \A j \in shielded : status'[j] = s.status[j]
  BY <1>2, <1>3, <1>4, <1>5, GoneOn
<1> QED BY <1>6 DEF CycleKeeps

\* An answer that is written out at once, or not to the end.
LEMMA WrittenOut ==
    ASSUME EvolutionInv, cyc # Idle, ~Gated, NEW k \in Skills, Room(Library, k),
           NEW s, Rewritten(s, k),
           cyc.phase = "designer" \/ \A j \in shielded :
             s.status[j] = status[j] /\ s.origin[j] = origin[j] /\ s.pinned[j] = pinned[j],
           \A j \in shielded \ {l \in Skills : Creatable(Library, l)} :
             s.file[j] = file[j] /\ s.status[j] = status[j] /\ s.origin[j] = origin[j],
           \/ \E evolved \in SUBSET Skills : Reach(Onward(s, evolved))
           \/ Reach(NextPhase(s)),
           UNCHANGED pending, faults' \in {faults, faults + 1}, Beside
    PROVE  CycleKeeps /\ file' = s.file /\ kept' = s.kept
<1>1. Sound(Library) /\ Approvals /\ shielded \subseteq Skills
  BY DEF EvolutionInv, Exempt
<1>2. Sound(s) /\ (file' = s.file /\ made' = s.made => WritesFresh)
  BY <1>1, RewrittenIs
<1>3. UNCHANGED <<scan, gate>> /\ StillShielded
  BY DEF Beside
<1>4. ASSUME file' = s.file, made' = s.made
      PROVE  Approvals'
  <2>1. WritesFresh
    BY <1>2, <1>4
  <2>2. file' \in [Skills -> Texts] /\ made' \in [Skills -> Texts]
    BY <1>2, <1>4 DEF Sound, Libraries
  <2> QED BY <1>1, <2>1, <2>2, FreshKeepsApprovals DEF EvolutionInv
<1>5. /\ EvolutionInv'
      /\ file' = s.file /\ made' = s.made /\ origin' = s.origin
      /\ pinned' = s.pinned /\ kept' = s.kept
      /\ \A j \in shielded : status'[j] = s.status[j]
  BY <1>2, <1>3, <1>4, GoneOn
<1>6. gate # "approve"
  BY DEF Gated
<1> QED BY <1>5, <1>6 DEF CycleKeeps

\* What the invariant says of the values the steps use.
LEMMA Typed ==
    ASSUME EvolutionInv
    PROVE  /\ Sound(Library) /\ Library \in Libraries /\ Approvals
           /\ shielded \subseteq Exempt /\ shielded \subseteq Skills
           /\ CycleOK(cyc, made, shielded) /\ DOMAIN cyc.read \subseteq Skills \ shielded
           /\ cyc.evolved \subseteq Skills
           /\ \A k \in Skills : file[k] \in Texts
           /\ \A k \in DOMAIN cyc.read : cyc.read[k] \in Texts
<1>1. /\ Sound(Library) /\ Library \in Libraries /\ CycleOK(cyc, made, shielded)
      /\ shielded \subseteq Exempt /\ shielded \subseteq Skills /\ Approvals
  BY DEF EvolutionInv, Exempt, Sound
<1>2. file \in [Skills -> Texts] /\ made \in [Skills -> Texts]
  BY <1>1 DEF Libraries, Library
<1>3. \A k \in DOMAIN cyc.read : cyc.read[k] \in Texts
  <2>1. ASSUME NEW k \in DOMAIN cyc.read
        PROVE  cyc.read[k] \in Texts
    <3>1. cyc.read[k] \in 1 .. made[k] /\ made[k] \in Texts
      BY <1>1, <1>2 DEF CycleOK
    <3> QED BY <3>1, MaxTextsAssumption DEF Texts
  <2> QED BY <2>1
<1> QED BY <1>1, <1>2, <1>3 DEF CycleOK

\* The start of a cycle chooses and reads.
LEMMA StartCycleKeeps ==
    ASSUME EvolutionInv, StartCycle
    PROVE  CycleKeeps /\ file' = file
<1>1. Sound(Library) /\ shielded \subseteq Exempt
  BY Typed
<1>2. Spared(Exempt, Library)
  BY LibraryIs DEF Spared, Exempt, Evolvable
<1>3. Singles(Evolvable(Library)) \in SUBSET SUBSET (Skills \ Exempt)
  BY <1>2 DEF Singles, Spared, Evolvable
<1>4. Reach(Gepa(Library, Singles(Evolvable(Library)), {}))
  BY DEF StartCycle
<1>5. \A o \in Gepa(Library, Singles(Evolvable(Library)), {}) : Outcome(o, Library, Exempt)
  BY <1>1, <1>2, <1>3, GepaOutcome
<1>6. /\ Sound(Library)' /\ file' = file /\ made' = made /\ origin' = origin
      /\ pinned' = pinned /\ \A k \in Exempt : status'[k] = status[k]
      /\ CycleOK(cyc', made', Exempt)
  BY <1>4, <1>5, Reached, LibraryIs
<1>7. shielded' = Exempt /\ UNCHANGED <<scan, gate, pending, faults>>
  BY DEF StartCycle
<1>8. Approvals'
  BY <1>6, <1>7, NothingWritten
<1>9. shielded' \subseteq Exempt'
  BY <1>6, <1>7 DEF Exempt
<1>10. EvolutionInv'
  BY <1>6, <1>7, <1>8, <1>9 DEF EvolutionInv
<1> QED BY <1>1, <1>6, <1>10 DEF CycleKeeps

\* So does the cycle after an answer it cannot use.
LEMMA DeclineKeeps ==
    ASSUME EvolutionInv, Decline
    PROVE  CycleKeeps /\ file' = file
<1>1. /\ cyc # Idle /\ Reach(Onward(Library, cyc.evolved))
      /\ UNCHANGED <<pending, faults, scan, gate>> /\ StillShielded
  BY DEF Decline, Beside
<1>2. Sound(Library) /\ cyc.evolved \subseteq Skills
  BY Typed
<1>3. ASSUME file' = Library.file, made' = Library.made
      PROVE  Approvals'
  BY <1>1, <1>3, NothingWritten, LibraryIs
<1>4. \E evolved \in SUBSET Skills : Reach(Onward(Library, evolved))
  BY <1>1, <1>2
<1>5. /\ EvolutionInv' /\ file' = file /\ origin' = origin
      /\ \A k \in shielded : status'[k] = status[k]
  BY <1>1, <1>2, <1>3, <1>4, GoneOn, LibraryIs
<1> QED BY <1>5 DEF CycleKeeps

\* And after a failure.
LEMMA CycleFailsKeeps ==
    ASSUME EvolutionInv, CycleFails
    PROVE  CycleKeeps /\ file' = file
<1>1. /\ cyc # Idle /\ UNCHANGED <<pending, scan, gate>> /\ StillShielded
      /\ faults' = faults + 1
  BY DEF CycleFails, Beside
<1>2. Sound(Library)
  BY Typed
<1>3. CASE Reach(NextPhase(Library))
  <2>1. ASSUME file' = Library.file, made' = Library.made
        PROVE  Approvals'
    BY <1>1, <2>1, NothingWritten, LibraryIs
  <2>2. /\ EvolutionInv' /\ file' = file /\ origin' = origin
        /\ \A k \in shielded : status'[k] = status[k]
    BY <1>1, <1>2, <1>3, <2>1, GoneOn, LibraryIs
  <2> QED BY <2>2 DEF CycleKeeps
<1>4. CASE cyc' = Idle /\ UNCHANGED library
  <2>1. UNCHANGED <<file, made, status, origin, pinned, kept>> /\ Library' = Library
    BY <1>4 DEF library, Library
  <2>2. Approvals'
    BY <1>1, <2>1, NothingWritten
  <2>3. CycleOK(cyc', made', shielded) /\ Sound(Library)'
    BY <1>2, <1>4, <2>1 DEF CycleOK, Idle, Nothing, Phases, Sound
  <2>4. scan' \in [files : SUBSET Skills, rows : SUBSET Skills] /\ gate' = gate
    BY <1>1 DEF EvolutionInv
  <2>5. EvolutionInv'
    BY <1>1, <2>2, <2>3, <2>4, BesideKeeps
  <2> QED BY <2>1, <2>5 DEF CycleKeeps
<1> QED BY <1>3, <1>4 DEF CycleFails

\* GEPA keeps what it overwrites.
LEMMA GepaAnswersKeeps ==
    ASSUME EvolutionInv, GepaAnswers
    PROVE  CycleKeeps /\ \A k \in Skills : ~Loses(k)
<1>1. PICK k \in DOMAIN cyc.read :
        LET s == Composed(Library, k)
            t == NewText(Library, k)
        IN  /\ Room(Library, k)
            /\ IF Gated
               THEN Stage(k, {}) /\ Reach(Onward(s, cyc.evolved))
               ELSE /\ UNCHANGED pending
                    /\ IF file[k] = NoFile THEN Reach(NextPhase(s))
                       ELSE Reach(Onward(Edited(Saved(s, k, file[k]), k, t),
                                         cyc.evolved \cup (IF Editable(s, k) THEN {k} ELSE {})))
  BY DEF GepaAnswers
<1>2. cyc # Idle /\ UNCHANGED faults /\ Beside
  BY DEF GepaAnswers, Idle
<1> DEFINE s == Composed(Library, k)
           v == Saved(s, k, file[k])
           r == Edited(v, k, NewText(Library, k))
<1>3. /\ k \in Skills /\ k \notin shielded /\ Sound(Library) /\ file[k] \in Texts
      /\ cyc.evolved \subseteq Skills /\ shielded \subseteq Skills
  BY Typed
<1>4. /\ Rewritten(s, k) /\ s.file = file /\ s.status = status /\ s.origin = origin
      /\ s.pinned = pinned /\ s.kept = kept
  BY <1>1, <1>3, StartedIs
<1> HIDE DEF s
<1>5. CASE Gated
  <2>1. Stage(k, {}) /\ Reach(Onward(s, cyc.evolved)) /\ Room(Library, k)
    BY <1>1, <1>5 DEF s
  <2>2. CycleKeeps /\ file' = file
    BY <1>2, <1>3, <1>4, <2>1, StagedInstead
  <2> QED BY <2>2 DEF Loses
<1>6. CASE ~Gated /\ file[k] = NoFile
  <2>1. Reach(NextPhase(s)) /\ UNCHANGED pending /\ Room(Library, k)
    BY <1>1, <1>6 DEF s
  <2>2. CycleKeeps /\ file' = file
    BY <1>2, <1>3, <1>4, <1>6, <2>1, WrittenOut
  <2> QED BY <2>2 DEF Loses
<1>7. CASE ~Gated /\ file[k] # NoFile
  <2>1. UNCHANGED pending /\ Room(Library, k)
    BY <1>1, <1>7
  <2>2. \E evolved \in SUBSET Skills : Reach(Onward(r, evolved))
    <3>1. Reach(Onward(r, cyc.evolved \cup (IF Editable(s, k) THEN {k} ELSE {})))
      BY <1>1, <1>7 DEF s
    <3>2. cyc.evolved \cup (IF Editable(s, k) THEN {k} ELSE {}) \in SUBSET Skills
      BY <1>3
    <3> QED BY <3>1, <3>2
  <2>3. NewText(Library, k) \in Texts
    BY <1>3, <1>4, <2>1, RewrittenIs
  <2>4. /\ v \in Libraries /\ <<k, file[k]>> \in v.kept
        /\ v.file = s.file /\ v.made = s.made /\ v.status = s.status
        /\ v.origin = s.origin /\ v.pinned = s.pinned
    BY <1>3, <1>4, <1>7, SavedIs DEF Rewritten
  <2> HIDE DEF v
  <2>5. /\ Rewritten(r, k) /\ <<k, file[k]>> \in r.kept
        /\ r.status = status /\ r.origin = origin /\ r.pinned = pinned
    <3>1. /\ r \in Libraries
          /\ r.file = v.file \/ r.file = [v.file EXCEPT ![k] = NewText(Library, k)]
          /\ r.made = v.made /\ r.status = v.status /\ r.origin = v.origin
          /\ r.pinned = v.pinned /\ r.kept = v.kept
      BY <1>3, <2>3, <2>4, EditedIs
    <3> HIDE DEF r
    <3>2. v.file = file /\ v.made = [made EXCEPT ![k] = @ + 1]
      BY <1>4, <2>4 DEF Rewritten
    <3> QED BY <1>4, <2>4, <3>1, <3>2 DEF Rewritten
  <2> HIDE DEF r
  <2>6. \A j \in Skills : j # k => r.file[j] = file[j]
    BY <1>3, <2>5 DEF Rewritten, Sound, Libraries, Library
  <2>7. CycleKeeps /\ file' = r.file /\ kept' = r.kept
    BY <1>2, <1>3, <1>7, <2>1, <2>2, <2>5, <2>6, WrittenOut
  <2> QED BY <2>5, <2>6, <2>7 DEF Loses
<1> QED BY <1>5, <1>6, <1>7

\* The rewriter keeps the text it read, which is the one it overwrites unless
\* somebody wrote in between.
LEMMA RewriterAnswersKeeps ==
    ASSUME EvolutionInv, RewriterAnswers
    PROVE  CycleKeeps /\ \A k \in Skills : Loses(k) => cyc.read[k] # file[k]
<1>1. PICK k \in DOMAIN cyc.read :
        LET s == SavedAsRead(Composed(Library, k), k)
        IN  /\ Room(Library, k)
            /\ IF Gated
               THEN Stage(k, {}) /\ Reach(Onward(s, cyc.evolved))
               ELSE /\ UNCHANGED pending
                    /\ Reach(Onward(Edited(s, k, NewText(Library, k)), cyc.evolved))
  BY DEF RewriterAnswers
<1>2. cyc # Idle /\ UNCHANGED faults /\ Beside
  BY DEF RewriterAnswers, Idle
<1> DEFINE c == Composed(Library, k)
           s == SavedAsRead(c, k)
           r == Edited(s, k, NewText(Library, k))
<1>3. /\ k \in Skills /\ k \notin shielded /\ Sound(Library) /\ cyc.read[k] \in Texts
      /\ cyc.evolved \subseteq Skills /\ shielded \subseteq Skills
  BY Typed
<1>4. /\ Rewritten(c, k) /\ c.file = file /\ c.status = status /\ c.origin = origin
      /\ c.pinned = pinned /\ c.kept = kept
  BY <1>1, <1>3, StartedIs
<1> HIDE DEF c
<1>5. /\ Rewritten(s, k) /\ s.file = file /\ s.status = status /\ s.origin = origin
      /\ s.pinned = pinned
      /\ cyc.read[k] # NoFile => <<k, cyc.read[k]>> \in s.kept
  <2>1. /\ s \in Libraries /\ s.file = c.file /\ s.made = c.made /\ s.status = c.status
        /\ s.origin = c.origin /\ s.pinned = c.pinned
        /\ cyc.read[k] # NoFile => <<k, cyc.read[k]>> \in s.kept
    BY <1>3, <1>4, SavedIs DEF SavedAsRead, Rewritten
  <2> QED BY <1>4, <2>1 DEF Rewritten
<1>6. Room(Library, k)
  BY <1>1
<1>7. CASE Gated
  <2>1. Stage(k, {}) /\ Reach(Onward(s, cyc.evolved))
    BY <1>1, <1>7 DEF c
  <2> HIDE DEF s
  <2>2. CycleKeeps /\ file' = file
    BY <1>2, <1>3, <1>5, <1>6, <2>1, StagedInstead
  <2> QED BY <2>2 DEF Loses
<1>8. CASE ~Gated
  <2>1. UNCHANGED pending /\ Reach(Onward(r, cyc.evolved))
    BY <1>1, <1>8 DEF c
  <2>2. NewText(Library, k) \in Texts
    BY <1>3, <1>4, <1>6, RewrittenIs
  <2> HIDE DEF s
  <2>3. /\ r \in Libraries
        /\ r.file = s.file \/ r.file = [s.file EXCEPT ![k] = NewText(Library, k)]
        /\ r.made = s.made /\ r.status = s.status /\ r.origin = s.origin
        /\ r.pinned = s.pinned /\ r.kept = s.kept
    BY <1>3, <1>5, <2>2, EditedIs DEF Rewritten
  <2> HIDE DEF r
  <2>4. Rewritten(r, k)
    <3>1. s.made = [made EXCEPT ![k] = @ + 1]
      BY <1>5 DEF Rewritten
    <3> QED BY <1>5, <2>3, <3>1 DEF Rewritten
  <2>5. \A j \in Skills : j # k => r.file[j] = file[j]
    BY <1>3, <2>4 DEF Rewritten, Sound, Libraries, Library
  <2>6. \E evolved \in SUBSET Skills : Reach(Onward(r, evolved))
    BY <1>3, <2>1
  <2>7. CycleKeeps /\ file' = r.file /\ kept' = r.kept
    BY <1>2, <1>3, <1>5, <1>6, <1>8, <2>1, <2>3, <2>4, <2>5, <2>6, WrittenOut
  <2> QED BY <1>5, <2>3, <2>5, <2>7 DEF Loses
<1> QED BY <1>7, <1>8

\* A merge touches the skills that were read, and a name that nobody has.
LEMMA MergeSpares ==
    ASSUME EvolutionInv, NEW u \in Skills, NameFree(u), Room(Library, u),
           NEW D \in SUBSET DOMAIN cyc.read
    PROVE  LET s == Composed(Library, u)
               t == NewText(Library, u)
           IN  \A r \in {WithFile(s, u, t), Merged(s, u, t, D, cyc.read)} :
                 /\ Rewritten(r, u)
                 /\ \A j \in shielded :
                      /\ r.file[j] = file[j] /\ r.status[j] = status[j]
                      /\ r.origin[j] = origin[j] /\ r.pinned[j] = pinned[j]
<1> DEFINE s == Composed(Library, u)
           t == NewText(Library, u)
           f == WithFile(s, u, t)
           m == Merged(s, u, t, D, cyc.read)
<1>1. /\ Sound(Library) /\ shielded \subseteq Skills /\ shielded \subseteq Exempt
      /\ DOMAIN cyc.read \subseteq Skills \ shielded
      /\ \A k \in DOMAIN cyc.read : cyc.read[k] \in Texts
  BY Typed
<1>2. u \notin shielded
  BY <1>1 DEF NameFree, Exempt
<1>3. /\ Rewritten(s, u) /\ s.file = file /\ s.status = status /\ s.origin = origin
      /\ s.pinned = pinned
  BY <1>1, StartedIs
<1> HIDE DEF s
<1>4. t \in Texts
  BY <1>1, <1>3, RewrittenIs
<1> HIDE DEF t
<1>5. /\ f \in Libraries /\ f.file = [s.file EXCEPT ![u] = t] /\ f.made = s.made
      /\ f.status = s.status /\ f.origin = s.origin /\ f.pinned = s.pinned
  BY <1>3, <1>4, WithFileIs DEF Rewritten
<1>6. /\ m \in Libraries /\ m.file = [s.file EXCEPT ![u] = t] /\ m.made = s.made
      /\ m.pinned = s.pinned
      /\ \A k \in Skills \ {u} : m.origin[k] = s.origin[k]
      /\ \A k \in Skills \ (D \cup {u}) : m.status[k] = s.status[k]
  <2>1. D \in SUBSET {j \in Skills : cyc.read[j] \in Texts}
    BY <1>1
  <2>2. s \in Libraries
    BY <1>3 DEF Rewritten
  <2> QED BY <1>4, <2>1, <2>2, MergedIs
<1> HIDE DEF f, m
<1>7. file \in [Skills -> Texts] /\ s.made = [made EXCEPT ![u] = @ + 1]
  BY <1>1, <1>3 DEF Rewritten, Sound, Libraries, Library
<1>8. Rewritten(f, u) /\ Rewritten(m, u)
  BY <1>3, <1>5, <1>6, <1>7 DEF Rewritten, t
<1>9. \A j \in shielded : j \in Skills \ (D \cup {u})
  BY <1>1, <1>2
<1>10. \A j \in shielded : f.file[j] = file[j] /\ m.file[j] = file[j]
  BY <1>3, <1>5, <1>6, <1>7, <1>9
<1>11. \A j \in shielded :
        /\ f.status[j] = status[j] /\ m.status[j] = status[j]
        /\ f.origin[j] = origin[j] /\ m.origin[j] = origin[j]
        /\ f.pinned[j] = pinned[j] /\ m.pinned[j] = pinned[j]
  BY <1>3, <1>5, <1>6, <1>9
<1>12. \A r \in {f, m} :
         /\ Rewritten(r, u)
         /\ \A j \in shielded :
              /\ r.file[j] = file[j] /\ r.status[j] = status[j]
              /\ r.origin[j] = origin[j] /\ r.pinned[j] = pinned[j]
  BY <1>8, <1>10, <1>11
<1> QED BY <1>12 DEF s, t, f, m

\* A merge to its end.
LEMMA UmbrellaAnswersKeeps ==
    ASSUME EvolutionInv, UmbrellaAnswers
    PROVE  CycleKeeps
<1>1. PICK A \in SUBSET DOMAIN cyc.read, u \in {k \in Skills : NameFree(k)} :
        LET s == Composed(Library, u)
        IN  /\ Cardinality(A) >= 2
            /\ Room(Library, u)
            /\ IF Gated
               THEN Stage(u, A) /\ Reach(Onward(s, cyc.evolved))
               ELSE /\ UNCHANGED pending
                    /\ Reach(Onward(Merged(s, u, NewText(Library, u), A \ {u}, cyc.read),
                                    cyc.evolved))
  BY DEF UmbrellaAnswers
<1>2. cyc # Idle /\ UNCHANGED faults /\ Beside
  BY DEF UmbrellaAnswers, Idle
<1> DEFINE s == Composed(Library, u)
           r == Merged(s, u, NewText(Library, u), A \ {u}, cyc.read)
<1>3. /\ Sound(Library) /\ cyc.evolved \subseteq Skills /\ shielded \subseteq Skills
      /\ u \in Skills /\ Room(Library, u) /\ A \subseteq Skills
  BY <1>1, Typed
<1>4. CASE Gated
  <2>1. Stage(u, A) /\ Reach(Onward(s, cyc.evolved))
    BY <1>1, <1>4
  <2>2. /\ Rewritten(s, u) /\ s.file = file /\ s.status = status /\ s.origin = origin
        /\ s.pinned = pinned
    BY <1>3, StartedIs
  <2> HIDE DEF s
  <2> QED BY <1>2, <1>3, <2>1, <2>2, StagedInstead
<1>5. CASE ~Gated
  <2>1. UNCHANGED pending /\ Reach(Onward(r, cyc.evolved))
    BY <1>1, <1>5
  <2>2. /\ Rewritten(r, u)
        /\ \A j \in shielded :
             /\ r.file[j] = file[j] /\ r.status[j] = status[j]
             /\ r.origin[j] = origin[j] /\ r.pinned[j] = pinned[j]
    BY <1>1, <1>3, MergeSpares
  <2> HIDE DEF r
  <2>3. \E evolved \in SUBSET Skills : Reach(Onward(r, evolved))
    BY <1>3, <2>1
  <2> QED BY <1>2, <1>3, <1>5, <2>1, <2>2, <2>3, WrittenOut
<1> QED BY <1>4, <1>5

\* A merge that fails on its way.
LEMMA UmbrellaFailsKeeps ==
    ASSUME EvolutionInv, UmbrellaFails
    PROVE  CycleKeeps
<1>1. PICK A \in SUBSET DOMAIN cyc.read, u \in {k \in Skills : NameFree(k)} :
        /\ Room(Library, u)
        /\ LET s == Composed(Library, u)
               t == NewText(Library, u)
           IN  \/ Reach(NextPhase(WithFile(s, u, t)))
               \/ \E D \in SUBSET (A \ {u}) : Reach(NextPhase(Merged(s, u, t, D, cyc.read)))
  BY DEF UmbrellaFails
<1>2. /\ cyc # Idle /\ ~Gated /\ faults' = faults + 1 /\ UNCHANGED pending /\ Beside
  BY DEF UmbrellaFails, Idle
<1>3. u \in Skills /\ NameFree(u) /\ shielded \subseteq Skills
  BY Typed
<1> DEFINE s == Composed(Library, u)
           t == NewText(Library, u)
<1>4. PICK D \in SUBSET DOMAIN cyc.read :
        \E r \in {WithFile(s, u, t), Merged(s, u, t, D, cyc.read)} : Reach(NextPhase(r))
  BY <1>1
<1>5. PICK r \in {WithFile(s, u, t), Merged(s, u, t, D, cyc.read)} : Reach(NextPhase(r))
  BY <1>4
<1>6. /\ Rewritten(r, u)
      /\ \A j \in shielded :
           /\ r.file[j] = file[j] /\ r.status[j] = status[j]
           /\ r.origin[j] = origin[j] /\ r.pinned[j] = pinned[j]
  BY <1>1, <1>3, <1>5, MergeSpares
<1> QED BY <1>1, <1>2, <1>3, <1>5, <1>6, WrittenOut

\* A design: only a skill that may be created is written.
LEMMA DesignerAnswersKeeps ==
    ASSUME EvolutionInv, DesignerAnswers
    PROVE  CycleKeeps
<1>1. PICK k \in Skills :
        LET s == Composed(Library, k)
        IN  /\ Room(Library, k)
            /\ IF Gated
               THEN Stage(k, {}) /\ Reach(Onward(s, cyc.evolved))
               ELSE /\ UNCHANGED pending
                    /\ Reach(Onward(Created(s, k, NewText(Library, k)), cyc.evolved))
  BY DEF DesignerAnswers
<1>2. cyc # Idle /\ cyc.phase = "designer" /\ UNCHANGED faults /\ Beside
  BY DEF DesignerAnswers, Idle
<1> DEFINE s == Composed(Library, k)
           r == Created(s, k, NewText(Library, k))
<1>3. /\ Sound(Library) /\ cyc.evolved \subseteq Skills /\ shielded \subseteq Skills
  BY Typed
<1>4. /\ Rewritten(s, k) /\ s.file = file /\ s.status = status /\ s.origin = origin
      /\ s.pinned = pinned
  BY <1>1, <1>3, StartedIs
<1> HIDE DEF s
<1>5. CASE Gated
  <2>1. Stage(k, {}) /\ Reach(Onward(s, cyc.evolved)) /\ Room(Library, k)
    BY <1>1, <1>5 DEF s
  <2> QED BY <1>2, <1>3, <1>4, <2>1, StagedInstead
<1>6. CASE ~Gated
  <2>1. UNCHANGED pending /\ Reach(Onward(r, cyc.evolved)) /\ Room(Library, k)
    BY <1>1, <1>6 DEF s
  <2>2. NewText(Library, k) \in Texts
    BY <1>3, <1>4, <2>1, RewrittenIs
  <2>3. /\ r \in Libraries /\ r.made = s.made
        /\ ~Creatable(s, k) => r = s
        /\ r.file \in {s.file, [s.file EXCEPT ![k] = NewText(Library, k)]}
        /\ \A j \in Skills \ {k} :
             r.status[j] = s.status[j] /\ r.origin[j] = s.origin[j]
    BY <1>4, <2>2, CreatedIs DEF Rewritten
  <2> HIDE DEF r
  <2>4. Rewritten(r, k)
    <3>1. s.made = [made EXCEPT ![k] = @ + 1]
      BY <1>4 DEF Rewritten
    <3> QED BY <1>4, <2>3, <3>1 DEF Rewritten
  <2>5. Creatable(s, k) <=> Creatable(Library, k)
    BY <1>4, LibraryIs DEF Creatable
  <2>6. \A j \in Skills \ {l \in Skills : Creatable(Library, l)} :
          r.file[j] = file[j] /\ r.status[j] = status[j] /\ r.origin[j] = origin[j]
    <3>1. \A j \in Skills \ {k} : r.file[j] = file[j]
      BY <1>3, <2>4 DEF Rewritten, Sound, Libraries, Library
    <3> QED BY <1>4, <2>3, <2>5, <3>1
  <2>7. \E evolved \in SUBSET Skills : Reach(Onward(r, evolved))
    BY <1>3, <2>1
  <2> QED BY <1>2, <1>3, <1>6, <2>1, <2>4, <2>6, <2>7, WrittenOut
<1> QED BY <1>5, <1>6

\* Every step of the cycle.
LEMMA CycleStepKeeps ==
    ASSUME EvolutionInv, CycleStep
    PROVE  CycleKeeps
BY StartCycleKeeps, DeclineKeeps, GepaAnswersKeeps, RewriterAnswersKeeps,
   UmbrellaAnswersKeeps, DesignerAnswersKeeps, CycleFailsKeeps, UmbrellaFailsKeeps
   DEF CycleStep, CycleAnswers

-----------------------------------------------------------------------------
(* Approvals, the foreground and restarts.                                 *)

\* What an approval leaves, done or not, and with whichever siblings deprecated.
LEMMA AppliedIs ==
    ASSUME EvolutionInv, NEW i \in DOMAIN pending,
           NEW D \in SUBSET (DOMAIN pending[i].siblings \ {pending[i].skill}),
           NEW s \in {WithFile(Saved(Library, pending[i].skill, file[pending[i].skill]),
                               pending[i].skill, pending[i].text),
                      Applied(pending[i], D)}
    PROVE  LET k == pending[i].skill
           IN  /\ Sound(s) /\ s.file = [file EXCEPT ![k] = pending[i].text] /\ s.made = made
               /\ file[k] # NoFile => <<k, file[k]>> \in s.kept
               /\ s.status = status \/ s.status[k] = "active"
<1> DEFINE k == pending[i].skill
           t == pending[i].text
           v == Saved(Library, k, file[k])
           f == WithFile(v, k, t)
           m == Merged(v, k, t, D, file)
<1>1. /\ k \in Skills /\ t \in 1 .. made[k] /\ DOMAIN pending[i].siblings \subseteq Skills
  BY Typed, WritesTyped DEF Approvals
<1>2. /\ Sound(Library) /\ Library \in Libraries /\ \A j \in Skills : file[j] \in Texts
  BY Typed
<1>3. file \in [Skills -> Texts] /\ made \in [Skills -> Texts]
  BY <1>2 DEF Libraries, Library
<1>4. t \in Texts
  <2>1. made[k] \in Texts
    BY <1>1, <1>3
  <2> QED BY <1>1, <2>1, MaxTextsAssumption DEF Texts
<1> HIDE DEF k, t
<1>5. /\ v \in Libraries /\ v.file = file /\ v.made = made /\ v.status = status
      /\ file[k] # NoFile => <<k, file[k]>> \in v.kept
  BY <1>1, <1>2, SavedIs, LibraryIs
<1> HIDE DEF v
<1>6. /\ f \in Libraries /\ f.file = [file EXCEPT ![k] = t] /\ f.made = made
      /\ f.status = status /\ f.kept = v.kept
  BY <1>1, <1>4, <1>5, WithFileIs
<1>7. /\ m \in Libraries /\ m.file = [file EXCEPT ![k] = t] /\ m.made = made
      /\ m.status[k] = "active" /\ v.kept \subseteq m.kept
  <2>1. D \in SUBSET {j \in Skills : file[j] \in Texts} /\ k \notin D
    BY <1>1, <1>2 DEF k
  <2> QED BY <1>1, <1>4, <1>5, <2>1, MergedIs
<1> HIDE DEF f, m
<1>8. s = f \/ s = m
  BY DEF Applied, f, m, v, k, t
<1>9. \A j \in Skills : [file EXCEPT ![k] = t][j] <= made[j]
  BY <1>1, <1>2, <1>3 DEF Sound, Library, k, t
<1>10. /\ Sound(s) /\ s.file = [file EXCEPT ![k] = t] /\ s.made = made
       /\ file[k] # NoFile => <<k, file[k]>> \in s.kept
       /\ s.status = status \/ s.status[k] = "active"
  BY <1>5, <1>6, <1>7, <1>8, <1>9 DEF Sound
<1> QED BY <1>10 DEF k, t

\* What no approval does, whether it fails on its way or not.
ApprovalKeeps ==
    /\ EvolutionInv'
    /\ \A k \in Skills : ~Loses(k)
    /\ \/ status' = status
       \/ \E u \in Skills : status'[u] = "active" /\ file'[u] # file[u]

\* The library becomes that.
LEMMA ApplyingKeeps ==
    ASSUME EvolutionInv, NEW i \in DOMAIN pending, Current(pending[i]), Beside,
           NEW D \in SUBSET (DOMAIN pending[i].siblings \ {pending[i].skill}),
           NEW s \in {WithFile(Saved(Library, pending[i].skill, file[pending[i].skill]),
                               pending[i].skill, pending[i].text),
                      Applied(pending[i], D)},
           BecomeLibrary(s), UNCHANGED cyc, faults' \in {faults, faults + 1},
           file' = [file EXCEPT ![pending[i].skill] = pending[i].text] /\ made' = made
             => Approvals'
    PROVE  ApprovalKeeps
<1> DEFINE k == pending[i].skill
           t == pending[i].text
<1>1. /\ k \in Skills /\ t \in Nat /\ pending[i].base \in Nat /\ pending[i].base < t
  BY Typed, WritesTyped DEF Approvals
<1>2. file \in [Skills -> Texts] /\ made \in [Skills -> Texts]
  BY Typed DEF Libraries, Library
<1>3. /\ Sound(s) /\ s.file = [file EXCEPT ![k] = t] /\ s.made = made
      /\ file[k] # NoFile => <<k, file[k]>> \in s.kept
      /\ s.status = status \/ s.status[k] = "active"
  BY AppliedIs
<1>4. /\ Sound(Library)' /\ file' = [file EXCEPT ![k] = t] /\ made' = made
      /\ status' = s.status /\ kept' = s.kept
  BY <1>3, Became
<1>5. EvolutionInv'
  <2>1. \A j \in Skills : made[j] <= made'[j]
    <3>1. \A j \in Skills : made[j] \in Nat
      BY <1>2, MaxTextsAssumption DEF Texts
    <3> QED BY <1>4, <3>1
  <2>2. /\ StillShielded /\ gate' = gate
        /\ scan' \in [files : SUBSET Skills, rows : SUBSET Skills]
    BY DEF Beside, EvolutionInv
  <2> QED BY <1>4, <2>1, <2>2, BesideKeeps
<1>6. file'[k] = t /\ file[k] = pending[i].base /\ \A j \in Skills \ {k} : file'[j] = file[j]
  BY <1>1, <1>2, <1>4 DEF Current
<1>7. \A j \in Skills : ~Loses(j)
  BY <1>3, <1>4, <1>6 DEF Loses
<1>8. status' = status \/ (status'[k] = "active" /\ file'[k] # file[k])
  BY <1>1, <1>3, <1>4, <1>6
<1> QED BY <1>1, <1>5, <1>7, <1>8 DEF ApprovalKeeps

\* Nothing but the write's state changes.
LEMMA SamePlaces ==
    ASSUME EvolutionInv, Beside, UNCHANGED <<library, cyc, faults>>, Approvals'
    PROVE  ApprovalKeeps
<1>1. UNCHANGED <<file, made, status, origin, pinned, kept>> /\ Library' = Library
  BY DEF library, Library
<1>2. Sound(Library)'
  BY <1>1, Typed DEF Sound
<1>3. CycleOK(cyc', made', shielded)
  BY <1>1, Typed
<1>4. /\ StillShielded /\ gate' = gate
      /\ scan' \in [files : SUBSET Skills, rows : SUBSET Skills]
  BY DEF Beside, EvolutionInv
<1>5. EvolutionInv'
  BY <1>2, <1>3, <1>4, BesideKeeps
<1> QED BY <1>1, <1>5 DEF ApprovalKeeps, Loses

\* An approval, or a write found stale.
LEMMA ApproveKeeps ==
    ASSUME EvolutionInv, NEW i \in DOMAIN pending, Approve(i)
    PROVE  ApprovalKeeps
<1>1. pending[i].state = "pending" /\ UNCHANGED <<cyc, faults>> /\ Beside
  BY DEF Approve
<1>2. Sound(Library) /\ Approvals
  BY Typed
<1>3. CASE Current(pending[i])
  <2> DEFINE D == DOMAIN pending[i].siblings \ {pending[i].skill}
             s == Applied(pending[i], D)
  <2>1. Resolve(i, "approved") /\ BecomeLibrary(s)
    BY <1>3 DEF Approve
  <2>2. ASSUME file' = [file EXCEPT ![pending[i].skill] = pending[i].text], made' = made
        PROVE  Approvals'
    BY <1>1, <1>2, <1>3, <2>1, <2>2, ApprovingKeepsApprovals
  <2> QED BY <1>1, <1>3, <2>1, <2>2, ApplyingKeeps
<1>4. CASE ~Current(pending[i])
  <2>1. Resolve(i, "stale") /\ UNCHANGED library
    BY <1>4 DEF Approve
  <2>2. Approvals'
    BY <1>1, <1>2, <2>1, PutAsideKeepsApprovals DEF library
  <2> QED BY <1>1, <2>1, <2>2, SamePlaces
<1> QED BY <1>3, <1>4

\* An approval that fails on its way.
LEMMA ApproveFailsKeeps ==
    ASSUME EvolutionInv, NEW i \in DOMAIN pending, ApproveFails(i)
    PROVE  ApprovalKeeps
<1> DEFINE w == pending[i]
           f == WithFile(Saved(Library, w.skill, file[w.skill]), w.skill, w.text)
<1>1. /\ Current(w) /\ faults' = faults + 1 /\ UNCHANGED <<cyc, pending>> /\ Beside
      /\ \/ BecomeLibrary(f)
         \/ \E D \in SUBSET (DOMAIN w.siblings \ {w.skill}) : BecomeLibrary(Applied(w, D))
  BY DEF ApproveFails
<1>2. Sound(Library) /\ Approvals /\ faults \in Nat
  BY Typed DEF EvolutionInv
<1>3. PICK D \in SUBSET (DOMAIN w.siblings \ {w.skill}) :
        \E s \in {f, Applied(w, D)} : BecomeLibrary(s)
  BY <1>1
<1>4. PICK s \in {f, Applied(w, D)} : BecomeLibrary(s)
  BY <1>3
<1>5. ASSUME file' = [file EXCEPT ![w.skill] = w.text], made' = made
      PROVE  Approvals'
  BY <1>1, <1>2, <1>5, FailingKeepsApprovals
<1> QED BY <1>1, <1>4, <1>5, ApplyingKeeps

\* A rejection.
LEMMA RejectKeeps ==
    ASSUME EvolutionInv, NEW i \in DOMAIN pending, Reject(i)
    PROVE  EvolutionInv'
<1>1. /\ pending[i].state = "pending" /\ Resolve(i, "rejected")
      /\ UNCHANGED <<file, made, status, origin, pinned, kept>>
      /\ UNCHANGED <<scan, gate, cyc, shielded, faults>>
  BY DEF Reject, store, library
<1>2. Approvals'
  BY <1>1, Typed, PutAsideKeepsApprovals
<1>3. Sound(Library)' /\ shielded' \subseteq Exempt' /\ CycleOK(cyc', made', shielded')
  BY <1>1, Typed DEF Sound, Library, Exempt
<1> QED BY <1>1, <1>2, <1>3 DEF EvolutionInv

\* A restart.
LEMMA RestartKeeps ==
    ASSUME EvolutionInv, Restart
    PROVE  EvolutionInv' /\ file' = file /\ status' = status
<1>1. /\ UNCHANGED <<file, made, status, origin, pinned, kept, gate, shielded, pending>>
      /\ cyc' = Idle /\ scan' = NoScan /\ faults' = faults + 1
  BY DEF Restart, library
<1>2. Approvals'
  BY <1>1, NothingWritten
<1>3. /\ Sound(Library)' /\ shielded' \subseteq Exempt'
  BY <1>1, Typed DEF Sound, Library, Exempt
<1>4. CycleOK(cyc', made', shielded')
  BY <1>1 DEF CycleOK, Idle, Nothing, Phases
<1>5. scan' \in [files : SUBSET Skills, rows : SUBSET Skills] /\ faults' \in Nat
  BY <1>1 DEF NoScan, EvolutionInv
<1> QED BY <1>1, <1>2, <1>3, <1>4, <1>5 DEF EvolutionInv

\* A step that changes rows or versions but no file.
LEMMA RowsOnly ==
    ASSUME EvolutionInv, UNCHANGED <<file, made>>,
           status' \in [Skills -> Statuses], origin' \in [Skills -> {"agent", "user"}],
           pinned' \in [Skills -> BOOLEAN], kept' \in SUBSET (Skills \X (1 .. MaxTexts))
    PROVE  Sound(Library)' /\ WritesFresh
<1>1. Library' \in Libraries
  BY Typed DEF Libraries, Library
<1>2. Sound(Library)'
  BY <1>1, Typed DEF Sound, Library
<1>3. \A k \in Skills : made[k] \in Nat
  BY Typed, MaxTextsAssumption DEF Libraries, Library, Texts
<1> QED BY <1>2, <1>3 DEF WritesFresh

\* The same for the variables of the library.
LEMMA LibraryTyped ==
    ASSUME EvolutionInv
    PROVE  /\ file \in [Skills -> Texts] /\ made \in [Skills -> Texts]
           /\ status \in [Skills -> Statuses] /\ origin \in [Skills -> {"agent", "user"}]
           /\ pinned \in [Skills -> BOOLEAN] /\ kept \in SUBSET (Skills \X (1 .. MaxTexts))
           /\ scan \in [files : SUBSET Skills, rows : SUBSET Skills]
BY DEF EvolutionInv, Sound, Libraries, Library

\* One new text, written by propose_skill or by hand.
LEMMA OneWritten ==
    ASSUME EvolutionInv, NEW k \in Skills, Room(Library, k), NEW r, Rewritten(r, k),
           BecomeLibrary(r)
    PROVE  Sound(Library)' /\ WritesFresh
<1>1. Sound(r) /\ (file' = r.file /\ made' = r.made => WritesFresh)
  BY Typed, RewrittenIs
<1> QED BY <1>1, Became

\* The agent, a person and the curator write only new texts.
LEMMA ChangeWrites ==
    ASSUME EvolutionInv, Change
    PROVE  Sound(Library)' /\ WritesFresh /\ UNCHANGED scan
<1>1. ASSUME NEW k \in Skills, Room(Library, k)
      PROVE  LET c == Composed(Library, k)
                 t == NewText(Library, k)
             IN  \A r \in {Created(c, k, t), Edited(c, k, t), WithFile(c, k, t)} :
                   Rewritten(r, k)
  <2> DEFINE c == Composed(Library, k)
             t == NewText(Library, k)
  <2>1. Rewritten(c, k) /\ c.file = file
    BY <1>1, Typed, StartedIs
  <2>2. t \in Texts
    BY <1>1, <2>1, Typed, RewrittenIs
  <2> HIDE DEF c
  <2>3. /\ c \in Libraries /\ c.file = file /\ c.made = [made EXCEPT ![k] = @ + 1]
    BY <2>1 DEF Rewritten
  <2> HIDE DEF t
  <2>4. \A r \in {Created(c, k, t), Edited(c, k, t), WithFile(c, k, t)} :
          /\ r \in Libraries /\ r.made = c.made
          /\ r.file = c.file \/ r.file = [c.file EXCEPT ![k] = t]
    BY <2>2, <2>3, CreatedIs, EditedIs, WithFileIs
  <2> QED BY <2>3, <2>4 DEF Rewritten, c, t
<1>2. ASSUME NEW k \in Skills, Create(k) \/ Edit(k) \/ WriteByHand(k)
      PROVE  Sound(Library)' /\ WritesFresh /\ UNCHANGED scan
  <2> DEFINE c == Composed(Library, k)
             t == NewText(Library, k)
  <2>1. Room(Library, k) /\ UNCHANGED scan
    BY <1>2 DEF Create, Edit, WriteByHand
  <2>2. \E r \in {Created(c, k, t), Edited(c, k, t), WithFile(c, k, t)} : BecomeLibrary(r)
    BY <1>2 DEF Create, Edit, WriteByHand
  <2>3. PICK r \in {Created(c, k, t), Edited(c, k, t), WithFile(c, k, t)} : BecomeLibrary(r)
    BY <2>2
  <2>4. Rewritten(r, k)
    BY <1>1, <2>1
  <2> QED BY <2>1, <2>3, <2>4, OneWritten
<1>3. ASSUME NEW k \in Skills, SetPinned(k)
      PROVE  Sound(Library)' /\ WritesFresh /\ UNCHANGED scan
  <2>1. pinned' \in [Skills -> BOOLEAN]
    BY <1>3, LibraryTyped DEF SetPinned
  <2> QED BY <1>3, <2>1, LibraryTyped, RowsOnly DEF SetPinned
<1>4. ASSUME NEW k \in Skills, Delete(k)
      PROVE  Sound(Library)' /\ WritesFresh /\ UNCHANGED scan
  <2>1. /\ file' = [file EXCEPT ![k] = NoFile]
        /\ UNCHANGED <<made, status, origin, pinned, kept, scan>>
    BY <1>4 DEF Delete
  <2>2. NoFile \in Texts /\ \A j \in Skills : made[j] \in Nat
    BY LibraryTyped, MaxTextsAssumption DEF NoFile, Texts
  <2>3. file' \in [Skills -> Texts] /\ \A j \in Skills : file'[j] \in {file[j], NoFile}
    BY <2>1, <2>2, LibraryTyped
  <2>4. Library' \in Libraries
    BY <2>1, <2>3, LibraryTyped DEF Libraries, Library
  <2>5. \A j \in Skills : file'[j] <= made'[j] /\ made[j] <= made'[j]
    BY <2>1, <2>2, <2>3, Typed DEF Sound, Library, NoFile
  <2> QED BY <2>1, <2>3, <2>4, <2>5 DEF Sound, Library, WritesFresh
<1>5. ASSUME NEW k \in Skills, CheckPromotion(k)
      PROVE  Sound(Library)' /\ WritesFresh /\ UNCHANGED scan
  <2>1. PICK new \in Statuses : status' = [status EXCEPT ![k] = new]
    BY <1>5, LibraryTyped DEF CheckPromotion, Statuses
  <2>2. status' \in [Skills -> Statuses]
    BY <2>1, LibraryTyped
  <2> QED BY <1>5, <2>2, LibraryTyped, RowsOnly DEF CheckPromotion
<1>6. ASSUME Curate
      PROVE  Sound(Library)' /\ WritesFresh /\ UNCHANGED scan
  <2>1. PICK D \in SUBSET Skills, S \in SUBSET Skills :
          BecomeLibrary(Transitioned(Transitioned(Library, D, "deprecated", file),
                                     S, "stale", file))
    BY <1>6 DEF Curate, Evolvable
  <2> DEFINE r == Transitioned(Library, D, "deprecated", file)
             s == Transitioned(r, S, "stale", file)
  <2>2. /\ D \in SUBSET {k \in Skills : file[k] \in Texts}
        /\ S \in SUBSET {k \in Skills : file[k] \in Texts}
        /\ "deprecated" \in Statuses /\ "stale" \in Statuses
    BY LibraryTyped DEF Statuses
  <2>3. r \in Libraries /\ r.file = file /\ r.made = made
    BY <2>2, Typed, TransitionedIs, LibraryIs
  <2> HIDE DEF r
  <2>4. s \in Libraries /\ s.file = file /\ s.made = made
    BY <2>2, <2>3, TransitionedIs
  <2> HIDE DEF s
  <2>5. Sound(s)
    BY <2>4, Typed DEF Sound, Library
  <2>6. BecomeLibrary(s)
    BY <2>1 DEF s, r
  <2>7. Sound(Library)' /\ UNCHANGED <<file, made>>
    BY <2>4, <2>5, <2>6, Became
  <2>8. WritesFresh
    BY <2>7, LibraryTyped, MaxTextsAssumption DEF WritesFresh, Texts
  <2> QED BY <1>6, <2>7, <2>8 DEF Curate
<1> QED BY <1>2, <1>3, <1>4, <1>5, <1>6 DEF Change

\* The indexer writes none.
LEMMA RefreshWrites ==
    ASSUME EvolutionInv, Refresh
    PROVE  /\ Sound(Library)' /\ WritesFresh
           /\ scan' \in [files : SUBSET Skills, rows : SUBSET Skills]
<1>1. CASE BeginRefresh \/ RefreshFails
  <2>1. /\ UNCHANGED <<file, made, status, origin, pinned, kept>>
        /\ scan' \in [files : SUBSET Skills, rows : SUBSET Skills]
    BY <1>1 DEF BeginRefresh, RefreshFails, library, NoScan
  <2> QED BY <2>1, LibraryTyped, RowsOnly
<1>2. CASE EndRefresh
  <2>1. /\ UNCHANGED <<file, made, kept>>
        /\ scan' \in [files : SUBSET Skills, rows : SUBSET Skills]
    BY <1>2 DEF EndRefresh, NoScan
  <2>2. status' \in [Skills -> Statuses]
    BY <1>2, LibraryTyped DEF EndRefresh, Statuses
  <2>3. origin' \in [Skills -> {"agent", "user"}]
    BY <1>2, LibraryTyped DEF EndRefresh
  <2>4. pinned' \in [Skills -> BOOLEAN]
    BY <1>2, LibraryTyped DEF EndRefresh
  <2> QED BY <2>1, <2>2, <2>3, <2>4, LibraryTyped, RowsOnly
<1> QED BY <1>1, <1>2 DEF Refresh

\* All of these.
LEMMA ForegroundKeeps ==
    ASSUME EvolutionInv, Foreground
    PROVE  EvolutionInv'
<1>1. StillShielded /\ UNCHANGED <<gate, cyc, pending, faults>>
  BY DEF Foreground
<1>2. /\ Sound(Library)' /\ WritesFresh
      /\ scan' \in [files : SUBSET Skills, rows : SUBSET Skills]
  BY ChangeWrites, RefreshWrites, LibraryTyped DEF Foreground
<1>3. Approvals'
  <2>1. file' \in [Skills -> Texts] /\ made' \in [Skills -> Texts]
    BY <1>2 DEF Sound, Libraries, Library
  <2> QED BY <1>1, <1>2, <2>1, Typed, FreshKeepsApprovals DEF EvolutionInv
<1>4. \A k \in Skills : made[k] <= made'[k]
  BY <1>2 DEF WritesFresh
<1> QED BY <1>1, <1>2, <1>3, <1>4, BesideKeeps

-----------------------------------------------------------------------------
(* The theorems.                                                           *)

\* The invariant holds at the start.
LEMMA InitialInv ==
    ASSUME Init
    PROVE  EvolutionInv
<1>1. /\ cyc = Idle /\ pending = <<>> /\ shielded = {} /\ faults = 0
      /\ gate \in {"off", "approve"} /\ scan = NoScan
  BY DEF Init, StoreInit
<1>2. PICK L \in SUBSET Skills :
        /\ file = [k \in Skills |-> IF k \in L THEN 1 ELSE NoFile]
        /\ made = file
        /\ status = [k \in Skills |-> IF k \in L THEN "active" ELSE "none"]
        /\ origin = [k \in Skills |-> IF k \in L THEN "agent" ELSE "user"]
        /\ pinned = [k \in Skills |-> FALSE]
        /\ kept = {}
  BY DEF Init, StoreInit
<1>3. Sound(Library)
  <2>1. 1 \in Texts /\ NoFile \in Texts
    BY MaxTextsAssumption DEF Texts, NoFile
  <2>2. file \in [Skills -> Texts]
    BY <1>2, <2>1
  <2>3. Library \in Libraries
    BY <1>2, <2>2 DEF Library, Libraries, Statuses
  <2>4. \A k \in Skills : file[k] <= made[k]
    BY <1>2, <2>2, MaxTextsAssumption DEF Texts
  <2> QED BY <2>3, <2>4 DEF Sound, Library
<1>4. Approvals
  BY <1>1 DEF Approvals, WritesOK, Distinct, Unapproved, Gone, OneWinsPerBase
<1>5. CycleOK(cyc, made, shielded) /\ shielded \subseteq Exempt
  BY <1>1 DEF CycleOK, Idle, Nothing, Phases
<1> QED BY <1>1, <1>3, <1>4, <1>5 DEF EvolutionInv, NoScan

\* Every step keeps it.
LEMMA StepInv ==
    ASSUME EvolutionInv, [Next]_vars
    PROVE  EvolutionInv'
<1>1. CASE CycleStep
  BY <1>1, CycleStepKeeps DEF CycleKeeps
<1>2. CASE \E i \in DOMAIN pending : Approve(i) \/ ApproveFails(i) \/ Reject(i)
  BY <1>2, ApproveKeeps, ApproveFailsKeeps, RejectKeeps DEF ApprovalKeeps
<1>3. CASE Foreground
  BY <1>3, ForegroundKeeps
<1>4. CASE Restart
  BY <1>4, RestartKeeps
<1>5. CASE UNCHANGED vars
  <2>1. /\ UNCHANGED <<file, made, status, origin, pinned, kept, scan>>
        /\ UNCHANGED <<gate, cyc, pending, shielded, faults>>
    BY <1>5 DEF vars, store, library
  <2>2. Approvals'
    BY <2>1, NothingWritten
  <2>3. Sound(Library)' /\ shielded' \subseteq Exempt' /\ CycleOK(cyc', made', shielded')
    BY <2>1, Typed DEF Sound, Library, Exempt
  <2> QED BY <2>1, <2>2, <2>3 DEF EvolutionInv
<1> QED BY <1>1, <1>2, <1>3, <1>4, <1>5 DEF Next

\* So it always holds.
LEMMA Inductive == Spec => []EvolutionInv
<1>1. Init => EvolutionInv
  BY InitialInv
<1>2. EvolutionInv /\ [Next]_vars => EvolutionInv'
  BY StepInv
<1> QED BY <1>1, <1>2, PTL DEF Spec

\* The cycle, the staged writes and the library are what their types say.
THEOREM TypeCorrect == Spec => []EvolutionTypeOK
<1>1. ASSUME EvolutionInv
      PROVE  EvolutionTypeOK
  <2>1. StoreTypeOK
    BY <1>1, LibraryTyped DEF StoreTypeOK, Texts, Statuses
  <2>2. /\ cyc.phase \in {"idle", "gepa", "rewriter", "umbrella", "designer"}
        /\ DOMAIN cyc.read \subseteq Skills
        /\ \A k \in DOMAIN cyc.read : cyc.read[k] \in 1 .. made[k]
        /\ cyc.jobs \subseteq SUBSET Skills /\ cyc.evolved \subseteq Skills
    BY <1>1, Typed DEF CycleOK, Phases
  <2>3. ASSUME NEW i \in DOMAIN pending
        PROVE  /\ pending[i].skill \in Skills
               /\ pending[i].text \in 1 .. made[pending[i].skill]
               /\ pending[i].base < pending[i].text
               /\ DOMAIN pending[i].siblings \subseteq Skills
               /\ pending[i].state \in {"pending", "approved", "rejected", "stale"}
    <3>1. pending[i] \in Writes
      BY <1>1 DEF EvolutionInv, Approvals, WritesOK
    <3>2. pending[i].state \in {"pending", "approved", "rejected", "stale"}
      BY <3>1 DEF Writes
    <3> QED BY <1>1, <3>2, Typed, WritesTyped DEF Approvals
  <2>4. gate \in {"off", "approve"} /\ shielded \subseteq Skills
    BY <1>1, Typed DEF EvolutionInv
  <2> QED BY <2>1, <2>2, <2>3, <2>4 DEF EvolutionTypeOK
<1> QED BY <1>1, Inductive, PTL

\* Of the writes staged on the same text, at most one is ever approved: the
\* others find that the file is no longer what they were to replace.
THEOREM OneApprovalPerBase == Spec => []OneWinsPerBase
<1>1. EvolutionInv => OneWinsPerBase
  BY DEF EvolutionInv, Approvals
<1> QED BY <1>1, Inductive, PTL

\* Under the gate no phase of the cycle changes a file.
THEOREM GatedCycleOnlyStages == Spec => GateHolds
<1>1. EvolutionInv => (gate = "approve" /\ file' # file => ~CycleStep)
  BY CycleStepKeeps DEF CycleKeeps
<1>2. EvolutionInv => [gate = "approve" /\ file' # file => ~CycleStep]_vars
  BY <1>1
<1> QED BY <1>2, Inductive, PTL DEF GateHolds

\* A skill that was exempt during the whole cycle is not touched by it.
THEOREM ExemptIsUntouched == Spec => ShieldedUntouched
<1> DEFINE Untouched ==
        \A k \in shielded \ {j \in Skills : Creatable(Library, j)} :
            file'[k] # file[k] \/ status'[k] # status[k] \/ origin'[k] # origin[k]
            => ~CycleStep
<1>1. EvolutionInv => Untouched
  BY CycleStepKeeps DEF CycleKeeps
<1>2. EvolutionInv => [Untouched]_vars
  BY <1>1
<1> QED BY <1>2, Inductive, PTL DEF ShieldedUntouched

\* GEPA and an approval keep what they replace, the rewriter keeps what it read.
THEOREM ReplacedIsKept == Spec => OverwrittenIsKept
<1> DEFINE Kept == \A k \in Skills : Loses(k) =>
        /\ ~GepaAnswers /\ ~ApprovalStep
        /\ RewriterAnswers => cyc.read[k] # file[k]
<1>1. EvolutionInv => Kept
  <2>1. ASSUME EvolutionInv, NEW k \in Skills, Loses(k)
        PROVE  /\ ~GepaAnswers /\ ~ApprovalStep
               /\ RewriterAnswers => cyc.read[k] # file[k]
    <3>1. ~GepaAnswers
      BY <2>1, GepaAnswersKeeps
    <3>2. ~ApprovalStep
      BY <2>1, ApproveKeeps, ApproveFailsKeeps DEF ApprovalStep, ApprovalKeeps
    <3>3. RewriterAnswers => cyc.read[k] # file[k]
      BY <2>1, RewriterAnswersKeeps
    <3> QED BY <3>1, <3>2, <3>3
  <2> QED BY <2>1
<1>2. EvolutionInv => [Kept]_vars
  BY <1>1
<1> QED BY <1>2, Inductive, PTL DEF OverwrittenIsKept

\* No approval deprecates a skill without leaving an active umbrella with a new
\* text, wherever it fails.
THEOREM NothingAbsorbedIsLost == Spec => AbsorbedIsCovered
<1> DEFINE Covered ==
        (\E k \in Skills : status[k] # status'[k] /\ status'[k] = "deprecated")
        /\ (\A u \in Skills : status'[u] = "active" => file'[u] = file[u])
        => ~ApprovalStep
<1>1. EvolutionInv => Covered
  BY ApproveKeeps, ApproveFailsKeeps DEF ApprovalStep, ApprovalKeeps
<1>2. EvolutionInv => [Covered]_vars
  BY <1>1
<1> QED BY <1>2, Inductive, PTL DEF AbsorbedIsCovered
=============================================================================
