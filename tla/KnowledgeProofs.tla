--------------------------- MODULE KnowledgeProofs ---------------------------
(***************************************************************************)
(* Principles: three writers that wait beside each other keep them apart,  *)
(* findable and a person's own, for every set of rules and any number of   *)
(* rows, operations and staged lists.  Facts: any number of calls, sweeps, *)
(* ended sessions and restarts leave time running forward, no lesson       *)
(* stored twice and no vector or link without its fact.  Memory files: a   *)
(* consolidation forgets nothing, however the file is cut into entries.    *)
(***************************************************************************)
EXTENDS Knowledge, FiniteSetTheorems, SequenceTheorems, WellFoundedInduction, TLAPS

Row == [rule : Rules \cup {None}, origin : Author, by : Author, vec : Rules \cup {None},
        live : BOOLEAN]
Call == [pc : {"idle", "asking", "embedding", "applying"}, rule : Rules \cup {None},
         left : 0 .. MaxOps, item : 0 .. MaxPending]

\* What may be in the writers' hands: a row being embedded is one still to apply.
Calls == {f \in [Writers -> Call] :
            \A w \in Writers \ {"tool"} : f[w].pc = "embedding" => f[w].left > 0}

Typed == PrinciplesTypeOK /\ call \in Calls

OwnHand == \A i \in RowIds : Live(i) /\ rows[i].origin = "agent" => rows[i].by = "agent"

\* The inductive invariant.
PrinciplesInv == Typed /\ Findable /\ NoTwinPrinciples /\ OwnHand

\* Of a step: the rows there were keep their origin; those still live were so
\* before, with the same vector; and those of a person are as they were.
RowsKept ==
  \A i \in RowIds :
    /\ rows'[i].origin = rows[i].origin
    /\ rows'[i].live => rows[i].live /\ rows'[i].vec = rows[i].vec
    /\ (rows[i].live /\ rows[i].origin = "agent") =>
         rows'[i].live /\ rows'[i].by = "agent" /\ rows'[i].rule = rows[i].rule

\* What a step makes of the index is no more than is live, and all of it unless marked.
IndexKept ==
  /\ index' \subseteq {i \in DOMAIN rows' : rows'[i].live}
  /\ marked' \/ \A i \in DOMAIN rows' : rows'[i].live => i \in index'

-----------------------------------------------------------------------------
LEMMA RowsTyped ==
    ASSUME PrinciplesInv
    PROVE  /\ rows \in Seq(Row) /\ Len(rows) \in Nat /\ DOMAIN rows = RowIds
           /\ \A i \in RowIds : rows[i] \in Row
<1>1. rows \in Seq(Row)
  BY DEF PrinciplesInv, Typed, PrinciplesTypeOK, Row
<1>. QED BY <1>1 DEF RowIds

\* A step that neither inserts nor takes from the index more than it takes away.
LEMMA SameRows ==
    ASSUME PrinciplesInv, Typed', Len(rows') = Len(rows), RowsKept, IndexKept
    PROVE  PrinciplesInv'
<1>1. RowIds' = RowIds /\ DOMAIN rows' = RowIds
  <2>1. rows \in Seq(Row) /\ rows' \in Seq(Row)
    BY DEF PrinciplesInv, Typed, PrinciplesTypeOK, Row
  <2>. QED BY <2>1 DEF RowIds
<1>2. Findable'
  BY <1>1 DEF IndexKept, Findable, Live
<1>3. NoTwinPrinciples'
  BY <1>1 DEF PrinciplesInv, NoTwinPrinciples, RowsKept, Live
<1>4. OwnHand'
  BY <1>1 DEF PrinciplesInv, OwnHand, RowsKept, Live
<1>. QED BY <1>2, <1>3, <1>4 DEF PrinciplesInv

\* A function on 1 .. n is a sequence of its values.
LEMMA FunIsSeq ==
    ASSUME NEW n \in Nat, NEW f, NEW T, f = [i \in 1 .. n |-> f[i]], \A i \in 1 .. n : f[i] \in T
    PROVE  f \in Seq(T) /\ Len(f) = n /\ DOMAIN f = 1 .. n
<1>1. f \in [1 .. n -> T]
  OBVIOUS
<1>. QED BY <1>1

\* Taking curated rows away, with their index rows.
LEMMA WithoutKept ==
    ASSUME PrinciplesInv, NEW S \in SUBSET {i \in RowIds : Curated(i)},
           rows' = Without(S), index' = index \ S, marked' = marked
    PROVE  /\ rows' \in Seq(Row) /\ Len(rows') = Len(rows) /\ RowsKept /\ IndexKept
           /\ index' \subseteq RowIds
<1>1. /\ rows \in Seq(Row) /\ Len(rows) \in Nat /\ RowIds = 1 .. Len(rows)
      /\ \A i \in RowIds : rows[i] \in Row
  BY RowsTyped DEF RowIds
<1>2. ASSUME NEW i \in RowIds
      PROVE  /\ rows'[i] \in Row /\ rows'[i].origin = rows[i].origin
             /\ i \in S => ~rows'[i].live
             /\ i \notin S => rows'[i] = rows[i]
  <2>1. rows'[i] = IF i \in S THEN [rows[i] EXCEPT !.live = FALSE, !.vec = None, !.rule = None]
                   ELSE rows[i]
    BY DEF Without
  <2>. QED BY <1>1, <2>1 DEF Row
<1>3. rows' \in Seq(Row) /\ Len(rows') = Len(rows) /\ DOMAIN rows' = RowIds
  <2>1. /\ rows' = [i \in 1 .. Len(rows) |-> rows'[i]]
        /\ \A i \in 1 .. Len(rows) : rows'[i] \in Row
    BY <1>1, <1>2 DEF Without
  <2>. QED BY <1>1, <2>1, FunIsSeq
<1>4. \A i \in S : rows[i].origin = "curator"
  BY DEF Curated
<1>5. RowsKept
  BY <1>2, <1>4 DEF RowsKept, PrinciplesInv, OwnHand, Live
<1>6. IndexKept
  BY <1>2, <1>3 DEF IndexKept, PrinciplesInv, Findable, Live
<1>7. index' \subseteq RowIds
  BY DEF PrinciplesInv, Typed, PrinciplesTypeOK
<1>. QED BY <1>3, <1>5, <1>6, <1>7

\* Changing one row's author, and its text when it is a curated one.
LEMMA OneRowKept ==
    ASSUME PrinciplesInv, NEW d \in RowIds, NEW f \in Row,
           rows' = [rows EXCEPT ![d] = f], index' = index, marked' = marked,
           f.origin = rows[d].origin, f.live = rows[d].live, f.vec = rows[d].vec,
           rows[d].origin = "agent" => f.by = "agent" /\ f.rule = rows[d].rule
    PROVE  /\ rows' \in Seq(Row) /\ Len(rows') = Len(rows) /\ RowsKept /\ IndexKept
<1>1. rows \in Seq(Row) /\ DOMAIN rows = RowIds /\ RowIds = 1 .. Len(rows)
  BY RowsTyped DEF RowIds
<1>2. rows' \in Seq(Row) /\ Len(rows') = Len(rows) /\ DOMAIN rows' = RowIds
  BY <1>1
<1>3. \A i \in RowIds : rows'[i] = IF i = d THEN f ELSE rows[i]
  BY <1>1
<1>4. RowsKept
  BY <1>3 DEF RowsKept, PrinciplesInv, OwnHand, Live
<1>5. IndexKept
  BY <1>2, <1>3 DEF IndexKept, PrinciplesInv, Findable, Live
<1>. QED BY <1>2, <1>4, <1>5

LEMMA NothingChanged ==
    ASSUME PrinciplesInv, rows' = rows, index' = index, marked => marked'
    PROVE  RowsKept /\ IndexKept
<1>1. DOMAIN rows = RowIds
  BY RowsTyped
<1>. QED BY <1>1 DEF RowsKept, IndexKept, PrinciplesInv, Findable, OwnHand, Live

-----------------------------------------------------------------------------
LEMMA InitialPrinciples == PrinciplesInit => PrinciplesInv
<1> SUFFICES ASSUME PrinciplesInit PROVE PrinciplesInv
  OBVIOUS
<1>1. rows = <<>> /\ RowIds = {} /\ Len(rows) = 0 /\ pending = <<>> /\ Len(pending) = 0
  BY DEF PrinciplesInit, RowIds
<1>2. Resting \in Call
  BY PrinciplesAssumption DEF Resting, Call, None
<1>3. call \in Calls
  BY <1>2 DEF PrinciplesInit, Calls, Resting
<1>4. Typed
  <2>1. rows \in Seq(Row) /\ pending \in Seq({"pending", "approved", "rejected"})
    BY <1>1
  <2>2. call \in [Writers -> Call]
    BY <1>3 DEF Calls
  <2>3. index \subseteq RowIds /\ broken \in BOOLEAN /\ marked \in BOOLEAN
    BY DEF PrinciplesInit
  <2>. QED BY <1>1, <1>3, <2>1, <2>2, <2>3, PrinciplesAssumption
       DEF Typed, PrinciplesTypeOK, Call, Row
<1>. QED BY <1>1, <1>4 DEF PrinciplesInit, PrinciplesInv, Findable, NoTwinPrinciples, OwnHand

\* What the steps below leave alone of the types.
LEMMA StepTyped ==
    ASSUME PrinciplesInv, rows' \in Seq(Row), Len(rows') <= MaxRows,
           index' \subseteq 1 .. Len(rows'), broken' \in BOOLEAN, marked' \in BOOLEAN,
           call' \in Calls, pending' \in Seq({"pending", "approved", "rejected"}),
           Len(pending') <= MaxPending
    PROVE  Typed'
BY DEF Typed, PrinciplesTypeOK, RowIds, Row, Call, Calls

LEMMA CallsTyped ==
    ASSUME PrinciplesInv
    PROVE  /\ call \in Calls /\ call \in [Writers -> Call] /\ \A w \in Writers : call[w] \in Call
           /\ Resting \in Call /\ Resting.pc = "idle"
           /\ pending \in Seq({"pending", "approved", "rejected"}) /\ Len(pending) <= MaxPending
           /\ Len(pending) \in Nat /\ broken \in BOOLEAN /\ marked \in BOOLEAN
           /\ index \subseteq 1 .. Len(rows) /\ Len(rows) <= MaxRows
           /\ {"tool", "curator", "approval"} = Writers
<1>1. call \in Calls /\ call \in [Writers -> Call]
  BY DEF PrinciplesInv, Typed, PrinciplesTypeOK, Call
<1>2. Resting \in Call /\ Resting.pc = "idle"
  BY PrinciplesAssumption DEF Call, Resting, None
<1>. QED BY <1>1, <1>2 DEF PrinciplesInv, Typed, PrinciplesTypeOK, RowIds, Writers

\* All writers end.
LEMMA AllRest == ASSUME PrinciplesInv PROVE [w \in Writers |-> Resting] \in Calls
BY CallsTyped DEF Calls

\* One writer goes on.
LEMMA OneCall ==
    ASSUME PrinciplesInv, NEW w \in Writers, NEW c \in Call,
           w = "tool" \/ c.pc # "embedding" \/ c.left > 0
    PROVE  [call EXCEPT ![w] = c] \in Calls
<1>1. call \in [Writers -> Call] /\ call \in Calls
  BY CallsTyped DEF Calls
<1>. QED BY <1>1 DEF Calls

\* A step that changes no row: calls, staged lists, the mirror's marks.
LEMMA QuietStep ==
    ASSUME PrinciplesInv, rows' = rows, index' = index, marked => marked',
           broken' \in BOOLEAN, marked' \in BOOLEAN, call' \in Calls,
           pending' \in Seq({"pending", "approved", "rejected"}), Len(pending') <= MaxPending
    PROVE  PrinciplesInv' /\ RowsKept
<1>1. Typed'
  BY RowsTyped, CallsTyped, StepTyped
<1>. QED BY <1>1, NothingChanged, SameRows

\* The calls after an operation.
LEMMA OneLessTyped ==
    ASSUME PrinciplesInv, NEW w \in Writers, Applying(w)
    PROVE  OneLess(w) \in Calls
<1> DEFINE c == [call[w] EXCEPT !.left = @ - 1]
<1>1. call \in [Writers -> Call] /\ call[w] \in Call /\ call[w].left > 0 /\ call[w].pc = "applying"
  BY CallsTyped DEF Applying, Calls
<1>2. c \in Call /\ c.pc = "applying"
  BY <1>1, PrinciplesAssumption DEF Call
<1>3. OneLess(w) = [call EXCEPT ![w] = c]
  BY <1>1 DEF OneLess
<1> HIDE DEF c
<1>. QED BY <1>2, <1>3, OneCall

LEMMA UpdateOrPrune ==
    ASSUME PrinciplesInv, NEW w \in Writers, NEW i \in RowIds,
           ApplyPrune(w, i) \/ \E r \in Rules : ApplyUpdate(w, i, r)
    PROVE  PrinciplesInv' /\ RowsKept
<1>0. Applying(w) /\ call' = OneLess(w) /\ UNCHANGED <<broken, marked, pending>>
  BY DEF ApplyPrune, ApplyUpdate
<1>1. ASSUME rows' \in Seq(Row), Len(rows') = Len(rows), RowsKept, IndexKept, index' \subseteq RowIds
      PROVE  PrinciplesInv' /\ RowsKept
  <2>1. Typed'
    BY <1>0, <1>1, CallsTyped, OneLessTyped, StepTyped DEF RowIds
  <2>. QED BY <1>1, <2>1, SameRows
<1>2. CASE ApplyPrune(w, i)
  <2> DEFINE S == IF Curated(i) /\ ~broken THEN {i} ELSE {}
  <2>1. rows' = Without(S) /\ index' = index \ S /\ S \in SUBSET {j \in RowIds : Curated(j)}
    BY <1>2 DEF ApplyPrune
  <2> HIDE DEF S
  <2>. QED BY <1>0, <1>1, <2>1, WithoutKept
<1>3. ASSUME NEW r \in Rules, ApplyUpdate(w, i, r) PROVE PrinciplesInv' /\ RowsKept
  <2>1. index' = index /\ index \subseteq RowIds
    BY <1>3, CallsTyped DEF ApplyUpdate, RowIds
  <2>2. CASE Curated(i)
    <3> DEFINE f == [rows[i] EXCEPT !.rule = r, !.by = "curator"]
    <3>1. rows[i] \in Row /\ rows[i].origin = "curator"
      BY <2>2, RowsTyped DEF Curated
    <3>2. /\ f \in Row /\ f.origin = rows[i].origin /\ f.live = rows[i].live
          /\ f.vec = rows[i].vec
      BY <3>1 DEF Row, Author
    <3>3. rows' = [rows EXCEPT ![i] = f]
      BY <1>3, <2>2, RowsTyped DEF ApplyUpdate
    <3> HIDE DEF f
    <3>. QED BY <1>0, <1>1, <2>1, <3>1, <3>2, <3>3, OneRowKept
  <2>3. CASE ~Curated(i)
    <3>1. rows' = rows
      BY <1>3, <2>3 DEF ApplyUpdate
    <3>. QED BY <1>0, <2>1, <3>1, CallsTyped, OneLessTyped, QuietStep
  <2>. QED BY <2>2, <2>3
<1>. QED BY <1>2, <1>3

LEMMA CurationEnds ==
    ASSUME PrinciplesInv, NEW S \in SUBSET RowIds, FinishCuration(S)
    PROVE  PrinciplesInv' /\ RowsKept
<1>1. /\ S \in SUBSET {i \in RowIds : Curated(i)} /\ rows' = Without(S) /\ index' = index \ S
      /\ call' = [call EXCEPT !["curator"] = Resting] /\ UNCHANGED <<broken, marked, pending>>
  BY DEF FinishCuration, OverBudget
<1>2. rows' \in Seq(Row) /\ Len(rows') = Len(rows) /\ RowsKept /\ IndexKept /\ index' \subseteq RowIds
  BY <1>1, WithoutKept
<1>3. call' \in Calls
  BY <1>1, CallsTyped, OneCall
<1>4. Typed'
  BY <1>1, <1>2, <1>3, CallsTyped, StepTyped DEF RowIds
<1>. QED BY <1>2, <1>4, SameRows

\* A duplicate is looked for and the row inserted with no wait in between.
LEMMA UpsertKept ==
    ASSUME PrinciplesInv, NEW w \in Writers, NEW embedded \in BOOLEAN, Upsert(w, embedded)
    PROVE  PrinciplesInv' /\ RowsKept
<1> DEFINE r == call[w].rule
           dups == IF embedded THEN Duplicates(r) ELSE {}
           id == Len(rows) + 1
<1>1. /\ call' = Goes(w) /\ broken' = broken /\ pending' = pending /\ r \in Rules \cup {None}
      /\ Origin(w) \in Author
  <2>1. call[w] \in Call
    BY CallsTyped
  <2>. QED BY <2>1 DEF Upsert, Call, Origin, Author
<1>2. call' \in Calls
  <2> DEFINE c == [call[w] EXCEPT !.pc = "applying", !.rule = None, !.left = @ - 1]
  <2>1. /\ call \in Calls /\ call[w] \in Call /\ Resting \in Call /\ Resting.pc = "idle"
        /\ call[w].pc = "embedding" /\ call \in [Writers -> Call]
    BY CallsTyped DEF Upsert
  <2>2. CASE w = "tool"
    BY <1>1, <2>1, <2>2, OneCall DEF Goes
  <2>3. CASE w # "tool"
    <3>1. call[w].left > 0
      BY <2>1, <2>3 DEF Calls
    <3>2. c \in Call /\ c.pc = "applying"
      <4>1. call[w].left - 1 \in 0 .. MaxOps /\ call[w].left \in 0 .. MaxOps
        BY <2>1, <3>1, PrinciplesAssumption DEF Call
      <4>2. c = [call[w] EXCEPT !.pc = "applying", !.rule = None, !.left = call[w].left - 1]
        OBVIOUS
      <4>. QED BY <2>1, <4>1, <4>2 DEF Call
    <3>3. call' = [call EXCEPT ![w] = c]
      BY <1>1, <2>1, <2>3 DEF Goes
    <3> HIDE DEF c
    <3>. QED BY <3>2, <3>3, OneCall
  <2>. QED BY <2>2, <2>3
<1>3. /\ rows \in Seq(Row) /\ Len(rows) \in Nat /\ DOMAIN rows = RowIds /\ RowIds = 1 .. Len(rows)
      /\ \A i \in RowIds : rows[i] \in Row
  BY RowsTyped DEF RowIds
<1>4. ASSUME NEW d \in dups,
             rows' = (IF w # "tool" /\ rows[d].origin = "agent" THEN rows
                      ELSE [rows EXCEPT ![d].by = Origin(w)]),
             UNCHANGED <<index, marked>>
      PROVE  PrinciplesInv' /\ RowsKept
  <2>1. d \in RowIds
    BY DEF Duplicates
  <2>2. CASE w # "tool" /\ rows[d].origin = "agent"
    <3>1. rows' = rows
      BY <1>4, <2>2
    <3>. QED BY <1>1, <1>2, <1>4, <3>1, CallsTyped, QuietStep
  <2>3. CASE ~(w # "tool" /\ rows[d].origin = "agent")
    <3> DEFINE f == [rows[d] EXCEPT !.by = Origin(w)]
    <3>1. /\ f \in Row /\ f.origin = rows[d].origin /\ f.live = rows[d].live
          /\ f.vec = rows[d].vec /\ f.rule = rows[d].rule /\ f.by = Origin(w)
      BY <1>1, <1>3, <2>1 DEF Row
    <3>2. rows' = [rows EXCEPT ![d] = f]
      BY <1>4, <2>3, <2>1, <1>3
    <3>3. rows[d].origin = "agent" => f.by = "agent"
      BY <2>3, <3>1 DEF Origin
    <3> HIDE DEF f
    <3>4. rows' \in Seq(Row) /\ Len(rows') = Len(rows) /\ RowsKept /\ IndexKept
      BY <1>4, <2>1, <3>1, <3>2, <3>3, OneRowKept
    <3>5. Typed'
      BY <1>1, <1>2, <1>4, <3>4, CallsTyped, StepTyped
    <3>. QED BY <3>4, <3>5, SameRows
  <2>. QED BY <2>2, <2>3
<1>5. ASSUME dups = {}, Len(rows) < MaxRows,
             rows' = Append(rows, [rule |-> r, origin |-> Origin(w), by |-> Origin(w),
                                   vec |-> IF embedded THEN r ELSE None, live |-> TRUE]),
             index' = (IF broken THEN index ELSE index \cup {id}),
             marked' = (marked \/ broken)
      PROVE  PrinciplesInv' /\ RowsKept
  <2> DEFINE new == [rule |-> r, origin |-> Origin(w), by |-> Origin(w),
                     vec |-> IF embedded THEN r ELSE None, live |-> TRUE]
  <2>1. new \in Row /\ new.live /\ new.by = new.origin
        /\ new.vec = (IF embedded THEN r ELSE None)
    BY <1>1 DEF Row
  <2> HIDE DEF new
  <2>2. /\ rows' \in Seq(Row) /\ Len(rows') = id /\ DOMAIN rows' = RowIds \cup {id}
        /\ id \notin RowIds /\ rows'[id] = new /\ \A i \in RowIds : rows'[i] = rows[i]
    BY <1>3, <1>5, <2>1 DEF new
  <2>3. RowIds' = RowIds \cup {id}
    BY <2>2, <1>3 DEF RowIds
  <2>4. Typed'
    <3>1. index' \subseteq 1 .. Len(rows') /\ Len(rows') <= MaxRows /\ marked' \in BOOLEAN
      BY <1>3, <1>5, <2>2, CallsTyped, PrinciplesAssumption
    <3>. QED BY <1>1, <1>2, <2>2, <3>1, CallsTyped, StepTyped
  <2>5. RowsKept
    BY <2>2 DEF RowsKept, PrinciplesInv, OwnHand, Live
  <2>6. Findable'
    <3>1. broken \in BOOLEAN /\ marked \in BOOLEAN
      BY CallsTyped
    <3>2. CASE broken
      BY <1>5, <2>1, <2>2, <2>3, <3>2 DEF PrinciplesInv, Findable, Live
    <3>3. CASE ~broken
      BY <1>5, <2>1, <2>2, <2>3, <3>3 DEF PrinciplesInv, Findable, Live
    <3>. QED BY <3>2, <3>3
  <2>7. ASSUME NEW i \in RowIds, Live(i), rows[i].vec = new.vec PROVE new.vec = None
    BY <1>5, <2>1, <2>7 DEF Duplicates
  <2>8. NoTwinPrinciples'
    BY <2>1, <2>2, <2>3, <2>7 DEF PrinciplesInv, NoTwinPrinciples, Live
  <2>9. OwnHand'
    BY <2>1, <2>2, <2>3 DEF PrinciplesInv, OwnHand, Live
  <2>. QED BY <2>4, <2>5, <2>6, <2>8, <2>9 DEF PrinciplesInv
<1>. QED BY <1>4, <1>5 DEF Upsert

LEMMA ReopenKept ==
    ASSUME PrinciplesInv, NEW repaired \in BOOLEAN, ReopenPrinciples(repaired)
    PROVE  PrinciplesInv' /\ RowsKept
<1>1. /\ call' = [w \in Writers |-> Resting] /\ UNCHANGED <<rows, pending>>
      /\ broken' \in BOOLEAN /\ marked' \in BOOLEAN
  BY CallsTyped DEF ReopenPrinciples
<1>2. DOMAIN rows = RowIds /\ RowIds = 1 .. Len(rows) /\ rows \in Seq(Row)
  BY RowsTyped DEF RowIds
<1>3. IndexKept /\ index' \subseteq RowIds
  <2>1. CASE ~marked
    BY <1>1, <1>2, <2>1, CallsTyped
    DEF ReopenPrinciples, IndexKept, PrinciplesInv, Findable, Live
  <2>2. CASE marked /\ repaired
    BY <1>1, <1>2, <2>2 DEF ReopenPrinciples, IndexKept, Live
  <2>3. CASE marked /\ ~repaired
    BY <1>1, <1>2, <2>3, CallsTyped
    DEF ReopenPrinciples, IndexKept, PrinciplesInv, Findable, Live
  <2>. QED BY <2>1, <2>2, <2>3, CallsTyped
<1>4. RowsKept
  BY <1>1 DEF RowsKept, PrinciplesInv, OwnHand, Live
<1>5. call' \in Calls
  BY <1>1, AllRest
<1>6. Typed'
  BY <1>1, <1>2, <1>3, <1>5, CallsTyped, StepTyped
<1>. QED BY <1>1, <1>3, <1>4, <1>6, SameRows

\* Everything else changes calls, staged lists or marks only.
LEMMA OtherKept ==
    ASSUME PrinciplesInv,
           \/ \E r \in Rules : RecordPrinciple(r)
           \/ StartCuration \/ CuratorStages \/ \E n \in 0 .. MaxOps : CuratorApplies(n)
           \/ \E p \in 1 .. Len(pending) : Reject(p) \/ \E n \in 1 .. MaxOps : StartApproval(p, n)
           \/ \E w \in Writers, r \in Rules : ApplyAdd(w, r)
           \/ FinishApproval \/ BreakIndex \/ SearchPrinciples
    PROVE  PrinciplesInv' /\ RowsKept
<1>0. /\ call \in Calls /\ call \in [Writers -> Call] /\ \A w \in Writers : call[w] \in Call
      /\ Resting.pc = "idle" /\ Resting \in Call /\ Writers = {"tool", "curator", "approval"}
      /\ pending \in Seq({"pending", "approved", "rejected"}) /\ Len(pending) <= MaxPending
      /\ Len(pending) \in Nat /\ broken \in BOOLEAN /\ marked \in BOOLEAN
  BY CallsTyped
<1>1. ASSUME call' \in Calls, UNCHANGED <<rows, index, broken, marked>>,
             pending' \in Seq({"pending", "approved", "rejected"}), Len(pending') <= MaxPending
      PROVE  PrinciplesInv' /\ RowsKept
  BY <1>0, <1>1, QuietStep
<1>2. ASSUME NEW r \in Rules, RecordPrinciple(r) PROVE PrinciplesInv' /\ RowsKept
  <2>1. [Resting EXCEPT !.pc = "embedding", !.rule = r] \in Call
    BY <1>0 DEF Call
  <2>. QED BY <1>0, <1>1, <1>2, <2>1, OneCall DEF RecordPrinciple
<1>3. CASE StartCuration
  <2> DEFINE c == [call["curator"] EXCEPT !.pc = "asking"]
  <2>1. call["curator"] \in Call
    BY <1>0
  <2>2. c \in Call /\ c.pc = "asking"
    BY <2>1 DEF Call
  <2>3. call' = [call EXCEPT !["curator"] = c]
    BY <1>0, <1>3 DEF StartCuration
  <2> HIDE DEF c
  <2>4. call' \in Calls
    BY <1>0, <2>2, <2>3, OneCall
  <2>. QED BY <1>0, <1>1, <1>3, <2>4 DEF StartCuration
<1>4. CASE CuratorStages
  <2>1. call' \in Calls
    BY <1>0, <1>4, OneCall DEF CuratorStages
  <2>2. pending' \in Seq({"pending", "approved", "rejected"}) /\ Len(pending') <= MaxPending
    BY <1>0, <1>4, PrinciplesAssumption DEF CuratorStages
  <2>. QED BY <1>1, <1>4, <2>1, <2>2 DEF CuratorStages
<1>5. ASSUME NEW n \in 0 .. MaxOps, CuratorApplies(n) PROVE PrinciplesInv' /\ RowsKept
  <2> DEFINE c == [Resting EXCEPT !.pc = "applying", !.left = n]
  <2>1. c \in Call /\ c.pc = "applying"
    BY <1>0 DEF Call
  <2>2. call' = [call EXCEPT !["curator"] = c]
    BY <1>5 DEF CuratorApplies
  <2> HIDE DEF c
  <2>3. call' \in Calls
    BY <1>0, <2>1, <2>2, OneCall
  <2>. QED BY <1>0, <1>1, <1>5, <2>3 DEF CuratorApplies
<1>6. ASSUME NEW p \in 1 .. Len(pending), Reject(p) PROVE PrinciplesInv' /\ RowsKept
  <2>1. pending' \in Seq({"pending", "approved", "rejected"}) /\ Len(pending') = Len(pending)
    BY <1>0, <1>6 DEF Reject
  <2>. QED BY <1>0, <1>1, <1>6, <2>1 DEF Reject
<1>7. ASSUME NEW p \in 1 .. Len(pending), NEW n \in 1 .. MaxOps, StartApproval(p, n)
      PROVE  PrinciplesInv' /\ RowsKept
  <2>1. p \in 0 .. MaxPending /\ n \in 0 .. MaxOps
    BY <1>0, PrinciplesAssumption
  <2> DEFINE c == [Resting EXCEPT !.pc = "applying", !.left = n, !.item = p]
  <2>2. c \in Call /\ c.pc = "applying"
    BY <1>0, <2>1 DEF Call
  <2>3. call' = [call EXCEPT !["approval"] = c]
    BY <1>7 DEF StartApproval
  <2> HIDE DEF c
  <2>4. call' \in Calls
    BY <1>0, <2>2, <2>3, OneCall
  <2>. QED BY <1>0, <1>1, <1>7, <2>4 DEF StartApproval
<1>8. ASSUME NEW w \in Writers, NEW r \in Rules, ApplyAdd(w, r) PROVE PrinciplesInv' /\ RowsKept
  <2> DEFINE c == [call[w] EXCEPT !.pc = "embedding", !.rule = r]
  <2>1. call[w] \in Call /\ call[w].left > 0
    BY <1>0, <1>8 DEF ApplyAdd, Applying
  <2>2. c \in Call /\ c.left > 0
    BY <2>1 DEF Call
  <2>3. call' = [call EXCEPT ![w] = c]
    BY <1>0, <1>8 DEF ApplyAdd
  <2> HIDE DEF c
  <2>4. call' \in Calls
    BY <1>0, <2>2, <2>3, OneCall
  <2>. QED BY <1>0, <1>1, <1>8, <2>4 DEF ApplyAdd
<1>9. CASE FinishApproval
  <2>1. call' \in Calls
    BY <1>0, <1>9, OneCall DEF FinishApproval
  <2>2. pending' \in Seq({"pending", "approved", "rejected"}) /\ Len(pending') = Len(pending)
    <3>1. CASE call["approval"].item \in 1 .. Len(pending)
      BY <1>0, <1>9, <3>1 DEF FinishApproval
    <3>2. CASE call["approval"].item \notin 1 .. Len(pending)
      <4>1. pending' = pending
        BY <1>0, <1>9, <3>2 DEF FinishApproval
      <4>. QED BY <1>0, <4>1
    <3>. QED BY <3>1, <3>2
  <2>. QED BY <1>0, <1>1, <1>9, <2>1, <2>2 DEF FinishApproval
<1>10. CASE BreakIndex \/ SearchPrinciples
  <2>1. /\ UNCHANGED <<rows, index, call, pending>> /\ (marked => marked')
        /\ broken' \in BOOLEAN /\ marked' \in BOOLEAN
    BY <1>0, <1>10 DEF BreakIndex, SearchPrinciples
  <2>. QED BY <1>0, <2>1, QuietStep
<1>. QED BY <1>2, <1>3, <1>4, <1>5, <1>6, <1>7, <1>8, <1>9, <1>10

LEMMA InductivePrinciples ==
    ASSUME PrinciplesInv, [PrinciplesNext]_principleVars
    PROVE  PrinciplesInv' /\ RowsKept
<1>1. CASE UNCHANGED principleVars
  <2>1. UNCHANGED <<rows, index, broken, marked, call, pending>>
    BY <1>1 DEF principleVars
  <2>. QED BY <2>1, CallsTyped, QuietStep
<1>2. CASE PrinciplesNext
  BY <1>2, OtherKept, UpdateOrPrune, CurationEnds, UpsertKept, ReopenKept DEF PrinciplesNext
<1>. QED BY <1>1, <1>2

-----------------------------------------------------------------------------
LEMMA AlwaysPrinciples == PrinciplesSpec => []PrinciplesInv
BY InitialPrinciples, InductivePrinciples, PTL DEF PrinciplesSpec

\* Rows, index, writers and staged lists have their types; a live principle the
\* full-text index misses is one its marker remembers (Findable), through inserts
\* on a broken index, prunes, and rebuilds that fail.
THEOREM NoneIsHidden == PrinciplesSpec => [](PrinciplesTypeOK /\ Findable)
<1>1. PrinciplesInv => PrinciplesTypeOK /\ Findable
  BY DEF PrinciplesInv, Typed
<1>. QED BY <1>1, AlwaysPrinciples, PTL

\* The tool, the curator and an approval wait for embeddings side by side and
\* never leave one rule in two live rows with vectors (NoTwinPrinciples).
THEOREM RulesStayApart == PrinciplesSpec => []NoTwinPrinciples
<1>1. PrinciplesInv => NoTwinPrinciples
  BY DEF PrinciplesInv
<1>. QED BY <1>1, AlwaysPrinciples, PTL

OwnStep ==
  \A i \in RowIds : Live(i) /\ rows[i].origin = "agent"
    => /\ rows'[i].live /\ rows'[i].origin = "agent"
       /\ rows'[i].by = "agent" /\ rows'[i].rule = rows[i].rule

\* HumanRowsAreTheirs: whatever ids a model makes up, and whatever happened while
\* an operation waited, no step but the agent's own changes a row it recorded.
THEOREM PersonsRowsStay == PrinciplesSpec => HumanRowsAreTheirs
<1>1. RowsKept => OwnStep
  BY DEF RowsKept, OwnStep, Live
<1>2. PrinciplesInv /\ [PrinciplesNext]_principleVars => PrinciplesInv' /\ [OwnStep]_principleVars
  BY <1>1, InductivePrinciples
<1>3. PrinciplesSpec => [][OwnStep]_principleVars
  BY <1>2, InitialPrinciples, PTL DEF PrinciplesSpec
<1>. QED BY <1>3 DEF HumanRowsAreTheirs, OwnStep

-----------------------------------------------------------------------------
(* Facts and lessons.                                                      *)

Pcs == {"idle", "distilling", "linking", "judging", "sweeping"}
Job == [pc : Pcs, todo : SUBSET (Topics \cup Int), fact : Nat, cands : SUBSET Int,
        retired : SUBSET Int]
FactRow == [topic : Topics, kind : {"fact", "lesson"}, by : Nat, trusted : BOOLEAN,
            keep : BOOLEAN, live : BOOLEAN]

\* What a call holds across its waits, against the table tab: what it is about to
\* link is a fact, written before all that did not overlap with it; what it is
\* about to retire is older, or was written at the same time.
HandOK(j, tab, tog) ==
  /\ j.pc = "linking" =>
       /\ j.fact \in DOMAIN tab /\ tab[j.fact].kind = "fact"
       /\ \A g \in DOMAIN tab : g > j.fact => {g, j.fact} \in tog
  /\ j.pc = "judging" => \A g \in j.cands : g < j.fact \/ {g, j.fact} \in tog
  /\ j.pc = "sweeping" => \A g \in j.cands : g < j.fact

FactsTyped == facts \in Seq(FactRow) /\ vecs \subseteq Ids /\ job \in [Workers -> Job]

\* The inductive invariant.
FactsInv ==
  /\ FactsTyped /\ RetiredByLater /\ NoLiveTwins
  /\ \A w \in Workers : HandOK(job[w], facts, together)

\* Of a step: no row changes its topic, becomes a lesson or valid again; one that is
\* retired is retired by a later one, or one of the same time.
Aged ==
  \A f \in Ids :
    /\ facts'[f].topic = facts[f].topic /\ facts'[f].kind \in {facts[f].kind, "fact"}
    /\ facts'[f].live /\ facts'[f].by = 0 => facts[f].live /\ facts[f].by = 0
    /\ facts'[f].by # 0 => \/ facts'[f].by = facts[f].by \/ facts'[f].by > f
                           \/ {f, facts'[f].by} \in together

-----------------------------------------------------------------------------
LEMMA TableTyped ==
    ASSUME FactsInv
    PROVE  /\ facts \in Seq(FactRow) /\ Len(facts) \in Nat /\ Ids = 1 .. Len(facts)
           /\ DOMAIN facts = Ids /\ (\A f \in Ids : facts[f] \in FactRow)
           /\ vecs \subseteq Ids /\ job \in [Workers -> Job]
           /\ \A w \in Workers : job[w] \in Job /\ HandOK(job[w], facts, together)
<1>1. facts \in Seq(FactRow) /\ vecs \subseteq Ids /\ job \in [Workers -> Job]
  BY DEF FactsInv, FactsTyped
<1>2. Len(facts) \in Nat /\ DOMAIN facts = 1 .. Len(facts)
  BY <1>1
<1>. QED BY <1>1, <1>2 DEF FactsInv, Ids

\* The rows there are grow older: stamped, evicted, of other trust, or as they were.
LEMMA TableAged ==
    ASSUME FactsInv, facts' \in Seq(FactRow), Len(facts') = Len(facts), Aged,
           together' = together, vecs' \subseteq vecs,
           \A f \in vecs' : f \in passedOver => f \in passedOver',
           job' \in [Workers -> Job], \A w \in Workers : HandOK(job'[w], facts', together')
    PROVE  FactsInv'
<1>1. Ids' = Ids /\ vecs' \subseteq Ids
  BY TableTyped DEF Ids
<1>2. FactsTyped'
  BY <1>1 DEF FactsTyped
<1>3. RetiredByLater'
  BY <1>1 DEF FactsInv, RetiredByLater, Aged
<1>4. NoLiveTwins'
  <2>1. ASSUME NEW f \in vecs', NEW g \in vecs', f < g, facts'[f].kind = "lesson",
               facts'[g].kind = "lesson", facts'[f].topic = facts'[g].topic,
               facts'[f].live, facts'[f].by = 0, facts'[g].live, facts'[g].by = 0
        PROVE  f \in passedOver'
    <3>1. /\ f \in vecs /\ g \in vecs /\ f \in Ids /\ g \in Ids
      BY <1>1
    <3>2. /\ facts[f].kind = "lesson" /\ facts[g].kind = "lesson" /\ facts[f].topic = facts[g].topic
          /\ facts[f].live /\ facts[f].by = 0 /\ facts[g].live /\ facts[g].by = 0
      BY <2>1, <3>1 DEF Aged
    <3>3. f \in passedOver
      BY <2>1, <3>1, <3>2 DEF FactsInv, NoLiveTwins, Kind, Valid
    <3>. QED BY <3>3
  <2>. QED BY <2>1 DEF NoLiveTwins, Kind, Valid
<1>. QED BY <1>2, <1>3, <1>4 DEF FactsInv

\* A call that goes on holding what it held.
LEMMA HandStays ==
    ASSUME FactsInv, NEW j \in Job, HandOK(j, facts, together), together \subseteq together',
           Ids \subseteq DOMAIN facts', \A f \in Ids : facts'[f].kind \in {facts[f].kind, "fact"},
           \A g \in DOMAIN facts' \ Ids : j.pc = "linking" => {g, j.fact} \in together'
    PROVE  HandOK(j, facts', together')
<1>1. DOMAIN facts = Ids
  BY TableTyped
<1>. QED BY <1>1 DEF HandOK

\* One call goes on with j; the others keep what they hold.
LEMMA OneHand ==
    ASSUME FactsInv, NEW w \in Workers, NEW j \in Job, job' = [job EXCEPT ![w] = j],
           HandOK(j, facts', together'), together \subseteq together',
           Ids \subseteq DOMAIN facts', \A f \in Ids : facts'[f].kind \in {facts[f].kind, "fact"},
           \A g \in DOMAIN facts' \ Ids, v \in Workers :
              job[v].pc = "linking" => {g, job[v].fact} \in together'
    PROVE  job' \in [Workers -> Job] /\ \A v \in Workers : HandOK(job'[v], facts', together')
<1>1. job' \in [Workers -> Job]
  BY TableTyped
<1>2. ASSUME NEW v \in Workers PROVE HandOK(job'[v], facts', together')
  <2>1. CASE v = w
    BY <2>1, TableTyped
  <2>2. CASE v # w
    <3>1. job'[v] = job[v] /\ job[v] \in Job /\ HandOK(job[v], facts, together)
      BY <2>2, TableTyped
    <3>2. HandOK(job[v], facts', together')
      BY <3>1, HandStays
    <3>. QED BY <3>1, <3>2
  <2>. QED BY <2>1, <2>2
<1>. QED BY <1>1, <1>2

\* A step that changes what one call holds, and nothing in the tables.
LEMMA OnlyHand ==
    ASSUME FactsInv, NEW w \in Workers, NEW j \in Job, job' = [job EXCEPT ![w] = j],
           HandOK(j, facts, together), facts' = facts, vecs' = vecs, together' = together,
           passedOver' = passedOver
    PROVE  FactsInv'
<1>1. DOMAIN facts' = Ids /\ Ids' = Ids
  BY TableTyped DEF Ids
<1>2. job' \in [Workers -> Job] /\ \A v \in Workers : HandOK(job'[v], facts', together')
  BY <1>1, OneHand
<1>3. Aged
  BY DEF Aged
<1>. QED BY <1>2, <1>3, TableTyped, TableAged

\* Calls, sessions and marks may change; what calls hold stays or is dropped.
LEMMA AgedOnly ==
    ASSUME FactsInv, facts' \in Seq(FactRow), Len(facts') = Len(facts), Aged,
           together' = together, vecs' \subseteq vecs,
           \A f \in vecs' : f \in passedOver => f \in passedOver', job' = job
    PROVE  FactsInv'
<1>1. DOMAIN facts' = Ids
  BY TableTyped
<1>2. ASSUME NEW w \in Workers PROVE HandOK(job'[w], facts', together')
  <2>1. job[w] \in Job /\ HandOK(job[w], facts, together)
    BY TableTyped
  <2>2. HandOK(job[w], facts', together')
    BY <1>1, <2>1, HandStays DEF Aged
  <2>. QED BY <2>2
<1>. QED BY <1>2, TableTyped, TableAged

\* A call between two facts, or over, holds nothing that could go wrong.
LEMMA AtRest ==
    ASSUME NEW j, j.pc \in {"idle", "distilling"}, NEW tab, NEW tog
    PROVE  HandOK(j, tab, tog)
BY DEF HandOK

LEMMA IdleTyped == Idle \in Job /\ Idle.pc = "idle"
BY DEF Idle, Job, Pcs

LEMMA NextHubOK ==
    ASSUME FactsInv, NEW w \in Workers
    PROVE  NextHub(w) \in Job /\ NextHub(w).pc \in {"idle", "distilling"}
<1>1. job[w] \in Job /\ Idle \in Job
  BY TableTyped, IdleTyped
<1>. QED BY <1>1 DEF NextHub, Job, Pcs

\* A bounded set of ids has a newest one.
LEMMA Greatest ==
    ASSUME NEW n \in Nat, NEW S \in SUBSET (1 .. n), S # {}
    PROVE  \E x \in S : \A y \in S : y <= x
<1> DEFINE back == {n - x : x \in S}
           R == OpToRel(<, Nat)
<1>1. \A x \in S : x \in Nat /\ n - x \in Nat /\ n - x \in back
  OBVIOUS
<1>2. back \subseteq Nat
  BY <1>1
<1>3. IsWellFoundedOn(R, Nat)
  BY NatLessThanWellFounded
<1>4. \A x, y \in Nat : x < y => <<x, y>> \in R
  BY DEF OpToRel
<1>5. back # {}
  BY <1>1
<1> HIDE DEF R
<1>6. PICK m \in back : \A k \in back : <<k, m>> \notin R
  <2> HIDE DEF back
  <2>. QED BY <1>2, <1>3, <1>5, WFMin
<1>7. PICK x \in S : m = n - x
  OBVIOUS
<1>8. ASSUME NEW y \in S PROVE y <= x
  <2>1. ~(n - y < n - x)
    BY <1>1, <1>4, <1>6, <1>7
  <2>2. x \in Nat /\ y \in Nat
    BY <1>1
  <2>. QED BY <2>1, <2>2
<1>. QED BY <1>8

\* The anchor a sweep stops at is a fact, and those it asks about are older.
LEMMA WalkOK ==
    ASSUME FactsInv, NEW tab, NEW todo \in SUBSET (Topics \cup Int), NEW retired \in SUBSET Int
    PROVE  /\ Walk(tab, todo, retired) \in Job
           /\ \A tab2, tog : HandOK(Walk(tab, todo, retired), tab2, tog)
<1> DEFINE asks == {a \in (todo \ retired) \cap vecs : Losers(tab, a, retired) # {}}
           a == CHOOSE x \in asks : \A y \in asks : y <= x
           j == [pc |-> "sweeping", todo |-> {b \in todo : b < a}, fact |-> a,
                 cands |-> Losers(tab, a, retired), retired |-> retired]
<1>1. CASE asks = {}
  <2>1. Walk(tab, todo, retired) = Idle
    BY <1>1 DEF Walk
  <2>. QED BY <2>1, IdleTyped, AtRest
<1>2. CASE asks # {}
  <2>1. /\ Walk(tab, todo, retired) = j
    BY <1>2 DEF Walk
  <2>2. a \in asks
    <3>1. asks \subseteq 1 .. Len(facts) /\ Len(facts) \in Nat
      BY TableTyped
    <3> HIDE DEF asks
    <3>. QED BY <3>1, <1>2, Greatest
  <2>3. a \in Nat /\ Losers(tab, a, retired) \subseteq vecs /\ vecs \subseteq Int
    BY <2>2, TableTyped DEF Losers, Indexed
  <2>4. \A g \in Losers(tab, a, retired) : g < a
    BY DEF Losers
  <2> HIDE DEF a
  <2>5. j \in Job
    BY <2>3 DEF Job, Pcs
  <2>6. \A tab2, tog : HandOK(j, tab2, tog)
    BY <2>4 DEF HandOK
  <2>. QED BY <2>1, <2>5, <2>6
<1>. QED BY <1>1, <1>2

\* UPDATE ... SET invalid_at of rows a later fact supersedes.
LEMMA StampedAged ==
    ASSUME FactsInv, NEW S, NEW by \in Nat, \A g \in S : g < by \/ {g, by} \in together,
           facts' = Stamped(S, by)
    PROVE  facts' \in Seq(FactRow) /\ Len(facts') = Len(facts) /\ Aged
<1>1. /\ Len(facts) \in Nat /\ Ids = 1 .. Len(facts) /\ \A f \in Ids : facts[f] \in FactRow
  BY TableTyped
<1>2. ASSUME NEW f \in Ids
      PROVE  /\ facts'[f] \in FactRow /\ facts'[f].topic = facts[f].topic
             /\ facts'[f].kind = facts[f].kind /\ facts'[f].live = facts[f].live
             /\ facts'[f].by # facts[f].by => f \in S /\ Valid(f) /\ facts'[f].by = by
  <2>1. facts'[f] = IF f \in S /\ Valid(f) THEN [facts[f] EXCEPT !.by = by] ELSE facts[f]
    BY DEF Stamped
  <2>. QED BY <1>1, <2>1 DEF FactRow
<1>3. facts' \in Seq(FactRow) /\ Len(facts') = Len(facts)
  <2>1. /\ facts' = [i \in 1 .. Len(facts) |-> facts'[i]]
        /\ \A i \in 1 .. Len(facts) : facts'[i] \in FactRow
    BY <1>1, <1>2 DEF Stamped
  <2>. QED BY <1>1, <2>1, FunIsSeq
<1>4. Aged
  BY <1>1, <1>2 DEF Aged, Valid
<1>. QED BY <1>3, <1>4

\* INSERT INTO semantic_facts: one more row, the rows before it as they were.
LEMMA Inserted ==
    ASSUME FactsInv, NEW t \in Topics, NEW k \in {"fact", "lesson"}, NEW keep \in BOOLEAN,
           facts' = Append(facts, NewFact(t, k, keep))
    PROVE  /\ facts' \in Seq(FactRow) /\ Ids' = Ids \cup {Len(facts) + 1}
           /\ DOMAIN facts' = Ids' /\ Len(facts) + 1 \notin Ids
           /\ \A f \in Ids : facts'[f] = facts[f] /\ f < Len(facts) + 1
           /\ facts'[Len(facts) + 1] = NewFact(t, k, keep)
<1>1. /\ facts \in Seq(FactRow) /\ Len(facts) \in Nat /\ Ids = 1 .. Len(facts)
  BY TableTyped
<1>2. NewFact(t, k, keep) \in FactRow
  BY DEF NewFact, FactRow
<1>3. /\ facts' \in Seq(FactRow) /\ Len(facts') = Len(facts) + 1
      /\ \A f \in 1 .. Len(facts) : facts'[f] = facts[f]
      /\ facts'[Len(facts) + 1] = NewFact(t, k, keep)
  BY <1>1, <1>2
<1>4. Ids' = 1 .. (Len(facts) + 1) /\ DOMAIN facts' = Ids'
  BY <1>1, <1>3 DEF Ids
<1>. QED BY <1>1, <1>3, <1>4

\* The new row was retired by nobody; a new fact, without vector, is no one's twin.
LEMMA InsertedFact ==
    ASSUME FactsInv, NEW t \in Topics, NEW k \in {"fact", "lesson"}, NEW keep \in BOOLEAN,
           facts' = Append(facts, NewFact(t, k, keep)), together \subseteq together'
    PROVE  RetiredByLater' /\ (vecs' = vecs /\ passedOver' = passedOver => NoLiveTwins')
<1>1. RetiredByLater'
  <2>1. facts'[Len(facts) + 1].by = 0
    BY Inserted DEF NewFact
  <2>2. ASSUME NEW f \in Ids', facts'[f].by # 0
        PROVE  facts'[f].by > f \/ {f, facts'[f].by} \in together'
    <3>1. f \in Ids /\ facts'[f] = facts[f]
      BY <2>1, <2>2, Inserted
    <3>. QED BY <2>2, <3>1 DEF FactsInv, RetiredByLater
  <2>. QED BY <2>2 DEF RetiredByLater
<1>2. ASSUME vecs' = vecs, passedOver' = passedOver PROVE NoLiveTwins'
  <2>1. \A f \in vecs : f \in Ids /\ facts'[f] = facts[f]
    BY TableTyped, Inserted
  <2>2. ASSUME NEW f \in vecs, NEW g \in vecs, f < g, facts'[f].kind = "lesson",
               facts'[g].kind = "lesson", facts'[f].topic = facts'[g].topic,
               facts'[f].live, facts'[f].by = 0, facts'[g].live, facts'[g].by = 0
        PROVE  f \in passedOver
    BY <2>1, <2>2 DEF FactsInv, NoLiveTwins, Kind, Valid
  <2>. QED BY <1>2, <2>2 DEF NoLiveTwins, Kind, Valid
<1>. QED BY <1>1, <1>2

\* A call that links a fact when a row is inserted was distilling at that time.
LEMMA OverlapCounts ==
    ASSUME NEW v \in Workers, job[v].pc = "linking", NEW id
    PROVE  {id, job[v].fact} \in Overlaps(id)
BY DEF Overlaps

-----------------------------------------------------------------------------
(* Every action keeps the invariant.                                       *)

LEMMA StartDistilKept == ASSUME FactsInv, NEW w \in Workers, StartDistil(w) PROVE FactsInv'
<1> DEFINE j == [Idle EXCEPT !.pc = "distilling", !.todo = Hubs]
<1>1. j \in Job /\ j.pc = "distilling"
  BY DEF Idle, Job, Pcs, Hubs
<1>2. HandOK(j, facts, together)
  <2> HIDE DEF j
  <2>. QED BY <1>1, AtRest
<1>3. job' = [job EXCEPT ![w] = j]
  BY DEF StartDistil
<1> HIDE DEF j
<1>. QED BY <1>1, <1>2, <1>3, OnlyHand DEF StartDistil

LEMMA HubKept ==
    ASSUME FactsInv, NEW w \in Workers, NEW t, HubGivesNothing(w, t) PROVE FactsInv'
<1> DEFINE rest == job[w].todo \ {t}
           j == [Idle EXCEPT !.pc = IF rest = {} THEN "idle" ELSE "distilling", !.todo = rest]
<1>1. j \in Job /\ j.pc \in {"idle", "distilling"}
  BY TableTyped DEF Idle, Job, Pcs
<1>2. HandOK(j, facts, together)
  <2> HIDE DEF j
  <2>. QED BY <1>1, AtRest
<1>3. job' = [job EXCEPT ![w] = j]
  BY DEF HubGivesNothing
<1> HIDE DEF j
<1>. QED BY <1>1, <1>2, <1>3, OnlyHand DEF HubGivesNothing

LEMMA EmbedFailsKept ==
    ASSUME FactsInv, NEW w \in Workers, EmbedOfFactFails(w) PROVE FactsInv'
<1>1. NextHub(w) \in Job /\ HandOK(NextHub(w), facts, together)
  BY NextHubOK, AtRest
<1>. QED BY <1>1, OnlyHand DEF EmbedOfFactFails

LEMMA StartSweepKept == ASSUME FactsInv, NEW w \in Workers, StartSweep(w) PROVE FactsInv'
<1> DEFINE j == Walk(facts, {f \in Ids : Valid(f)}, {})
<1>1. {f \in Ids : Valid(f)} \in SUBSET (Topics \cup Int)
  BY TableTyped
<1>2. j \in Job /\ HandOK(j, facts, together)
  BY <1>1, WalkOK
<1>3. job' = [job EXCEPT ![w] = j]
  BY DEF StartSweep
<1> HIDE DEF j
<1>. QED BY <1>2, <1>3, OnlyHand DEF StartSweep

LEMMA SupersedeKept ==
    ASSUME FactsInv, NEW w \in Workers, NEW S, Supersede(w, S) PROVE FactsInv'
<1> DEFINE j == NextHub(w)
<1>1. job[w] \in Job /\ HandOK(job[w], facts, together)
  BY TableTyped
<1>2. job[w].fact \in Nat /\ \A g \in S : g < job[w].fact \/ {g, job[w].fact} \in together
  BY <1>1 DEF Supersede, HandOK, Job
<1>3. facts' \in Seq(FactRow) /\ Len(facts') = Len(facts) /\ Aged
  BY <1>2, StampedAged DEF Supersede
<1>4. DOMAIN facts' = Ids
  BY <1>3, TableTyped
<1>5. j \in Job /\ HandOK(j, facts', together')
  BY NextHubOK, AtRest
<1>6. job' = [job EXCEPT ![w] = j] /\ vecs' = vecs /\ together' = together
      /\ passedOver' = passedOver
  BY DEF Supersede
<1> HIDE DEF j
<1>7. \A f \in Ids : facts'[f].kind \in {facts[f].kind, "fact"}
  BY <1>3 DEF Aged
<1>8. job' \in [Workers -> Job] /\ \A v \in Workers : HandOK(job'[v], facts', together')
  BY <1>4, <1>5, <1>6, <1>7, OneHand
<1>. QED BY <1>3, <1>6, <1>8, TableAged

LEMMA SweepAnswerKept ==
    ASSUME FactsInv, NEW w \in Workers, NEW S, SweepAnswer(w, S) PROVE FactsInv'
<1> DEFINE j == Walk(facts', job[w].todo, job[w].retired \cup S)
<1>1. job[w] \in Job /\ HandOK(job[w], facts, together)
  BY TableTyped
<1>2. job[w].fact \in Nat /\ \A g \in S : g < job[w].fact \/ {g, job[w].fact} \in together
  BY <1>1 DEF SweepAnswer, HandOK, Job
<1>3. facts' \in Seq(FactRow) /\ Len(facts') = Len(facts) /\ Aged
  BY <1>2, StampedAged DEF SweepAnswer
<1>4. DOMAIN facts' = Ids
  BY <1>3, TableTyped
<1>5. j \in Job /\ HandOK(j, facts', together')
  <2>1. /\ job[w].todo \in SUBSET (Topics \cup Int) /\ job[w].retired \cup S \in SUBSET Int
    BY <1>1 DEF Job, SweepAnswer
  <2>. QED BY <2>1, WalkOK
<1>6. job' = [job EXCEPT ![w] = j] /\ vecs' = vecs /\ together' = together
      /\ passedOver' = passedOver
  BY DEF SweepAnswer
<1> HIDE DEF j
<1>7. \A f \in Ids : facts'[f].kind \in {facts[f].kind, "fact"}
  BY <1>3 DEF Aged
<1>8. job' \in [Workers -> Job] /\ \A v \in Workers : HandOK(job'[v], facts', together')
  BY <1>4, <1>5, <1>6, <1>7, OneHand
<1>. QED BY <1>3, <1>6, <1>8, TableAged

LEMMA WriteFactKept ==
    ASSUME FactsInv, NEW w \in Workers, NEW t \in Topics, NEW keep \in BOOLEAN,
           WriteFact(w, t, keep)
    PROVE  FactsInv'
<1> DEFINE id == Len(facts) + 1
           j == [job[w] EXCEPT !.pc = "linking", !.todo = job[w].todo \ {t}, !.fact = id]
<1>1. /\ facts' = Append(facts, NewFact(t, "fact", keep))
      /\ together' = together \cup Overlaps(id) /\ vecs' = vecs /\ passedOver' = passedOver
      /\ job' = [job EXCEPT ![w] = j]
  BY TableTyped DEF WriteFact, Job
<1>2. /\ facts' \in Seq(FactRow) /\ Ids' = Ids \cup {id} /\ DOMAIN facts' = Ids'
      /\ \A f \in Ids : facts'[f] = facts[f] /\ f < id
      /\ facts'[id].kind = "fact"
  <2>1. "fact" \in {"fact", "lesson"} /\ NewFact(t, "fact", keep).kind = "fact"
    BY DEF NewFact
  <2>. QED BY <1>1, <2>1, Inserted
<1>3. RetiredByLater' /\ NoLiveTwins'
  BY <1>1, InsertedFact
<1>4. j \in Job /\ HandOK(j, facts', together')
  <2>1. /\ job[w] \in Job /\ id \in Nat
    BY TableTyped
  <2>2. j \in Job /\ j.pc = "linking" /\ j.fact = id
    BY <2>1 DEF Job, Pcs
  <2>3. \A g \in DOMAIN facts' : ~(g > id)
    BY <1>2, <2>1, TableTyped
  <2> HIDE DEF j, id
  <2>. QED BY <1>2, <2>2, <2>3 DEF HandOK
<1>5. \A g \in DOMAIN facts' \ Ids, v \in Workers :
        job[v].pc = "linking" => {g, job[v].fact} \in together'
  BY <1>1, <1>2, OverlapCounts
<1>6. job' \in [Workers -> Job] /\ \A v \in Workers : HandOK(job'[v], facts', together')
  <2> HIDE DEF j, id
  <2>. QED BY <1>1, <1>2, <1>4, <1>5, OneHand
<1>7. FactsTyped'
  BY <1>1, <1>2, <1>6, TableTyped DEF FactsTyped
<1>. QED BY <1>3, <1>6, <1>7 DEF FactsInv

LEMMA LinkFactKept == ASSUME FactsInv, NEW w \in Workers, LinkFact(w) PROVE FactsInv'
<1> DEFINE f == job[w].fact
           near == {g \in Indexed(facts[f].topic) \ {f} : Valid(g)}
           j == IF near = {} THEN NextHub(w) ELSE [job[w] EXCEPT !.pc = "judging", !.cands = near]
<1>1. /\ vecs' = vecs \cup {f} /\ job' = [job EXCEPT ![w] = j]
      /\ facts' = facts /\ together' = together /\ passedOver' = passedOver
  BY DEF LinkFact
<1>2. /\ job[w] \in Job /\ f \in Ids /\ facts[f].kind = "fact"
      /\ \A g \in Ids : g > f => {g, f} \in together
  BY TableTyped DEF LinkFact, HandOK
<1>3. j \in Job /\ HandOK(j, facts', together')
  <2>1. CASE near = {}
    BY <2>1, NextHubOK, AtRest
  <2>2. CASE near # {}
    <3>1. near \subseteq Ids /\ near \subseteq Int /\ \A g \in near : g # f
      BY TableTyped DEF Indexed
    <3>2. \A g \in near : g < f \/ {g, f} \in together
      BY <1>2, <3>1, TableTyped
    <3> HIDE DEF near
    <3>3. j = [job[w] EXCEPT !.pc = "judging", !.cands = near]
      BY <2>2
    <3>4. j \in Job /\ j.pc = "judging" /\ j.cands = near /\ j.fact = f
      BY <1>2, <3>1, <3>3 DEF Job, Pcs
    <3> HIDE DEF j, f
    <3>. QED BY <1>1, <3>2, <3>4 DEF HandOK
  <2>. QED BY <2>1, <2>2
<1> HIDE DEF j
<1>4. job' \in [Workers -> Job] /\ \A v \in Workers : HandOK(job'[v], facts', together')
  <2>1. DOMAIN facts' = Ids
    BY <1>1, TableTyped
  <2>. QED BY <1>1, <1>3, <2>1, OneHand
<1>5. FactsTyped'
  <2>1. Ids' = Ids
    BY <1>1 DEF Ids
  <2>. QED BY <1>1, <1>2, <1>4, <2>1, TableTyped DEF FactsTyped
<1>6. RetiredByLater'
  BY <1>1 DEF FactsInv, RetiredByLater, Ids
<1>7. NoLiveTwins'
  BY <1>1, <1>2 DEF FactsInv, NoLiveTwins, Kind, Valid
<1>. QED BY <1>4, <1>5, <1>6, <1>7 DEF FactsInv

LEMMA LessonKept ==
    ASSUME FactsInv, NEW s, NEW x, NEW t \in Topics, StoreLesson(s, x, t) PROVE FactsInv'
<1> DEFINE id == Len(facts) + 1
<1>1. CASE ~Novel(t)
  <2>1. facts' = facts /\ vecs' = vecs /\ together' = together /\ passedOver' = passedOver /\ job' = job
    BY <1>1 DEF StoreLesson
  <2>2. Aged
    BY <2>1 DEF Aged
  <2>. QED BY <2>1, <2>2, TableTyped, AgedOnly
<1>2. CASE Novel(t)
  <2>1. /\ facts' = Append(facts, NewFact(t, "lesson", TRUE)) /\ vecs' = vecs \cup {id}
        /\ passedOver' = passedOver \cup {f \in Twins(t) : ~facts[f].trusted}
        /\ together' = together \cup Overlaps(id) /\ job' = job
    BY <1>2 DEF StoreLesson
  <2>2. /\ facts' \in Seq(FactRow) /\ Ids' = Ids \cup {id} /\ DOMAIN facts' = Ids' /\ id \notin Ids
        /\ \A f \in Ids : facts'[f] = facts[f] /\ f < id
        /\ facts'[id] = NewFact(t, "lesson", TRUE)
    BY <2>1, Inserted
  <2>3. RetiredByLater'
    BY <2>1, InsertedFact
  <2>4. job' \in [Workers -> Job] /\ \A v \in Workers : HandOK(job'[v], facts', together')
    <3>1. ASSUME NEW v \in Workers PROVE HandOK(job[v], facts', together')
      <4>1. job[v] \in Job /\ HandOK(job[v], facts, together)
        BY TableTyped
      <4>2. \A g \in DOMAIN facts' \ Ids : job[v].pc = "linking" => {g, job[v].fact} \in together'
        BY <2>1, <2>2, OverlapCounts
      <4> HIDE DEF id
      <4>. QED BY <2>1, <2>2, <4>1, <4>2, HandStays
    <3>. QED BY <2>1, <3>1, TableTyped
  <2>5. FactsTyped'
    BY <2>1, <2>2, <2>4, TableTyped DEF FactsTyped
  <2>6. NoLiveTwins'
    <3>1. \A f \in vecs : f \in Ids /\ facts'[f] = facts[f]
      BY <2>2, TableTyped
    <3>2. ASSUME NEW f \in vecs', NEW g \in vecs', f < g, facts'[f].kind = "lesson",
                 facts'[g].kind = "lesson", facts'[f].topic = facts'[g].topic,
                 facts'[f].live, facts'[f].by = 0, facts'[g].live, facts'[g].by = 0
          PROVE  f \in passedOver'
      <4>1. f \in vecs
        <5>1. f # id
          BY <3>2, <2>1, <2>2, TableTyped
        <5>. QED BY <5>1, <2>1
      <4>2. CASE g \in vecs
        BY <3>1, <3>2, <4>1, <4>2, <2>1 DEF FactsInv, NoLiveTwins, Kind, Valid
      <4>3. CASE g = id
        <5>1. facts'[g].topic = t
          BY <4>3, <2>2 DEF NewFact
        <5>2. f \in Twins(t)
          BY <3>1, <3>2, <4>1, <5>1 DEF Twins, Indexed, Kind, Valid
        <5>. QED BY <5>2, <1>2, <2>1 DEF Novel
      <4>. QED BY <4>2, <4>3, <2>1
    <3>. QED BY <3>2 DEF NoLiveTwins, Kind, Valid
  <2>. QED BY <2>3, <2>4, <2>5, <2>6 DEF FactsInv
<1>. QED BY <1>1, <1>2

\* What is left of an evicted row.
LEMMA GoneTyped ==
    ASSUME NEW t \in Topics
    PROVE  /\ Gone(t) \in FactRow /\ Gone(t).topic = t /\ Gone(t).kind = "fact"
           /\ ~Gone(t).live /\ Gone(t).by = 0
<1> DEFINE row == NewFact(t, "fact", FALSE)
<1>1. row \in FactRow /\ row.topic = t /\ row.kind = "fact" /\ row.by = 0
  BY DEF NewFact, FactRow
<1>2. Gone(t) = [row EXCEPT !.live = FALSE]
  BY DEF Gone
<1> HIDE DEF row
<1>. QED BY <1>1, <1>2 DEF FactRow

LEMMA EvictKept == ASSUME FactsInv, NEW S, EvictFacts(S) PROVE FactsInv'
<1>1. /\ facts' = [f \in Ids |-> IF f \in S THEN Gone(facts[f].topic) ELSE facts[f]]
      /\ vecs' = vecs \ S /\ passedOver' = passedOver \ S /\ together' = together /\ job' = job
  BY DEF EvictFacts
<1>2. /\ Len(facts) \in Nat /\ Ids = 1 .. Len(facts) /\ \A f \in Ids : facts[f] \in FactRow
  BY TableTyped
<1>3. ASSUME NEW f \in Ids
      PROVE  /\ facts'[f] \in FactRow /\ facts'[f].topic = facts[f].topic
             /\ facts'[f].kind \in {facts[f].kind, "fact"}
             /\ facts'[f] = facts[f] \/ (~facts'[f].live /\ facts'[f].by = 0)
  <2>1. CASE f \in S
    <3>1. facts'[f] = Gone(facts[f].topic)
      BY <1>1, <2>1
    <3>2. facts[f].topic \in Topics
      BY <1>2 DEF FactRow
    <3>. QED BY <3>1, <3>2, GoneTyped
  <2>2. CASE f \notin S
    BY <1>1, <1>2, <2>2
  <2>. QED BY <2>1, <2>2
<1>4. facts' \in Seq(FactRow) /\ Len(facts') = Len(facts)
  <2>1. /\ facts' = [i \in 1 .. Len(facts) |-> facts'[i]]
        /\ \A i \in 1 .. Len(facts) : facts'[i] \in FactRow
    BY <1>1, <1>2, <1>3
  <2>. QED BY <1>2, <2>1, FunIsSeq
<1>5. Aged
  BY <1>3 DEF Aged
<1>. QED BY <1>1, <1>4, <1>5, AgedOnly

LEMMA EndSessionKept ==
    ASSUME FactsInv, NEW s, NEW o, NEW moved, EndSession(s, o, moved) PROVE FactsInv'
<1>1. /\ facts' = [f \in Ids |-> IF f \in moved THEN [facts[f] EXCEPT !.trusted = (o = "ok")]
                                 ELSE facts[f]]
      /\ vecs' = vecs /\ passedOver' = passedOver /\ together' = together /\ job' = job
  BY DEF EndSession
<1>2. /\ Len(facts) \in Nat /\ Ids = 1 .. Len(facts) /\ \A f \in Ids : facts[f] \in FactRow
  BY TableTyped
<1>3. ASSUME NEW f \in Ids
      PROVE  /\ facts'[f] \in FactRow /\ facts'[f].topic = facts[f].topic
             /\ facts'[f].kind = facts[f].kind /\ facts'[f].live = facts[f].live
             /\ facts'[f].by = facts[f].by
  <2>1. facts[f] \in FactRow /\ (o = "ok") \in BOOLEAN
    BY <1>2
  <2>2. CASE f \in moved
    <3>1. facts'[f] = [facts[f] EXCEPT !.trusted = (o = "ok")]
      BY <1>1, <2>2
    <3>. QED BY <2>1, <3>1 DEF FactRow
  <2>3. CASE f \notin moved
    BY <1>1, <2>1, <2>3
  <2>. QED BY <2>2, <2>3
<1>4. facts' \in Seq(FactRow) /\ Len(facts') = Len(facts)
  <2>1. /\ facts' = [i \in 1 .. Len(facts) |-> facts'[i]]
        /\ \A i \in 1 .. Len(facts) : facts'[i] \in FactRow
    BY <1>1, <1>2, <1>3
  <2>. QED BY <1>2, <2>1, FunIsSeq
<1>5. Aged
  BY <1>3 DEF Aged
<1>. QED BY <1>1, <1>4, <1>5, AgedOnly

\* A step of the sessions alone.
LEMMA TablesStay ==
    ASSUME FactsInv, UNCHANGED <<facts, vecs, job, together, passedOver>> PROVE FactsInv'
<1>1. Aged
  BY DEF Aged
<1>. QED BY <1>1, TableTyped, AgedOnly

LEMMA RestartedCalls ==
    ASSUME job' = [w \in Workers |-> Idle], NEW tab, NEW tog
    PROVE  job' \in [Workers -> Job] /\ \A w \in Workers : HandOK(job'[w], tab, tog)
BY IdleTyped, AtRest

LEMMA RestartKept == ASSUME FactsInv, RestartFacts PROVE FactsInv'
<1>1. Aged
  BY DEF RestartFacts, Aged
<1>2. job' \in [Workers -> Job] /\ \A w \in Workers : HandOK(job'[w], facts', together')
  BY RestartedCalls DEF RestartFacts, Restarted
<1>. QED BY <1>1, <1>2, TableTyped, TableAged DEF RestartFacts

LEMMA DieStoringKept ==
    ASSUME FactsInv, NEW s, NEW t \in Topics, DieStoringLesson(s, t) PROVE FactsInv'
<1>1. /\ facts' = Append(facts, NewFact(t, "lesson", TRUE)) /\ vecs' = vecs
      /\ together' = together /\ passedOver' = passedOver
  BY DEF DieStoringLesson
<1>2. facts' \in Seq(FactRow) /\ Ids \subseteq Ids'
  BY <1>1, Inserted
<1>3. RetiredByLater' /\ NoLiveTwins'
  BY <1>1, InsertedFact
<1>4. job' \in [Workers -> Job] /\ \A w \in Workers : HandOK(job'[w], facts', together')
  BY RestartedCalls DEF DieStoringLesson, Restarted
<1>5. FactsTyped'
  BY <1>1, <1>2, <1>4, TableTyped DEF FactsTyped
<1>. QED BY <1>3, <1>4, <1>5 DEF FactsInv

LEMMA InitialFacts == FactsInit => FactsInv
<1>. SUFFICES ASSUME FactsInit PROVE FactsInv
  OBVIOUS
<1>1. facts = <<>> /\ vecs = {} /\ Ids = {}
  BY DEF FactsInit, Ids
<1>2. job \in [Workers -> Job] /\ \A w \in Workers : HandOK(job[w], facts, together)
  BY IdleTyped, AtRest DEF FactsInit
<1>3. FactsTyped
  BY <1>1, <1>2 DEF FactsTyped
<1>. QED BY <1>1, <1>2, <1>3 DEF FactsInv, RetiredByLater, NoLiveTwins

LEMMA InductiveFacts == FactsInv /\ [FactsNext]_factVars => FactsInv'
<1>. SUFFICES ASSUME FactsInv, [FactsNext]_factVars PROVE FactsInv'
  OBVIOUS
<1>1. ASSUME NEW w \in Workers,
             StartDistil(w) \/ StartSweep(w) \/ LinkFact(w) \/ EmbedOfFactFails(w)
      PROVE  FactsInv'
  BY <1>1, StartDistilKept, StartSweepKept, LinkFactKept, EmbedFailsKept
<1>2. ASSUME NEW w \in Workers, NEW t \in Topics, HubGivesNothing(w, t) PROVE FactsInv'
  BY <1>2, HubKept
<1>3. ASSUME NEW w \in Workers, NEW t \in Topics, NEW keep \in Importances, WriteFact(w, t, keep)
      PROVE  FactsInv'
  <2>1. keep \in BOOLEAN
    BY FactsAssumption
  <2>. QED BY <1>3, <2>1, WriteFactKept
<1>4. ASSUME NEW w \in Workers, NEW S, Supersede(w, S) \/ SweepAnswer(w, S) PROVE FactsInv'
  BY <1>4, SupersedeKept, SweepAnswerKept
<1>5. ASSUME NEW s, FindContrast(s) \/ (\E x : LessonDropped(s, x)) \/ (\E t : Retrieve(s, t))
      PROVE  FactsInv'
  BY <1>5, TablesStay DEF FindContrast, LessonDropped, Retrieve
<1>6. ASSUME NEW s \in Sessions, NEW o, NEW moved, EndSession(s, o, moved) PROVE FactsInv'
  BY <1>6, EndSessionKept
<1>7. ASSUME NEW s \in Sessions, NEW t \in Topics, NEW x,
             DieStoringLesson(s, t) \/ StoreLesson(s, x, t)
      PROVE  FactsInv'
  BY <1>7, DieStoringKept, LessonKept
<1>8. ASSUME NEW S, EvictFacts(S) PROVE FactsInv'
  BY <1>8, EvictKept
<1>9. CASE RestartFacts
  BY <1>9, RestartKept
<1>10. CASE UNCHANGED factVars
  BY <1>10, TablesStay DEF factVars
<1>. QED BY <1>1, <1>2, <1>3, <1>4, <1>5, <1>6, <1>7, <1>8, <1>9, <1>10 DEF FactsNext

LEMMA AlwaysFacts == FactsSpec => []FactsInv
BY InitialFacts, InductiveFacts, PTL DEF FactsSpec

\* Whatever distillations, audits, lesson tasks, evictions and restarts interleave, a
\* superseded fact was superseded by a later one, or by one distilled at the same time.
THEOREM TimeRunsForward == FactsSpec => []RetiredByLater
<1>1. FactsInv => RetiredByLater
  BY DEF FactsInv
<1>. QED BY <1>1, AlwaysFacts, PTL

\* Of two retrievable lessons of one content, the older had lost its trust when the
\* newer was stored: the lesson tasks of ended sessions, which look up, insert and
\* index without waiting, never store one twice.
THEOREM OneLessonEach == FactsSpec => []NoLiveTwins
<1>1. FactsInv => NoLiveTwins
  BY DEF FactsInv
<1>. QED BY <1>1, AlwaysFacts, PTL

-----------------------------------------------------------------------------
(* What refers to a fact, a live one.                                       *)

\* What a call holds, and what a session was shown, with n facts ever written.
JobBounds(j, n) ==
  /\ j.todo \subseteq Topics \cup 1 .. n /\ j.fact \in 0 .. n
  /\ j.cands \subseteq 1 .. n /\ j.retired \subseteq 1 .. n

SessionRow(n) ==
  [label : Labels \cup {"none"}, topic : Topics,
   tasks : [Extractors -> {"starting", "asking", "over"}], shown : SUBSET (1 .. n)]

NothingDangles ==
  /\ links \subseteq {p \in Ids \X Ids : p[1] < p[2]}
  /\ \A f \in vecs : facts[f].live
  /\ \A p \in links : facts[p[1]].live /\ facts[p[2]].live

\* What a call is about to index and link is live: retention leaves it.
LinkingLive == \A w \in Workers : job[w].pc = "linking" => facts[job[w].fact].live

\* Inductive beside FactsInv.
FactsBounds ==
  /\ Len(facts) <= MaxFacts /\ \A f \in Ids : facts[f].by <= MaxFacts
  /\ passedOver \subseteq Ids /\ together \subseteq SUBSET Ids
  /\ \A w \in Workers : JobBounds(job[w], Len(facts))
  /\ LinkingLive
  /\ session \in [Sessions -> SessionRow(Len(facts))]
  /\ NothingDangles

LEMMA BoundsSuffice ==
    ASSUME FactsInv, FactsBounds
    PROVE  FactsTypeOK
<1>1. /\ facts \in Seq(FactRow) /\ Len(facts) \in Nat /\ Ids = 1 .. Len(facts)
      /\ (\A f \in Ids : facts[f] \in FactRow) /\ vecs \subseteq Ids /\ job \in [Workers -> Job]
  BY TableTyped
<1> DEFINE Table == [topic : Topics, kind : {"fact", "lesson"}, by : 0 .. MaxFacts,
                     trusted : BOOLEAN, keep : BOOLEAN, live : BOOLEAN]
           Held == [pc : {"idle", "distilling", "linking", "judging", "sweeping"},
                    todo : SUBSET (Topics \cup Ids), fact : Ids \cup {0},
                    cands : SUBSET Ids, retired : SUBSET Ids]
<1>2. facts \in Seq(Table)
  <2>1. ASSUME NEW f \in 1 .. Len(facts) PROVE facts[f] \in Table
    <3>1. facts[f] \in FactRow /\ facts[f].by <= MaxFacts
      BY <1>1 DEF FactsBounds
    <3>. QED BY <3>1, FactsAssumption DEF FactRow
  <2> HIDE DEF Table
  <2>2. facts = [i \in 1 .. Len(facts) |-> facts[i]]
    BY <1>1
  <2>. QED BY <1>1, <2>1, <2>2, FunIsSeq
<1>3. job \in [Workers -> Held]
  <2>1. ASSUME NEW w \in Workers PROVE job[w] \in Held
    <3>1. job[w] \in Job /\ JobBounds(job[w], Len(facts))
      BY <1>1 DEF FactsBounds
    <3>2. 0 .. Len(facts) \subseteq Ids \cup {0}
      BY <1>1
    <3>. QED BY <1>1, <3>1, <3>2 DEF JobBounds, Job, Pcs
  <2> HIDE DEF Held
  <2>. QED BY <1>1, <2>1
<1>4. session \in [Sessions -> [label : Labels \cup {"none"}, topic : Topics,
                                tasks : [Extractors -> {"starting", "asking", "over"}],
                                shown : SUBSET Ids]]
  BY <1>1 DEF FactsBounds, SessionRow
<1>. QED BY <1>1, <1>2, <1>3, <1>4 DEF FactsTypeOK, FactsBounds, NothingDangles

\* The table's length, from its domain.
LEMMA SameRowsThere ==
    ASSUME FactsInv, FactsInv', DOMAIN facts' = Ids
    PROVE  Len(facts') = Len(facts) /\ Ids' = Ids
<1>1. /\ facts \in Seq(FactRow) /\ Len(facts) \in Nat /\ Ids = 1 .. Len(facts)
  BY TableTyped
<1>2. facts' \in Seq(FactRow)
  BY DEF FactsInv, FactsTyped
<1>3. Len(facts') \in Nat /\ DOMAIN facts' = 1 .. Len(facts')
  BY <1>2
<1>4. Len(facts') = Len(facts)
  <2>1. 1 .. Len(facts') = 1 .. Len(facts)
    BY <1>1, <1>3
  <2>. QED BY <1>1, <1>3, <2>1
<1>. QED BY <1>4 DEF Ids

LEMMA BoundsGrow ==
    ASSUME NEW n \in Nat, NEW m \in Nat, n <= m
    PROVE  /\ 1 .. n \subseteq 1 .. m
           /\ \A j : JobBounds(j, n) => JobBounds(j, m)
           /\ SessionRow(n) \subseteq SessionRow(m)
<1>1. 1 .. n \subseteq 1 .. m /\ 0 .. n \subseteq 0 .. m
  OBVIOUS
<1>2. \A j : JobBounds(j, n) => JobBounds(j, m)
  BY <1>1 DEF JobBounds
<1>3. SUBSET (1 .. n) \subseteq SUBSET (1 .. m)
  BY <1>1
<1>4. SessionRow(n) \subseteq SessionRow(m)
  BY <1>3 DEF SessionRow
<1>. QED BY <1>1, <1>2, <1>4

\* What a step has to say of what it changes.
LEMMA StepBounds ==
    ASSUME FactsInv, FactsBounds, FactsInv', Len(facts) <= Len(facts'), Len(facts') <= MaxFacts,
           \A f \in Ids' : facts'[f].by <= MaxFacts,
           passedOver' \subseteq Ids', together' \subseteq SUBSET Ids',
           \A w \in Workers : job'[w] = job[w] \/ JobBounds(job'[w], Len(facts')),
           LinkingLive', NothingDangles',
           session' = session \/ session' \in [Sessions -> SessionRow(Len(facts'))]
    PROVE  FactsBounds'
<1>1. Len(facts) \in Nat /\ facts' \in Seq(FactRow)
  BY TableTyped DEF FactsInv, FactsTyped
<1>2. Len(facts') \in Nat
  BY <1>1
<1>3. /\ \A j : JobBounds(j, Len(facts)) => JobBounds(j, Len(facts'))
      /\ SessionRow(Len(facts)) \subseteq SessionRow(Len(facts'))
  BY <1>1, <1>2, BoundsGrow
<1>4. \A w \in Workers : JobBounds(job'[w], Len(facts'))
  BY <1>3 DEF FactsBounds
<1>5. session' \in [Sessions -> SessionRow(Len(facts'))]
  BY <1>3 DEF FactsBounds
<1>. QED BY <1>4, <1>5 DEF FactsBounds

\* Rows that were live stay so: calls, vectors and links that stay are sound.
LEMMA LiveStays ==
    ASSUME FactsInv, FactsBounds, Ids \subseteq Ids',
           \A f \in Ids : facts[f].live => facts'[f].live
    PROVE  /\ (\A w \in Workers : job'[w] = job[w] \/ job'[w].pc # "linking") => LinkingLive'
           /\ vecs' \subseteq vecs /\ links' \subseteq links => NothingDangles'
<1>1. \A w \in Workers : job[w].pc = "linking" => job[w].fact \in Ids
  BY TableTyped DEF HandOK
<1>2. ASSUME \A w \in Workers : job'[w] = job[w] \/ job'[w].pc # "linking" PROVE LinkingLive'
  BY <1>1, <1>2 DEF FactsBounds, LinkingLive
<1>3. ASSUME vecs' \subseteq vecs, links' \subseteq links PROVE NothingDangles'
  <2>1. vecs \subseteq Ids
    BY TableTyped
  <2>2. \A p \in links : p \in Ids \X Ids /\ p[1] < p[2] /\ facts[p[1]].live /\ facts[p[2]].live
    BY DEF FactsBounds, NothingDangles
  <2>3. \A p \in links : p[1] \in Ids /\ p[2] \in Ids
    BY <2>2
  <2>4. \A p \in links : p \in Ids' \X Ids'
    BY <2>2
  <2>. QED BY <1>3, <2>1, <2>2, <2>3, <2>4 DEF NothingDangles, FactsBounds
<1>. QED BY <1>2, <1>3

\* A call moves on, and nothing else changes.
LEMMA CallBounds ==
    ASSUME FactsInv, FactsBounds, FactsInv', NEW w \in Workers, NEW j,
           job' = [job EXCEPT ![w] = j], JobBounds(j, Len(facts)), j.pc # "linking",
           UNCHANGED <<facts, vecs, links, session, together, passedOver>>
    PROVE  FactsBounds'
<1>1. Len(facts) \in Nat /\ job \in [Workers -> Job] /\ Ids' = Ids
  BY TableTyped DEF Ids
<1>2. \A v \in Workers : job'[v] = job[v] \/ job'[v] = j
  BY <1>1
<1>3. LinkingLive' /\ NothingDangles'
  BY <1>1, <1>2, LiveStays
<1>4. /\ \A f \in Ids' : facts'[f].by <= MaxFacts
      /\ passedOver' \subseteq Ids' /\ together' \subseteq SUBSET Ids' /\ Len(facts') <= MaxFacts
      /\ Len(facts) <= Len(facts')
  BY <1>1 DEF FactsBounds
<1>. QED BY <1>2, <1>3, <1>4, StepBounds

\* A session moves on.
LEMMA SessionBounds ==
    ASSUME FactsInv, FactsBounds, FactsInv', NEW s \in Sessions,
           NEW row \in SessionRow(Len(facts)), session' = [session EXCEPT ![s] = row],
           UNCHANGED <<facts, vecs, links, job, together, passedOver>>
    PROVE  FactsBounds'
<1>1. Len(facts) \in Nat /\ Ids' = Ids
  BY TableTyped DEF Ids
<1>2. LinkingLive' /\ NothingDangles'
  BY <1>1, LiveStays
<1>3. session' \in [Sessions -> SessionRow(Len(facts'))]
  BY DEF FactsBounds
<1>4. /\ \A f \in Ids' : facts'[f].by <= MaxFacts
      /\ passedOver' \subseteq Ids' /\ together' \subseteq SUBSET Ids' /\ Len(facts') <= MaxFacts
      /\ Len(facts) <= Len(facts')
  BY <1>1 DEF FactsBounds
<1>. QED BY <1>2, <1>3, <1>4, StepBounds

-----------------------------------------------------------------------------
LEMMA IdleBounds == \A n \in Nat : JobBounds(Idle, n) /\ Idle.pc = "idle"
BY DEF JobBounds, Idle

LEMMA NextHubBounds ==
    ASSUME FactsInv, FactsBounds, NEW w \in Workers
    PROVE  JobBounds(NextHub(w), Len(facts)) /\ NextHub(w).pc # "linking"
<1>1. Len(facts) \in Nat /\ JobBounds(job[w], Len(facts))
  BY TableTyped DEF FactsBounds
<1>. QED BY <1>1 DEF NextHub, JobBounds, Idle

LEMMA WalkBounds ==
    ASSUME FactsInv, FactsBounds, NEW tab,
           NEW todo \in SUBSET (Topics \cup Ids), NEW retired \in SUBSET Ids
    PROVE  /\ JobBounds(Walk(tab, todo, retired), Len(facts))
           /\ Walk(tab, todo, retired).pc # "linking"
<1> DEFINE asks == {a \in (todo \ retired) \cap vecs : Losers(tab, a, retired) # {}}
           a == CHOOSE x \in asks : \A y \in asks : y <= x
           j == [pc |-> "sweeping", todo |-> {b \in todo : b < a}, fact |-> a,
                 cands |-> Losers(tab, a, retired), retired |-> retired]
<1>0. Len(facts) \in Nat /\ Ids = 1 .. Len(facts) /\ vecs \subseteq Ids
  BY TableTyped
<1>1. CASE asks = {}
  <2>1. Walk(tab, todo, retired) = Idle
    BY <1>1 DEF Walk
  <2>. QED BY <1>0, <2>1, IdleBounds
<1>2. CASE asks # {}
  <2>1. Walk(tab, todo, retired) = j
    BY <1>2 DEF Walk
  <2>2. a \in asks
    <3>1. asks \subseteq 1 .. Len(facts) /\ Len(facts) \in Nat
      BY <1>0
    <3> HIDE DEF asks
    <3>. QED BY <3>1, <1>2, Greatest
  <2>3. a \in vecs
    BY <2>2
  <2> HIDE DEF a
  <2>4. a \in 0 .. Len(facts) /\ Losers(tab, a, retired) \subseteq Ids
    <3>1. a \in 0 .. Len(facts)
      BY <1>0, <2>3
    <3>2. Losers(tab, a, retired) \subseteq vecs
      BY DEF Losers, Indexed
    <3>. QED BY <1>0, <3>1, <3>2
  <2>. QED BY <1>0, <2>1, <2>4 DEF JobBounds
<1>. QED BY <1>1, <1>2

LEMMA StartDistilBounds ==
    ASSUME FactsInv, FactsBounds, FactsInv', NEW w \in Workers, StartDistil(w)
    PROVE  FactsBounds'
<1> DEFINE j == [Idle EXCEPT !.pc = "distilling", !.todo = Hubs]
<1>1. JobBounds(j, Len(facts)) /\ j.pc # "linking"
  BY TableTyped DEF JobBounds, Idle, Hubs
<1> HIDE DEF j
<1>. QED BY <1>1, CallBounds DEF StartDistil, j

LEMMA HubBounds ==
    ASSUME FactsInv, FactsBounds, FactsInv', NEW w \in Workers, NEW t, HubGivesNothing(w, t)
    PROVE  FactsBounds'
<1> DEFINE rest == job[w].todo \ {t}
           j == [Idle EXCEPT !.pc = IF rest = {} THEN "idle" ELSE "distilling", !.todo = rest]
<1>1. Len(facts) \in Nat /\ JobBounds(job[w], Len(facts))
  BY TableTyped DEF FactsBounds
<1>2. JobBounds(j, Len(facts)) /\ j.pc # "linking"
  BY <1>1 DEF JobBounds, Idle
<1>3. job' = [job EXCEPT ![w] = j]
  BY DEF HubGivesNothing
<1> HIDE DEF j
<1>. QED BY <1>2, <1>3, CallBounds DEF HubGivesNothing

LEMMA EmbedFailsBounds ==
    ASSUME FactsInv, FactsBounds, FactsInv', NEW w \in Workers, EmbedOfFactFails(w)
    PROVE  FactsBounds'
BY NextHubBounds, CallBounds DEF EmbedOfFactFails

LEMMA StartSweepBounds ==
    ASSUME FactsInv, FactsBounds, FactsInv', NEW w \in Workers, StartSweep(w)
    PROVE  FactsBounds'
<1> DEFINE j == Walk(facts, {f \in Ids : Valid(f)}, {})
<1>1. JobBounds(j, Len(facts)) /\ j.pc # "linking"
  <2>1. {f \in Ids : Valid(f)} \in SUBSET (Topics \cup Ids) /\ {} \in SUBSET Ids
    OBVIOUS
  <2>. QED BY <2>1, WalkBounds
<1>2. job' = [job EXCEPT ![w] = j]
  BY DEF StartSweep
<1> HIDE DEF j
<1>. QED BY <1>1, <1>2, CallBounds DEF StartSweep

\* The answer's stamp is a fact's id.
LEMMA StampedBounds ==
    ASSUME FactsInv, FactsBounds, FactsInv', NEW w \in Workers, NEW S, NEW j,
           facts' = Stamped(S, job[w].fact), job' = [job EXCEPT ![w] = j],
           JobBounds(j, Len(facts)), j.pc # "linking",
           UNCHANGED <<vecs, links, session, together, passedOver>>
    PROVE  FactsBounds'
<1>1. /\ Len(facts) \in Nat /\ Ids = 1 .. Len(facts) /\ job \in [Workers -> Job]
      /\ \A f \in Ids : facts[f] \in FactRow
  BY TableTyped
<1>2. job[w].fact \in Nat /\ job[w].fact <= MaxFacts /\ MaxFacts \in Nat
  BY <1>1, FactsAssumption DEF FactsBounds, JobBounds
<1>3. Len(facts') = Len(facts) /\ Ids' = Ids
  BY SameRowsThere DEF Stamped
<1>4. ASSUME NEW f \in Ids
      PROVE  facts'[f].by <= MaxFacts /\ (facts[f].live => facts'[f].live)
  <2>1. facts'[f] = IF f \in S /\ Valid(f) THEN [facts[f] EXCEPT !.by = job[w].fact] ELSE facts[f]
    BY DEF Stamped
  <2>2. facts[f] \in FactRow /\ facts[f].by <= MaxFacts
    BY <1>1 DEF FactsBounds
  <2>. QED BY <1>2, <2>1, <2>2 DEF FactRow
<1>5. \A v \in Workers : job'[v] = job[v] \/ job'[v] = j
  BY <1>1
<1>6. LinkingLive' /\ NothingDangles'
  BY <1>3, <1>4, <1>5, LiveStays
<1>7. /\ passedOver' \subseteq Ids' /\ together' \subseteq SUBSET Ids' /\ Len(facts') <= MaxFacts
      /\ Len(facts) <= Len(facts')
  BY <1>1, <1>3 DEF FactsBounds
<1>. QED BY <1>3, <1>4, <1>5, <1>6, <1>7, StepBounds

LEMMA SupersedeBounds ==
    ASSUME FactsInv, FactsBounds, FactsInv', NEW w \in Workers, NEW S, Supersede(w, S)
    PROVE  FactsBounds'
BY NextHubBounds, StampedBounds DEF Supersede

LEMMA SweepAnswerBounds ==
    ASSUME FactsInv, FactsBounds, FactsInv', NEW w \in Workers, NEW S, SweepAnswer(w, S)
    PROVE  FactsBounds'
<1> DEFINE j == Walk(facts', job[w].todo, job[w].retired \cup S)
<1>1. Ids = 1 .. Len(facts) /\ JobBounds(job[w], Len(facts)) /\ S \subseteq job[w].cands
  BY TableTyped DEF FactsBounds, SweepAnswer
<1>2. JobBounds(j, Len(facts)) /\ j.pc # "linking"
  <2>1. job[w].todo \in SUBSET (Topics \cup Ids) /\ job[w].retired \cup S \in SUBSET Ids
    BY <1>1 DEF JobBounds
  <2>. QED BY <2>1, WalkBounds
<1>3. job' = [job EXCEPT ![w] = j]
  BY DEF SweepAnswer
<1> HIDE DEF j
<1>. QED BY <1>2, <1>3, StampedBounds DEF SweepAnswer

\* One more row, live and not yet retired.
LEMMA InsertedBounds ==
    ASSUME FactsInv, FactsBounds, NEW t \in Topics, NEW k \in {"fact", "lesson"},
           NEW keep \in BOOLEAN, facts' = Append(facts, NewFact(t, k, keep)), Len(facts) < MaxFacts
    PROVE  /\ Len(facts') = Len(facts) + 1 /\ Len(facts) \in Nat /\ Len(facts') <= MaxFacts
           /\ Ids' = Ids \cup {Len(facts')} /\ facts'[Len(facts')].live
           /\ \A f \in Ids' : facts'[f].by <= MaxFacts
           /\ \A f \in Ids : facts[f].live => facts'[f].live
           /\ \A f \in Ids : facts'[f] = facts[f]
<1>1. /\ Ids' = Ids \cup {Len(facts) + 1} /\ \A f \in Ids : facts'[f] = facts[f]
      /\ facts'[Len(facts) + 1] = NewFact(t, k, keep)
  BY Inserted
<1>2. facts \in Seq(FactRow) /\ Len(facts) \in Nat /\ MaxFacts \in Nat
  BY TableTyped, FactsAssumption
<1>3. Len(facts') = Len(facts) + 1
  BY <1>2
<1>4. NewFact(t, k, keep).live /\ NewFact(t, k, keep).by = 0
  BY DEF NewFact
<1>5. \A f \in Ids : facts[f].by <= MaxFacts
  BY DEF FactsBounds
<1>6. Ids' = Ids \cup {Len(facts')} /\ facts'[Len(facts')] = NewFact(t, k, keep)
  BY <1>1, <1>3
<1>7. facts'[Len(facts')].live /\ facts'[Len(facts')].by <= MaxFacts
  BY <1>2, <1>4, <1>6
<1>8. \A f \in Ids' : facts'[f].by <= MaxFacts
  BY <1>1, <1>5, <1>6, <1>7
<1>9. Len(facts') <= MaxFacts
  BY <1>2, <1>3
<1>10. \A f \in Ids : facts'[f] = facts[f] /\ (facts[f].live => facts'[f].live)
  BY <1>1
<1>. QED BY <1>2, <1>3, <1>6, <1>7, <1>8, <1>9, <1>10

LEMMA OverlapBounds ==
    ASSUME FactsInv, NEW id
    PROVE  \A pair \in Overlaps(id) : pair \subseteq Ids \cup {id}
BY TableTyped DEF Overlaps, HandOK

LEMMA WriteFactBounds ==
    ASSUME FactsInv, FactsBounds, FactsInv', NEW w \in Workers, NEW t \in Topics,
           NEW keep \in BOOLEAN, WriteFact(w, t, keep)
    PROVE  FactsBounds'
<1> DEFINE id == Len(facts) + 1
           j == [job[w] EXCEPT !.pc = "linking", !.todo = job[w].todo \ {t}, !.fact = id]
<1>1. /\ facts' = Append(facts, NewFact(t, "fact", keep)) /\ Len(facts) < MaxFacts
      /\ together' = together \cup Overlaps(id) /\ job' = [job EXCEPT ![w] = j]
      /\ UNCHANGED <<vecs, links, session, passedOver>>
  BY TableTyped DEF WriteFact, Job
<1>2. /\ Len(facts') = id /\ Len(facts) \in Nat /\ id <= MaxFacts /\ Ids' = Ids \cup {id}
      /\ facts'[id].live /\ \A f \in Ids' : facts'[f].by <= MaxFacts
      /\ \A f \in Ids : facts[f].live => facts'[f].live
  BY <1>1, InsertedBounds
<1>3. /\ JobBounds(job[w], Len(facts)) /\ job[w] \in Job /\ job \in [Workers -> Job]
  BY TableTyped DEF FactsBounds
<1>4. JobBounds(j, id) /\ j.pc = "linking" /\ j.fact = id
  <2>1. JobBounds(job[w], id)
    BY <1>2, <1>3, BoundsGrow
  <2>2. id \in 0 .. id
    BY <1>2
  <2> HIDE DEF id
  <2>. QED BY <1>3, <2>1, <2>2 DEF JobBounds, Job
<1> HIDE DEF j
<1>5. \A v \in Workers : job'[v] = job[v] \/ job'[v] = j
  BY <1>1, <1>3
<1>6. LinkingLive'
  <2>1. ASSUME NEW v \in Workers, job'[v].pc = "linking" PROVE facts'[job'[v].fact].live
    <3>1. CASE job'[v] = j
      BY <1>2, <1>4, <3>1
    <3>2. CASE job'[v] = job[v]
      <4>1. job[v].fact \in Ids /\ facts[job[v].fact].live
        BY <2>1, <3>2, TableTyped DEF HandOK, FactsBounds, LinkingLive
      <4>. QED BY <1>2, <3>2, <4>1
    <3>. QED BY <1>5, <3>1, <3>2
  <2>. QED BY <2>1 DEF LinkingLive
<1>7. NothingDangles'
  BY <1>1, <1>2, LiveStays
<1>8. passedOver' \subseteq Ids' /\ together' \subseteq SUBSET Ids'
  BY <1>1, <1>2, OverlapBounds DEF FactsBounds
<1>9. \A v \in Workers : job'[v] = job[v] \/ JobBounds(job'[v], Len(facts'))
  BY <1>2, <1>4, <1>5
<1>10. Len(facts') <= MaxFacts /\ Len(facts) <= Len(facts')
  BY <1>2
<1>. QED BY <1>1, <1>2, <1>6, <1>7, <1>8, <1>9, <1>10, StepBounds

\* The ends of a new link are live, and in order.
LEMMA LinkFactBounds ==
    ASSUME FactsInv, FactsBounds, FactsInv', NEW w \in Workers, LinkFact(w)
    PROVE  FactsBounds'
<1> DEFINE f == job[w].fact
           near == {g \in Indexed(facts[f].topic) \ {f} : Valid(g)}
           j == IF near = {} THEN NextHub(w) ELSE [job[w] EXCEPT !.pc = "judging", !.cands = near]
<1>1. /\ vecs' = vecs \cup {f} /\ job' = [job EXCEPT ![w] = j]
      /\ UNCHANGED <<facts, session, together, passedOver>>
      /\ \E linked \in SUBSET near :
           links' = links \cup {<<IF f < g THEN f ELSE g, IF f < g THEN g ELSE f>> : g \in linked}
  BY DEF LinkFact
<1>2. /\ job[w] \in Job /\ f \in Ids /\ facts[f].live /\ job \in [Workers -> Job]
      /\ Len(facts) \in Nat /\ Ids = 1 .. Len(facts) /\ vecs \subseteq Ids /\ Ids' = Ids
      /\ JobBounds(job[w], Len(facts))
  BY <1>1, TableTyped DEF LinkFact, HandOK, FactsBounds, LinkingLive, Ids
<1>3. near \subseteq vecs /\ \A g \in near : g \in Ids /\ g # f /\ facts[g].live
  BY <1>2 DEF Indexed, Valid
<1>4. JobBounds(j, Len(facts)) /\ j.pc # "linking"
  <2>1. CASE near = {}
    BY <2>1, NextHubBounds
  <2>2. CASE near # {}
    <3> HIDE DEF near
    <3>1. j = [job[w] EXCEPT !.pc = "judging", !.cands = near]
      BY <2>2
    <3> HIDE DEF j, f
    <3>2. /\ j.pc = "judging" /\ j.todo = job[w].todo /\ j.fact = job[w].fact
          /\ j.cands = near /\ j.retired = job[w].retired
      BY <1>2, <3>1 DEF Job
    <3>3. near \subseteq 1 .. Len(facts)
      BY <1>2, <1>3
    <3>. QED BY <1>2, <3>2, <3>3 DEF JobBounds
  <2>. QED BY <2>1, <2>2
<1> HIDE DEF j, near
<1>5. \A v \in Workers : job'[v] = job[v] \/ job'[v] = j
  BY <1>1, <1>2
<1>6. LinkingLive'
  BY <1>1, <1>2, <1>4, <1>5, LiveStays
<1>7. NothingDangles'
  <2>1. PICK linked \in SUBSET near :
          links' = links \cup {<<IF f < g THEN f ELSE g, IF f < g THEN g ELSE f>> : g \in linked}
    BY <1>1
  <2>2. ASSUME NEW p \in links' \ links
        PROVE  p \in Ids \X Ids /\ p[1] < p[2] /\ facts[p[1]].live /\ facts[p[2]].live
    <3>1. PICK g \in linked : p = <<IF f < g THEN f ELSE g, IF f < g THEN g ELSE f>>
      BY <2>1
    <3>2. g \in Ids /\ g # f /\ facts[g].live
      BY <1>3
    <3>3. f \in Nat /\ g \in Nat
      BY <1>2, <3>2
    <3> HIDE DEF f
    <3>4. CASE f < g
      BY <1>2, <3>1, <3>2, <3>4
    <3>5. CASE ~(f < g)
      <4>1. g < f /\ p = <<g, f>>
        BY <3>1, <3>2, <3>3, <3>5
      <4>. QED BY <1>2, <3>2, <4>1
    <3>. QED BY <3>4, <3>5
  <2>. QED BY <1>1, <1>2, <2>2 DEF FactsBounds, NothingDangles
<1>8. /\ \A g \in Ids' : facts'[g].by <= MaxFacts
      /\ passedOver' \subseteq Ids' /\ together' \subseteq SUBSET Ids' /\ Len(facts') <= MaxFacts
      /\ Len(facts) <= Len(facts')
  BY <1>1, <1>2 DEF FactsBounds
<1>9. \A v \in Workers : job'[v] = job[v] \/ JobBounds(job'[v], Len(facts'))
  BY <1>1, <1>4, <1>5
<1>. QED BY <1>1, <1>6, <1>7, <1>8, <1>9, StepBounds

-----------------------------------------------------------------------------
\* Sessions.
LEMMA SessionTyped ==
    ASSUME FactsBounds, NEW s \in Sessions
    PROVE  /\ session \in [Sessions -> SessionRow(Len(facts))]
           /\ session[s] \in SessionRow(Len(facts))
           /\ session[s].label \in Labels \cup {"none"} /\ session[s].topic \in Topics
           /\ session[s].tasks \in [Extractors -> {"starting", "asking", "over"}]
           /\ session[s].shown \in SUBSET (1 .. Len(facts))
<1>1. session \in [Sessions -> SessionRow(Len(facts))] /\ session[s] \in SessionRow(Len(facts))
  BY DEF FactsBounds
<1>. QED BY <1>1 DEF SessionRow

LEMMA TaskTyped ==
    ASSUME FactsBounds, NEW s \in Sessions, NEW x \in Extractors,
           NEW pc \in {"starting", "asking", "over"}, TaskGoesTo(s, x, pc)
    PROVE  \E row \in SessionRow(Len(facts)) : session' = [session EXCEPT ![s] = row]
<1> DEFINE row == [session[s] EXCEPT !.tasks[x] = pc]
<1>1. row \in SessionRow(Len(facts))
  <2>1. [session[s].tasks EXCEPT ![x] = pc] \in [Extractors -> {"starting", "asking", "over"}]
    BY SessionTyped
  <2>. QED BY <2>1, SessionTyped DEF SessionRow
<1>2. session' = [session EXCEPT ![s] = row]
  BY DEF TaskGoesTo
<1>. QED BY <1>1, <1>2

LEMMA QuietSessionBounds ==
    ASSUME FactsInv, FactsBounds, FactsInv', NEW s \in Sessions,
           \/ FindContrast(s)
           \/ \E x \in Extractors : LessonDropped(s, x)
           \/ \E t \in Topics : Retrieve(s, t)
    PROVE  FactsBounds'
<1>1. ASSUME NEW x \in Extractors, NEW pc \in {"starting", "asking", "over"}, TaskGoesTo(s, x, pc),
             UNCHANGED <<facts, vecs, links, job, together, passedOver>>
      PROVE  FactsBounds'
  BY <1>1, TaskTyped, SessionBounds
<1>2. CASE FindContrast(s)
  <2> DEFINE pc == IF HasContrast(s) THEN "asking" ELSE "over"
  <2>1. pc \in {"starting", "asking", "over"} /\ "expel" \in Extractors
    BY DEF Extractors
  <2>2. TaskGoesTo(s, "expel", pc) /\ UNCHANGED <<facts, vecs, links, job, together, passedOver>>
    BY <1>2 DEF FindContrast
  <2> HIDE DEF pc
  <2>. QED BY <1>1, <2>1, <2>2
<1>3. ASSUME NEW x \in Extractors, LessonDropped(s, x) PROVE FactsBounds'
  BY <1>1, <1>3 DEF LessonDropped
<1>4. ASSUME NEW t \in Topics, Retrieve(s, t) PROVE FactsBounds'
  <2>1. PICK S \in SUBSET vecs :
          /\ session' = [session EXCEPT ![s].shown = @ \cup S]
          /\ UNCHANGED <<facts, vecs, links, job, together, passedOver>>
    BY <1>4 DEF Retrieve, Indexed
  <2> DEFINE row == [session[s] EXCEPT !.shown = @ \cup S]
  <2>2. row \in SessionRow(Len(facts))
    <3>1. session[s].shown \cup S \in SUBSET (1 .. Len(facts))
      BY <2>1, SessionTyped, TableTyped
    <3>. QED BY <3>1, SessionTyped DEF SessionRow
  <2>3. session' = [session EXCEPT ![s] = row]
    BY <2>1
  <2> HIDE DEF row
  <2>. QED BY <2>1, <2>2, <2>3, SessionBounds
<1>. QED BY <1>2, <1>3, <1>4

LEMMA EndSessionBounds ==
    ASSUME FactsInv, FactsBounds, FactsInv', NEW s \in Sessions, NEW o \in Labels, NEW moved,
           EndSession(s, o, moved)
    PROVE  FactsBounds'
<1> DEFINE tasks == IF o \in {"ok", "fail"} THEN [cheatsheet |-> "asking", expel |-> "starting"]
                    ELSE NoTasks
           row == [session[s] EXCEPT !.label = o, !.shown = {}, !.tasks = tasks]
<1>1. /\ facts' = [f \in Ids |-> IF f \in moved THEN [facts[f] EXCEPT !.trusted = (o = "ok")]
                                 ELSE facts[f]]
      /\ UNCHANGED <<vecs, links, job, together, passedOver>>
  BY DEF EndSession
<1>2. session' = [session EXCEPT ![s] = row]
  BY SessionTyped DEF EndSession, SessionRow
<1>3. tasks \in [Extractors -> {"starting", "asking", "over"}]
  BY DEF Extractors, NoTasks
<1>4. row \in SessionRow(Len(facts))
  <2> HIDE DEF tasks
  <2>. QED BY <1>3, SessionTyped DEF SessionRow
<1> HIDE DEF row, tasks
<1>5. /\ Len(facts) \in Nat /\ \A f \in Ids : facts[f] \in FactRow
      /\ Len(facts') = Len(facts) /\ Ids' = Ids
  BY <1>1, TableTyped, SameRowsThere
<1>6. ASSUME NEW f \in Ids
      PROVE  facts'[f].by <= MaxFacts /\ (facts[f].live => facts'[f].live)
  <2>1. facts'[f] = IF f \in moved THEN [facts[f] EXCEPT !.trusted = (o = "ok")] ELSE facts[f]
    BY <1>1
  <2>2. facts'[f].by = facts[f].by /\ facts'[f].live = facts[f].live
    BY <1>5, <2>1 DEF FactRow
  <2>. QED BY <2>2 DEF FactsBounds
<1>7. LinkingLive' /\ NothingDangles'
  BY <1>1, <1>5, <1>6, LiveStays
<1>8. /\ passedOver' \subseteq Ids' /\ together' \subseteq SUBSET Ids' /\ Len(facts') <= MaxFacts
      /\ Len(facts) <= Len(facts')
  <2>1. passedOver' = passedOver /\ together' = together
    BY <1>1
  <2>. QED BY <1>5, <2>1 DEF FactsBounds
<1>9. session' \in [Sessions -> SessionRow(Len(facts'))]
  BY <1>2, <1>4, <1>5, SessionTyped
<1>. QED BY <1>1, <1>5, <1>6, <1>7, <1>8, <1>9, StepBounds

LEMMA LessonBounds ==
    ASSUME FactsInv, FactsBounds, FactsInv', NEW s \in Sessions, NEW x \in Extractors,
           NEW t \in Topics, StoreLesson(s, x, t)
    PROVE  FactsBounds'
<1>0. PICK row \in SessionRow(Len(facts)) : session' = [session EXCEPT ![s] = row]
  BY TaskTyped DEF StoreLesson
<1>1. CASE ~Novel(t)
  BY <1>0, <1>1, SessionBounds DEF StoreLesson
<1>2. CASE Novel(t)
  <2> DEFINE id == Len(facts) + 1
  <2>1. /\ facts' = Append(facts, NewFact(t, "lesson", TRUE)) /\ vecs' = vecs \cup {id}
        /\ passedOver' = passedOver \cup {f \in Twins(t) : ~facts[f].trusted}
        /\ together' = together \cup Overlaps(id) /\ UNCHANGED <<links, job>> /\ Len(facts) < MaxFacts
    BY <1>2 DEF StoreLesson
  <2>2. /\ Len(facts') = id /\ Len(facts) \in Nat /\ id <= MaxFacts /\ Ids' = Ids \cup {id}
        /\ facts'[id].live /\ \A f \in Ids' : facts'[f].by <= MaxFacts
        /\ \A f \in Ids : facts[f].live => facts'[f].live
    BY <2>1, InsertedBounds
  <2> HIDE DEF id
  <2>3. LinkingLive'
    BY <2>1, <2>2, LiveStays
  <2>4. NothingDangles'
    <3>1. vecs \subseteq Ids
      BY TableTyped
    <3>2. \A f \in vecs' : facts'[f].live
      BY <2>1, <2>2, <3>1 DEF FactsBounds, NothingDangles
    <3>3. ASSUME NEW p \in links
          PROVE  p \in Ids' \X Ids' /\ p[1] < p[2] /\ facts'[p[1]].live /\ facts'[p[2]].live
      <4>1. p \in Ids \X Ids /\ p[1] < p[2] /\ facts[p[1]].live /\ facts[p[2]].live
        BY DEF FactsBounds, NothingDangles
      <4>2. p[1] \in Ids /\ p[2] \in Ids /\ p \in Ids' \X Ids'
        BY <2>2, <4>1
      <4>. QED BY <2>2, <4>1, <4>2
    <3>. QED BY <2>1, <3>2, <3>3 DEF NothingDangles
  <2>5. passedOver' \subseteq Ids' /\ together' \subseteq SUBSET Ids'
    <3>1. Twins(t) \subseteq Ids
      BY TableTyped DEF Twins, Indexed
    <3>. QED BY <2>1, <2>2, <3>1, OverlapBounds DEF FactsBounds
  <2>6. session' \in [Sessions -> SessionRow(Len(facts'))]
    <3>1. Len(facts) <= Len(facts') /\ Len(facts') \in Nat
      BY <2>2 DEF id
    <3>2. SessionRow(Len(facts)) \subseteq SessionRow(Len(facts'))
      BY <2>2, <3>1, BoundsGrow
    <3>. QED BY <1>0, <3>2, SessionTyped
  <2>7. Len(facts') <= MaxFacts /\ Len(facts) <= Len(facts')
    BY <2>2 DEF id
  <2>. QED BY <2>1, <2>2, <2>3, <2>4, <2>5, <2>6, <2>7, StepBounds
<1>. QED BY <1>1, <1>2

\* Nothing refers to what is evicted: vectors and links go with it, and no call was
\* about to link it.
LEMMA EvictBounds ==
    ASSUME FactsInv, FactsBounds, FactsInv', NEW S, EvictFacts(S)
    PROVE  FactsBounds'
<1>1. /\ facts' = [f \in Ids |-> IF f \in S THEN Gone(facts[f].topic) ELSE facts[f]]
      /\ vecs' = vecs \ S /\ passedOver' = passedOver \ S
      /\ links' = {p \in links : p[1] \notin S /\ p[2] \notin S}
      /\ UNCHANGED <<job, session, together>>
      /\ \A f \in S : \A w \in Workers : job[w].pc = "linking" => job[w].fact # f
  BY DEF EvictFacts, Evictable
<1>2. /\ Len(facts) \in Nat /\ \A f \in Ids : facts[f] \in FactRow
      /\ Len(facts') = Len(facts) /\ Ids' = Ids /\ vecs \subseteq Ids
  BY <1>1, TableTyped, SameRowsThere
<1>3. \A f \in Ids \ S : facts'[f] = facts[f]
  BY <1>1
<1>4. ASSUME NEW f \in Ids PROVE facts'[f].by <= MaxFacts
  <2>1. CASE f \in S
    <3>1. facts'[f] = Gone(facts[f].topic) /\ facts[f].topic \in Topics
      BY <1>1, <1>2, <2>1 DEF FactRow
    <3>. QED BY <3>1, GoneTyped, FactsAssumption
  <2>2. CASE f \notin S
    BY <1>3, <2>2 DEF FactsBounds
  <2>. QED BY <2>1, <2>2
<1>5. LinkingLive'
  <2>1. ASSUME NEW w \in Workers, job[w].pc = "linking" PROVE facts'[job[w].fact].live
    <3>1. job[w].fact \in Ids /\ facts[job[w].fact].live
      BY <2>1, TableTyped DEF HandOK, FactsBounds, LinkingLive
    <3>. QED BY <1>1, <1>3, <2>1, <3>1
  <2>. QED BY <1>1, <2>1 DEF LinkingLive
<1>6. NothingDangles'
  <2>1. \A f \in vecs' : facts'[f].live
    BY <1>1, <1>2, <1>3 DEF FactsBounds, NothingDangles
  <2>2. ASSUME NEW p \in links'
        PROVE  p \in Ids' \X Ids' /\ p[1] < p[2] /\ facts'[p[1]].live /\ facts'[p[2]].live
    <3>1. p \in Ids \X Ids /\ p[1] < p[2] /\ facts[p[1]].live /\ facts[p[2]].live
      BY <1>1 DEF FactsBounds, NothingDangles
    <3>2. p[1] \in Ids \ S /\ p[2] \in Ids \ S
      BY <1>1, <3>1
    <3>. QED BY <1>2, <1>3, <3>1, <3>2
  <2>. QED BY <2>1, <2>2 DEF NothingDangles
<1>7. /\ passedOver' \subseteq Ids' /\ together' \subseteq SUBSET Ids' /\ Len(facts') <= MaxFacts
      /\ Len(facts) <= Len(facts')
  <2>1. passedOver' \subseteq passedOver /\ together' = together
    BY <1>1
  <2>. QED BY <1>2, <2>1 DEF FactsBounds
<1>. QED BY <1>1, <1>2, <1>4, <1>5, <1>6, <1>7, StepBounds

LEMMA RestartedBounds ==
    ASSUME FactsInv, FactsBounds, Restarted, NEW n \in Nat, Len(facts) <= n
    PROVE  /\ \A w \in Workers : JobBounds(job'[w], n) /\ job'[w].pc # "linking"
           /\ session' \in [Sessions -> SessionRow(n)]
<1>1. /\ job' = [w \in Workers |-> Idle]
      /\ session' = [s \in Sessions |-> [session[s] EXCEPT !.shown = {}, !.tasks = NoTasks]]
  BY DEF Restarted
<1>2. \A w \in Workers : JobBounds(job'[w], n) /\ job'[w].pc # "linking"
  BY <1>1, IdleBounds
<1>3. ASSUME NEW s \in Sessions
      PROVE  [session[s] EXCEPT !.shown = {}, !.tasks = NoTasks] \in SessionRow(n)
  <2>1. NoTasks \in [Extractors -> {"starting", "asking", "over"}]
    BY DEF NoTasks
  <2>. QED BY <2>1, SessionTyped DEF SessionRow
<1>. QED BY <1>1, <1>2, <1>3

LEMMA RestartBounds ==
    ASSUME FactsInv, FactsBounds, FactsInv', RestartFacts
    PROVE  FactsBounds'
<1>1. Restarted /\ UNCHANGED <<facts, vecs, links, together, passedOver>>
  BY DEF RestartFacts
<1>2. Len(facts) \in Nat /\ Ids' = Ids
  BY <1>1, TableTyped DEF Ids
<1>3. /\ \A w \in Workers : JobBounds(job'[w], Len(facts)) /\ job'[w].pc # "linking"
      /\ session' \in [Sessions -> SessionRow(Len(facts))]
  BY <1>1, <1>2, RestartedBounds
<1>4. LinkingLive' /\ NothingDangles'
  BY <1>1, <1>2, <1>3, LiveStays
<1>5. /\ \A f \in Ids' : facts'[f].by <= MaxFacts
      /\ passedOver' \subseteq Ids' /\ together' \subseteq SUBSET Ids' /\ Len(facts') <= MaxFacts
      /\ Len(facts) <= Len(facts')
  BY <1>1, <1>2 DEF FactsBounds
<1>. QED BY <1>1, <1>3, <1>4, <1>5, StepBounds

LEMMA DieStoringBounds ==
    ASSUME FactsInv, FactsBounds, FactsInv', NEW s, NEW t \in Topics, DieStoringLesson(s, t)
    PROVE  FactsBounds'
<1>1. /\ facts' = Append(facts, NewFact(t, "lesson", TRUE)) /\ Len(facts) < MaxFacts /\ Restarted
      /\ UNCHANGED <<vecs, links, together, passedOver>>
  BY DEF DieStoringLesson
<1>2. /\ Len(facts') = Len(facts) + 1 /\ Len(facts) \in Nat /\ Len(facts') <= MaxFacts
      /\ Ids' = Ids \cup {Len(facts')}
      /\ \A f \in Ids' : facts'[f].by <= MaxFacts
      /\ \A f \in Ids : facts[f].live => facts'[f].live
  BY <1>1, InsertedBounds
<1>3. Len(facts') \in Nat /\ Len(facts) <= Len(facts')
  BY <1>2
<1>4. /\ \A w \in Workers : JobBounds(job'[w], Len(facts')) /\ job'[w].pc # "linking"
      /\ session' \in [Sessions -> SessionRow(Len(facts'))]
  <2> DEFINE n == Len(facts')
  <2>1. n \in Nat /\ Len(facts) <= n
    BY <1>3
  <2> HIDE DEF n
  <2>2. /\ \A w \in Workers : JobBounds(job'[w], n) /\ job'[w].pc # "linking"
        /\ session' \in [Sessions -> SessionRow(n)]
    BY <1>1, <2>1, RestartedBounds
  <2>. QED BY <2>2 DEF n
<1>5. LinkingLive' /\ NothingDangles'
  BY <1>1, <1>2, <1>4, LiveStays
<1>6. passedOver' \subseteq Ids' /\ together' \subseteq SUBSET Ids'
  BY <1>1, <1>2 DEF FactsBounds
<1>. QED BY <1>2, <1>3, <1>4, <1>5, <1>6, StepBounds

LEMMA InitialBounds == FactsInit => FactsBounds
<1>. SUFFICES ASSUME FactsInit PROVE FactsBounds
  OBVIOUS
<1>1. /\ facts = <<>> /\ vecs = {} /\ links = {} /\ Ids = {} /\ Len(facts) = 0
      /\ together = {} /\ passedOver = {} /\ MaxFacts \in Nat
  BY FactsAssumption DEF FactsInit, Ids
<1>2. \A w \in Workers : JobBounds(job[w], 0) /\ job[w].pc = "idle"
  BY IdleBounds DEF FactsInit
<1>3. session \in [Sessions -> SessionRow(0)]
  <2>1. ASSUME NEW t \in Topics PROVE [Waiting EXCEPT !.topic = t] \in SessionRow(0)
    <3>1. NoTasks \in [Extractors -> {"starting", "asking", "over"}]
      BY DEF NoTasks
    <3>. QED BY <3>1 DEF Waiting, SessionRow
  <2>2. {[Waiting EXCEPT !.topic = t] : t \in Topics} \subseteq SessionRow(0)
    BY <2>1
  <2>. QED BY <2>2 DEF FactsInit
<1>4. LinkingLive /\ NothingDangles
  BY <1>1, <1>2 DEF LinkingLive, NothingDangles
<1>. QED BY <1>1, <1>2, <1>3, <1>4 DEF FactsBounds

LEMMA InductiveBounds == FactsInv /\ FactsBounds /\ FactsInv' /\ [FactsNext]_factVars => FactsBounds'
<1>. SUFFICES ASSUME FactsInv, FactsBounds, FactsInv', [FactsNext]_factVars PROVE FactsBounds'
  OBVIOUS
<1>1. ASSUME NEW w \in Workers,
             StartDistil(w) \/ StartSweep(w) \/ LinkFact(w) \/ EmbedOfFactFails(w)
      PROVE  FactsBounds'
  BY <1>1, StartDistilBounds, StartSweepBounds, LinkFactBounds, EmbedFailsBounds
<1>2. ASSUME NEW w \in Workers, NEW t \in Topics, HubGivesNothing(w, t) PROVE FactsBounds'
  BY <1>2, HubBounds
<1>3. ASSUME NEW w \in Workers, NEW t \in Topics, NEW keep \in Importances, WriteFact(w, t, keep)
      PROVE  FactsBounds'
  <2>1. keep \in BOOLEAN
    BY FactsAssumption
  <2>. QED BY <1>3, <2>1, WriteFactBounds
<1>4. ASSUME NEW w \in Workers, NEW S, Supersede(w, S) \/ SweepAnswer(w, S) PROVE FactsBounds'
  BY <1>4, SupersedeBounds, SweepAnswerBounds
<1>5. ASSUME NEW s \in Sessions,
             \/ FindContrast(s)
             \/ \E x \in Extractors : LessonDropped(s, x)
             \/ \E t \in Topics : Retrieve(s, t)
      PROVE  FactsBounds'
  BY <1>5, QuietSessionBounds
<1>6. ASSUME NEW s \in Sessions, NEW o \in Labels, NEW moved, EndSession(s, o, moved)
      PROVE  FactsBounds'
  BY <1>6, EndSessionBounds
<1>7. ASSUME NEW s \in Sessions, NEW t \in Topics,
             DieStoringLesson(s, t) \/ \E x \in Extractors : StoreLesson(s, x, t)
      PROVE  FactsBounds'
  BY <1>7, DieStoringBounds, LessonBounds
<1>8. ASSUME NEW S, EvictFacts(S) PROVE FactsBounds'
  BY <1>8, EvictBounds
<1>9. CASE RestartFacts
  BY <1>9, RestartBounds
<1>10. CASE UNCHANGED factVars
  BY <1>10 DEF factVars, FactsBounds, LinkingLive, NothingDangles, Ids
<1>. QED BY <1>1, <1>2, <1>3, <1>4, <1>5, <1>6, <1>7, <1>8, <1>9, <1>10 DEF FactsNext

\* Whatever a call waits for, retention never takes what it is about to index and
\* link: no vector and no link outlives its fact.
LEMMA FactsTypeCorrect == FactsSpec => []FactsTypeOK
<1>1. FactsInv /\ FactsBounds => FactsTypeOK
  BY BoundsSuffice
<1>. QED BY <1>1, InitialBounds, InductiveBounds, AlwaysFacts, PTL DEF FactsSpec

-----------------------------------------------------------------------------
(* The memory files: what a slot holds is always paragraphs of lines.      *)

\* A slot with nothing in it has no lines.
LEMMA NoLines == LinesOf(<<>>) = <<>>
BY DEF LinesOf, FlattenSeq

LEMMA HasLeast ==
  ASSUME NEW T \in SUBSET Nat, T # {} PROVE \E x \in T : \A y \in T : x <= y
<1>. DEFINE R == OpToRel(<, Nat)
<1>1. IsWellFoundedOn(R, Nat)
  BY NatLessThanWellFounded
<1>4. \A a, b \in Nat : a < b => <<a, b>> \in R
  BY DEF OpToRel
<1>. HIDE DEF R
<1>2. PICK x \in T : \A y \in T : <<y, x>> \notin R
  BY <1>1, WFMin
<1>3. ASSUME NEW y \in T PROVE x <= y
  <2>1. ~(y < x)
    BY <1>2, <1>4
  <2>. QED BY <2>1
<1>. QED BY <1>3

LEMMA JoinedSays ==
  ASSUME NEW S, NEW a \in Seq(S), NEW b \in Seq(S)
  PROVE  a \o b \in Seq(S) /\ ToSet(a \o b) = ToSet(a) \cup ToSet(b)
<1>. DEFINE ab == a \o b
<1>1. /\ ab \in Seq(S) /\ Len(ab) = Len(a) + Len(b)
      /\ \A i \in 1 .. Len(a) + Len(b) : ab[i] = IF i <= Len(a) THEN a[i] ELSE b[i - Len(a)]
  BY ConcatProperties
<1>2. Len(a) \in Nat /\ Len(b) \in Nat
  OBVIOUS
<1>3. DOMAIN ab = 1 .. Len(a) + Len(b) /\ DOMAIN a = 1 .. Len(a) /\ DOMAIN b = 1 .. Len(b)
  BY <1>1
<1>. HIDE DEF ab
<1>4. ASSUME NEW i \in DOMAIN ab PROVE ab[i] \in ToSet(a) \cup ToSet(b)
  <2>1. CASE i <= Len(a)
    BY <2>1, <1>1, <1>2, <1>3 DEF ToSet
  <2>2. CASE ~(i <= Len(a))
    <3>1. ab[i] = b[i - Len(a)] /\ i - Len(a) \in 1 .. Len(b)
      BY <2>2, <1>1, <1>2, <1>3
    <3>. QED BY <3>1, <1>3 DEF ToSet
  <2>. QED BY <2>1, <2>2
<1>5. ASSUME NEW i \in DOMAIN a PROVE a[i] \in ToSet(ab)
  <2>1. i \in DOMAIN ab /\ ab[i] = a[i]
    BY <1>1, <1>2, <1>3
  <2>. QED BY <2>1 DEF ToSet
<1>6. ASSUME NEW i \in DOMAIN b PROVE b[i] \in ToSet(ab)
  <2>1. i + Len(a) \in 1 .. Len(a) + Len(b) /\ ~(i + Len(a) <= Len(a))
    BY <1>2, <1>3
  <2>2. (i + Len(a)) - Len(a) = i
    BY <1>2, <1>3
  <2>3. i + Len(a) \in DOMAIN ab /\ ab[i + Len(a)] = b[i]
    BY <1>1, <1>3, <2>1, <2>2
  <2>. QED BY <2>3 DEF ToSet
<1>7. ToSet(ab) = ToSet(a) \cup ToSet(b)
  BY <1>4, <1>5, <1>6 DEF ToSet
<1>. QED BY <1>1, <1>7 DEF ab

\* The recursion that joins the paragraphs has a value.
LEMMA Flattens ==
  ASSUME NEW s, NEW n \in Nat \ {0}
  PROVE  \E f : f = [i \in 1 .. n |-> IF i = 1 THEN s[i] ELSE f[i - 1] \o s[i]]
<1>. DEFINE Good(k) == \E f : f = [i \in 1 .. k |-> IF i = 1 THEN s[i] ELSE f[i - 1] \o s[i]]
            bad == {k \in 1 .. n : ~Good(k)}
<1>1. Good(1)
  <2>1. [i \in 1 .. 1 |-> s[i]] = [i \in 1 .. 1 |->
            IF i = 1 THEN s[i] ELSE [j \in 1 .. 1 |-> s[j]][i - 1] \o s[i]]
    OBVIOUS
  <2>. QED BY <2>1
<1>2. ASSUME NEW k \in 2 .. n, Good(k - 1) PROVE Good(k)
  <2>1. PICK f : f = [i \in 1 .. k - 1 |-> IF i = 1 THEN s[i] ELSE f[i - 1] \o s[i]]
    BY <1>2
  <2>. DEFINE g == [i \in 1 .. k |-> IF i < k THEN f[i] ELSE f[k - 1] \o s[k]]
              G == [i \in 1 .. k |-> IF i = 1 THEN s[i] ELSE g[i - 1] \o s[i]]
  <2>2. ASSUME NEW i \in 1 .. k PROVE g[i] = G[i]
    <3>1. CASE i = 1
      BY <2>1, <3>1
    <3>2. CASE i # 1 /\ i < k
      <4>1. i \in 1 .. k - 1 /\ i - 1 \in 1 .. k /\ i - 1 < k
        BY <3>2
      <4>2. f[i] = f[i - 1] \o s[i]
        BY <2>1, <3>2, <4>1
      <4>3. g[i] = f[i] /\ g[i - 1] = f[i - 1]
        BY <3>2, <4>1
      <4>4. G[i] = g[i - 1] \o s[i]
        BY <3>2
      <4>. QED BY <4>2, <4>3, <4>4
    <3>3. CASE i = k
      <4>1. k - 1 \in 1 .. k /\ k - 1 < k /\ ~(k < k) /\ k # 1
        OBVIOUS
      <4>2. g[k - 1] = f[k - 1]
        BY <4>1
      <4>4. k \in 1 .. k
        OBVIOUS
      <4>3. g[k] = f[k - 1] \o s[k]
        BY <4>1, <4>4
      <4>. HIDE DEF g
      <4>5. G[k] = IF k = 1 THEN s[k] ELSE g[k - 1] \o s[k]
        BY <4>4
      <4>. QED BY <3>3, <4>1, <4>2, <4>3, <4>5
    <3>. QED BY <3>1, <3>2, <3>3
  <2>3. g = G
    BY <2>2
  <2>. QED BY <2>3
<1>. HIDE DEF Good
<1>3. bad = {}
  <2>1. SUFFICES ASSUME bad # {} PROVE FALSE
    OBVIOUS
  <2>2. bad \in SUBSET Nat
    OBVIOUS
  <2>3. PICK k \in bad : \A j \in bad : k <= j
    <3>. HIDE DEF bad
    <3>. QED BY <2>1, <2>2, HasLeast
  <2>4. k \in 1 .. n /\ ~Good(k) /\ k # 1
    BY <1>1, <2>3
  <2>5. k - 1 \in 1 .. n /\ k \in 2 .. n /\ ~(k <= k - 1)
    BY <2>4
  <2>6. Good(k - 1)
    BY <2>3, <2>5
  <2>. QED BY <1>2, <2>4, <2>5, <2>6
<1>4. Good(n)
  BY <1>3
<1>. QED BY <1>4 DEF Good

\* The lines of a slot are those of its paragraphs.
LEMMA LinesAreParagraphs ==
  ASSUME NEW S, NEW text \in Seq(Seq(S))
  PROVE  /\ LinesOf(text) \in Seq(S)
         /\ \A x : x \in Has(text) <=> \E i \in DOMAIN text : x \in ToSet(text[i])
<1>. DEFINE n == Len(text)
<1>1. n \in Nat /\ DOMAIN text = 1 .. n /\ \A i \in 1 .. n : text[i] \in Seq(S)
  OBVIOUS
<1>2. CASE n = 0
  <2>1. text = <<>>
    BY <1>2, EmptySeq
  <2>2. LinesOf(text) = <<>> /\ DOMAIN text = {} /\ <<>> \in Seq(S) /\ DOMAIN <<>> = {}
    BY <1>1, <1>2, <2>1, NoLines
  <2>. QED BY <2>2 DEF Has, ToSet
<1>3. CASE n # 0
  <2>. DEFINE f == CHOOSE g : g = [i \in 1 .. n |-> IF i = 1 THEN text[i] ELSE g[i - 1] \o text[i]]
  <2>1. LinesOf(text) = f[n]
    BY <1>3 DEF LinesOf, FlattenSeq
  <2>2. f = [i \in 1 .. n |-> IF i = 1 THEN text[i] ELSE f[i - 1] \o text[i]]
    <3>. HIDE DEF n
    <3>1. \E g : g = [i \in 1 .. n |-> IF i = 1 THEN text[i] ELSE g[i - 1] \o text[i]]
      <4>1. n \in Nat \ {0}
        BY <1>1, <1>3
      <4>. QED BY <4>1, Flattens
    <3>. QED BY <3>1
  <2>. HIDE DEF f, n
  <2>3. f[1] = text[1] /\ \A k \in 2 .. n : f[k] = f[k - 1] \o text[k]
    <3>1. 1 \in 1 .. n
      BY <1>1, <1>3
    <3>2. f[1] = text[1]
      BY <2>2, <3>1
    <3>3. ASSUME NEW k \in 2 .. n PROVE f[k] = f[k - 1] \o text[k]
      <4>1. k \in 1 .. n /\ k # 1
        BY <1>1
      <4>2. f[k] = IF k = 1 THEN text[k] ELSE f[k - 1] \o text[k]
        BY <2>2, <4>1
      <4>. QED BY <4>1, <4>2
    <3>. QED BY <3>2, <3>3
  <2>. DEFINE Good(k) == /\ f[k] \in Seq(S)
                         /\ \A x : x \in ToSet(f[k]) <=> \E i \in 1 .. k : x \in ToSet(text[i])
              bad == {k \in 1 .. n : ~Good(k)}
  <2>4. Good(1)
    <3>1. 1 \in 1 .. n /\ 1 .. 1 = {1}
      BY <1>1, <1>3
    <3>. QED BY <1>1, <2>3, <3>1
  <2>5. ASSUME NEW k \in 2 .. n, Good(k - 1) PROVE Good(k)
    <3>1. k \in 1 .. n /\ 1 .. k = (1 .. k - 1) \cup {k}
      BY <1>1
    <3>2. text[k] \in Seq(S) /\ f[k] = f[k - 1] \o text[k]
      BY <1>1, <2>3, <3>1
    <3>3. f[k] \in Seq(S) /\ ToSet(f[k]) = ToSet(f[k - 1]) \cup ToSet(text[k])
      BY <2>5, <3>2, JoinedSays
    <3>4. \A x : x \in ToSet(f[k]) <=> x \in ToSet(f[k - 1]) \/ x \in ToSet(text[k])
      BY <3>3
    <3>5. \A x : x \in ToSet(f[k - 1]) <=> \E i \in 1 .. k - 1 : x \in ToSet(text[i])
      BY <2>5
    <3>. HIDE DEF Good
    <3>6. \A x : x \in ToSet(f[k]) <=> \E i \in 1 .. k : x \in ToSet(text[i])
      BY <3>1, <3>4, <3>5
    <3>. QED BY <3>3, <3>6 DEF Good
  <2>. HIDE DEF Good
  <2>6. bad = {}
    <3>1. SUFFICES ASSUME bad # {} PROVE FALSE
      OBVIOUS
    <3>2. bad \in SUBSET Nat
      OBVIOUS
    <3>3. PICK k \in bad : \A j \in bad : k <= j
      <4>. HIDE DEF bad
      <4>. QED BY <3>1, <3>2, HasLeast
    <3>4. k \in 1 .. n /\ ~Good(k) /\ k # 1
      BY <2>4, <3>3
    <3>5. k - 1 \in 1 .. n /\ k \in 2 .. n /\ ~(k <= k - 1)
      BY <1>1, <3>4
    <3>6. Good(k - 1)
      BY <3>3, <3>5
    <3>. QED BY <2>5, <3>4, <3>5, <3>6
  <2>7. Good(n)
    BY <1>1, <1>3, <2>6
  <2>. QED BY <1>1, <2>1, <2>7 DEF Good, Has
<1>. QED BY <1>2, <1>3

\* A text cut into entries is a text: paragraphs, or a paragraph for each line.
LEMMA SplitIsText ==
  ASSUME NEW S, NEW text \in Seq(Seq(S)) PROVE Split(text) \in Seq(Seq(S))
<1>1. CASE Len(text) > 1
  BY <1>1 DEF Split
<1>2. CASE ~(Len(text) > 1)
  <2>. DEFINE all == LinesOf(text)
  <2>1. all \in Seq(S)
    BY LinesAreParagraphs
  <2>. HIDE DEF all
  <2>2. DOMAIN all = 1 .. Len(all) /\ Len(all) \in Nat
    BY <2>1, LenProperties
  <2>3. \A i \in 1 .. Len(all) : <<all[i]>> \in Seq(S)
    BY <2>1, <2>2
  <2>4. [i \in DOMAIN all |-> <<all[i]>>] \in Seq(Seq(S))
    BY <2>2, <2>3
  <2>. QED BY <1>2, <2>4 DEF Split, all
<1>. QED BY <1>1, <1>2

\* What consolidation writes is some of the entries it read.
LEMMA MergesAreTexts ==
  ASSUME NEW S, NEW text \in Seq(Seq(S)), NEW merged \in Merges(text)
  PROVE  merged \in Seq(Seq(S))
<1>. DEFINE entries == Split(text)
            n == Cardinality(Firsts(entries))
<1>1. entries \in Seq(Seq(S))
  BY SplitIsText
<1>2. merged \in [1 .. n -> Range(entries)]
  BY DEF Merges
<1>3. n \in Nat
  <2>1. IsFiniteSet(DOMAIN entries)
    BY <1>1, FS_Interval
  <2>2. Firsts(entries) \subseteq DOMAIN entries
    BY DEF Firsts
  <2>. QED BY <2>1, <2>2, FS_Subset, FS_CardinalityType
<1>4. Range(entries) \subseteq Seq(S)
  BY <1>1 DEF Range
<1>. HIDE DEF n, entries
<1>. QED BY <1>2, <1>3, <1>4

\* The rest of a paragraph a line was taken from is a paragraph or nothing.
LEMMA ParagraphIsText ==
  ASSUME NEW S, NEW lines \in Seq(S) PROVE Paragraph(lines) \in Seq(Seq(S))
BY DEF Paragraph

LEMMA PartOfSeq ==
  ASSUME NEW S, NEW s \in Seq(S), NEW a \in 1 .. Len(s) + 1, NEW b \in 0 .. Len(s)
  PROVE  SubSeq(s, a, b) \in Seq(S)
BY SubSeqProperties

LEMMA WrittenIsTyped ==
  ASSUME MemoryTypeOK, NEW text \in Seq(Seq(Lines)), WriteFile(text)
  PROVE  /\ file' \in Seq(Seq(Lines)) /\ Fits(file)' /\ patched' \in BOOLEAN
         /\ overtaken' \subseteq Chats
BY DEF MemoryTypeOK, WriteFile, Fits, Lines, LeavesBehind

LEMMA AddEntryTyped ==
  ASSUME MemoryTypeOK, NEW e \in Lines, AddEntry(e) PROVE MemoryTypeOK'
<1>. DEFINE text == IF file = <<>> THEN <<<<e>>>>
                    ELSE [file EXCEPT ![Len(file)] = Append(@, e)]
<1>1. text \in Seq(Seq(Lines))
  <2>1. CASE file = <<>>
    BY <2>1
  <2>2. CASE file # <<>>
    <3>1. file \in Seq(Seq(Lines)) /\ Len(file) \in 1 .. Len(file)
      BY <2>2, EmptySeq DEF MemoryTypeOK
    <3>2. Append(file[Len(file)], e) \in Seq(Lines)
      BY <3>1
    <3>. QED BY <2>2, <3>1, <3>2, ExceptSeq
  <2>. QED BY <2>1, <2>2
<1>2. WriteFile(text) /\ held' = held
  BY DEF AddEntry
<1>. HIDE DEF text
<1>. QED BY <1>1, <1>2, WrittenIsTyped DEF MemoryTypeOK, Lines

LEMMA ReplaceEntryTyped ==
  ASSUME MemoryTypeOK, NEW e, NEW new \in Lines, ReplaceEntry(e, new) PROVE MemoryTypeOK'
<1>1. PICK p \in DOMAIN file : \E i \in DOMAIN file[p] : WriteFile([file EXCEPT ![p][i] = new])
  BY DEF ReplaceEntry
<1>2. PICK i \in DOMAIN file[p] : WriteFile([file EXCEPT ![p][i] = new])
  BY <1>1
<1>3. file \in Seq(Seq(Lines)) /\ p \in 1 .. Len(file)
  BY DEF MemoryTypeOK
<1>4. [file[p] EXCEPT ![i] = new] \in Seq(Lines)
  <2>1. file[p] \in Seq(Lines)
    BY <1>3
  <2>2. i \in 1 .. Len(file[p])
    BY <2>1
  <2>. QED BY <2>1, <2>2, ExceptSeq
<1>5. [file EXCEPT ![p][i] = new] \in Seq(Seq(Lines))
  BY <1>3, <1>4, ExceptSeq
<1>. QED BY <1>2, <1>5, WrittenIsTyped DEF MemoryTypeOK, Lines, ReplaceEntry

LEMMA RemoveEntryTyped ==
  ASSUME MemoryTypeOK, NEW e, RemoveEntry(e) PROVE MemoryTypeOK'
<1>1. PICK p \in DOMAIN file : \E i \in DOMAIN file[p] :
        WriteFile(SubSeq(file, 1, p - 1)
                    \o Paragraph(SubSeq(file[p], 1, i - 1))
                    \o Paragraph(SubSeq(file[p], i + 1, Len(file[p])))
                    \o SubSeq(file, p + 1, Len(file)))
  BY DEF RemoveEntry
<1>2. PICK i \in DOMAIN file[p] :
        WriteFile(SubSeq(file, 1, p - 1)
                    \o Paragraph(SubSeq(file[p], 1, i - 1))
                    \o Paragraph(SubSeq(file[p], i + 1, Len(file[p])))
                    \o SubSeq(file, p + 1, Len(file)))
  BY <1>1
<1>3. /\ file \in Seq(Seq(Lines)) /\ p \in 1 .. Len(file)
      /\ file[p] \in Seq(Lines) /\ i \in 1 .. Len(file[p])
  BY DEF MemoryTypeOK
<1>. DEFINE before == SubSeq(file, 1, p - 1)
            top == Paragraph(SubSeq(file[p], 1, i - 1))
            bottom == Paragraph(SubSeq(file[p], i + 1, Len(file[p])))
            after == SubSeq(file, p + 1, Len(file))
<1>4. before \in Seq(Seq(Lines)) /\ after \in Seq(Seq(Lines))
  BY <1>3, PartOfSeq
<1>5. top \in Seq(Seq(Lines)) /\ bottom \in Seq(Seq(Lines))
  <2>1. /\ SubSeq(file[p], 1, i - 1) \in Seq(Lines)
        /\ SubSeq(file[p], i + 1, Len(file[p])) \in Seq(Lines)
    BY <1>3, PartOfSeq
  <2>. QED BY <2>1, ParagraphIsText
<1>6. WriteFile(before \o top \o bottom \o after)
  BY <1>2
<1>. HIDE DEF before, top, bottom, after
<1>7. before \o top \o bottom \o after \in Seq(Seq(Lines))
  BY <1>4, <1>5, ConcatProperties
<1>. QED BY <1>6, <1>7, WrittenIsTyped DEF MemoryTypeOK, Lines, RemoveEntry

LEMMA ConsolidateTyped ==
  ASSUME MemoryTypeOK, NEW c \in Chats, Consolidate(c) PROVE MemoryTypeOK'
<1>1. PICK text \in Merges(held[c]) :
        IF Len(text) < Len(Split(held[c])) /\ Fits(text)
        THEN /\ file' = text /\ patched' = TRUE
             /\ overtaken' = (overtaken \cup LeavesBehind(text)) \ {c}
        ELSE overtaken' = overtaken \ {c} /\ file' = file /\ patched' = patched
  BY DEF Consolidate
<1>2. text \in Seq(Seq(Lines))
  <2>1. held[c] \in Seq(Seq(Lines))
    BY DEF MemoryTypeOK
  <2>. QED BY <2>1, MergesAreTexts
<1>3. held' \in [Chats -> Seq(Seq(Lines))]
  BY DEF MemoryTypeOK, Consolidate
<1>4. /\ file' \in Seq(Seq(Lines)) /\ patched' \in BOOLEAN /\ (patched' => Fits(file)')
      /\ overtaken' \subseteq Chats
  BY <1>1, <1>2 DEF MemoryTypeOK, Fits, LeavesBehind
<1>. QED BY <1>3, <1>4 DEF MemoryTypeOK, Lines

\* nanobot's background writer keeps to texts, not to the budget.
LEMMA BackgroundTyped ==
  ASSUME MemoryTypeOK, NEW text \in Drafts, BackgroundWrite(text) PROVE MemoryTypeOK'
<1>1. file' \in Seq(Seq(Lines)) /\ patched' = FALSE
  BY DraftsAssumption DEF BackgroundWrite, Lines
<1>2. held' \in [Chats -> Seq(Seq(Lines))] /\ overtaken' \subseteq Chats
  BY DEF MemoryTypeOK, BackgroundWrite, LeavesBehind, Lines
<1>. QED BY <1>1, <1>2 DEF MemoryTypeOK, Lines

\* What memory_patch wrote stays within its budget, and what a slot holds is
\* paragraphs of lines, under any order of the chats' edits, late consolidations and
\* the writes of nanobot's own that skip the budget.
LEMMA MemoryTypeCorrect == MemorySpec => []MemoryTypeOK
<1>1. MemoryInit => MemoryTypeOK
  BY NoLines, MemoryAssumption DEF MemoryInit, MemoryTypeOK, Fits
<1>2. MemoryTypeOK /\ [MemoryNext]_memoryVars => MemoryTypeOK'
  <2>. SUFFICES ASSUME MemoryTypeOK, [MemoryNext]_memoryVars PROVE MemoryTypeOK'
    OBVIOUS
  <2>1. ASSUME NEW e \in Lines, AddEntry(e) \/ RemoveEntry(e) PROVE MemoryTypeOK'
    BY <2>1, AddEntryTyped, RemoveEntryTyped
  <2>2. ASSUME NEW e \in Lines, NEW new \in Lines, ReplaceEntry(e, new) PROVE MemoryTypeOK'
    BY <2>2, ReplaceEntryTyped
  <2>3. ASSUME NEW c \in Chats, StartConsolidation(c) \/ AbandonConsolidation(c)
        PROVE  MemoryTypeOK'
    <3>1. file' = file /\ patched' = patched /\ held' \in [Chats -> Seq(Seq(Lines))]
      <4>1. <<>> \in Seq(Seq(Lines))
        OBVIOUS
      <4>. QED BY <2>3, <4>1 DEF StartConsolidation, AbandonConsolidation, MemoryTypeOK, Lines
    <3>2. overtaken' \subseteq Chats
      BY <2>3 DEF StartConsolidation, AbandonConsolidation, MemoryTypeOK
    <3>3. patched' \in BOOLEAN /\ (patched' => Fits(file)')
      BY <3>1 DEF MemoryTypeOK, Fits
    <3>. QED BY <3>1, <3>2, <3>3 DEF MemoryTypeOK, Lines
  <2>4. ASSUME NEW c \in Chats, Consolidate(c) PROVE MemoryTypeOK'
    BY <2>4, ConsolidateTyped
  <2>5. CASE UNCHANGED memoryVars
    <3>1. file' = file /\ held' = held /\ overtaken' = overtaken /\ patched' = patched
      BY <2>5 DEF memoryVars
    <3>. QED BY <3>1 DEF MemoryTypeOK, Fits, Lines
  <2>6. ASSUME NEW text \in Drafts, BackgroundWrite(text) PROVE MemoryTypeOK'
    BY <2>6, BackgroundTyped
  <2>. QED BY <2>1, <2>2, <2>3, <2>4, <2>5, <2>6 DEF MemoryNext
<1>. QED BY <1>1, <1>2, PTL DEF MemorySpec

\* What a text says at all is what its paragraphs say, each for itself.
LEMMA SaysByParagraph ==
  ASSUME NEW S, NEW text \in Seq(Seq(S)), NEW M \in Meanings
  PROVE  M \in SaysAtAll(text) <=> \E i \in DOMAIN text : M \in Says(text[i])
<1>1. \A x : x \in Has(text) <=> \E i \in DOMAIN text : x \in ToSet(text[i])
  BY LinesAreParagraphs
<1>2. M \in SaysAtAll(text) <=> \E x \in M : x \in Has(text)
  BY DEF SaysAtAll
<1>3. \A i : M \in Says(text[i]) <=> \E x \in M : x \in ToSet(text[i])
  BY DEF Says
<1>. QED BY <1>1, <1>2, <1>3

\* The entries say, each for itself, what the text they were cut from says.
LEMMA EntriesSayAll ==
  ASSUME NEW S, NEW text \in Seq(Seq(S)), NEW M \in Meanings
  PROVE  M \in SaysAtAll(text) <=> \E i \in DOMAIN Split(text) : M \in Says(Split(text)[i])
<1>1. CASE Len(text) > 1
  BY <1>1, SaysByParagraph DEF Split
<1>2. CASE ~(Len(text) > 1)
  <2>. DEFINE all == LinesOf(text)
              entries == [i \in DOMAIN all |-> <<all[i]>>]
  <2>1. Split(text) = entries /\ DOMAIN entries = DOMAIN all
    BY <1>2 DEF Split
  <2>2. \A i \in DOMAIN all : ToSet(entries[i]) = {all[i]}
    BY DEF ToSet
  <2>3. Has(text) = {all[i] : i \in DOMAIN all}
    BY DEF Has, ToSet
  <2>. HIDE DEF all, entries
  <2>4. M \in SaysAtAll(text) <=> \E i \in DOMAIN all : all[i] \in M
    BY <2>3 DEF SaysAtAll
  <2>5. \A i \in DOMAIN all : M \in Says(entries[i]) <=> all[i] \in M
    BY <2>2 DEF Says
  <2>. QED BY <2>1, <2>4, <2>5
<1>. QED BY <1>1, <1>2

\* Every cluster of entries has one that opens it.
LEMMA SomeoneBegins ==
  ASSUME NEW S, NEW entries \in Seq(S), NEW i \in DOMAIN entries
  PROVE  \E j \in Firsts(entries) : Says(entries[j]) = Says(entries[i])
<1>. DEFINE like == {j \in DOMAIN entries : Says(entries[j]) = Says(entries[i])}
<1>1. DOMAIN entries = 1 .. Len(entries) /\ Len(entries) \in Nat
  BY LenProperties
<1>2. like \in SUBSET Nat /\ i \in like
  BY <1>1
<1>3. PICK j \in like : \A k \in like : j <= k
  <2>. HIDE DEF like
  <2>. QED BY <1>2, HasLeast
<1>4. ASSUME NEW k \in 1 .. j - 1 PROVE Says(entries[k]) # Says(entries[j])
  <2>1. j \in 1 .. Len(entries)
    BY <1>1
  <2>2. k \in DOMAIN entries /\ ~(j <= k)
    BY <1>1, <2>1
  <2>. QED BY <1>3, <2>2
<1>. QED BY <1>4 DEF Firsts, Begins

\* Every member of a finite set of numbers has its place in it.
LEMMA EachHasItsPlace ==
  ASSUME NEW S \in SUBSET Nat, IsFiniteSet(S), NEW i \in S
  PROVE  \E k \in 1 .. Cardinality(S) : Nth(S, k) = i
<1>. DEFINE below(m) == {j \in S : j < m}
<1>1. ASSUME NEW m \in S
      PROVE  IsFiniteSet(below(m)) /\ Cardinality(below(m)) \in Nat
             /\ Cardinality(below(m) \cup {m}) = Cardinality(below(m)) + 1
             /\ IsFiniteSet(below(m) \cup {m})
  <2>1. IsFiniteSet(below(m))
    BY FS_Subset
  <2>2. m \notin below(m)
    OBVIOUS
  <2>. QED BY <2>1, <2>2, FS_AddElement, FS_CardinalityType
<1>2. ASSUME NEW m \in S, NEW T \in SUBSET S, below(m) \cup {m} \subseteq T
      PROVE  Cardinality(below(m)) + 1 <= Cardinality(T)
  <2>1. IsFiniteSet(T)
    BY FS_Subset
  <2>. HIDE DEF below
  <2>2. Cardinality(below(m) \cup {m}) <= Cardinality(T)
    BY <1>2, <2>1, FS_Subset
  <2>. QED BY <1>1, <2>2
<1>3. ASSUME NEW a \in S, NEW b \in S, a < b
      PROVE  Cardinality(below(a)) # Cardinality(below(b))
  <2>1. below(a) \cup {a} \subseteq below(b) /\ below(b) \in SUBSET S
    <3>1. a \in Nat /\ b \in Nat /\ \A j \in S : j \in Nat
      OBVIOUS
    <3>2. \A j \in S : j < a => j < b
      BY <1>3, <3>1
    <3>. QED BY <1>3, <3>2
  <2>. HIDE DEF below
  <2>2. Cardinality(below(a)) + 1 <= Cardinality(below(b))
    BY <1>2, <2>1
  <2>3. Cardinality(below(a)) \in Nat /\ Cardinality(below(b)) \in Nat
    BY <1>1
  <2>. QED BY <2>2, <2>3
<1>. DEFINE k == Cardinality(below(i)) + 1
<1>4. k \in 1 .. Cardinality(S)
  <2>1. below(i) \cup {i} \subseteq S
    OBVIOUS
  <2>2. Cardinality(S) \in Nat
    BY FS_CardinalityType
  <2>. HIDE DEF below
  <2>3. Cardinality(below(i)) + 1 <= Cardinality(S)
    BY <1>2, <2>1
  <2>4. Cardinality(below(i)) \in Nat
    BY <1>1
  <2>. QED BY <2>2, <2>3, <2>4
<1>5. Nth(S, k) = i
  <2>1. Nth(S, k) = CHOOSE m \in S : Cardinality(below(m)) = k - 1
    BY DEF Nth
  <2>. HIDE DEF below
  <2>4. Cardinality(below(i)) \in Nat
    BY <1>1
  <2>2. k - 1 = Cardinality(below(i))
    BY <2>4
  <2>3. ASSUME NEW m \in S, Cardinality(below(m)) = k - 1 PROVE m = i
    <3>1. ~(m < i) /\ ~(i < m)
      BY <1>3, <2>2, <2>3
    <3>. QED BY <3>1
  <2>. HIDE DEF k
  <2>. QED BY <2>1, <2>2, <2>3
<1>. QED BY <1>4, <1>5

\* Merging forgets nothing: a survivor speaks for every cluster.
LEMMA MergesSayAll ==
  ASSUME NEW S, NEW text \in Seq(Seq(S)), NEW merged \in Merges(text)
  PROVE  SaysAtAll(merged) = SaysAtAll(text)
<1>. DEFINE entries == Split(text)
            firsts == Firsts(entries)
            n == Cardinality(firsts)
<1>1. /\ merged \in [1 .. n -> Range(entries)]
      /\ \A k \in DOMAIN merged : \E i \in DOMAIN entries :
           merged[k] = entries[i] /\ Says(entries[i]) = Says(entries[Nth(firsts, k)])
  BY DEF Merges
<1>2. entries \in Seq(Seq(S)) /\ merged \in Seq(Seq(S))
  BY SplitIsText, MergesAreTexts
<1>3. firsts \in SUBSET Nat /\ IsFiniteSet(firsts) /\ firsts \subseteq DOMAIN entries
  <2>1. DOMAIN entries = 1 .. Len(entries) /\ Len(entries) \in Nat
    BY <1>2, LenProperties
  <2>2. IsFiniteSet(DOMAIN entries) /\ DOMAIN entries \subseteq Nat
    BY <2>1, FS_Interval
  <2>3. firsts \subseteq DOMAIN entries
    BY DEF Firsts
  <2>. QED BY <2>2, <2>3, FS_Subset
<1>4. \A i \in DOMAIN entries : \E j \in firsts : Says(entries[j]) = Says(entries[i])
  <2>. HIDE DEF entries
  <2>. QED BY <1>2, SomeoneBegins
<1>5. \A j \in firsts : \E k \in 1 .. n : Nth(firsts, k) = j
  <2>. HIDE DEF firsts
  <2>. QED BY <1>3, EachHasItsPlace
<1>6. \A M \in Meanings : M \in SaysAtAll(text) <=> \E i \in DOMAIN entries : M \in Says(entries[i])
  BY EntriesSayAll
<1>7. \A M \in Meanings : M \in SaysAtAll(merged) <=> \E k \in DOMAIN merged : M \in Says(merged[k])
  BY <1>2, SaysByParagraph
<1>. HIDE DEF entries, firsts, n
<1>8. DOMAIN merged = 1 .. n
  BY <1>1
<1>9. ASSUME NEW M \in Meanings PROVE M \in SaysAtAll(merged) <=> M \in SaysAtAll(text)
  <2>1. ASSUME NEW k \in DOMAIN merged, M \in Says(merged[k])
        PROVE  \E i \in DOMAIN entries : M \in Says(entries[i])
    BY <1>1, <2>1
  <2>2. ASSUME NEW i \in DOMAIN entries, M \in Says(entries[i])
        PROVE  \E k \in DOMAIN merged : M \in Says(merged[k])
    <3>1. PICK j \in firsts : Says(entries[j]) = Says(entries[i])
      BY <1>4
    <3>2. PICK k \in 1 .. n : Nth(firsts, k) = j
      BY <1>5
    <3>3. Says(merged[k]) = Says(entries[Nth(firsts, k)])
      BY <1>1, <1>8
    <3>4. M \in Says(merged[k])
      BY <2>2, <3>1, <3>2, <3>3
    <3>. QED BY <1>8, <3>4
  <2>. QED BY <1>6, <1>7, <2>1, <2>2
<1>10. SaysAtAll(merged) \subseteq Meanings /\ SaysAtAll(text) \subseteq Meanings
  BY DEF SaysAtAll
<1>. QED BY <1>9, <1>10

\* A copy the file has not left behind is the file.
HeldIsCurrent == \A c \in Chats : held[c] # <<>> /\ c \notin overtaken => held[c] = file

LEMMA HeldStaysCurrent ==
  MemoryTypeOK /\ HeldIsCurrent /\ [MemoryNext]_memoryVars => HeldIsCurrent'
<1>. SUFFICES ASSUME MemoryTypeOK, HeldIsCurrent, [MemoryNext]_memoryVars PROVE HeldIsCurrent'
  OBVIOUS
<1>1. ASSUME NEW text, WriteFile(text), held' = held PROVE HeldIsCurrent'
  BY <1>1 DEF WriteFile, LeavesBehind, HeldIsCurrent
<1>2. ASSUME NEW e, AddEntry(e) PROVE HeldIsCurrent'
  <2>1. PICK text : WriteFile(text) /\ held' = held
    BY <1>2 DEF AddEntry
  <2>. QED BY <1>1, <2>1
<1>3. ASSUME NEW e, RemoveEntry(e) PROVE HeldIsCurrent'
  <2>1. PICK text : WriteFile(text) /\ held' = held
    BY <1>3 DEF RemoveEntry
  <2>. QED BY <1>1, <2>1
<1>4. ASSUME NEW e, NEW new, ReplaceEntry(e, new) PROVE HeldIsCurrent'
  <2>1. PICK text : WriteFile(text) /\ held' = held
    BY <1>4 DEF ReplaceEntry
  <2>. QED BY <1>1, <2>1
<1>5. ASSUME NEW c \in Chats, StartConsolidation(c) PROVE HeldIsCurrent'
  BY <1>5 DEF StartConsolidation, HeldIsCurrent, MemoryTypeOK
<1>6. ASSUME NEW c \in Chats, AbandonConsolidation(c) PROVE HeldIsCurrent'
  BY <1>6 DEF AbandonConsolidation, HeldIsCurrent, MemoryTypeOK
<1>7. ASSUME NEW c \in Chats, Consolidate(c) PROVE HeldIsCurrent'
  <2>1. PICK text : \/ /\ file' = text
                       /\ overtaken' = (overtaken \cup LeavesBehind(text)) \ {c}
                    \/ overtaken' = overtaken \ {c} /\ file' = file
    BY <1>7 DEF Consolidate
  <2>2. held' = [held EXCEPT ![c] = <<>>] /\ held \in [Chats -> Seq(Seq(Lines))]
    BY <1>7 DEF Consolidate, MemoryTypeOK
  <2>3. ASSUME NEW d \in Chats, held'[d] # <<>>, d \notin overtaken' PROVE held'[d] = file'
    <3>1. d # c /\ held'[d] = held[d]
      BY <2>2, <2>3
    <3>2. d \notin overtaken /\ file' = file
      BY <2>1, <2>3, <3>1 DEF LeavesBehind
    <3>. QED BY <2>3, <3>1, <3>2 DEF HeldIsCurrent
  <2>. QED BY <2>3 DEF HeldIsCurrent
<1>8. CASE UNCHANGED memoryVars
  BY <1>8 DEF memoryVars, HeldIsCurrent
<1>9. ASSUME NEW text, BackgroundWrite(text) PROVE HeldIsCurrent'
  BY <1>9 DEF BackgroundWrite, LeavesBehind, HeldIsCurrent
<1>. QED BY <1>2, <1>3, <1>4, <1>5, <1>6, <1>7, <1>8, <1>9 DEF MemoryNext

\* What a consolidation writes says all that it read, whatever was done to the file
\* meanwhile, the cut into entries, the clusters and the survivors chosen; with no
\* other writer's edit between its read and its write, the file says what it said.
THEOREM ConsolidationKeeps == MemorySpec => NothingForgotten
<1>1. MemoryInit => HeldIsCurrent
  BY DEF MemoryInit, HeldIsCurrent
<1>2. MemoryTypeOK /\ HeldIsCurrent /\ [MemoryNext]_memoryVars =>
        \A c \in Chats : held[c] # <<>> /\ held'[c] = <<>> =>
          /\ c \notin overtaken => SaysAtAll(file) = SaysAtAll(file')
          /\ file' # file => SaysAtAll(file') = SaysAtAll(held[c])
  <2>. SUFFICES ASSUME MemoryTypeOK, HeldIsCurrent, [MemoryNext]_memoryVars,
                       NEW c \in Chats, held[c] # <<>>, held'[c] = <<>>
                PROVE  /\ c \notin overtaken => SaysAtAll(file) = SaysAtAll(file')
                       /\ file' # file => SaysAtAll(file') = SaysAtAll(held[c])
    OBVIOUS
  <2>1. held' # held /\ (c \notin overtaken => held[c] = file)
    BY DEF HeldIsCurrent
  <2>2. PICK d \in Chats : StartConsolidation(d) \/ Consolidate(d) \/ AbandonConsolidation(d)
    BY <2>1 DEF MemoryNext, memoryVars, AddEntry, RemoveEntry, ReplaceEntry, BackgroundWrite
  <2>3. held \in [Chats -> Seq(Seq(Lines))]
    BY DEF MemoryTypeOK
  <2>4. CASE StartConsolidation(d)
    BY <2>3, <2>4 DEF StartConsolidation
  <2>5. CASE AbandonConsolidation(d)
    BY <2>5 DEF AbandonConsolidation
  <2>6. CASE Consolidate(d)
    <3>1. d = c
      BY <2>3, <2>6 DEF Consolidate
    <3>2. PICK text \in Merges(held[c]) : file' = text \/ file' = file
      BY <2>6, <3>1 DEF Consolidate
    <3>3. SaysAtAll(text) = SaysAtAll(held[c])
      BY <2>3, MergesSayAll
    <3>. QED BY <2>1, <3>2, <3>3
  <2>. QED BY <2>2, <2>4, <2>5, <2>6
<1>. QED BY <1>1, <1>2, HeldStaysCurrent, MemoryTypeCorrect, PTL DEF MemorySpec, NothingForgotten

-----------------------------------------------------------------------------
(* The three stores beside each other.                                     *)

\* What one store does leaves the others as they were.
LEMMA EachOnItsOwn == Spec => FactsSpec /\ PrinciplesSpec /\ MemorySpec
<1>1. Init => FactsInit /\ PrinciplesInit /\ MemoryInit
  BY DEF Init
<1>2. [Next]_vars => /\ [FactsNext]_factVars /\ [PrinciplesNext]_principleVars
                     /\ [MemoryNext]_memoryVars
  <2>. SUFFICES ASSUME [Next]_vars
                PROVE  /\ [FactsNext]_factVars /\ [PrinciplesNext]_principleVars
                       /\ [MemoryNext]_memoryVars
    OBVIOUS
  <2>1. CASE FactsStep
    BY <2>1 DEF FactsStep
  <2>2. CASE PrinciplesStep
    BY <2>2 DEF PrinciplesStep
  <2>3. CASE FilesStep
    BY <2>3 DEF FilesStep
  <2>4. CASE UNCHANGED vars
    BY <2>4 DEF vars
  <2>. QED BY <2>1, <2>2, <2>3, <2>4 DEF Next
<1>. QED BY <1>1, <1>2, PTL DEF Spec, FactsSpec, PrinciplesSpec, MemorySpec

\* Every store holds rows, entries and pending work of its own kind only: no vector
\* and no link outlives its fact, the full-text index and the stagings point at rows,
\* and what memory_patch wrote of a memory slot is within its budget.
THEOREM KnowledgeTyped == Spec => []KnowledgeTypeOK
BY EachOnItsOwn, FactsTypeCorrect, NoneIsHidden, MemoryTypeCorrect, PTL DEF KnowledgeTypeOK

\* What is proved of each store holds of the whole: a retired fact ends no earlier
\* than it began, a live lesson has no twin, a principle is found or remembered as
\* missing, and no two principles are near each other.
THEOREM KnowledgeKeeps == Spec => [](RetiredByLater /\ NoLiveTwins /\ Findable /\ NoTwinPrinciples)
BY EachOnItsOwn, TimeRunsForward, OneLessonEach, NoneIsHidden, RulesStayApart, PTL

\* And so of its steps: a person's principle is changed by no one else, and a
\* consolidation forgets nothing of what it read.
THEOREM KnowledgeSteps == Spec => HumanRowsAreTheirs /\ NothingForgotten
BY EachOnItsOwn, PersonsRowsStay, ConsolidationKeeps, PTL
=============================================================================
