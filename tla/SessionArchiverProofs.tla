------------------------ MODULE SessionArchiverProofs ------------------------
(***************************************************************************)
(* The archiver keeps the ledger's promises, closes what it ended and      *)
(* never mixes two conversations, for every set of keys and replies, every *)
(* cap and limit and any number of messages, faults and upheavals.         *)
(***************************************************************************)
EXTENDS SessionArchiver, LruProofs, WellFoundedInduction, FiniteSetTheorems

Roles == {"user", "assistant", "tool"}
Bodies == Nat \cup {r.body : r \in Replies}

\* Fingerprints of the first n messages: a user's holds its own number.
Fp(n) == {f \in Roles \X {"live", "raw", "replayed"} \X SUBSET Bodies :
            f[1] = "user" => f[3] \subseteq 1 .. n}
Idents(e) == [id : Nat, era : {e}]
Item(n) == [role : Roles, fp : Fp(n)]
Entries(n, e) == [role : Roles, fp : Fp(n), srcs : SUBSET Idents(e)]
Messages(n, e) == {m \in [id : Nat, era : {e}, role : Roles, body : Bodies, opens : BOOLEAN] :
                     m.role = "user" => m.body \in 1 .. n}
Row == [role : Roles, srcs : SUBSET [id : Nat, era : Nat]]
Session == [key : Keys, ended : BOOLEAN, rows : Seq(Row)]

MemoryType(n) ==
    [order : Recency(Keys), confirmed : [Keys -> Seq(Fp(n))], pending : [Keys -> Seq(Item(n))],
     sid : [Keys -> Nat], lastPass : {<<>>} \cup (Keys \X Nat), sessions : Seq(Session),
     ok : BOOLEAN]

\* Every row of session s is of era e, unless its conversation is one of those in B,
\* whose messages can be told apart no longer.
OfEra(B, s, e) == s.key \notin B => \A i \in 1 .. Len(s.rows) : s.rows[i].srcs \subseteq Idents(e)

\* What every conversation j of a memory record satisfies.
KeyOK(a, j) ==
    /\ a.sid[j] # NoSession =>
        /\ a.sid[j] \in 1 .. Len(a.sessions)
        /\ a.sessions[a.sid[j]].key = j /\ ~a.sessions[a.sid[j]].ended
        /\ a.sessions[a.sid[j]].rows # <<>> => a.confirmed[j] # <<>> \/ a.pending[j] # <<>>
    /\ a.sid[j] = NoSession => a.confirmed[j] = <<>> /\ a.pending[j] = <<>>

\* The archiver's part of the inductive invariant, of a memory record.
ArchOK(B, a, n) ==
    /\ a \in MemoryType(n) /\ Len(a.order) <= Cap
    /\ \A j \in Keys : KeyOK(a, j)
    /\ \A s \in 1 .. Len(a.sessions) : \E e \in Nat : OfEra(B, a.sessions[s], e)

\* What conversation k would write to now is of era e.
Fits(B, a, k, e) == a.sid[k] # NoSession => OfEra(B, a.sessions[a.sid[k]], e)

-----------------------------------------------------------------------------
(* Sequences and the alignment.                                            *)

\* The longest of some bounded lengths is one of them and no shorter than another.
LEMMA LongestIsOne ==
    ASSUME NEW n \in Nat, NEW S \in SUBSET (0 .. n), S # {}
    PROVE  Longest(S) \in S /\ \A x \in S : x <= Longest(S)
<1> DEFINE back == {n - x : x \in S}
           R == OpToRel(<, Nat)
<1>1. \A x \in S : x \in Nat /\ n - x \in Nat /\ n - x \in back
  OBVIOUS
<1>2. back \subseteq Nat /\ back # {}
  BY <1>1
<1>3. IsWellFoundedOn(R, Nat)
  BY NatLessThanWellFounded
<1>4. \A x, y \in Nat : x < y => <<x, y>> \in R
  BY DEF OpToRel
<1> HIDE DEF R
<1>5. PICK m \in back : \A k \in back : <<k, m>> \notin R
  <2> HIDE DEF back
  <2>. QED BY <1>2, <1>3, WFMin
<1>6. PICK x \in S : m = n - x
  OBVIOUS
<1>7. ASSUME NEW y \in S PROVE y <= x
  <2>1. ~(n - y < n - x)
    BY <1>1, <1>4, <1>5, <1>6
  <2>2. x \in Nat /\ y \in Nat
    BY <1>1
  <2>. QED BY <2>1, <2>2
<1>. QED BY <1>7 DEF Longest

LEMMA FunIsSeq ==
    ASSUME NEW n \in Nat, NEW f, NEW T, f = [i \in 1 .. n |-> f[i]], \A i \in 1 .. n : f[i] \in T
    PROVE  f \in Seq(T) /\ Len(f) = n /\ DOMAIN f = 1 .. n
<1>1. f \in [1 .. n -> T]
  OBVIOUS
<1>. QED BY <1>1

LEMMA LenOf ==
    ASSUME NEW T, NEW s \in Seq(T)
    PROVE  Len(s) \in Nat /\ (s # <<>> <=> Len(s) > 0)
OBVIOUS

LEMMA JoinOf ==
    ASSUME NEW T, NEW s \in Seq(T), NEW t \in Seq(T)
    PROVE  s \o t \in Seq(T) /\ (s \o t # <<>> <=> s # <<>> \/ t # <<>>)
<1>1. s \o t \in Seq(T) /\ Len(s \o t) = Len(s) + Len(t)
  BY ConcatProperties
<1>2. /\ Len(s) \in Nat /\ (s # <<>> <=> Len(s) > 0)
      /\ Len(t) \in Nat /\ (t # <<>> <=> Len(t) > 0)
  BY LenOf
<1>3. s \o t # <<>> <=> Len(s \o t) > 0
  BY <1>1, LenOf
<1>. QED BY <1>1, <1>2, <1>3

\* The last n of a sequence.
LEMMA KeepLastTyped ==
    ASSUME NEW T, NEW s \in Seq(T), NEW n \in Nat
    PROVE  /\ KeepLast(s, n) \in Seq(T)
           /\ n > 0 /\ s # <<>> => KeepLast(s, n) # <<>>
<1> DEFINE lo == Larger(Len(s) - n, 0) + 1
<1>1. Len(s) \in Nat /\ DOMAIN s = 1 .. Len(s) /\ \A i \in 1 .. Len(s) : s[i] \in T
  OBVIOUS
<1>2. lo \in Nat /\ lo >= 1 /\ (n > 0 /\ Len(s) > 0 => lo <= Len(s))
  BY <1>1 DEF Larger
<1>3. KeepLast(s, n) = SubSeq(s, lo, Len(s))
  BY DEF KeepLast
<1> HIDE DEF lo
<1>4. \A i \in lo .. Len(s) : s[i] \in T
  BY <1>1, <1>2
<1>5. /\ SubSeq(s, lo, Len(s)) \in Seq(T)
      /\ Len(SubSeq(s, lo, Len(s))) = IF lo <= Len(s) THEN Len(s) - lo + 1 ELSE 0
  BY <1>1, <1>2, <1>4, SubSeqProperties
<1>6. s # <<>> => Len(s) > 0
  BY <1>1
<1>7. Len(s) > 0 /\ n > 0 => Len(SubSeq(s, lo, Len(s))) # 0
  BY <1>1, <1>2, <1>5
<1>. QED BY <1>3, <1>5, <1>6, <1>7

LEMMA OverlapRange ==
    ASSUME NEW c, NEW w, Len(w) \in Nat
    PROVE  Overlap(c, w) \in AcceptedRuns(c, w) \cup {0} /\ Overlap(c, w) \in 0 .. Len(w)
<1> DEFINE S == AcceptedRuns(c, w) \cup {0}
<1>1. S \subseteq 0 .. Len(w) /\ S # {}
  BY DEF AcceptedRuns
<1> HIDE DEF S
<1>2. Longest(S) \in S
  BY <1>1, LongestIsOne
<1>. QED BY <1>1, <1>2 DEF Overlap, S

LEMMA PendingRange ==
    ASSUME NEW p, Len(p) \in Nat, NEW w, NEW overlap \in 0 .. Len(w), Len(w) \in Nat
    PROVE  /\ PendingRun(p, w, overlap) \in 0 .. Len(p)
           /\ overlap + PendingRun(p, w, overlap) <= Len(w)
           /\ \A i \in 1 .. PendingRun(p, w, overlap) : Replays(p[i], w, overlap + i)
<1> DEFINE S == {n \in 0 .. Len(p) : /\ overlap + n <= Len(w)
                                     /\ \A i \in 1 .. n : Replays(p[i], w, overlap + i)}
<1>1. S \subseteq 0 .. Len(p) /\ 0 \in S
  OBVIOUS
<1>2. \A n \in S : overlap + n <= Len(w) /\ \A i \in 1 .. n : Replays(p[i], w, overlap + i)
  OBVIOUS
<1>3. PendingRun(p, w, overlap) = Longest(S)
  BY DEF PendingRun
<1> HIDE DEF S
<1>4. Longest(S) \in S
  BY <1>1, LongestIsOne
<1>. QED BY <1>1, <1>2, <1>3, <1>4

\* What an alignment may say: where the window goes on, what of the pending run is
\* confirmed or kept, and that a continued window has left a trace in memory.
LEMMA AlignTyped ==
    ASSUME NEW n \in Nat, NEW e, NEW c \in Seq(Fp(n)), NEW p \in Seq(Item(n)),
           NEW w \in Seq(Entries(n, e)), NEW midTurn \in BOOLEAN
    PROVE  LET al == Align(c, p, w, midTurn)
           IN  /\ al.start \in 1 .. Len(w) + 1 /\ al.isNew \in BOOLEAN
               /\ al.adopted \in Seq(Fp(n)) /\ al.keep \in Seq(Item(n))
               /\ al.start > 1 => c # <<>> \/ al.adopted # <<>> \/ al.keep # <<>>
               /\ al.isNew => al.start = 1 /\ (c # <<>> \/ p # <<>>)
<1> DEFINE overlap == Overlap(c, Fps(w))
           run     == PendingRun(p, w, overlap)
           set     == {q \in 1 .. run : ~(midTurn \/ overlap + q = Len(w))}
           card    == Cardinality(set)
           adopted == [q \in 1 .. card |-> w[overlap + q].fp]
           keep    == SubSeq(p, card + 1, run)
           fresh   == overlap + run = 0 /\ (c # <<>> \/ (p # <<>> /\ ~midTurn))
           al      == Align(c, p, w, midTurn)
<1>1. /\ al.start = overlap + run + 1 /\ al.adopted = adopted /\ al.keep = keep
      /\ al.isNew = fresh
  BY DEF Align
<1>2. /\ Len(w) \in Nat /\ Len(p) \in Nat /\ DOMAIN w = 1 .. Len(w) /\ DOMAIN c = 1 .. Len(c)
      /\ \A i \in 1 .. Len(w) : w[i] \in Entries(n, e)
      /\ \A i \in 1 .. Len(p) : p[i] \in Item(n)
  OBVIOUS
<1>3. Len(Fps(w)) = Len(w)
  BY <1>2 DEF Fps
<1>4. overlap \in 0 .. Len(w) /\ (overlap > 0 => c # <<>>)
  <2>1. overlap \in AcceptedRuns(c, Fps(w)) \cup {0} /\ overlap \in 0 .. Len(w)
    BY <1>2, <1>3, OverlapRange
  <2>2. AcceptedRuns(c, Fps(w)) # {} => c # <<>>
    BY <1>2 DEF AcceptedRuns
  <2> HIDE DEF overlap
  <2>. QED BY <2>1, <2>2
<1> HIDE DEF overlap
<1>5. run \in 0 .. Len(p) /\ overlap + run <= Len(w)
  BY <1>2, <1>4, PendingRange
<1> HIDE DEF run
<1>6. card \in 0 .. run
  <2>1. set \subseteq 1 .. run
    OBVIOUS
  <2>2. IsFiniteSet(1 .. run) /\ Cardinality(1 .. run) = run
    BY <1>5, FS_Interval
  <2> HIDE DEF set
  <2>3. IsFiniteSet(set) /\ card <= run
    BY <2>1, <2>2, FS_Subset
  <2>4. card \in Nat
    BY <2>3, FS_CardinalityType
  <2>. QED BY <1>5, <2>3, <2>4
<1> HIDE DEF card
<1>7. adopted \in Seq(Fp(n)) /\ Len(adopted) = card
  <2>1. \A q \in 1 .. card : overlap + q \in 1 .. Len(w)
    BY <1>2, <1>4, <1>5, <1>6
  <2>2. \A q \in 1 .. card : w[overlap + q].fp \in Fp(n)
    BY <1>2, <2>1 DEF Entries
  <2>. QED BY <1>6, <2>2, FunIsSeq
<1>8. keep \in Seq(Item(n)) /\ (card < run => Len(keep) > 0)
  <2>1. \A i \in card + 1 .. run : p[i] \in Item(n)
    BY <1>2, <1>5, <1>6
  <2>2. /\ keep \in Seq(Item(n))
        /\ Len(keep) = IF card + 1 <= run THEN run - (card + 1) + 1 ELSE 0
    BY <1>5, <1>6, <2>1, SubSeqProperties
  <2>. QED BY <1>5, <1>6, <2>2
<1> HIDE DEF adopted, keep
<1>9. run > 0 => adopted # <<>> \/ keep # <<>>
  <2>1. adopted = <<>> => card = 0
    BY <1>7
  <2>2. keep = <<>> => ~(card < run)
    BY <1>8
  <2>. QED BY <1>5, <1>6, <2>1, <2>2
<1>10. al.start \in 1 .. Len(w) + 1
  BY <1>1, <1>2, <1>4, <1>5
<1>11. al.start > 1 => overlap > 0 \/ run > 0
  BY <1>1, <1>4, <1>5
<1>12. al.isNew => al.start = 1 /\ (c # <<>> \/ p # <<>>)
  <2>1. fresh => overlap + run = 0 /\ (c # <<>> \/ p # <<>>)
    OBVIOUS
  <2>2. overlap + run = 0 => overlap + run + 1 = 1
    BY <1>4, <1>5
  <2> HIDE DEF al, fresh
  <2>. QED BY <1>1, <2>1, <2>2
<1> HIDE DEF al
<1>. QED BY <1>1, <1>4, <1>7, <1>8, <1>9, <1>10, <1>11, <1>12 DEF al

\* A window of one message that memory has never seen continues nothing.
LEMMA UnseenIsNew ==
    ASSUME NEW n \in Nat, NEW c \in Seq(Fp(n)), NEW p \in Seq(Item(n)), c # <<>> \/ p # <<>>,
           NEW w, Len(w) = 1, DOMAIN w = {1}, w[1].fp \notin Fp(n)
    PROVE  Align(c, p, w, FALSE).isNew
<1> DEFINE v == Fps(w)
<1>1. v[1] = w[1].fp /\ Len(v) = 1
  BY DEF Fps
<1> HIDE DEF v
<1>2. Overlap(c, v) = 0
  <2>1. ASSUME NEW k \in AcceptedRuns(c, v) PROVE FALSE
    <3>1. k = 1
      BY <1>1 DEF AcceptedRuns
    <3>2. PICK i \in DOMAIN c : k = Longest(RunsFrom(c, v, i))
      BY DEF AcceptedRuns
    <3>3. RunsFrom(c, v, i) \subseteq 0 .. 1 /\ 0 \in RunsFrom(c, v, i)
      BY <1>1 DEF RunsFrom
    <3>4. k \in RunsFrom(c, v, i)
      BY <3>2, <3>3, LongestIsOne
    <3>5. c[i] = w[1].fp
      <4>1. c[i + 1 - 1] = v[1]
        BY <3>1, <3>4 DEF RunsFrom
      <4>2. i + 1 - 1 = i
        OBVIOUS
      <4>. QED BY <1>1, <4>1, <4>2
    <3>. QED BY <3>5
  <2>. QED BY <1>1, <2>1, OverlapRange
<1>3. PendingRun(p, w, 0) = 0
  <2>1. /\ PendingRun(p, w, 0) \in 0 .. Len(p) /\ 0 + PendingRun(p, w, 0) <= Len(w)
        /\ \A i \in 1 .. PendingRun(p, w, 0) : Replays(p[i], w, 0 + i)
    <3>1. Len(p) \in Nat /\ 0 \in 0 .. Len(w) /\ Len(w) \in Nat
      OBVIOUS
    <3>. QED BY <3>1, PendingRange
  <2>2. SUFFICES ASSUME PendingRun(p, w, 0) = 1 PROVE FALSE
    BY <2>1
  <2>3. Replays(p[1], w, 1) /\ p[1] \in Item(n)
    BY <2>1, <2>2
  <2>. QED BY <2>3 DEF Replays, Item
<1>. QED BY <1>2, <1>3 DEF Align, v

-----------------------------------------------------------------------------
(* The archiver's operations, of a memory record.                          *)

\* What a pass of conversation k may do to the rows of others, and its own: `how`
\* it leaves k's session; `idle` are the conversations it evicts.
Moves(a, b, k, idle, how) ==
    LET n == Len(a.sessions)
        gone(s) == a.sessions[s].ended \/ \E j \in idle : s = a.sid[j]
    IN  /\ idle \subseteq Keys \ {k}
        /\ \A j \in Keys \ {k} : b.sid[j] = IF j \in idle THEN NoSession ELSE a.sid[j]
        /\ \A s \in 1 .. n :
            /\ b.sessions[s].key = a.sessions[s].key
            /\ a.sessions[s].ended => b.sessions[s] = a.sessions[s]
            /\ s # a.sid[k] => b.sessions[s].rows = a.sessions[s].rows
        /\ \/ /\ how = "continue"
              /\ a.sid[k] # NoSession /\ b.sid[k] = a.sid[k] /\ Len(b.sessions) = n
              /\ \A s \in 1 .. n : b.sessions[s].ended => gone(s)
           \/ /\ how = "release"
              /\ b.sid[k] = NoSession /\ Len(b.sessions) = n
              /\ \A s \in 1 .. n : b.sessions[s].ended => gone(s) \/ s = a.sid[k]
           \/ /\ how = "open"
              /\ b.sid[k] = n + 1 /\ Len(b.sessions) = n + 1
              /\ b.sessions[n + 1].key = k /\ ~b.sessions[n + 1].ended
              /\ \A s \in 1 .. n :
                   /\ b.sessions[s].ended => gone(s) \/ s = a.sid[k] \/ a.sessions[s].key = k
                   /\ a.sessions[s].key = k => b.sessions[s].ended

LEMMA ArchDef ==
    ASSUME NEW B, NEW n \in Nat, NEW a, ArchOK(B, a, n)
    PROVE  /\ a \in MemoryType(n) /\ a.order \in Recency(Keys) /\ Len(a.order) <= Cap
           /\ a.confirmed \in [Keys -> Seq(Fp(n))] /\ a.pending \in [Keys -> Seq(Item(n))]
           /\ a.sid \in [Keys -> Nat] /\ a.sessions \in Seq(Session) /\ Len(a.sessions) \in Nat
           /\ DOMAIN a.sessions = 1 .. Len(a.sessions) /\ a.ok \in BOOLEAN
           /\ \A s \in 1 .. Len(a.sessions) : a.sessions[s] \in Session
           /\ \A k \in Keys : a.sid[k] # Len(a.sessions) + 1
<1>1. /\ a \in MemoryType(n) /\ a.order \in Recency(Keys) /\ Len(a.order) <= Cap
      /\ a.confirmed \in [Keys -> Seq(Fp(n))] /\ a.pending \in [Keys -> Seq(Item(n))]
      /\ a.sid \in [Keys -> Nat] /\ a.sessions \in Seq(Session) /\ a.ok \in BOOLEAN
  BY DEF ArchOK, KeyOK, MemoryType
<1>2. /\ Len(a.sessions) \in Nat /\ DOMAIN a.sessions = 1 .. Len(a.sessions)
      /\ \A s \in 1 .. Len(a.sessions) : a.sessions[s] \in Session
  BY <1>1
<1>3. ASSUME NEW k \in Keys PROVE a.sid[k] # Len(a.sessions) + 1
  BY <1>2 DEF ArchOK, KeyOK, NoSession
<1>. QED BY <1>1, <1>2, <1>3

\* _end_session stamps the rows it is given and changes nothing else.
LEMMA EndedTyped ==
    ASSUME NEW ss \in Seq(Session), NEW ids
    PROVE  /\ Ended(ss, ids) \in Seq(Session) /\ Len(Ended(ss, ids)) = Len(ss)
           /\ \A s \in 1 .. Len(ss) :
                /\ Ended(ss, ids)[s] \in Session
                /\ Ended(ss, ids)[s].key = ss[s].key /\ Ended(ss, ids)[s].rows = ss[s].rows
                /\ Ended(ss, ids)[s].ended = (ss[s].ended \/ s \in ids)
                /\ ss[s].ended => Ended(ss, ids)[s] = ss[s]
<1> DEFINE f == Ended(ss, ids)
<1>1. /\ Len(ss) \in Nat /\ DOMAIN ss = 1 .. Len(ss)
      /\ \A s \in 1 .. Len(ss) : ss[s] \in Session
  OBVIOUS
<1>2. ASSUME NEW s \in 1 .. Len(ss)
      PROVE  /\ f[s] \in Session /\ f[s].key = ss[s].key /\ f[s].rows = ss[s].rows
             /\ f[s].ended = (ss[s].ended \/ s \in ids)
             /\ ss[s].ended => f[s] = ss[s]
  <2>1. f[s] = [ss[s] EXCEPT !.ended = ss[s].ended \/ s \in ids]
    BY <1>1 DEF Ended
  <2>2. ss[s] \in Session
    BY <1>1
  <2>. QED BY <2>1, <2>2 DEF Session
<1>3. f = [s \in 1 .. Len(ss) |-> f[s]]
  BY <1>1 DEF Ended
<1> HIDE DEF f
<1>4. f \in Seq(Session) /\ Len(f) = Len(ss)
  BY <1>1, <1>2, <1>3, FunIsSeq
<1>. QED BY <1>2, <1>4 DEF f

LEMMA ReleaseKept ==
    ASSUME NEW B, NEW n \in Nat, NEW a, ArchOK(B, a, n), NEW k \in Keys, NEW fault
    PROVE  LET b == Release(a, k, fault)
           IN  /\ ArchOK(B, b, n) /\ Moves(a, b, k, {}, "release")
               /\ b.sid[k] = NoSession /\ b.confirmed[k] = <<>> /\ b.pending[k] = <<>>
               /\ b.ok = a.ok
<1> DEFINE b == Release(a, k, fault)
           ids == Stamped({a.sid[k]}, fault)
           ss == Ended(a.sessions, ids)
<1>0. \A s \in ids : s = a.sid[k]
  BY DEF Stamped
<1> HIDE DEF ids
<1>1. /\ a \in MemoryType(n) /\ a.order \in Recency(Keys) /\ Len(a.order) <= Cap
      /\ a.confirmed \in [Keys -> Seq(Fp(n))] /\ a.pending \in [Keys -> Seq(Item(n))]
      /\ a.sid \in [Keys -> Nat] /\ a.sessions \in Seq(Session) /\ Len(a.sessions) \in Nat
  BY ArchDef
<1>2. /\ b.sessions = ss /\ b.sid = [a.sid EXCEPT ![k] = NoSession]
      /\ b.order = Without(a.order, k) /\ b.confirmed = [a.confirmed EXCEPT ![k] = <<>>]
      /\ b.pending = [a.pending EXCEPT ![k] = <<>>] /\ b.ok = a.ok /\ b.lastPass = a.lastPass
      /\ b = [a EXCEPT !.sessions = ss, !.sid = b.sid, !.order = b.order,
                       !.confirmed = b.confirmed, !.pending = b.pending]
  BY <1>1 DEF Release, ids, MemoryType
<1>3. /\ ss \in Seq(Session) /\ Len(ss) = Len(a.sessions)
      /\ \A s \in 1 .. Len(a.sessions) :
            /\ ss[s].key = a.sessions[s].key /\ ss[s].rows = a.sessions[s].rows
            /\ ss[s].ended = (a.sessions[s].ended \/ s \in ids)
            /\ a.sessions[s].ended => ss[s] = a.sessions[s]
  BY <1>1, EndedTyped
<1> HIDE DEF b, ss
<1>4. b.order \in Recency(Keys) /\ Len(b.order) <= Len(a.order) /\ Len(b.order) \in Nat
  BY <1>1, <1>2, WithoutPops, RecencyDef
<1>5. b \in MemoryType(n) /\ Len(b.order) <= Cap
  <2>1. <<>> \in Seq(Fp(n)) /\ <<>> \in Seq(Item(n)) /\ NoSession \in Nat
    BY DEF NoSession
  <2>2. Len(b.order) <= Cap
    BY <1>1, <1>4, CapAssumption, RecencyDef
  <2>3. /\ b.sid \in [Keys -> Nat] /\ b.confirmed \in [Keys -> Seq(Fp(n))]
        /\ b.pending \in [Keys -> Seq(Item(n))]
    BY <1>1, <1>2, <2>1
  <2>. QED BY <1>1, <1>2, <1>3, <1>4, <2>2, <2>3 DEF MemoryType
<1>6. ASSUME NEW j \in Keys
      PROVE  /\ b.sid[j] # NoSession =>
                  /\ b.sid[j] \in 1 .. Len(b.sessions)
                  /\ b.sessions[b.sid[j]].key = j /\ ~b.sessions[b.sid[j]].ended
                  /\ b.sessions[b.sid[j]].rows # <<>> =>
                        b.confirmed[j] # <<>> \/ b.pending[j] # <<>>
             /\ b.sid[j] = NoSession => b.confirmed[j] = <<>> /\ b.pending[j] = <<>>
  <2>1. CASE j = k
    BY <1>1, <1>2, <2>1
  <2>2. CASE j # k
    <3>1. b.sid[j] = a.sid[j] /\ b.confirmed[j] = a.confirmed[j] /\ b.pending[j] = a.pending[j]
      BY <1>1, <1>2, <2>2
    <3>2. a.sid[j] # NoSession => a.sid[j] # a.sid[k]
      BY <2>2 DEF ArchOK, KeyOK
    <3>3. CASE a.sid[j] # NoSession
      <4>1. /\ a.sid[j] \in 1 .. Len(a.sessions)
            /\ a.sessions[a.sid[j]].key = j /\ ~a.sessions[a.sid[j]].ended
            /\ a.sessions[a.sid[j]].rows # <<>> => a.confirmed[j] # <<>> \/ a.pending[j] # <<>>
        BY <3>3 DEF ArchOK, KeyOK
      <4> DEFINE s == a.sid[j]
      <4>2. /\ ss[s].key = a.sessions[s].key /\ ss[s].rows = a.sessions[s].rows
            /\ ss[s].ended = (a.sessions[s].ended \/ s \in ids)
        BY <1>3, <4>1
      <4>3. ~ss[s].ended
        BY <1>0, <3>2, <3>3, <4>1, <4>2
      <4>4. b.sessions = ss /\ b.sid[j] = s /\ Len(b.sessions) = Len(a.sessions)
        BY <1>2, <1>3, <3>1
      <4>5. b.sid[j] \in 1 .. Len(b.sessions)
        BY <4>1, <4>4
      <4>6. b.sessions[b.sid[j]] = ss[s]
        BY <4>4
      <4>7. ss[s].key = j /\ (ss[s].rows # <<>> => b.confirmed[j] # <<>> \/ b.pending[j] # <<>>)
        BY <3>1, <4>1, <4>2
      <4> HIDE DEF s
      <4>. QED BY <3>1, <3>3, <4>3, <4>5, <4>6, <4>7 DEF s
    <3>4. CASE a.sid[j] = NoSession
      BY <3>1, <3>4 DEF ArchOK, KeyOK
    <3>. QED BY <3>3, <3>4
  <2>. QED BY <2>1, <2>2
<1>7. ASSUME NEW s \in 1 .. Len(b.sessions) PROVE \E e \in Nat : OfEra(B, b.sessions[s], e)
  BY <1>2, <1>3, ZenonT(60) DEF ArchOK, KeyOK, OfEra
<1>8. ArchOK(B, b, n)
  BY <1>5, <1>6, <1>7 DEF ArchOK, KeyOK
<1>9. Moves(a, b, k, {}, "release")
  <2>1. \A s \in 1 .. Len(a.sessions) : b.sessions[s].ended => a.sessions[s].ended \/ s = a.sid[k]
    BY <1>0, <1>2, <1>3
  <2>2. b.sid[k] = NoSession /\ \A j \in Keys \ {k} : b.sid[j] = a.sid[j]
    BY <1>1, <1>2
  <2>. QED BY <1>1, <1>2, <1>3, <2>1, <2>2 DEF Moves
<1>. QED BY <1>1, <1>2, <1>8, <1>9 DEF b

LEMMA ArchParts ==
    ASSUME NEW B, NEW n, NEW a
    PROVE  ArchOK(B, a, n) <=>
              /\ a \in MemoryType(n) /\ Len(a.order) <= Cap
              /\ \A j \in Keys : KeyOK(a, j)
              /\ \A s \in 1 .. Len(a.sessions) : \E e \in Nat : OfEra(B, a.sessions[s], e)
BY DEF ArchOK

\* A conversation whose memory and whose session's row are as they were.
LEMMA KeyStays ==
    ASSUME NEW a, NEW b, NEW j, KeyOK(a, j),
           b.sid[j] = a.sid[j], b.confirmed[j] = a.confirmed[j], b.pending[j] = a.pending[j],
           a.sid[j] # NoSession =>
              /\ a.sid[j] \in 1 .. Len(b.sessions)
              /\ b.sessions[a.sid[j]].key = a.sessions[a.sid[j]].key
              /\ b.sessions[a.sid[j]].rows = a.sessions[a.sid[j]].rows
              /\ ~b.sessions[a.sid[j]].ended
    PROVE  KeyOK(b, j)
<1>1. CASE a.sid[j] = NoSession
  BY <1>1 DEF KeyOK
<1>2. CASE a.sid[j] # NoSession
  <2> DEFINE s == a.sid[j]
  <2>1. a.sessions[s].key = j /\ (a.sessions[s].rows # <<>> => a.confirmed[j] # <<>> \/ a.pending[j] # <<>>)
    BY <1>2 DEF KeyOK
  <2>2. b.sessions[b.sid[j]] = b.sessions[s]
    OBVIOUS
  <2>. QED BY <1>2, <2>1, <2>2 DEF KeyOK
<1>. QED BY <1>1, <1>2

LEMMA StartKept ==
    ASSUME NEW B, NEW n \in Nat, NEW a, ArchOK(B, a, n), NEW k \in Keys, a.sid[k] = NoSession
    PROVE  LET b == StartSession(a, k)
           IN  /\ ArchOK(B, b, n) /\ Moves(a, b, k, {}, "open")
               /\ b.sessions[b.sid[k]].rows = <<>> /\ b.sid[k] # NoSession
               /\ b.confirmed = a.confirmed /\ b.pending = a.pending
               /\ b.ok = a.ok /\ b.lastPass = a.lastPass
<1> DEFINE b == StartSession(a, k)
           left == {s \in DOMAIN a.sessions : a.sessions[s].key = k}
           ss == Ended(a.sessions, left)
           new == [key |-> k, ended |-> FALSE, rows |-> <<>>]
           m == Len(a.sessions)
<1>1. /\ a \in MemoryType(n) /\ Len(a.order) <= Cap /\ a.sid \in [Keys -> Nat]
      /\ a.sessions \in Seq(Session) /\ m \in Nat /\ DOMAIN a.sessions = 1 .. m
  BY ArchDef
<1>2. /\ b.sessions = Append(ss, new) /\ b.sid = [a.sid EXCEPT ![k] = m + 1]
      /\ b.order = a.order /\ b.confirmed = a.confirmed /\ b.pending = a.pending /\ b.ok = a.ok
      /\ b.lastPass = a.lastPass
      /\ b = [a EXCEPT !.sid = b.sid, !.sessions = b.sessions]
  BY <1>1 DEF StartSession, MemoryType
<1>3. /\ ss \in Seq(Session) /\ Len(ss) = m
      /\ \A s \in 1 .. m :
            /\ ss[s].key = a.sessions[s].key /\ ss[s].rows = a.sessions[s].rows
            /\ ss[s].ended = (a.sessions[s].ended \/ s \in left)
            /\ a.sessions[s].ended => ss[s] = a.sessions[s]
  BY <1>1, EndedTyped
<1>4. \A s \in 1 .. m : s \in left <=> a.sessions[s].key = k
  BY <1>1
<1> HIDE DEF b, ss, left
<1>5. new \in Session
  BY DEF Session
<1>6. /\ b.sessions \in Seq(Session) /\ Len(b.sessions) = m + 1 /\ b.sessions[m + 1] = new
      /\ \A s \in 1 .. m : b.sessions[s] = ss[s]
  <2> HIDE DEF new
  <2>. QED BY <1>1, <1>2, <1>3, <1>5
<1>7. b.sid[k] = m + 1 /\ m + 1 # NoSession /\ \A j \in Keys \ {k} : b.sid[j] = a.sid[j]
  BY <1>1, <1>2 DEF NoSession
<1>8. b \in MemoryType(n) /\ Len(b.order) <= Cap
  <2>1. b.sid \in [Keys -> Nat] /\ b.sessions \in Seq(Session)
    BY <1>1, <1>2, <1>6
  <2>2. b = [a EXCEPT !.sid = b.sid, !.sessions = b.sessions] /\ b.order = a.order
    BY <1>2
  <2>. QED BY <1>1, <2>1, <2>2 DEF MemoryType
<1>9. ASSUME NEW j \in Keys PROVE KeyOK(b, j)
  <2>1. KeyOK(a, j)
    BY ArchParts
  <2>2. CASE j = k
    <3>1. b.confirmed[k] = <<>> /\ b.pending[k] = <<>>
      BY <1>2, <2>1, <2>2 DEF KeyOK
    <3>2. b.sessions[b.sid[k]] = new
      BY <1>6, <1>7
    <3>3. b.sid[k] \in 1 .. Len(b.sessions) /\ b.sid[k] # NoSession
      BY <1>1, <1>6, <1>7
    <3>. QED BY <2>2, <3>2, <3>3 DEF KeyOK
  <2>3. CASE j # k
    <3>1. b.sid[j] = a.sid[j]
      BY <1>7, <2>3
    <3>2. ASSUME a.sid[j] # NoSession
          PROVE  /\ a.sid[j] \in 1 .. Len(b.sessions)
                 /\ b.sessions[a.sid[j]].key = a.sessions[a.sid[j]].key
                 /\ b.sessions[a.sid[j]].rows = a.sessions[a.sid[j]].rows
                 /\ ~b.sessions[a.sid[j]].ended
      <4> DEFINE s == a.sid[j]
      <4>1. s \in 1 .. m /\ a.sessions[s].key = j /\ ~a.sessions[s].ended
        BY <2>1, <3>2 DEF KeyOK
      <4>2. s \notin left
        BY <1>4, <2>3, <4>1
      <4>3. b.sessions[s] = ss[s] /\ ~ss[s].ended
        BY <1>3, <1>6, <4>1, <4>2
      <4>4. s \in 1 .. Len(b.sessions)
        BY <1>1, <1>6, <4>1
      <4> HIDE DEF s
      <4>. QED BY <1>3, <4>1, <4>3, <4>4 DEF s
    <3>. QED BY <1>2, <2>1, <3>1, <3>2, KeyStays
  <2>. QED BY <2>2, <2>3
<1>10. ASSUME NEW s \in 1 .. Len(b.sessions) PROVE \E e \in Nat : OfEra(B, b.sessions[s], e)
  <2>1. CASE s \in 1 .. m
    <3>1. PICK e \in Nat : OfEra(B, a.sessions[s], e)
      BY <2>1, ArchParts
    <3>2. b.sessions[s].rows = a.sessions[s].rows /\ b.sessions[s].key = a.sessions[s].key
      BY <1>3, <1>6, <2>1
    <3>. QED BY <3>1, <3>2 DEF OfEra
  <2>2. CASE s = m + 1
    BY <1>6, <2>2 DEF OfEra
  <2>. QED BY <1>1, <1>6, <2>1, <2>2
<1>11. ArchOK(B, b, n)
  BY <1>8, <1>9, <1>10, ArchParts
<1>12. Moves(a, b, k, {}, "open")
  <2>1. \A s \in 1 .. m : s # a.sid[k]
    BY DEF NoSession
  <2>2. \A j \in Keys \ {k} : b.sid[j] = IF j \in {} THEN NoSession ELSE a.sid[j]
    BY <1>7
  <2>3. \A s \in 1 .. m :
            /\ b.sessions[s].key = a.sessions[s].key
            /\ a.sessions[s].ended => b.sessions[s] = a.sessions[s]
            /\ s # a.sid[k] => b.sessions[s].rows = a.sessions[s].rows
    BY <1>3, <1>6
  <2>4. \A s \in 1 .. m : /\ b.sessions[s].ended => a.sessions[s].ended \/ a.sessions[s].key = k
                          /\ a.sessions[s].key = k => b.sessions[s].ended
    BY <1>3, <1>4, <1>6
  <2>5. b.sessions[m + 1].key = k /\ ~b.sessions[m + 1].ended
    BY <1>6
  <2>6. b.sid[k] = m + 1 /\ Len(b.sessions) = m + 1
    BY <1>6, <1>7
  <2>7. \A s \in 1 .. m :
          /\ b.sessions[s].ended => (a.sessions[s].ended \/ \E j \in {} : s = a.sid[j])
                                      \/ s = a.sid[k] \/ a.sessions[s].key = k
          /\ a.sessions[s].key = k => b.sessions[s].ended
    BY <2>4
  <2>8. {} \subseteq Keys \ {k}
    OBVIOUS
  <2>. QED BY ONLY <2>2, <2>3, <2>5, <2>6, <2>7, <2>8, ZenonT(60) DEF Moves, m
<1>13. b.sessions[b.sid[k]].rows = <<>> /\ b.sid[k] # NoSession
  BY <1>6, <1>7
<1>. QED BY <1>2, <1>11, <1>12, <1>13 DEF b

\* A pass that continues k's session of era e and stores rows of that era.
LEMMA AppendKept ==
    ASSUME NEW B, NEW n \in Nat, NEW a, ArchOK(B, a, n), NEW k \in Keys, NEW e \in Nat,
           a.sid[k] # NoSession, Fits(B, a, k, e),
           NEW rows \in Seq(Row), \A i \in 1 .. Len(rows) : rows[i].srcs \subseteq Idents(e),
           NEW c \in Seq(Fp(n)), NEW p \in Seq(Item(n)),
           a.sessions[a.sid[k]].rows \o rows # <<>> => c # <<>> \/ p # <<>>
    PROVE  LET b == [a EXCEPT !.sessions[a.sid[k]].rows = @ \o rows,
                              !.confirmed[k] = c, !.pending[k] = p]
           IN  ArchOK(B, b, n) /\ Moves(a, b, k, {}, "continue") /\ Fits(B, b, k, e)
<1> DEFINE b == [a EXCEPT !.sessions[a.sid[k]].rows = @ \o rows,
                          !.confirmed[k] = c, !.pending[k] = p]
           s == a.sid[k]
           old == a.sessions[s]
           m == Len(a.sessions)
<1>1. /\ a \in MemoryType(n) /\ Len(a.order) <= Cap /\ a.sid \in [Keys -> Nat]
      /\ a.sessions \in Seq(Session) /\ m \in Nat /\ DOMAIN a.sessions = 1 .. m
      /\ a.confirmed \in [Keys -> Seq(Fp(n))] /\ a.pending \in [Keys -> Seq(Item(n))]
      /\ \A t \in 1 .. m : a.sessions[t] \in Session
  BY ArchDef
<1>2. s \in 1 .. m /\ old.key = k /\ ~old.ended /\ old \in Session
  BY <1>1 DEF ArchOK, KeyOK
<1>3. /\ b.sessions = [a.sessions EXCEPT ![s] = [old EXCEPT !.rows = old.rows \o rows]]
      /\ b.confirmed = [a.confirmed EXCEPT ![k] = c] /\ b.pending = [a.pending EXCEPT ![k] = p]
      /\ b.sid = a.sid /\ b.order = a.order
      /\ b = [a EXCEPT !.sessions = b.sessions, !.confirmed = b.confirmed, !.pending = b.pending]
  BY <1>1, <1>2 DEF MemoryType
<1> HIDE DEF b
<1>4. /\ old.rows \o rows \in Seq(Row) /\ Len(old.rows \o rows) = Len(old.rows) + Len(rows)
      /\ old.rows \in Seq(Row) /\ Len(old.rows) \in Nat /\ Len(rows) \in Nat
      /\ \A i \in 1 .. Len(old.rows) + Len(rows) : (old.rows \o rows)[i] =
                     IF i <= Len(old.rows) THEN old.rows[i] ELSE rows[i - Len(old.rows)]
  <2>1. old.rows \in Seq(Row)
    BY <1>2 DEF Session
  <2> HIDE DEF old
  <2>. QED BY <2>1, ConcatProperties
<1> DEFINE now == [old EXCEPT !.rows = old.rows \o rows]
<1>5. now \in Session /\ now.key = k /\ ~now.ended /\ now.rows = old.rows \o rows
  <2> HIDE DEF old
  <2>. QED BY <1>2, <1>4 DEF Session
<1> HIDE DEF now, old
<1>6. /\ b.sessions \in Seq(Session) /\ Len(b.sessions) = m /\ b.sessions[s] = now
      /\ \A t \in 1 .. m : t # s => b.sessions[t] = a.sessions[t]
  <2>1. b.sessions = [a.sessions EXCEPT ![s] = now]
    BY <1>3 DEF now
  <2>. QED BY <1>1, <1>2, <1>5, <2>1, ExceptSeq, SMTT(60)
<1>7. OfEra(B, now, e)
  <2> SUFFICES ASSUME k \notin B PROVE \A i \in 1 .. Len(now.rows) : now.rows[i].srcs \subseteq Idents(e)
    BY <1>5 DEF OfEra
  <2>1. \A i \in 1 .. Len(old.rows) : old.rows[i].srcs \subseteq Idents(e)
    BY <1>2 DEF Fits, OfEra, old
  <2>2. ASSUME NEW i \in 1 .. Len(now.rows) PROVE now.rows[i].srcs \subseteq Idents(e)
    <3>1. CASE i <= Len(old.rows)
      <4>1. i \in 1 .. Len(old.rows)
        BY <1>4, <1>5, <2>2, <3>1
      <4>2. now.rows[i] = old.rows[i]
        BY <1>4, <1>5, <2>2, <3>1
      <4>. QED BY <2>1, <4>1, <4>2
    <3>2. CASE i > Len(old.rows)
      <4>1. i - Len(old.rows) \in 1 .. Len(rows) /\ now.rows[i] = rows[i - Len(old.rows)]
        BY <1>4, <1>5, <2>2, <3>2
      <4>. QED BY <4>1
    <3>. QED BY <1>4, <1>5, <3>1, <3>2
  <2>. QED BY <2>2
<1>8. b \in MemoryType(n) /\ Len(b.order) <= Cap
  <2>1. b.confirmed \in [Keys -> Seq(Fp(n))] /\ b.pending \in [Keys -> Seq(Item(n))]
    BY <1>1, <1>3, SMTT(40)
  <2>2. b.order = a.order
        /\ b = [a EXCEPT !.sessions = b.sessions, !.confirmed = b.confirmed, !.pending = b.pending]
    BY <1>3
  <2>. QED BY <1>1, <1>6, <2>1, <2>2 DEF MemoryType
<1>9. ASSUME NEW j \in Keys PROVE KeyOK(b, j)
  <2>1. KeyOK(a, j) /\ b.sid[j] = a.sid[j]
    BY <1>3, ArchParts
  <2>2. CASE j = k
    <3>1. b.confirmed[k] = c /\ b.pending[k] = p
      BY <1>1, <1>3
    <3>2. b.sid[k] = s /\ b.sessions[b.sid[k]] = now /\ s # NoSession /\ s \in 1 .. Len(b.sessions)
      BY <1>2, <1>3, <1>6
    <3>3. now.rows # <<>> => c # <<>> \/ p # <<>>
      BY <1>5 DEF old
    <3> HIDE DEF s
    <3>. QED BY <1>5, <2>2, <3>1, <3>2, <3>3 DEF KeyOK
  <2>3. CASE j # k
    <3>1. b.confirmed[j] = a.confirmed[j] /\ b.pending[j] = a.pending[j]
      BY <1>1, <1>3, <2>3
    <3>2. a.sid[j] # NoSession =>
            /\ a.sid[j] \in 1 .. m /\ a.sid[j] # s /\ ~a.sessions[a.sid[j]].ended
      BY <1>2, <2>1, <2>3 DEF KeyOK, old
    <3>3. a.sid[j] # NoSession => a.sid[j] \in 1 .. Len(b.sessions)
                                  /\ b.sessions[a.sid[j]] = a.sessions[a.sid[j]]
      BY <1>6, <3>2
    <3>. QED BY <2>1, <3>1, <3>2, <3>3, KeyStays
  <2>. QED BY <2>2, <2>3
<1>10. ASSUME NEW t \in 1 .. Len(b.sessions) PROVE \E f \in Nat : OfEra(B, b.sessions[t], f)
  <2>1. CASE t = s
    BY <1>6, <1>7, <2>1
  <2>2. CASE t # s
    BY <1>6, <2>2, ArchParts
  <2>. QED BY <2>1, <2>2
<1>11. ArchOK(B, b, n)
  BY <1>8, <1>9, <1>10, ArchParts
<1>12. Moves(a, b, k, {}, "continue")
  <2>2. \A t \in 1 .. m :
            /\ b.sessions[t].key = a.sessions[t].key
            /\ a.sessions[t].ended => b.sessions[t] = a.sessions[t]
            /\ t # a.sid[k] => b.sessions[t].rows = a.sessions[t].rows
            /\ b.sessions[t].ended => a.sessions[t].ended
    <3>1. ASSUME NEW t \in 1 .. m, t = s
          PROVE  b.sessions[t].key = a.sessions[t].key /\ ~a.sessions[t].ended /\ ~b.sessions[t].ended
                 /\ b.sessions[t].ended = a.sessions[t].ended
      <4>1. b.sessions[t] = now /\ a.sessions[t] = old
        BY <1>6, <3>1 DEF old
      <4>2. now.ended = old.ended
        BY <1>2, <1>5 DEF now, old, Session
      <4>. QED BY <1>2, <1>5, <4>1, <4>2 DEF old
    <3>. QED BY <1>6, <3>1
  <2>3. b.sid = a.sid /\ Len(b.sessions) = m
    BY <1>3, <1>6
  <2>4. \A j \in Keys \ {k} : b.sid[j] = IF j \in {} THEN NoSession ELSE a.sid[j]
    BY <2>3
  <2>5. \A t \in 1 .. m : a.sessions[t].ended \in BOOLEAN
    BY <1>1 DEF Session
  <2>6. b.sid[k] = a.sid[k]
    BY <2>3
  <2>. QED BY <2>2, <2>3, <2>4, <2>5, <2>6 DEF Moves
<1>13. Fits(B, b, k, e)
  BY <1>3, <1>6, <1>7 DEF Fits
<1>. QED BY <1>11, <1>12, <1>13 DEF b

\* b is what a leaves when k's session of era e goes on.
Continued(B, a, b, n, k, e) ==
    /\ ArchOK(B, b, n) /\ \E idle : Moves(a, b, k, idle, "continue")
    /\ Fits(B, b, k, e) /\ b.ok = a.ok

\* _evict_idle_conversations, after a pass of k: others may lose their session.
LEMMA EvictKept ==
    ASSUME NEW B, NEW n \in Nat, NEW a, ArchOK(B, a, n), NEW k \in Keys, NEW e \in Nat,
           a.sid[k] # NoSession, Fits(B, a, k, e), NEW fault
    PROVE  Continued(B, a, EvictIdle(a, k, fault), n, k, e)
<1>. SUFFICES ASSUME NEW b, b = EvictIdle(a, k, fault)
              PROVE  /\ ArchOK(B, b, n) /\ \E i : Moves(a, b, k, i, "continue")
                     /\ Fits(B, b, k, e) /\ b.ok = a.ok
  BY DEF Continued
<1> DEFINE idle == Evicted(a.order, k, TRUE, Cap)
           ids == Stamped({a.sid[j] : j \in idle}, fault)
           ss == Ended(a.sessions, ids)
           m == Len(a.sessions)
<1>1. /\ a \in MemoryType(n) /\ Len(a.order) <= Cap /\ a.sid \in [Keys -> Nat]
      /\ a.order \in Recency(Keys)
      /\ a.sessions \in Seq(Session) /\ m \in Nat /\ DOMAIN a.sessions = 1 .. m
      /\ a.confirmed \in [Keys -> Seq(Fp(n))] /\ a.pending \in [Keys -> Seq(Item(n))]
  BY ArchDef
<1>2. /\ b.sessions = ss /\ b.order = Touched(a.order, k, TRUE, Cap) /\ b.ok = a.ok
      /\ b.confirmed = [j \in Keys |-> IF j \in idle THEN <<>> ELSE a.confirmed[j]]
      /\ b.pending = [j \in Keys |-> IF j \in idle THEN <<>> ELSE a.pending[j]]
      /\ b.sid = [j \in Keys |-> IF j \in idle THEN NoSession ELSE a.sid[j]]
      /\ b = [a EXCEPT !.order = b.order, !.sessions = b.sessions, !.sid = b.sid,
                       !.confirmed = b.confirmed, !.pending = b.pending]
  BY <1>1 DEF EvictIdle, MemoryType
<1>3. /\ ss \in Seq(Session) /\ Len(ss) = m
      /\ \A s \in 1 .. m :
            /\ ss[s].key = a.sessions[s].key /\ ss[s].rows = a.sessions[s].rows
            /\ ss[s].ended = (a.sessions[s].ended \/ s \in ids)
            /\ a.sessions[s].ended => ss[s] = a.sessions[s]
  <2> HIDE DEF ids
  <2>. QED BY <1>1, EndedTyped
<1>4. /\ b.order \in Recency(Keys) /\ Len(b.order) <= Cap /\ idle \subseteq Keys \ {k}
  <2>1. Among(a.order) \subseteq Keys
    BY <1>1, RecencyDef
  <2>2. Cap \in Nat \ {0} /\ Len(a.order) <= Cap /\ a.order \in Recency(Keys)
    BY <1>1, CapAssumption
  <2>3. /\ Touched(a.order, k, TRUE, Cap) \in Recency(Keys)
        /\ Len(Touched(a.order, k, TRUE, Cap)) <= Cap
        /\ Evicted(a.order, k, TRUE, Cap) \subseteq Among(a.order) \ {k}
    BY <2>2, TouchKeeps
  <2>. QED BY <1>2, <2>1, <2>3
<1>0. \A s \in ids : \E j \in idle : s = a.sid[j]
  BY DEF Stamped
<1> HIDE DEF ss, idle, ids
<1>5. b \in MemoryType(n)
  <2>1. <<>> \in Seq(Fp(n)) /\ <<>> \in Seq(Item(n)) /\ NoSession \in Nat
    BY DEF NoSession
  <2>2. /\ b.sid \in [Keys -> Nat] /\ b.confirmed \in [Keys -> Seq(Fp(n))]
        /\ b.pending \in [Keys -> Seq(Item(n))]
    BY <1>1, <1>2, <2>1
  <2>3. b = [a EXCEPT !.order = b.order, !.sessions = b.sessions, !.sid = b.sid,
                       !.confirmed = b.confirmed, !.pending = b.pending]
        /\ b.sessions \in Seq(Session)
    BY <1>2, <1>3
  <2>. QED BY <1>1, <1>4, <2>2, <2>3 DEF MemoryType
<1>6. ASSUME NEW j \in Keys PROVE KeyOK(b, j)
  <2>1. KeyOK(a, j)
    BY ArchParts
  <2>2. CASE j \in idle
    BY <1>2, <2>2 DEF KeyOK
  <2>3. CASE j \notin idle
    <3>1. b.sid[j] = a.sid[j] /\ b.confirmed[j] = a.confirmed[j] /\ b.pending[j] = a.pending[j]
      BY <1>2, <2>3
    <3>2. ASSUME a.sid[j] # NoSession
          PROVE  /\ a.sid[j] \in 1 .. Len(b.sessions)
                 /\ b.sessions[a.sid[j]].key = a.sessions[a.sid[j]].key
                 /\ b.sessions[a.sid[j]].rows = a.sessions[a.sid[j]].rows
                 /\ ~b.sessions[a.sid[j]].ended
      <4> DEFINE s == a.sid[j]
      <4>1. s \in 1 .. m /\ a.sessions[s].key = j /\ ~a.sessions[s].ended
        BY <2>1, <3>2 DEF KeyOK
      <4>2. s \notin ids
        <5>1. SUFFICES ASSUME NEW i \in idle, a.sid[i] = s PROVE FALSE
          BY <1>0
        <5>2. KeyOK(a, i) /\ i # j
          BY <1>4, <2>3, ArchParts
        <5>. QED BY <3>2, <4>1, <5>1, <5>2 DEF KeyOK
      <4>3. ~ss[s].ended /\ b.sessions = ss
        BY <1>2, <1>3, <4>1, <4>2
      <4>4. s \in 1 .. Len(b.sessions)
        BY <1>2, <1>3, <4>1
      <4> HIDE DEF s
      <4>. QED BY <1>3, <4>1, <4>3, <4>4 DEF s
    <3>. QED BY <2>1, <3>1, <3>2, KeyStays
  <2>. QED BY <2>2, <2>3
<1>7. ASSUME NEW s \in 1 .. Len(b.sessions) PROVE \E f \in Nat : OfEra(B, b.sessions[s], f)
  <2>1. b.sessions[s].rows = a.sessions[s].rows /\ b.sessions[s].key = a.sessions[s].key
    BY <1>2, <1>3
  <2>2. \E f \in Nat : OfEra(B, a.sessions[s], f)
    BY <1>2, <1>3, ArchParts
  <2>. QED BY <2>1, <2>2 DEF OfEra
<1>8. ArchOK(B, b, n)
  BY <1>4, <1>5, <1>6, <1>7, ArchParts
<1>9. Moves(a, b, k, idle, "continue")
  <2>1. \A j \in Keys \ {k} : b.sid[j] = IF j \in idle THEN NoSession ELSE a.sid[j]
    BY <1>2
  <2>2. b.sid[k] = a.sid[k] /\ Len(b.sessions) = m
    BY <1>2, <1>3, <1>4
  <2>3. \A t \in 1 .. m :
            b.sessions[t].ended => a.sessions[t].ended \/ \E j \in idle : t = a.sid[j]
    BY <1>0, <1>2, <1>3
  <2>4. \A t \in 1 .. m :
            /\ b.sessions[t].key = a.sessions[t].key
            /\ a.sessions[t].ended => b.sessions[t] = a.sessions[t]
            /\ t # a.sid[k] => b.sessions[t].rows = a.sessions[t].rows
    BY <1>2, <1>3
  <2>. QED BY <1>4, <2>1, <2>2, <2>3, <2>4 DEF Moves
<1>10. Fits(B, b, k, e)
  <2>1. b.sid[k] = a.sid[k] /\ a.sid[k] \in 1 .. m
    BY <1>2, <1>4 DEF ArchOK, KeyOK
  <2>2. /\ b.sessions[b.sid[k]].rows = a.sessions[a.sid[k]].rows
        /\ b.sessions[b.sid[k]].key = a.sessions[a.sid[k]].key
    BY <1>2, <1>3, <2>1
  <2>. QED BY <2>1, <2>2 DEF Fits, OfEra
<1>. QED BY <1>2, <1>8, <1>9, <1>10

-----------------------------------------------------------------------------
(* A whole pass.                                                           *)

\* What a pass does to the rows and ids is a matter of those two fields alone.
LEMMA MovesSame ==
    ASSUME NEW a, NEW b, NEW c, NEW k, NEW idle, NEW how,
           Moves(a, b, k, idle, how), c.sid = b.sid, c.sessions = b.sessions
    PROVE  Moves(a, c, k, idle, how)
BY DEF Moves

LEMMA MarkKept ==
    ASSUME NEW B, NEW n \in Nat, NEW a, ArchOK(B, a, n), NEW last \in {<<>>} \cup (Keys \X Nat),
           NEW fine \in BOOLEAN
    PROVE  /\ ArchOK(B, [a EXCEPT !.lastPass = last], n)
           /\ ArchOK(B, [a EXCEPT !.ok = fine], n)
<1>1. a \in MemoryType(n)
  BY ArchDef
<1> DEFINE b == [a EXCEPT !.lastPass = last]
           c == [a EXCEPT !.ok = fine]
<1>2. /\ b \in MemoryType(n) /\ b.order = a.order /\ b.sid = a.sid /\ b.sessions = a.sessions
      /\ b.confirmed = a.confirmed /\ b.pending = a.pending
  BY <1>1 DEF MemoryType
<1>3. /\ c \in MemoryType(n) /\ c.order = a.order /\ c.sid = a.sid /\ c.sessions = a.sessions
      /\ c.confirmed = a.confirmed /\ c.pending = a.pending
  BY <1>1 DEF MemoryType
<1> HIDE DEF b, c
<1>4. (\A j \in Keys : KeyOK(b, j)) /\ \A j \in Keys : KeyOK(c, j)
  BY <1>2, <1>3, ArchParts DEF KeyOK
<1>5. ArchOK(B, b, n) /\ ArchOK(B, c, n)
  BY <1>2, <1>3, <1>4, ArchParts
<1>. QED BY <1>5 DEF b, c

\* One pass after another that left k's session alone, or closed it, or is followed
\* by one that leaves it alone, is one pass.
LEMMA MovesCompose ==
    ASSUME NEW B, NEW n \in Nat, NEW a, ArchOK(B, a, n), NEW b, NEW c, NEW k \in Keys,
           NEW idle, NEW h1, NEW h2,
           Moves(a, b, k, {}, h1), Moves(b, c, k, idle, h2),
           h1 = "continue" \/ h2 = "continue" \/ h1 = "release"
    PROVE  Moves(a, c, k, idle, IF h2 = "continue" THEN h1 ELSE h2)
<1> DEFINE m == Len(a.sessions)
           goneA(s) == a.sessions[s].ended \/ \E j \in idle : s = a.sid[j]
           goneB(s) == b.sessions[s].ended \/ \E j \in idle : s = b.sid[j]
           how == IF h2 = "continue" THEN h1 ELSE h2
<1>0. /\ a.sid \in [Keys -> Nat] /\ m \in Nat
      /\ \A j \in Keys : a.sid[j] # m + 1
  BY ArchDef
<1>1. /\ a.sid \in [Keys -> Nat] /\ m \in Nat
      /\ \A j \in Keys : a.sid[j] # m + 1
      /\ \A s \in 1 .. m : s # m + 1 /\ s # NoSession
  BY <1>0 DEF NoSession
<1>2. idle \subseteq Keys \ {k} /\ \A j \in Keys \ {k} : b.sid[j] = a.sid[j]
  BY DEF Moves
<1>3. \A j \in Keys \ {k} : c.sid[j] = IF j \in idle THEN NoSession ELSE a.sid[j]
  BY <1>2 DEF Moves
<1>4. h1 \in {"continue", "release", "open"} /\ h2 \in {"continue", "release", "open"}
  BY DEF Moves
<1>5. /\ h1 = "continue" => /\ a.sid[k] # NoSession /\ b.sid[k] = a.sid[k] /\ Len(b.sessions) = m
                            /\ \A s \in 1 .. m : b.sessions[s].ended => a.sessions[s].ended
      /\ h1 = "release" => /\ b.sid[k] = NoSession /\ Len(b.sessions) = m
                           /\ \A s \in 1 .. m : b.sessions[s].ended =>
                                a.sessions[s].ended \/ s = a.sid[k]
      /\ h1 = "open" => /\ b.sid[k] = m + 1 /\ Len(b.sessions) = m + 1
                        /\ b.sessions[m + 1].key = k /\ ~b.sessions[m + 1].ended
                        /\ \A s \in 1 .. m :
                             /\ b.sessions[s].ended =>
                                  a.sessions[s].ended \/ s = a.sid[k] \/ a.sessions[s].key = k
                             /\ a.sessions[s].key = k => b.sessions[s].ended
  BY <1>1 DEF Moves
<1>6. /\ \A s \in 1 .. m : s \in 1 .. Len(b.sessions)
      /\ \A s \in 1 .. m : s # a.sid[k] => s # b.sid[k]
  BY <1>1, <1>4, <1>5
<1>7. \A s \in 1 .. m :
            /\ b.sessions[s].key = a.sessions[s].key
            /\ a.sessions[s].ended => b.sessions[s] = a.sessions[s]
            /\ s # a.sid[k] => b.sessions[s].rows = a.sessions[s].rows
  BY DEF Moves
<1>8. \A s \in 1 .. Len(b.sessions) :
            /\ c.sessions[s].key = b.sessions[s].key
            /\ b.sessions[s].ended => c.sessions[s] = b.sessions[s]
            /\ s # b.sid[k] => c.sessions[s].rows = b.sessions[s].rows
  BY DEF Moves
<1>9. \A s \in 1 .. m :
            /\ c.sessions[s].key = a.sessions[s].key
            /\ a.sessions[s].ended => c.sessions[s] = a.sessions[s]
            /\ s # a.sid[k] => c.sessions[s].rows = a.sessions[s].rows
  <2>1. ASSUME NEW s \in 1 .. m
        PROVE  /\ c.sessions[s].key = a.sessions[s].key
               /\ a.sessions[s].ended => c.sessions[s] = a.sessions[s]
               /\ s # a.sid[k] => c.sessions[s].rows = a.sessions[s].rows
    <3>1. /\ c.sessions[s].key = b.sessions[s].key
          /\ b.sessions[s].ended => c.sessions[s] = b.sessions[s]
          /\ s # b.sid[k] => c.sessions[s].rows = b.sessions[s].rows
      BY ONLY <1>6, <1>8, <2>1
    <3>2. /\ b.sessions[s].key = a.sessions[s].key
          /\ a.sessions[s].ended => b.sessions[s] = a.sessions[s]
          /\ s # a.sid[k] => b.sessions[s].rows = a.sessions[s].rows
      BY ONLY <1>7, <2>1
    <3>3. s # a.sid[k] => s # b.sid[k]
      BY ONLY <1>6, <2>1
    <3>. QED BY ONLY <3>1, <3>2, <3>3
  <2>. QED BY <2>1
<1>10. \A s \in 1 .. m : goneB(s) <=> b.sessions[s].ended \/ \E j \in idle : s = a.sid[j]
  BY <1>2
<1>11. /\ h2 = "continue" => /\ b.sid[k] # NoSession /\ c.sid[k] = b.sid[k]
                             /\ Len(c.sessions) = Len(b.sessions)
                             /\ \A s \in 1 .. Len(b.sessions) : c.sessions[s].ended => goneB(s)
       /\ h2 = "release" => /\ c.sid[k] = NoSession /\ Len(c.sessions) = Len(b.sessions)
                            /\ \A s \in 1 .. Len(b.sessions) :
                                 c.sessions[s].ended => goneB(s) \/ s = b.sid[k]
       /\ h2 = "open" => /\ c.sid[k] = Len(b.sessions) + 1
                         /\ Len(c.sessions) = Len(b.sessions) + 1
                         /\ c.sessions[Len(b.sessions) + 1].key = k
                         /\ ~c.sessions[Len(b.sessions) + 1].ended
                         /\ \A s \in 1 .. Len(b.sessions) :
                              /\ c.sessions[s].ended =>
                                   goneB(s) \/ s = b.sid[k] \/ b.sessions[s].key = k
                              /\ b.sessions[s].key = k => c.sessions[s].ended
  BY DEF Moves
<1> HIDE DEF goneB
<1>12. CASE h1 = "continue" /\ h2 = "continue"
  <2>1. /\ c.sid[k] = a.sid[k] /\ a.sid[k] # NoSession /\ Len(c.sessions) = m
        /\ \A s \in 1 .. m : c.sessions[s].ended => goneA(s)
    BY <1>5, <1>10, <1>11, <1>12
  <2>2. how = "continue"
    BY <1>12
  <2> HIDE DEF how
  <2>. QED BY ONLY <1>2, <1>3, <1>9, <2>1, <2>2 DEF Moves, m, goneA, how
<1>13. CASE h1 \in {"continue", "release"} /\ h2 = "release"
  <2>1. /\ c.sid[k] = NoSession /\ Len(c.sessions) = m
        /\ \A s \in 1 .. m : c.sessions[s].ended => goneA(s) \/ s = a.sid[k]
    BY <1>1, <1>5, <1>10, <1>11, <1>13
  <2>2. how = "release"
    BY <1>13
  <2> HIDE DEF how
  <2>. QED BY ONLY <1>2, <1>3, <1>9, <2>1, <2>2 DEF Moves, m, goneA, how
<1>14. CASE h1 \in {"continue", "release"} /\ h2 = "open"
  <2>1. /\ c.sid[k] = m + 1 /\ Len(c.sessions) = m + 1
        /\ c.sessions[m + 1].key = k /\ ~c.sessions[m + 1].ended
    BY <1>5, <1>11, <1>14
  <2>2. \A s \in 1 .. m :
          /\ c.sessions[s].ended => goneA(s) \/ s = a.sid[k] \/ a.sessions[s].key = k
          /\ a.sessions[s].key = k => c.sessions[s].ended
    BY <1>1, <1>5, <1>7, <1>10, <1>11, <1>14, SMTT(40)
  <2>3. how = "open"
    BY <1>14
  <2> HIDE DEF how
  <2>. QED BY ONLY <1>2, <1>3, <1>9, <2>1, <2>2, <2>3 DEF Moves, m, goneA, how
<1>15. CASE h1 = "open" /\ h2 = "continue"
  <2>0. m + 1 \in 1 .. m + 1 /\ Len(b.sessions) = m + 1
    BY <1>1, <1>5, <1>15
  <2>1. /\ c.sid[k] = m + 1 /\ Len(c.sessions) = m + 1 /\ c.sessions[m + 1].key = k
    BY <1>5, <1>8, <1>11, <1>15, <2>0
  <2>2. ~c.sessions[m + 1].ended
    <3>1. ~b.sessions[m + 1].ended
      BY <1>5, <1>15
    <3>2. ~\E j \in idle : m + 1 = b.sid[j]
      BY <1>1, <1>2
    <3>3. ~goneB(m + 1)
      BY <3>1, <3>2 DEF goneB
    <3>. QED BY <1>11, <1>15, <2>0, <3>3
  <2>3. ASSUME NEW s \in 1 .. m
        PROVE  /\ c.sessions[s].ended => goneA(s) \/ s = a.sid[k] \/ a.sessions[s].key = k
               /\ a.sessions[s].key = k => c.sessions[s].ended
    <3>1. /\ b.sessions[s].ended => a.sessions[s].ended \/ s = a.sid[k] \/ a.sessions[s].key = k
          /\ a.sessions[s].key = k => b.sessions[s].ended
      BY ONLY <1>5, <1>15, <2>3
    <3>2. /\ c.sessions[s].ended => goneB(s)
          /\ b.sessions[s].ended => c.sessions[s] = b.sessions[s]
      BY ONLY <1>6, <1>8, <1>11, <1>15, <2>3
    <3>3. goneB(s) => b.sessions[s].ended \/ \E j \in idle : s = a.sid[j]
      BY ONLY <1>10, <2>3
    <3>. QED BY ONLY <3>1, <3>2, <3>3 DEF goneA
  <2>4. how = "open"
    BY <1>15
  <2> HIDE DEF how
  <2>. QED BY ONLY <1>2, <1>3, <1>9, <2>1, <2>2, <2>3, <2>4, ZenonT(60) DEF Moves, m, goneA, how
<1>16. ~(h1 = "release" /\ h2 = "continue")
  BY <1>5, <1>11
<1>. QED BY <1>4, <1>12, <1>13, <1>14, <1>15, <1>16

\* How a pass of k that raised nothing leaves it.
Shown(z, k, entries) == z.sid[k] # NoSession /\ z.lastPass = <<k, Len(entries)>>

\* The rest of a pass once every insert has landed: k continues a session of era e.
LEMMA StoreKept ==
    ASSUME NEW B, NEW n \in Nat, NEW a, ArchOK(B, a, n), NEW k \in Keys, NEW e \in Nat,
           a.sid[k] # NoSession, Fits(B, a, k, e),
           NEW entries \in Seq(Entries(n, e)), entries # <<>>, NEW midTurn \in BOOLEAN, NEW al, NEW fault,
           al.start \in 1 .. Len(entries) + 1, al.adopted \in Seq(Fp(n)), al.keep \in Seq(Item(n)),
           al.start > 1 => a.confirmed[k] # <<>> \/ al.adopted # <<>> \/ al.keep # <<>>
    PROVE  /\ Continued(B, a, Store(a, k, entries, al, midTurn, fault), n, k, e)
           /\ Shown(Store(a, k, entries, al, midTurn, fault), k, entries)
<1>. SUFFICES ASSUME NEW z, z = Store(a, k, entries, al, midTurn, fault)
              PROVE  /\ ArchOK(B, z, n) /\ \E i : Moves(a, z, k, i, "continue")
                     /\ Fits(B, z, k, e) /\ z.ok = a.ok /\ z.sid[k] # NoSession
                     /\ z.lastPass = <<k, Len(entries)>>
  BY DEF Continued, Shown
<1> DEFINE fresh == SubSeq(entries, al.start, Len(entries))
           rows == [i \in DOMAIN fresh |-> [role |-> fresh[i].role, srcs |-> fresh[i].srcs]]
           known == a.confirmed[k] \o al.adopted \o Confirmable(fresh, midTurn)
           stays == IF midTurn THEN fresh ELSE KeepLast(fresh, 1)
           items == [i \in DOMAIN stays |-> Unreplayed(stays[i])]
           most == Larger(MaxFps, 2 * Len(entries))
           c == KeepLast(known, most)
           p == al.keep \o items
           b == [a EXCEPT !.sessions[a.sid[k]].rows = @ \o rows,
                          !.confirmed[k] = c, !.pending[k] = p]
           d == EvictIdle(b, k, fault)
<1>1. z = [d EXCEPT !.lastPass = <<k, Len(entries)>>]
  BY DEF Store
<1>2. /\ Len(entries) \in Nat /\ Len(entries) > 0
      /\ \A i \in 1 .. Len(entries) : entries[i] \in Entries(n, e)
  OBVIOUS
<1>3. /\ fresh \in Seq(Entries(n, e)) /\ Len(fresh) \in Nat
      /\ (al.start <= Len(entries) => fresh # <<>>)
  <2>1. \A i \in al.start .. Len(entries) : entries[i] \in Entries(n, e)
    BY <1>2
  <2>2. /\ fresh \in Seq(Entries(n, e))
        /\ Len(fresh) = IF al.start <= Len(entries) THEN Len(entries) - al.start + 1 ELSE 0
    BY <1>2, <2>1, SubSeqProperties
  <2> HIDE DEF fresh
  <2>. QED BY <1>2, <2>2
<1> HIDE DEF fresh
<1>4. rows \in Seq(Row) /\ \A i \in 1 .. Len(rows) : rows[i].srcs \subseteq Idents(e)
  <2>1. /\ DOMAIN fresh = 1 .. Len(fresh)
        /\ \A i \in 1 .. Len(fresh) : fresh[i] \in Entries(n, e)
    BY <1>3
  <2>2. \A i \in 1 .. Len(fresh) :
            rows[i] \in Row /\ rows[i].srcs \subseteq Idents(e)
    BY <2>1 DEF Entries, Row, Idents
  <2>3. rows = [i \in 1 .. Len(fresh) |-> rows[i]]
    BY <2>1
  <2> HIDE DEF rows
  <2>4. rows \in Seq(Row) /\ Len(rows) = Len(fresh)
    BY <1>3, <2>2, <2>3, FunIsSeq
  <2>. QED BY <2>2, <2>4
<1>5. Confirmable(fresh, midTurn) \in Seq(Fp(n))
  <2>1. CASE midTurn \/ fresh = <<>>
    BY <2>1 DEF Confirmable
  <2>2. CASE ~midTurn /\ fresh # <<>>
    <3> DEFINE front == Front(fresh)
               f == Fps(front)
    <3>1. /\ front \in Seq(Entries(n, e)) /\ Len(front) \in Nat /\ DOMAIN front = 1 .. Len(front)
          /\ \A i \in 1 .. Len(front) : front[i] \in Entries(n, e)
      <4>1. front = SubSeq(fresh, 1, Len(fresh) - 1) /\ Len(fresh) > 0
        BY <1>3, <2>2 DEF Front
      <4>2. \A i \in 1 .. Len(fresh) - 1 : fresh[i] \in Entries(n, e)
        BY <1>3
      <4>3. front \in Seq(Entries(n, e))
        BY <1>3, <4>1, <4>2, SubSeqProperties
      <4> HIDE DEF front
      <4>. QED BY <4>3
    <3> HIDE DEF front
    <3>2. f = [i \in 1 .. Len(front) |-> f[i]] /\ \A i \in 1 .. Len(front) : f[i] \in Fp(n)
      BY <3>1 DEF Fps, Entries
    <3> HIDE DEF f
    <3>3. f \in Seq(Fp(n))
      BY <3>1, <3>2, FunIsSeq
    <3>. QED BY <2>2, <3>3 DEF Confirmable, f, front
  <2>. QED BY <2>1, <2>2
<1>6. stays \in Seq(Entries(n, e)) /\ (fresh # <<>> => stays # <<>>)
  <2>1. KeepLast(fresh, 1) \in Seq(Entries(n, e)) /\ (fresh # <<>> => KeepLast(fresh, 1) # <<>>)
    BY <1>3, KeepLastTyped
  <2>. QED BY <1>3, <2>1
<1> HIDE DEF stays
<1>7. items \in Seq(Item(n)) /\ (fresh # <<>> => items # <<>>)
  <2>1. /\ DOMAIN stays = 1 .. Len(stays) /\ Len(stays) \in Nat
        /\ \A i \in 1 .. Len(stays) : stays[i] \in Entries(n, e)
    BY <1>6
  <2>2. \A i \in 1 .. Len(stays) : items[i] \in Item(n)
    BY <2>1 DEF Entries, Item, Unreplayed
  <2>3. items = [i \in 1 .. Len(stays) |-> items[i]]
    BY <2>1
  <2> HIDE DEF items
  <2>4. items \in Seq(Item(n)) /\ Len(items) = Len(stays)
    BY <2>1, <2>2, <2>3, FunIsSeq
  <2>. QED BY <1>6, <2>1, <2>4
<1> HIDE DEF items, rows
<1>8. a.confirmed[k] \in Seq(Fp(n))
  <2>1. a.confirmed \in [Keys -> Seq(Fp(n))]
    BY ArchDef
  <2>. QED BY <2>1
<1>9. known \in Seq(Fp(n)) /\ (a.confirmed[k] # <<>> \/ al.adopted # <<>> => known # <<>>)
  <2> DEFINE two == a.confirmed[k] \o al.adopted
  <2>1. two \in Seq(Fp(n)) /\ (two # <<>> <=> a.confirmed[k] # <<>> \/ al.adopted # <<>>)
    BY <1>8, JoinOf
  <2> HIDE DEF two
  <2>2. LET s == two \o Confirmable(fresh, midTurn)
        IN  s \in Seq(Fp(n)) /\ (s # <<>> <=> two # <<>> \/ Confirmable(fresh, midTurn) # <<>>)
    BY <1>5, <2>1, JoinOf
  <2>. QED BY <2>1, <2>2 DEF two
<1> HIDE DEF known
<1>10. most \in Nat /\ most > 0
  <2>1. MaxFps \in Nat /\ 2 * Len(entries) \in Nat /\ 2 * Len(entries) > 0
    BY <1>2, LimitsAssumption
  <2>. QED BY <2>1 DEF Larger
<1> HIDE DEF most
<1>11. c \in Seq(Fp(n)) /\ (known # <<>> => c # <<>>)
  BY <1>9, <1>10, KeepLastTyped
<1>12. p \in Seq(Item(n)) /\ (al.keep # <<>> \/ items # <<>> => p # <<>>)
  BY <1>7, JoinOf
<1>13. c # <<>> \/ p # <<>>
  <2>1. CASE al.start <= Len(entries)
    BY <1>3, <1>7, <1>12, <2>1
  <2>2. CASE al.start > 1
    BY <1>9, <1>11, <1>12, <2>2
  <2>. QED BY <1>2, <2>1, <2>2
<1> HIDE DEF c, p
<1>14. ArchOK(B, b, n) /\ Moves(a, b, k, {}, "continue") /\ Fits(B, b, k, e)
  BY <1>4, <1>11, <1>12, <1>13, AppendKept
<1>15. b.ok = a.ok /\ b.sid = a.sid
  BY ArchDef DEF MemoryType
<1> HIDE DEF b
<1>22. /\ ArchOK(B, d, n) /\ \E i : Moves(b, d, k, i, "continue")
       /\ Fits(B, d, k, e) /\ d.ok = b.ok
  <2>1. b.sid[k] # NoSession
    BY <1>15
  <2>2. d = EvictIdle(b, k, fault)
    OBVIOUS
  <2> HIDE DEF d
  <2>3. ArchOK(B, b, n) /\ Fits(B, b, k, e)
    BY <1>14
  <2>4. Continued(B, b, EvictIdle(b, k, fault), n, k, e)
    BY ONLY <2>1, <2>3, k \in Keys, n \in Nat, e \in Nat, EvictKept
  <2>. QED BY ONLY <2>2, <2>4 DEF Continued
<1>16. PICK idle : Moves(b, d, k, idle, "continue")
  BY <1>22
<1>17. ArchOK(B, d, n) /\ Fits(B, d, k, e) /\ d.ok = a.ok
  BY <1>15, <1>22
<1> HIDE DEF d
<1>18. Moves(a, d, k, idle, "continue")
  BY <1>14, <1>16, MovesCompose
<1>19. ArchOK(B, z, n) /\ z.sid = d.sid /\ z.sessions = d.sessions /\ z.ok = d.ok
       /\ z.lastPass = <<k, Len(entries)>>
  <2>1. <<k, Len(entries)>> \in {<<>>} \cup (Keys \X Nat)
    BY <1>2
  <2>2. ArchOK(B, [d EXCEPT !.lastPass = <<k, Len(entries)>>], n)
    BY <1>17, <2>1, MarkKept
  <2>3. d \in MemoryType(n)
    BY <1>17, ArchDef
  <2>. QED BY <1>1, <2>2, <2>3 DEF MemoryType
<1>20. Moves(a, z, k, idle, "continue") /\ Fits(B, z, k, e)
  BY <1>17, <1>18, <1>19, MovesSame DEF Fits
<1>21. z.sid[k] # NoSession
  BY <1>20 DEF Moves
<1>. QED BY <1>17, <1>19, <1>20, <1>21

\* A pass that does nothing to k is a pass.
LEMMA MovesStay ==
    ASSUME NEW B, NEW n \in Nat, NEW a, ArchOK(B, a, n), NEW k \in Keys
    PROVE  Moves(a, a, k, {}, IF a.sid[k] = NoSession THEN "release" ELSE "continue")
<1>2. CASE a.sid[k] = NoSession
  BY <1>2 DEF Moves
<1>3. CASE a.sid[k] # NoSession
  BY <1>3 DEF Moves
<1>. QED BY <1>2, <1>3

\* How a pass of k that raised may have left it.
Blank(z, k) == z.sid[k] # NoSession /\ z.confirmed[k] = <<>> /\ z.pending[k] = <<>>
Raised(a, z, k) == \E how : Moves(a, z, k, {}, how) /\ (how = "open" => Blank(z, k))

\* A whole pass of k over a window of era e, which k's session either is of or which
\* opens another: k is left with a session unless something raised, and a failed pass
\* that opened one left no memory of what the window held.
LEMMA ArchiveKept ==
    ASSUME NEW B, NEW n \in Nat, NEW a, ArchOK(B, a, n), a.ok = TRUE, NEW k \in Keys, NEW e \in Nat,
           NEW entries \in Seq(Entries(n, e)), entries # <<>>, NEW midTurn \in BOOLEAN, NEW fault,
           \/ Fits(B, a, k, e)
           \/ Align(a.confirmed[k], a.pending[k], entries, midTurn).isNew
    PROVE  LET z == Archive(a, k, entries, midTurn, fault)
           IN  /\ ArchOK(B, z, n) /\ Fits(B, z, k, e)
               /\ \E idle, how : Moves(a, z, k, idle, how)
               /\ z.ok = TRUE => Shown(z, k, entries)
               /\ z.ok # TRUE => Raised(a, z, k)
<1> DEFINE al == Align(a.confirmed[k], a.pending[k], entries, midTurn)
           b == IF al.isNew THEN Release(a, k, fault) ELSE a
           c == IF b.sid[k] = NoSession THEN StartSession(b, k) ELSE b
           z == Archive(a, k, entries, midTurn, fault)
<1>1. z = IF b.sid[k] = NoSession /\ fault = "start" THEN [b EXCEPT !.ok = FALSE]
          ELSE IF al.start <= Len(entries) /\ fault = "insert" THEN [c EXCEPT !.ok = FALSE]
          ELSE Store(c, k, entries, al, midTurn, fault)
  BY DEF Archive
<1>2. /\ al.start \in 1 .. Len(entries) + 1 /\ al.isNew \in BOOLEAN
      /\ al.adopted \in Seq(Fp(n)) /\ al.keep \in Seq(Item(n))
      /\ al.start > 1 => a.confirmed[k] # <<>> \/ al.adopted # <<>> \/ al.keep # <<>>
      /\ al.isNew => al.start = 1
  <2>1. a.confirmed[k] \in Seq(Fp(n)) /\ a.pending[k] \in Seq(Item(n))
    BY ArchDef
  <2>. QED BY <2>1, AlignTyped, ZenonT(60)
<1>3. Fits(B, a, k, e) \/ al.isNew
  OBVIOUS
<1> HIDE DEF al
<1>4. /\ ArchOK(B, b, n) /\ Fits(B, b, k, e) /\ b.ok = TRUE
      /\ al.isNew => Moves(a, b, k, {}, "release") /\ b.sid[k] = NoSession
      /\ ~al.isNew => b = a
  <2>1. CASE al.isNew
    <3>1. /\ ArchOK(B, Release(a, k, fault), n) /\ Moves(a, Release(a, k, fault), k, {}, "release")
          /\ Release(a, k, fault).sid[k] = NoSession /\ Release(a, k, fault).ok = a.ok
      BY ReleaseKept
    <3>. QED BY <2>1, <3>1 DEF Fits
  <2>2. CASE ~al.isNew
    BY <1>3, <2>2
  <2>. QED BY <2>1, <2>2
<1>5. al.start > 1 => b.confirmed[k] # <<>> \/ al.adopted # <<>> \/ al.keep # <<>>
  BY <1>2, <1>4
<1> HIDE DEF b
<1>6. /\ ArchOK(B, c, n) /\ Fits(B, c, k, e) /\ c.ok = TRUE /\ c.sid[k] # NoSession
      /\ b.sid[k] = NoSession => /\ Moves(b, c, k, {}, "open")
                                 /\ c.confirmed[k] = <<>> /\ c.pending[k] = <<>>
      /\ b.sid[k] # NoSession => c = b
      /\ c.confirmed = b.confirmed
  <2>1. CASE b.sid[k] = NoSession
    <3> DEFINE d == StartSession(b, k)
    <3>1. /\ ArchOK(B, d, n) /\ Moves(b, d, k, {}, "open")
          /\ d.sessions[d.sid[k]].rows = <<>> /\ d.sid[k] # NoSession
          /\ d.confirmed = b.confirmed /\ d.pending = b.pending /\ d.ok = b.ok
      BY <1>4, <2>1, StartKept, SMTT(40)
    <3>2. b.confirmed[k] = <<>> /\ b.pending[k] = <<>>
      BY <1>4, <2>1 DEF ArchOK, KeyOK
    <3>3. c = d
      BY <2>1
    <3> HIDE DEF c, d
    <3>4. Fits(B, d, k, e)
      BY <3>1, SMTT(40) DEF Fits, OfEra
    <3>. QED BY <1>4, <2>1, <3>1, <3>2, <3>3, <3>4
  <2>2. CASE b.sid[k] # NoSession
    BY <1>4, <2>2
  <2>. QED BY <2>1, <2>2
<1> HIDE DEF c, z
<1>7. PICK h \in {"continue", "open"} :
         /\ Moves(a, c, k, {}, h)
         /\ h = "open" => c.confirmed[k] = <<>> /\ c.pending[k] = <<>>
  <2>1. CASE al.isNew
    <3>1. Moves(a, c, k, {}, IF "open" = "continue" THEN "release" ELSE "open")
      BY <1>4, <1>6, <2>1, MovesCompose
    <3>. QED BY <1>4, <1>6, <2>1, <3>1
  <2>2. CASE ~al.isNew /\ b.sid[k] = NoSession
    BY <1>4, <1>6, <2>2
  <2>3. CASE ~al.isNew /\ b.sid[k] # NoSession
    <3>1. c = a /\ a.sid[k] # NoSession
      BY <1>4, <1>6, <2>3
    <3>2. Moves(a, a, k, {}, IF a.sid[k] = NoSession THEN "release" ELSE "continue")
      BY MovesStay
    <3>3. (IF a.sid[k] = NoSession THEN "release" ELSE "continue") = "continue"
      BY <3>1
    <3>. QED BY <3>1, <3>2, <3>3
  <2>. QED BY <2>1, <2>2, <2>3
<1>8. CASE b.sid[k] = NoSession /\ fault = "start"
  <2>1. z = [b EXCEPT !.ok = FALSE] /\ b \in MemoryType(n)
    BY <1>1, <1>4, <1>8, ArchDef
  <2>2. ArchOK(B, [b EXCEPT !.ok = FALSE], n)
    BY <1>4, MarkKept
  <2>3. z.sid = b.sid /\ z.sessions = b.sessions /\ z.ok # TRUE
    BY <2>1 DEF MemoryType
  <2>4. Moves(a, b, k, {}, "release")
    <3>1. Moves(a, a, k, {}, IF a.sid[k] = NoSession THEN "release" ELSE "continue")
      BY MovesStay
    <3>. QED BY <1>4, <1>8, <3>1
  <2>5. Moves(a, z, k, {}, "release") /\ Fits(B, z, k, e)
    BY <1>4, <2>3, <2>4, MovesSame DEF Fits
  <2>. QED BY <2>1, <2>2, <2>3, <2>5 DEF z, Raised
<1>9. CASE ~(b.sid[k] = NoSession /\ fault = "start")
           /\ al.start <= Len(entries) /\ fault = "insert"
  <2>1. z = [c EXCEPT !.ok = FALSE] /\ c \in MemoryType(n)
    BY <1>1, <1>6, <1>9, ArchDef
  <2>2. ArchOK(B, [c EXCEPT !.ok = FALSE], n)
    BY <1>6, MarkKept
  <2>3. /\ z.sid = c.sid /\ z.sessions = c.sessions /\ z.ok # TRUE
        /\ z.confirmed = c.confirmed /\ z.pending = c.pending
    BY <2>1 DEF MemoryType
  <2>4. Moves(a, z, k, {}, h) /\ Fits(B, z, k, e)
    BY <1>6, <1>7, <2>3, MovesSame DEF Fits
  <2>. QED BY <1>6, <1>7, <2>1, <2>2, <2>3, <2>4 DEF z, Raised, Blank
<1>10. CASE /\ ~(b.sid[k] = NoSession /\ fault = "start")
            /\ ~(al.start <= Len(entries) /\ fault = "insert")
  <2>1. z = Store(c, k, entries, al, midTurn, fault)
    BY <1>1, <1>10
  <2>2. al.start > 1 => c.confirmed[k] # <<>> \/ al.adopted # <<>> \/ al.keep # <<>>
    BY <1>5, <1>6
  <2>3. /\ ArchOK(B, z, n) /\ \E idle : Moves(c, z, k, idle, "continue")
        /\ Fits(B, z, k, e) /\ z.ok = c.ok /\ z.sid[k] # NoSession
        /\ z.lastPass = <<k, Len(entries)>>
    <3>1. /\ n \in Nat /\ k \in Keys /\ e \in Nat /\ midTurn \in BOOLEAN
          /\ entries \in Seq(Entries(n, e)) /\ entries # <<>>
      OBVIOUS
    <3>2. ArchOK(B, c, n) /\ Fits(B, c, k, e) /\ c.sid[k] # NoSession
      BY <1>6
    <3>3. /\ al.start \in 1 .. Len(entries) + 1
          /\ al.adopted \in Seq(Fp(n)) /\ al.keep \in Seq(Item(n))
      BY <1>2
    <3>4. /\ Continued(B, c, Store(c, k, entries, al, midTurn, fault), n, k, e)
          /\ Shown(Store(c, k, entries, al, midTurn, fault), k, entries)
      BY ONLY <2>2, <3>1, <3>2, <3>3, StoreKept
    <3>. QED BY ONLY <2>1, <3>4 DEF Continued, Shown
  <2>4. PICK idle : Moves(c, z, k, idle, "continue")
    BY <2>3
  <2>5. Moves(a, z, k, idle, h)
    BY <1>6, <1>7, <2>4, MovesCompose
  <2>. QED BY <1>6, <2>3, <2>5 DEF z, Shown
<1>. QED BY <1>8, <1>9, <1>10

\* A pass, and after a failed one that leaves no session to show, a second: together
\* they do to the rows what one pass may do.
LEMMA TwiceKept ==
    ASSUME NEW B, NEW n \in Nat, NEW m, ArchOK(B, m, n), m.ok = TRUE, NEW k \in Keys, NEW e \in Nat,
           NEW entries \in Seq(Entries(n, e)), entries # <<>>, NEW midTurn \in BOOLEAN,
           NEW fault, NEW syncFault,
           \/ Fits(B, m, k, e)
           \/ Align(m.confirmed[k], m.pending[k], entries, midTurn).isNew
    PROVE  LET a == Archive(m, k, entries, midTurn, fault)
               b == IF CurrentSession(a, k, entries) = NoSession
                    THEN Archive([a EXCEPT !.ok = TRUE], k, entries, FALSE, syncFault)
                    ELSE a
           IN  ArchOK(B, b, n) /\ Fits(B, b, k, e) /\ \E idle, how : Moves(m, b, k, idle, how)
<1> DEFINE a == Archive(m, k, entries, midTurn, fault)
           retried == CurrentSession(a, k, entries) = NoSession
           a2 == [a EXCEPT !.ok = TRUE]
           b == IF retried THEN Archive(a2, k, entries, FALSE, syncFault) ELSE a
<1>0. /\ ArchOK(B, a, n) /\ Fits(B, a, k, e) /\ \E idle, how : Moves(m, a, k, idle, how)
      /\ a.ok = TRUE => Shown(a, k, entries)
      /\ a.ok # TRUE => Raised(m, a, k)
  <2>1. ArchOK(B, a, n) /\ Fits(B, a, k, e)
    BY ArchiveKept
  <2>2. \E idle, how : Moves(m, a, k, idle, how)
    BY ArchiveKept
  <2>3. a.ok = TRUE => Shown(a, k, entries)
    BY ArchiveKept
  <2>4. a.ok # TRUE => Raised(m, a, k)
    BY ArchiveKept
  <2> HIDE DEF a
  <2>. QED BY <2>1, <2>2, <2>3, <2>4
<1> HIDE DEF a
<1>1. ASSUME ~retried
      PROVE  ArchOK(B, b, n) /\ Fits(B, b, k, e) /\ \E idle, how : Moves(m, b, k, idle, how)
  <2>1. b = a
    BY <1>1
  <2> HIDE DEF b
  <2>. QED BY <1>0, <2>1
<1>2. ASSUME retried
      PROVE  ArchOK(B, b, n) /\ Fits(B, b, k, e) /\ \E idle, how : Moves(m, b, k, idle, how)
  <2>1. a.ok # TRUE
    BY <1>0, <1>2 DEF CurrentSession, Shown
  <2>2. PICK h1 : Moves(m, a, k, {}, h1) /\ (h1 = "open" => Blank(a, k))
    BY <1>0, <2>1 DEF Raised
  <2>3. h1 # "open"
    <3>1. SUFFICES ASSUME h1 = "open" PROVE FALSE
      OBVIOUS
    <3>2. a.confirmed[k] = <<>> /\ a.pending[k] = <<>> /\ a.sid[k] # NoSession
      BY <2>2, <3>1 DEF Blank
    <3>3. <<>> \in Seq(Fp(n)) /\ <<>> \in Seq(Item(n))
      OBVIOUS
    <3>4. ~Align(<<>>, <<>>, entries, FALSE).isNew
      BY <3>3, AlignTyped
    <3>. QED BY <1>2, <3>2, <3>4 DEF CurrentSession
  <2>4. h1 = "continue" \/ h1 = "release"
    BY <2>2, <2>3 DEF Moves
  <2>5. ArchOK(B, a2, n) /\ a2.sid = a.sid /\ a2.sessions = a.sessions /\ a2.ok = TRUE
    <3>1. a \in MemoryType(n)
      BY <1>0, ArchDef
    <3>2. ArchOK(B, a2, n)
      BY <1>0, MarkKept
    <3>. QED BY <3>1, <3>2 DEF MemoryType
  <2> HIDE DEF a2
  <2>6. Fits(B, a2, k, e) /\ Moves(m, a2, k, {}, h1)
    BY <1>0, <2>2, <2>5, MovesSame DEF Fits
  <2>7. b = Archive(a2, k, entries, FALSE, syncFault)
    BY <1>2
  <2> HIDE DEF b
  <2>8. ArchOK(B, b, n) /\ Fits(B, b, k, e) /\ \E idle, how : Moves(a2, b, k, idle, how)
    BY <2>5, <2>6, <2>7, ArchiveKept
  <2>9. PICK idle, h2 : Moves(a2, b, k, idle, h2)
    BY <2>8
  <2>10. Moves(m, b, k, idle, IF h2 = "continue" THEN h1 ELSE h2)
    BY <2>4, <2>6, <2>9, MovesCompose
  <2>11. \E i, h : Moves(m, b, k, i, h)
    BY <2>10
  <2>. QED BY <2>8, <2>11 DEF b
<1> HIDE DEF b
<1>3. ArchOK(B, b, n) /\ Fits(B, b, k, e) /\ \E idle, how : Moves(m, b, k, idle, how)
  BY <1>1, <1>2
<1>. QED BY <1>3 DEF a, b, retried, a2

\* A hook call: one pass, and a second one when the first leaves no session to show.
LEMMA HookParts ==
    ASSUME NEW k, NEW entries, NEW midTurn, NEW fault, NEW syncFault,
           HookCall(k, entries, midTurn, fault, syncFault)
    PROVE  LET a == Archive(Memory, k, entries, midTurn, fault)
               b == IF CurrentSession(a, k, entries) = NoSession
                    THEN Archive([a EXCEPT !.ok = TRUE], k, entries, FALSE, syncFault)
                    ELSE a
           IN  /\ Memory' = [order |-> b.order, confirmed |-> b.confirmed, pending |-> b.pending,
                             sid |-> b.sid, lastPass |-> b.lastPass, sessions |-> b.sessions,
                             ok |-> TRUE]
               /\ faults' = faults + (IF fault = "none" THEN 0 ELSE 1)
                                    + (IF syncFault = "none" THEN 0 ELSE 1)
               /\ Bites(fault, Memory, a)
               /\ IF CurrentSession(a, k, entries) = NoSession THEN Bites(syncFault, a, b)
                  ELSE syncFault = "none"
               /\ failed' = [failed EXCEPT ![k] = @ + (IF b.ok THEN 0 ELSE 1)]
<1> DEFINE a == Archive(Memory, k, entries, midTurn, fault)
           again(x) == Archive([x EXCEPT !.ok = TRUE], k, entries, FALSE, syncFault)
           b == IF CurrentSession(a, k, entries) = NoSession THEN again(a) ELSE a
<1>1. PICK x \in {a} : \E retried \in {CurrentSession(x, k, entries) = NoSession} :
         \E y \in {IF retried THEN again(x) ELSE x} :
            /\ Bites(fault, Memory, x)
            /\ IF retried THEN Bites(syncFault, x, y) ELSE syncFault = "none"
            /\ failed' = [failed EXCEPT ![k] = @ + (IF y.ok THEN 0 ELSE 1)]
            /\ order' = y.order /\ confirmed' = y.confirmed /\ pending' = y.pending
            /\ sid' = y.sid /\ lastPass' = y.lastPass /\ sessions' = y.sessions
  BY ZenonT(60) DEF HookCall
<1>2. x = a
  OBVIOUS
<1> HIDE DEF a, again
<1>3. \E y \in {b} :
            /\ Bites(fault, Memory, a)
            /\ IF CurrentSession(a, k, entries) = NoSession THEN Bites(syncFault, a, y)
               ELSE syncFault = "none"
            /\ failed' = [failed EXCEPT ![k] = @ + (IF y.ok THEN 0 ELSE 1)]
            /\ order' = y.order /\ confirmed' = y.confirmed /\ pending' = y.pending
            /\ sid' = y.sid /\ lastPass' = y.lastPass /\ sessions' = y.sessions
  BY <1>1, <1>2
<1> HIDE DEF b
<1>4. /\ Bites(fault, Memory, a)
      /\ IF CurrentSession(a, k, entries) = NoSession THEN Bites(syncFault, a, b)
         ELSE syncFault = "none"
      /\ failed' = [failed EXCEPT ![k] = @ + (IF b.ok THEN 0 ELSE 1)]
      /\ order' = b.order /\ confirmed' = b.confirmed /\ pending' = b.pending
      /\ sid' = b.sid /\ lastPass' = b.lastPass /\ sessions' = b.sessions
  BY <1>3
<1>5. Memory' = [order |-> b.order, confirmed |-> b.confirmed, pending |-> b.pending,
                 sid |-> b.sid, lastPass |-> b.lastPass, sessions |-> b.sessions, ok |-> TRUE]
  BY <1>4 DEF Memory
<1>6. faults' = faults + (IF fault = "none" THEN 0 ELSE 1) + (IF syncFault = "none" THEN 0 ELSE 1)
  BY DEF HookCall
<1>. QED BY <1>4, <1>5, <1>6 DEF b, a, again

\* One hook call on a window of era e: what it does to the rows is one pass.
LEMMA HookKept ==
    ASSUME NEW B, NEW n \in Nat, ArchOK(B, Memory, n), NEW k \in Keys, NEW e \in Nat,
           NEW entries \in Seq(Entries(n, e)), entries # <<>>, NEW midTurn \in BOOLEAN,
           NEW fault, NEW syncFault,
           \/ Fits(B, Memory, k, e)
           \/ Align(confirmed[k], pending[k], entries, midTurn).isNew,
           HookCall(k, entries, midTurn, fault, syncFault)
    PROVE  /\ ArchOK(B, Memory', n) /\ Fits(B, Memory', k, e)
           /\ \E idle, how : Moves(Memory, Memory', k, idle, how)
<1> DEFINE m == Memory
           a == Archive(m, k, entries, midTurn, fault)
           b == IF CurrentSession(a, k, entries) = NoSession
                THEN Archive([a EXCEPT !.ok = TRUE], k, entries, FALSE, syncFault)
                ELSE a
<1>1. m.ok = TRUE /\ m.confirmed = confirmed /\ m.pending = pending
  BY DEF Memory
<1>2. Memory' = [order |-> b.order, confirmed |-> b.confirmed, pending |-> b.pending,
                 sid |-> b.sid, lastPass |-> b.lastPass, sessions |-> b.sessions, ok |-> TRUE]
  BY HookParts
<1>3. ArchOK(B, m, n) /\ (\/ Fits(B, m, k, e)
                         \/ Align(m.confirmed[k], m.pending[k], entries, midTurn).isNew)
  BY <1>1
<1> HIDE DEF m
<1>4. ArchOK(B, b, n) /\ Fits(B, b, k, e) /\ \E idle, how : Moves(m, b, k, idle, how)
  <2>1. /\ n \in Nat /\ ArchOK(B, m, n) /\ m.ok = TRUE /\ k \in Keys /\ e \in Nat
        /\ entries \in Seq(Entries(n, e)) /\ entries # <<>> /\ midTurn \in BOOLEAN
        /\ (\/ Fits(B, m, k, e)
            \/ Align(m.confirmed[k], m.pending[k], entries, midTurn).isNew)
    BY <1>1, <1>3
  <2>2. ArchOK(B, b, n)
    BY ONLY <2>1, TwiceKept, ZenonT(40) DEF b, a
  <2>3. Fits(B, b, k, e)
    BY ONLY <2>1, TwiceKept, ZenonT(40) DEF b, a
  <2>4. \E idle, how : Moves(m, b, k, idle, how)
    BY ONLY <2>1, TwiceKept DEF b, a
  <2>. QED BY <2>2, <2>3, <2>4
<1> HIDE DEF b
<1>5. ArchOK(B, Memory', n) /\ (Memory').sid = b.sid /\ (Memory').sessions = b.sessions
  <2> DEFINE z == Memory'
  <2>1. b \in MemoryType(n) /\ Len(b.order) <= Cap
    BY <1>4, ArchDef
  <2>2. /\ z.order = b.order /\ z.sid = b.sid /\ z.sessions = b.sessions
        /\ z.confirmed = b.confirmed /\ z.pending = b.pending
    BY <1>2
  <2>3. z \in MemoryType(n)
    BY <1>2, <2>1 DEF MemoryType
  <2> HIDE DEF z
  <2>4. \A j \in Keys : KeyOK(z, j)
    BY <1>4, <2>2, ArchParts DEF KeyOK
  <2>5. ArchOK(B, z, n)
    BY <1>4, <2>1, <2>2, <2>3, <2>4, ArchParts
  <2>. QED BY <2>2, <2>5 DEF z
<1>6. PICK idle, how : Moves(m, b, k, idle, how)
  BY <1>4
<1>7. Moves(m, Memory', k, idle, how)
  BY <1>5, <1>6, MovesSame
<1>. QED BY <1>4, <1>5, <1>7 DEF Fits, m

\* A pass of k does not put another conversation's session in doubt.
LEMMA OthersFit ==
    ASSUME NEW B, NEW n \in Nat, NEW a, ArchOK(B, a, n), NEW b, NEW k \in Keys, NEW idle, NEW how,
           Moves(a, b, k, idle, how), NEW j \in Keys, j # k, NEW e, Fits(B, a, j, e)
    PROVE  Fits(B, b, j, e)
<1>1. b.sid[j] = IF j \in idle THEN NoSession ELSE a.sid[j]
  BY DEF Moves
<1>2. CASE b.sid[j] = NoSession
  BY <1>2 DEF Fits
<1>3. CASE b.sid[j] # NoSession
  <2> DEFINE s == a.sid[j]
  <2>1. b.sid[j] = s /\ s # NoSession
    BY <1>1, <1>3
  <2>2. s \in 1 .. Len(a.sessions) /\ s # a.sid[k]
    BY <2>1 DEF ArchOK, KeyOK
  <2>3. b.sessions[s].rows = a.sessions[s].rows /\ b.sessions[s].key = a.sessions[s].key
    BY <2>2 DEF Moves
  <2> HIDE DEF s
  <2>4. OfEra(B, a.sessions[s], e)
    BY <2>1 DEF Fits, s
  <2>. QED BY <2>1, <2>3, <2>4 DEF Fits, OfEra
<1>. QED BY <1>2, <1>3

-----------------------------------------------------------------------------
(* Messages and windows.                                                   *)

LEMMA SeqGrow ==
    ASSUME NEW S, NEW T, S \subseteq T, NEW s \in Seq(S)
    PROVE  s \in Seq(T)
<1>1. Len(s) \in Nat /\ s \in [1 .. Len(s) -> S]
  OBVIOUS
<1>. QED BY <1>1

\* What was typed before a message came is typed after it.
LEMMA Grow ==
    ASSUME NEW n \in Nat, NEW n2 \in Nat, n <= n2
    PROVE  /\ Fp(n) \subseteq Fp(n2) /\ Item(n) \subseteq Item(n2)
           /\ \A e : Entries(n, e) \subseteq Entries(n2, e)
           /\ \A e : Messages(n, e) \subseteq Messages(n2, e)
<1>1. 1 .. n \subseteq 1 .. n2
  OBVIOUS
<1>2. Fp(n) \subseteq Fp(n2)
  BY <1>1 DEF Fp
<1>3. \A e : Messages(n, e) \subseteq Messages(n2, e)
  BY <1>1 DEF Messages
<1>. QED BY <1>2, <1>3 DEF Item, Entries

\* So is what the archiver holds, and the fewer messages can be told apart the less
\* is said of it.
LEMMA ArchGrow ==
    ASSUME NEW B, NEW B2, B \subseteq B2, NEW n \in Nat, NEW n2 \in Nat, n <= n2,
           NEW a, ArchOK(B, a, n)
    PROVE  ArchOK(B2, a, n2)
<1>1. /\ a \in MemoryType(n)
      /\ a.confirmed \in [Keys -> Seq(Fp(n))] /\ a.pending \in [Keys -> Seq(Item(n))]
  BY ArchDef
<1>2. \A s \in Seq(Fp(n)) : s \in Seq(Fp(n2))
  BY Grow, SeqGrow
<1>3. \A s \in Seq(Item(n)) : s \in Seq(Item(n2))
  BY Grow, SeqGrow
<1>4. a.confirmed \in [Keys -> Seq(Fp(n2))] /\ a.pending \in [Keys -> Seq(Item(n2))]
  BY <1>1, <1>2, <1>3
<1>5. a \in MemoryType(n2)
  BY <1>1, <1>4 DEF MemoryType
<1>6. \A s \in 1 .. Len(a.sessions) : \E e \in Nat : OfEra(B2, a.sessions[s], e)
  <2>1. ASSUME NEW s \in 1 .. Len(a.sessions) PROVE \E e \in Nat : OfEra(B2, a.sessions[s], e)
    <3>1. PICK e \in Nat : OfEra(B, a.sessions[s], e)
      BY <2>1, ZenonT(40) DEF ArchOK
    <3>. QED BY <3>1 DEF OfEra
  <2>. QED BY <2>1
<1>7. Len(a.order) <= Cap /\ \A j \in Keys : KeyOK(a, j)
  BY ZenonT(40) DEF ArchOK
<1>. QED BY <1>5, <1>6, <1>7, ArchParts

LEMMA FitsGrow ==
    ASSUME NEW B, NEW B2, B \subseteq B2, NEW a, NEW k, NEW e, Fits(B, a, k, e)
    PROVE  Fits(B2, a, k, e)
BY DEF Fits, OfEra

\* Of a conversation whose messages cannot be told apart nothing is said.
LEMMA BlurredFits ==
    ASSUME NEW B, NEW n \in Nat, NEW a, ArchOK(B, a, n), NEW k \in Keys, k \in B, NEW e
    PROVE  Fits(B, a, k, e)
<1>1. KeyOK(a, k)
  BY ArchParts
<1>. QED BY <1>1 DEF KeyOK, Fits, OfEra

\* A conversation's messages, those its turn appended, and its window.
Chat(n, e, h, a, w) ==
    /\ h \in Seq(Messages(n, e)) /\ a \in Seq(Messages(n, e)) /\ w \in Seq(Entries(n, e))
    /\ Len(a) <= Len(w)

LEMMA ChatGrow ==
    ASSUME NEW n \in Nat, NEW n2 \in Nat, n <= n2, NEW e, NEW h, NEW a, NEW w, Chat(n, e, h, a, w)
    PROVE  Chat(n2, e, h, a, w)
<1>1. \A s \in Seq(Messages(n, e)) : s \in Seq(Messages(n2, e))
  BY Grow, SeqGrow
<1>2. \A s \in Seq(Entries(n, e)) : s \in Seq(Entries(n2, e))
  BY Grow, SeqGrow
<1>. QED BY <1>1, <1>2 DEF Chat

\* The shapes a message is shown in.
LEMMA ShapesTyped ==
    ASSUME NEW n \in Nat, NEW e \in Nat, NEW m \in Messages(n, e)
    PROVE  /\ Replayed(m) \in Entries(n, e) /\ Raw(m) \in Entries(n, e)
           /\ m.role = "user" => Live(m) \in Entries(n, e)
           /\ m.role = "user" => \A h \in Messages(n, e) :
                h.role = "user" => MergedLive(h, m) \in Entries(n, e)
<1>1. /\ m.role \in Roles /\ m.body \in Bodies /\ m.id \in Nat /\ m.era = e
      /\ m.role = "user" => m.body \in 1 .. n
  BY DEF Messages
<1>2. {Ident(m)} \in SUBSET Idents(e)
  BY <1>1 DEF Ident, Idents
<1>3. ASSUME NEW form \in {"live", "raw", "replayed"}
      PROVE  <<m.role, form, {m.body}>> \in Fp(n)
  BY <1>1 DEF Fp
<1>4. Replayed(m) \in Entries(n, e)
  BY <1>1, <1>2, <1>3 DEF Replayed, Entry, Entries
<1>5. Raw(m) \in Entries(n, e)
  <2> DEFINE form == IF Changes(m) THEN "raw" ELSE "replayed"
  <2>1. form \in {"live", "raw", "replayed"}
    OBVIOUS
  <2>2. Raw(m) = Entry(m.role, <<m.role, form, {m.body}>>, {Ident(m)})
    BY DEF Raw
  <2> HIDE DEF form
  <2>. QED BY <1>1, <1>2, <1>3, <2>1, <2>2 DEF Entry, Entries
<1>6. ASSUME m.role = "user" PROVE Live(m) \in Entries(n, e)
  <2>1. <<"user", "live", {m.body}>> \in Fp(n)
    BY <1>3, <1>6
  <2>. QED BY <1>2, <2>1 DEF Live, Entry, Entries, Roles
<1>7. ASSUME m.role = "user", NEW h \in Messages(n, e), h.role = "user"
      PROVE  MergedLive(h, m) \in Entries(n, e)
  <2>1. h.body \in Bodies /\ h.body \in 1 .. n /\ Ident(h) \in Idents(e)
    BY <1>7 DEF Messages, Ident, Idents
  <2>2. <<"user", "live", {h.body, m.body}>> \in Fp(n)
    BY <1>1, <1>7, <2>1 DEF Fp, Roles
  <2>3. {Ident(h), Ident(m)} \in SUBSET Idents(e)
    BY <1>2, <2>1
  <2>. QED BY <2>2, <2>3 DEF MergedLive, Entry, Entries, Roles
<1>. QED BY <1>4, <1>5, <1>6, <1>7

LEMMA WindowTyped ==
    ASSUME NEW n \in Nat, NEW e \in Nat, NEW hist \in Seq(Messages(n, e)),
           NEW m \in Messages(n, e), m.role = "user"
    PROVE  /\ BuildWindow(hist, m) \in Seq(Entries(n, e)) /\ BuildWindow(hist, m) # <<>>
           /\ hist = <<>> => BuildWindow(hist, m) = <<Live(m)>>
<1> DEFINE past == [i \in DOMAIN hist |-> Replayed(hist[i])]
<1>1. /\ Len(hist) \in Nat /\ DOMAIN hist = 1 .. Len(hist)
      /\ \A i \in 1 .. Len(hist) : hist[i] \in Messages(n, e)
  OBVIOUS
<1>2. past \in Seq(Entries(n, e)) /\ Len(past) = Len(hist)
  <2>1. past = [i \in 1 .. Len(hist) |-> past[i]]
    BY <1>1
  <2>2. \A i \in 1 .. Len(hist) : past[i] \in Entries(n, e)
    BY <1>1, ShapesTyped
  <2> HIDE DEF past
  <2>. QED BY <1>1, <2>1, <2>2, FunIsSeq
<1>3. BuildWindow(hist, m) = IF hist # <<>> /\ Last(hist).role = "user"
                             THEN Append(Front(past), MergedLive(Last(hist), m))
                             ELSE Append(past, Live(m))
  BY DEF BuildWindow
<1>4. hist = <<>> => past = <<>>
  <2>1. hist = <<>> => Len(past) = 0
    BY <1>2
  <2> HIDE DEF past
  <2>. QED BY <1>2, <2>1
<1> HIDE DEF past
<1>5. CASE hist # <<>> /\ Last(hist).role = "user"
  <2>1. Last(hist) \in Messages(n, e)
    <3>1. Last(hist) = hist[Len(hist)] /\ Len(hist) \in 1 .. Len(hist)
      BY <1>1, <1>5 DEF Last
    <3>. QED BY <1>1, <3>1
  <2>2. MergedLive(Last(hist), m) \in Entries(n, e)
    BY <1>5, <2>1, ShapesTyped
  <2>3. Front(past) \in Seq(Entries(n, e))
    <3>1. Front(past) = SubSeq(past, 1, Len(past) - 1) /\ Len(past) > 0
      BY <1>1, <1>2, <1>5 DEF Front
    <3>2. \A i \in 1 .. Len(past) - 1 : past[i] \in Entries(n, e)
      BY <1>1, <1>2
    <3>. QED BY <1>1, <1>2, <3>1, <3>2, SubSeqProperties
  <2>4. /\ Append(Front(past), MergedLive(Last(hist), m)) \in Seq(Entries(n, e))
        /\ Len(Append(Front(past), MergedLive(Last(hist), m))) = Len(Front(past)) + 1
    BY <2>2, <2>3
  <2>5. Append(Front(past), MergedLive(Last(hist), m)) # <<>>
    BY <2>3, <2>4, LenOf
  <2>. QED BY <1>3, <1>5, <2>4, <2>5
<1>6. CASE ~(hist # <<>> /\ Last(hist).role = "user")
  <2>1. Live(m) \in Entries(n, e)
    BY ShapesTyped
  <2>2. Append(past, Live(m)) \in Seq(Entries(n, e)) /\ Len(Append(past, Live(m))) = Len(past) + 1
    BY <1>2, <2>1
  <2>3. Append(past, Live(m)) # <<>>
    BY <1>2, <2>2, LenOf
  <2>4. hist = <<>> => Append(past, Live(m)) = <<Live(m)>>
    BY <1>4
  <2>. QED BY <1>3, <1>6, <2>2, <2>3, <2>4
<1>. QED BY <1>5, <1>6

\* A key's replayed history is a tail of what was persisted.
LEMMA TailTyped ==
    ASSUME NEW n \in Nat, NEW e, NEW h \in Seq(Messages(n, e)), NEW hist \in LegalTails(h)
    PROVE  hist \in Seq(Messages(n, e)) /\ (h = <<>> => hist = <<>>)
<1>1. /\ Len(h) \in Nat /\ DOMAIN h = 1 .. Len(h)
      /\ \A i \in 1 .. Len(h) : h[i] \in Messages(n, e)
  OBVIOUS
<1>2. CASE hist = <<>>
  BY <1>2
<1>3. CASE hist # <<>>
  <2>1. PICK i \in 1 .. Len(h) : hist = SubSeq(h, i, Len(h))
    BY <1>1, <1>3 DEF LegalTails
  <2>2. \A j \in i .. Len(h) : h[j] \in Messages(n, e)
    BY <1>1
  <2>3. SubSeq(h, i, Len(h)) \in Seq(Messages(n, e))
    BY <1>1, <2>2, SubSeqProperties
  <2>4. h # <<>>
    BY <1>1, <2>1
  <2>. QED BY <2>1, <2>3, <2>4
<1>. QED BY <1>2, <1>3

-----------------------------------------------------------------------------
(* The inductive invariant.  A window in flight, or a history to replay,   *)
(* belongs to the era its session's rows are of: only /new starts another, *)
(* and it leaves a conversation with neither.                              *)

\* The conversations whose messages the archiver can tell apart no longer.
Blurred == {j \in Keys : blurred[j]}

Chats(j) == /\ Chat(made, incarnation[j], history[j], appended[j], window[j])
            /\ window[j] # <<>> \/ history[j] # <<>> => Fits(Blurred, Memory, j, incarnation[j])

Tables == /\ made \in Nat /\ incarnation \in [Keys -> Nat] /\ blurred \in [Keys -> BOOLEAN]
          /\ DOMAIN history = Keys /\ history = [j \in Keys |-> history[j]]
          /\ DOMAIN appended = Keys /\ appended = [j \in Keys |-> appended[j]]
          /\ DOMAIN window = Keys /\ window = [j \in Keys |-> window[j]]

Inv == Tables /\ ArchOK(Blurred, Memory, made) /\ \A j \in Keys : Chats(j)

\* A pass of k over what its window now shows.
LEMMA PassKeeps ==
    ASSUME Inv, NEW k \in Keys, made' \in Nat, made <= made',
           blurred' \in [Keys -> BOOLEAN], Blurred \subseteq Blurred',
           NEW h, NEW a, NEW w, Chat(made', incarnation[k], h, a, w), w # <<>>,
           history' = [history EXCEPT ![k] = h], appended' = [appended EXCEPT ![k] = a],
           window' = [window EXCEPT ![k] = w], incarnation' = incarnation,
           NEW midTurn \in BOOLEAN, NEW f, NEW g, HookCall(k, w, midTurn, f, g),
           \/ Fits(Blurred', Memory, k, incarnation[k])
           \/ Align(confirmed[k], pending[k], w, midTurn).isNew
    PROVE  Inv' /\ \E idle, how : Moves(Memory, Memory', k, idle, how)
<1> DEFINE e == incarnation[k]
           n == made'
           B == Blurred'
<1>1. Tables /\ made \in Nat /\ e \in Nat /\ n \in Nat /\ made <= n /\ Blurred \subseteq B
  BY DEF Inv, Tables
<1>0. Fits(B, Memory, k, e) \/ Align(confirmed[k], pending[k], w, midTurn).isNew
  OBVIOUS
<1> HIDE DEF B
<1>2. ArchOK(B, Memory, n)
  <2> HIDE DEF n
  <2>. QED BY <1>1, ArchGrow DEF Inv
<1>3. w \in Seq(Entries(n, e))
  BY DEF Chat
<1>4. /\ ArchOK(B, Memory', n) /\ Fits(B, Memory', k, e)
      /\ \E idle, how : Moves(Memory, Memory', k, idle, how)
  <2> HIDE DEF n, e
  <2>. QED BY <1>0, <1>1, <1>2, <1>3, HookKept
<1>5. PICK idle, how : Moves(Memory, Memory', k, idle, how)
  BY <1>4
<1>6. Tables'
  BY <1>1 DEF Tables
<1>7. ASSUME NEW j \in Keys PROVE Chats(j)'
  <2>1. CASE j = k
    <3>1. history'[j] = h /\ appended'[j] = a /\ window'[j] = w /\ incarnation'[j] = e
      BY <1>1, <2>1 DEF Tables
    <3>. QED BY <1>4, <2>1, <3>1 DEF Chats, B
  <2>2. CASE j # k
    <3>1. /\ history'[j] = history[j] /\ appended'[j] = appended[j] /\ window'[j] = window[j]
          /\ incarnation'[j] = incarnation[j]
      BY <1>1, <2>2 DEF Tables
    <3>2. Chat(n, incarnation[j], history[j], appended[j], window[j])
      <4>1. Chat(made, incarnation[j], history[j], appended[j], window[j])
        BY DEF Inv, Chats
      <4> HIDE DEF n
      <4>. QED BY <1>1, <4>1, ChatGrow
    <3>3. ASSUME window[j] # <<>> \/ history[j] # <<>> PROVE Fits(B, Memory', j, incarnation[j])
      <4>1. Fits(Blurred, Memory, j, incarnation[j])
        BY <3>3 DEF Inv, Chats
      <4>2. Fits(B, Memory, j, incarnation[j])
        BY <1>1, <4>1, FitsGrow
      <4>. QED BY <1>1, <1>2, <1>5, <2>2, <4>2, OthersFit
    <3>. QED BY <3>1, <3>2, <3>3 DEF Chats, B
  <2>. QED BY <2>1, <2>2
<1>. QED BY <1>4, <1>6, <1>7 DEF Inv, B

\* The texts a user may repeat are those of messages made.
LEMMA SaidTyped ==
    ASSUME Inv, NEW k \in Keys
    PROVE  Said(k) \subseteq 1 .. made
<1> DEFINE fps == ToSet(confirmed[k]) \cup ToSet(Fps(pending[k]))
           ms == ToSet(history[k] \o appended[k])
<1>1. confirmed[k] \in Seq(Fp(made)) /\ pending[k] \in Seq(Item(made))
  <2>1. Memory.confirmed = confirmed /\ Memory.pending = pending
    BY DEF Memory
  <2>2. ArchOK(Blurred, Memory, made) /\ made \in Nat
    BY DEF Inv, Tables
  <2>3. Memory.confirmed \in [Keys -> Seq(Fp(made))] /\ Memory.pending \in [Keys -> Seq(Item(made))]
    BY ONLY <2>2, ArchDef
  <2>. QED BY <2>1, <2>3
<1>2. fps \subseteq Fp(made)
  <2>1. ToSet(confirmed[k]) \subseteq Fp(made)
    BY <1>1 DEF ToSet
  <2>2. /\ DOMAIN Fps(pending[k]) = DOMAIN pending[k]
        /\ \A i \in DOMAIN pending[k] : Fps(pending[k])[i] = pending[k][i].fp
    BY DEF Fps
  <2>3. \A i \in DOMAIN pending[k] : pending[k][i].fp \in Fp(made)
    <3>1. \A i \in DOMAIN pending[k] : pending[k][i] \in Item(made)
      BY <1>1
    <3>. QED BY <3>1 DEF Item
  <2>4. ToSet(Fps(pending[k])) \subseteq Fp(made)
    BY <2>2, <2>3 DEF ToSet
  <2>. QED BY <2>1, <2>4
<1>3. ms \subseteq Messages(made, incarnation[k])
  <2> DEFINE s == history[k] \o appended[k]
  <2>1. s \in Seq(Messages(made, incarnation[k]))
    <3>1. /\ history[k] \in Seq(Messages(made, incarnation[k]))
          /\ appended[k] \in Seq(Messages(made, incarnation[k]))
      BY DEF Inv, Chats, Chat
    <3>. QED BY <3>1, ConcatProperties
  <2> HIDE DEF s
  <2>2. ToSet(s) \subseteq Messages(made, incarnation[k])
    BY <2>1 DEF ToSet
  <2>. QED BY <2>2 DEF s
<1> HIDE DEF fps, ms
<1>4. \A f \in fps : f[1] = "user" => f[3] \subseteq 1 .. made
  BY <1>2 DEF Fp
<1>5. \A m \in ms : m.role = "user" => m.body \in 1 .. made
  BY <1>3 DEF Messages
<1>6. Said(k) = (UNION {f[3] : f \in {g \in fps : g[1] = "user"}})
                  \cup {m.body : m \in {x \in ms : x.role = "user"}}
  BY DEF Said, fps, ms
<1> HIDE DEF fps, ms
<1>7. ASSUME NEW x \in Said(k) PROVE x \in 1 .. made
  <2> DEFINE P == UNION {f[3] : f \in {g \in fps : g[1] = "user"}}
             Q == {m.body : m \in {y \in ms : y.role = "user"}}
  <2>1. CASE x \in P
    BY <1>4, <2>1
  <2>2. CASE x \in Q
    BY <1>5, <2>2
  <2>3. x \in P \/ x \in Q
    BY <1>6, <1>7
  <2>. QED BY <2>1, <2>2, <2>3
<1>. QED BY <1>7

\* The window a turn starts with is typed, and what it shows of its first message.
LEMMA StartTyped ==
    ASSUME Inv, NEW k \in Keys, NEW hist \in LegalTails(history[k]), NEW body \in 1 .. made + 1
    PROVE  LET e == incarnation[k]
               u == User(k, body)
               w == BuildWindow(hist, u)
           IN  /\ u \in Messages(made + 1, e) /\ u.body = body
               /\ hist \in Seq(Messages(made + 1, e))
               /\ w \in Seq(Entries(made + 1, e)) /\ w # <<>>
               /\ history[k] = <<>> => w = <<Live(u)>>
<1> DEFINE e == incarnation[k]
           u == User(k, body)
           w == BuildWindow(hist, u)
<1>2. made \in Nat /\ made + 1 \in Nat /\ made <= made + 1 /\ e \in Nat
  BY DEF Inv, Tables
<1>3. u \in Messages(made + 1, e) /\ u.role = "user" /\ u.body = body
  BY <1>2 DEF User, Message, Messages, Roles, Bodies
<1>4. Chat(made, e, history[k], appended[k], window[k])
  BY DEF Inv, Chats
<1> HIDE DEF w, e, u
<1>5. Chat(made + 1, e, history[k], appended[k], window[k])
  BY <1>2, <1>4, ChatGrow
<1>6. hist \in Seq(Messages(made + 1, e)) /\ (history[k] = <<>> => hist = <<>>)
  <2>1. history[k] \in Seq(Messages(made + 1, e))
    BY <1>5 DEF Chat
  <2>. QED BY <1>2, <2>1, TailTyped
<1>7. /\ w \in Seq(Entries(made + 1, e)) /\ w # <<>>
      /\ hist = <<>> => w = <<Live(u)>>
  BY <1>2, <1>3, <1>6, WindowTyped DEF w
<1>. QED BY <1>3, <1>6, <1>7 DEF w, e, u

\* Where the user wrote what was not written before, the window goes to a session of its
\* era or to a new one.
LEMMA StartFits ==
    ASSUME Inv, NEW k \in Keys, NEW B, Blurred \subseteq B, NEW body, body = made + 1,
           NEW w, Len(w) \in Nat, history[k] = <<>> => w = <<Live(User(k, body))>>
    PROVE  Fits(B, Memory, k, incarnation[k]) \/ Align(confirmed[k], pending[k], w, FALSE).isNew
<1> DEFINE e == incarnation[k]
           u == User(k, body)
<1>2. made \in Nat /\ u.body = made + 1
  BY DEF Inv, Tables, User, Message
<1> HIDE DEF e, u
<1>3. Fits(Blurred, Memory, k, e) => Fits(B, Memory, k, e)
  BY FitsGrow
<1>4. CASE history[k] # <<>>
  BY <1>3, <1>4 DEF Inv, Chats, e
<1>5. CASE history[k] = <<>> /\ confirmed[k] = <<>> /\ pending[k] = <<>>
  <2>1. KeyOK(Memory, k)
    BY ArchParts DEF Inv
  <2>2. Memory.confirmed = confirmed /\ Memory.pending = pending
    BY DEF Memory
  <2>3. Memory.sid[k] # NoSession => Memory.sessions[Memory.sid[k]].rows = <<>>
    BY <1>5, <2>1, <2>2 DEF KeyOK
  <2>4. Memory.sid[k] # NoSession => OfEra(B, Memory.sessions[Memory.sid[k]], e)
    BY <2>3 DEF OfEra
  <2>. QED BY <2>4 DEF Fits, e
<1>6. CASE history[k] = <<>> /\ (confirmed[k] # <<>> \/ pending[k] # <<>>)
  <2>1. confirmed[k] \in Seq(Fp(made)) /\ pending[k] \in Seq(Item(made))
    <3>1. Memory.confirmed = confirmed /\ Memory.pending = pending
      BY DEF Memory
    <3>2. ArchOK(Blurred, Memory, made)
      BY DEF Inv
    <3>3. Memory.confirmed \in [Keys -> Seq(Fp(made))] /\ Memory.pending \in [Keys -> Seq(Item(made))]
      BY ONLY <1>2, <3>2, ArchDef
    <3>. QED BY <3>1, <3>3
  <2>2. Len(w) = 1 /\ DOMAIN w = {1} /\ w[1] = Live(u)
    BY <1>6 DEF u
  <2>3. w[1].fp = <<"user", "live", {made + 1}>>
    BY <1>2, <2>2 DEF Live, Entry
  <2>4. w[1].fp \notin Fp(made)
    <3>1. made + 1 \notin 1 .. made
      BY <1>2
    <3>2. ~({made + 1} \subseteq 1 .. made)
      BY <3>1
    <3>3. <<"user", "live", {made + 1}>> \notin Fp(made)
      BY <3>2 DEF Fp
    <3>. QED BY <2>3, <3>3
  <2>. QED BY <1>2, <1>6, <2>1, <2>2, <2>4, UnseenIsNew
<1>. QED BY <1>4, <1>5, <1>6

\* Marking a conversation blurred, if it is, forgets none that was.
LEMMA Blurs ==
    ASSUME Inv, NEW k \in Keys, NEW p \in BOOLEAN,
           blurred' = [blurred EXCEPT ![k] = blurred[k] \/ p]
    PROVE  /\ blurred' \in [Keys -> BOOLEAN] /\ Blurred \subseteq Blurred'
           /\ p => k \in Blurred'
<1>1. blurred \in [Keys -> BOOLEAN]
  BY DEF Inv, Tables
<1>. QED BY <1>1, ZenonT(60) DEF Blurred

LEMMA StartTurnKeeps ==
    ASSUME Inv, NEW k \in Keys, StartTurn(k)
    PROVE  Inv' /\ \E idle, how : Moves(Memory, Memory', k, idle, how)
<1> DEFINE e == incarnation[k]
<1>1. PICK hist \in LegalTails(history[k]), body \in Said(k) \cup {made + 1}, f \in Faults, g \in Faults :
          /\ blurred' = [blurred EXCEPT ![k] = blurred[k] \/ body # made + 1]
          /\ window' = [window EXCEPT ![k] = BuildWindow(hist, User(k, body))]
          /\ history' = [history EXCEPT ![k] = Append(hist, User(k, body))]
          /\ HookCall(k, window'[k], FALSE, f, g)
  BY ZenonT(60) DEF StartTurn, Writes
<1> DEFINE u == User(k, body)
           w == BuildWindow(hist, u)
<1>2. /\ made \in Nat /\ e \in Nat /\ made' = made + 1 /\ appended' = appended
      /\ incarnation' = incarnation /\ window[k] = <<>>
      /\ appended' = [appended EXCEPT ![k] = appended[k]] /\ window'[k] = w
      /\ made' \in Nat /\ made <= made'
  BY <1>1 DEF StartTurn, Inv, Tables
<1>0. body \in 1 .. made + 1
  BY <1>2, SaidTyped
<1>3. /\ u \in Messages(made + 1, e) /\ hist \in Seq(Messages(made + 1, e))
      /\ w \in Seq(Entries(made + 1, e)) /\ w # <<>> /\ (history[k] = <<>> => w = <<Live(u)>>)
  BY <1>0, StartTyped
<1>4. Chat(made, e, history[k], appended[k], window[k])
  BY DEF Inv, Chats
<1> DEFINE B == Blurred'
<1>6. blurred' \in [Keys -> BOOLEAN] /\ Blurred \subseteq B /\ (body # made + 1 => k \in B)
  <2> DEFINE p == body # made + 1
  <2>1. p \in BOOLEAN /\ blurred' = [blurred EXCEPT ![k] = blurred[k] \/ p]
    BY <1>1
  <2> HIDE DEF p
  <2>2. blurred' \in [Keys -> BOOLEAN] /\ Blurred \subseteq B /\ (p => k \in B)
    BY <2>1, Blurs
  <2>. QED BY <2>2 DEF p
<1> HIDE DEF B
<1>7. Fits(B, Memory, k, e) \/ Align(confirmed[k], pending[k], w, FALSE).isNew
  <2>1. CASE body = made + 1
    <3>1. Len(w) \in Nat /\ (history[k] = <<>> => w = <<Live(User(k, body))>>)
      BY <1>3
    <3> HIDE DEF w
    <3>. QED BY <1>6, <2>1, <3>1, StartFits
  <2>2. CASE body # made + 1
    <3>1. ArchOK(B, Memory, made)
      BY <1>2, <1>6, ArchGrow DEF Inv
    <3>. QED BY <1>2, <1>6, <2>2, <3>1, BlurredFits
  <2>. QED BY <2>1, <2>2
<1> HIDE DEF w, e, u
<1>5. Chat(made + 1, e, history[k], appended[k], window[k])
  <2>1. made + 1 \in Nat /\ made <= made + 1
    BY <1>2
  <2>. QED BY <1>2, <1>4, <2>1, ChatGrow
<1>8. Chat(made', e, Append(hist, u), appended[k], w)
  <2>1. Append(hist, u) \in Seq(Messages(made + 1, e))
    BY <1>3
  <2>2. Len(appended[k]) \in Nat /\ Len(appended[k]) <= 0 /\ Len(w) \in Nat
    BY <1>2, <1>5, <1>3, LenOf DEF Chat
  <2>. QED BY <1>2, <1>3, <1>5, <2>1, <2>2 DEF Chat
<1>9. HookCall(k, w, FALSE, f, g)
  BY <1>1, <1>2
<1>11. /\ window' = [window EXCEPT ![k] = w] /\ history' = [history EXCEPT ![k] = Append(hist, u)]
  BY <1>1 DEF w, u
<1>. QED BY <1>2, <1>3, <1>6, <1>7, <1>8, <1>9, <1>11, PassKeeps DEF e, B

LEMMA StartTurnFollowedKeeps ==
    ASSUME Inv, NEW k \in Keys, StartTurnFollowed(k)
    PROVE  Inv' /\ \E idle, how : Moves(Memory, Memory', k, idle, how)
<1> DEFINE e == incarnation[k]
           n == made + 2
           u == User(k, made + 1)
           x == [FollowUp(k, made + 2) EXCEPT !.id = made + 2]
<1>1. PICK hist \in LegalTails(history[k]), f \in Faults, g \in Faults :
          /\ window' = [window EXCEPT ![k] = Append(BuildWindow(hist, u), Raw(x))]
          /\ history' = [history EXCEPT ![k] = Append(hist, u)]
          /\ appended' = [appended EXCEPT ![k] = <<x>>]
          /\ HookCall(k, window'[k], FALSE, f, g)
  BY DEF StartTurnFollowed
<1> DEFINE v == BuildWindow(hist, u)
           w == Append(v, Raw(x))
<1>2. /\ made \in Nat /\ e \in Nat /\ made' = n /\ incarnation' = incarnation /\ window'[k] = w
      /\ n \in Nat /\ made + 1 \in Nat /\ made <= n /\ made + 1 <= n
  <2>1. made \in Nat /\ incarnation \in [Keys -> Nat] /\ DOMAIN window = Keys
    BY DEF Inv, Tables
  <2>2. made' = made + 2 /\ incarnation' = incarnation
    BY DEF StartTurnFollowed
  <2>3. window'[k] = w
    <3> HIDE DEF w
    <3>1. window' = [window EXCEPT ![k] = w]
      BY <1>1 DEF w
    <3>. QED BY <2>1, <3>1
  <2> HIDE DEF w
  <2>. QED BY <2>1, <2>2, <2>3
<1>3. /\ u \in Messages(made + 1, e) /\ hist \in Seq(Messages(made + 1, e))
      /\ v \in Seq(Entries(made + 1, e))
  <2>1. made + 1 \in 1 .. made + 1
    BY <1>2
  <2>. QED BY <2>1, StartTyped
<1>4. x \in Messages(n, e)
  <2>1. x = [id |-> made + 2, era |-> e, role |-> "user", body |-> made + 2, opens |-> FALSE]
    <3> DEFINE y == FollowUp(k, made + 2)
    <3>1. y = [id |-> made + 1, era |-> e, role |-> "user", body |-> made + 2, opens |-> FALSE]
      BY DEF FollowUp, Message
    <3>2. x = [y EXCEPT !.id = made + 2]
      BY DEF x
    <3> HIDE DEF y, x, e
    <3>. QED BY ONLY <3>1, <3>2
  <2> HIDE DEF x, e
  <2>2. made + 2 \in Nat /\ made + 2 \in 1 .. n
    BY <1>2 DEF n
  <2>. QED BY <1>2, <2>1, <2>2 DEF Messages, Roles, Bodies
<1> HIDE DEF u, x, v, n
<1>5. Raw(x) \in Entries(n, e)
  BY <1>2, <1>4, ShapesTyped
<1>6. u \in Messages(n, e) /\ hist \in Seq(Messages(n, e)) /\ v \in Seq(Entries(n, e))
  <2>1. Messages(made + 1, e) \subseteq Messages(n, e) /\ Entries(made + 1, e) \subseteq Entries(n, e)
    BY <1>2, Grow
  <2>. QED BY <1>3, <2>1, SeqGrow
<1> DEFINE raw == Raw(x)
<1> HIDE DEF raw
<1>7. w \in Seq(Entries(n, e)) /\ Len(w) = Len(v) + 1 /\ Len(v) \in Nat
  BY <1>5, <1>6 DEF raw
<1>8. w # <<>> /\ Len(<<x>>) <= Len(w)
  BY <1>7, LenOf
<1>9. Append(hist, u) \in Seq(Messages(n, e)) /\ <<x>> \in Seq(Messages(n, e))
  BY <1>4, <1>6
<1> DEFINE B == Blurred'
<1>10. blurred' \in [Keys -> BOOLEAN] /\ Blurred \subseteq B /\ k \in B
  <2>1. blurred \in [Keys -> BOOLEAN] /\ blurred' = [blurred EXCEPT ![k] = TRUE]
    BY DEF Inv, Tables, StartTurnFollowed
  <2>2. blurred' \in [Keys -> BOOLEAN]
    BY ONLY <2>1, k \in Keys
  <2>3. \A j \in Keys : blurred[j] => blurred'[j]
    BY ONLY <2>1, k \in Keys
  <2>4. blurred'[k]
    BY ONLY <2>1, k \in Keys
  <2>. QED BY ONLY <2>2, <2>3, <2>4, k \in Keys DEF B, Blurred
<1> HIDE DEF B
<1>11. Fits(B, Memory, k, e)
  <2>1. ArchOK(B, Memory, n)
    BY <1>2, <1>10, ArchGrow DEF Inv
  <2>. QED BY <1>2, <1>10, <2>1, BlurredFits
<1> DEFINE app == <<x>>
           h == Append(hist, u)
<1>12. Chat(made', e, h, app, w)
  BY <1>2, <1>7, <1>8, <1>9 DEF Chat
<1>13. HookCall(k, w, FALSE, f, g)
  BY <1>1, <1>2 DEF v
<1>14. /\ window' = [window EXCEPT ![k] = w] /\ history' = [history EXCEPT ![k] = h]
       /\ appended' = [appended EXCEPT ![k] = app] /\ made' \in Nat /\ made <= made'
  BY <1>1, <1>2 DEF v
<1> HIDE DEF w, h, app, e
<1>. QED BY <1>2, <1>8, <1>10, <1>11, <1>12, <1>13, <1>14, PassKeeps DEF e, B

\* What the runner appends within a turn goes to the turn's session.
LEMMA AppendsKeeps ==
    ASSUME Inv, NEW k \in Keys, NEW m \in Messages(made + 1, incarnation[k]), Appends(k, m),
           window[k] # <<>>, blurred' \in [Keys -> BOOLEAN], Blurred \subseteq Blurred'
    PROVE  Inv' /\ \E idle, how : Moves(Memory, Memory', k, idle, how)
<1> DEFINE e == incarnation[k]
           w == Append(window[k], Raw(m))
<1>1. PICK f \in Faults, g \in Faults : HookCall(k, window'[k], TRUE, f, g)
  BY DEF Appends
<1>2. /\ made \in Nat /\ e \in Nat /\ made' = made + 1 /\ history' = history
      /\ incarnation' = incarnation
      /\ window' = [window EXCEPT ![k] = w]
      /\ appended' = [appended EXCEPT ![k] = Append(appended[k], m)]
      /\ history' = [history EXCEPT ![k] = history[k]] /\ window'[k] = w
      /\ made' \in Nat /\ made <= made' /\ made + 1 \in Nat
  <2>1. /\ made \in Nat /\ incarnation \in [Keys -> Nat] /\ DOMAIN window = Keys
        /\ DOMAIN history = Keys /\ history = [j \in Keys |-> history[j]]
    BY DEF Inv, Tables
  <2>2. /\ made' = made + 1 /\ history' = history /\ incarnation' = incarnation
        /\ window' = [window EXCEPT ![k] = w]
        /\ appended' = [appended EXCEPT ![k] = Append(appended[k], m)]
    BY DEF Appends
  <2> HIDE DEF w
  <2>. QED BY <2>1, <2>2
<1>4. Chat(made + 1, e, history[k], appended[k], window[k])
  <2>1. Chat(made, e, history[k], appended[k], window[k]) /\ made <= made + 1
    BY <1>2 DEF Inv, Chats
  <2> HIDE DEF e
  <2>. QED BY <1>2, <2>1, ChatGrow
<1>5. Raw(m) \in Entries(made + 1, e)
  <2> HIDE DEF e
  <2>1. m \in Messages(made + 1, e)
    BY DEF e
  <2>. QED BY <1>2, <2>1, ShapesTyped
<1> DEFINE x == Raw(m)
<1> HIDE DEF e, x
<1>6. /\ w \in Seq(Entries(made + 1, e)) /\ Len(w) = Len(window[k]) + 1
      /\ Append(appended[k], m) \in Seq(Messages(made + 1, e))
      /\ Len(Append(appended[k], m)) = Len(appended[k]) + 1
      /\ Len(window[k]) \in Nat /\ Len(appended[k]) \in Nat
  BY <1>4, <1>5 DEF Chat, x, e
<1>7. w # <<>>
  BY <1>6, LenOf
<1> HIDE DEF w
<1>8. Chat(made', e, history[k], Append(appended[k], m), w)
  BY <1>2, <1>4, <1>6 DEF Chat
<1>9. HookCall(k, w, TRUE, f, g)
  BY <1>1, <1>2
<1>10. Fits(Blurred', Memory, k, e)
  <2>1. Fits(Blurred, Memory, k, e)
    BY DEF Inv, Chats, e
  <2>. QED BY <2>1, FitsGrow
<1>. QED BY <1>2, <1>7, <1>8, <1>9, <1>10, PassKeeps DEF e

LEMMA AppendReplyKeeps ==
    ASSUME Inv, NEW k \in Keys, AppendReply(k)
    PROVE  Inv' /\ \E idle, how : Moves(Memory, Memory', k, idle, how)
<1>1. PICK r \in Replies : Appends(k, Reply(k, r))
  BY DEF AppendReply
<1>2. made \in Nat /\ incarnation[k] \in Nat /\ blurred' = blurred /\ blurred \in [Keys -> BOOLEAN]
  BY DEF Inv, Tables, AppendReply
<1>3. Reply(k, r) \in Messages(made + 1, incarnation[k])
  <2>1. r.role \in Roles /\ r.role # "user" /\ r.body \in Bodies
    BY RepliesAssumption DEF Roles, Bodies
  <2>. QED BY <1>2, <2>1 DEF Reply, Message, Messages
<1>4. Blurred' = Blurred /\ window[k] # <<>>
  BY <1>2 DEF Blurred, AppendReply
<1>. QED BY <1>1, <1>2, <1>3, <1>4, AppendsKeeps

LEMMA AppendFollowUpKeeps ==
    ASSUME Inv, NEW k \in Keys, AppendFollowUp(k)
    PROVE  Inv' /\ \E idle, how : Moves(Memory, Memory', k, idle, how)
<1>1. PICK body \in Said(k) \cup {made + 1} :
          /\ blurred' = [blurred EXCEPT ![k] = blurred[k] \/ body # made + 1]
          /\ Appends(k, FollowUp(k, body))
  BY DEF AppendFollowUp, Writes
<1>2. made \in Nat /\ incarnation[k] \in Nat /\ window[k] # <<>>
  BY DEF Inv, Tables, AppendFollowUp
<1>3. FollowUp(k, body) \in Messages(made + 1, incarnation[k])
  <2>1. body \in 1 .. made + 1
    BY <1>2, SaidTyped
  <2>. QED BY <1>2, <2>1 DEF FollowUp, Message, Messages, Roles, Bodies
<1>4. blurred' \in [Keys -> BOOLEAN] /\ Blurred \subseteq Blurred'
  <2> DEFINE p == body # made + 1
  <2>1. p \in BOOLEAN /\ blurred' = [blurred EXCEPT ![k] = blurred[k] \/ p]
    BY <1>1
  <2> HIDE DEF p
  <2>. QED BY <2>1, Blurs
<1>. QED BY <1>1, <1>2, <1>3, <1>4, AppendsKeeps

LEMMA PassAgainKeeps ==
    ASSUME Inv, NEW k \in Keys, PassAgain(k)
    PROVE  Inv' /\ \E idle, how : Moves(Memory, Memory', k, idle, how)
<1>1. PICK f \in Faults, g \in Faults : HookCall(k, window[k], TRUE, f, g)
  BY DEF PassAgain
<1>2. /\ made' = made /\ incarnation' = incarnation /\ window[k] # <<>>
      /\ history' = [history EXCEPT ![k] = history[k]]
      /\ appended' = [appended EXCEPT ![k] = appended[k]]
      /\ window' = [window EXCEPT ![k] = window[k]]
  BY DEF PassAgain, Inv, Tables
<1>4. /\ Blurred' = Blurred /\ blurred' \in [Keys -> BOOLEAN]
      /\ made' \in Nat /\ made <= made'
  BY <1>2 DEF PassAgain, Inv, Tables, Blurred
<1>3. /\ Chat(made', incarnation[k], history[k], appended[k], window[k])
      /\ Fits(Blurred', Memory, k, incarnation[k])
  BY <1>2, <1>4 DEF Inv, Chats
<1>. QED BY <1>1, <1>2, <1>3, <1>4, PassKeeps

\* A step that archives nothing and touches one conversation.
LEMMA QuietKeeps ==
    ASSUME Inv, NEW k \in Keys, UNCHANGED <<order, confirmed, pending, sid, sessions>>,
           lastPass' = lastPass \/ lastPass' = <<>>, made' \in Nat, made <= made',
           blurred' = blurred, NEW e \in Nat, NEW h, NEW a, NEW w, Chat(made', e, h, a, w),
           history' = [history EXCEPT ![k] = h], appended' = [appended EXCEPT ![k] = a],
           window' = [window EXCEPT ![k] = w], incarnation' = [incarnation EXCEPT ![k] = e],
           w # <<>> \/ h # <<>> => Fits(Blurred, Memory, k, e)
    PROVE  Inv'
<1>1. Tables /\ made \in Nat /\ made' \in Nat /\ made <= made' /\ Blurred' = Blurred
  BY DEF Inv, Tables, Blurred
<1> DEFINE B == Blurred
<1> HIDE DEF B
<1>2. ArchOK(B, Memory, made')
  BY <1>1, ArchGrow DEF Inv, B
<1> DEFINE m == Memory'
<1>3. /\ m.order = Memory.order /\ m.confirmed = Memory.confirmed /\ m.pending = Memory.pending
      /\ m.sid = Memory.sid /\ m.sessions = Memory.sessions
      /\ m.lastPass = lastPass' /\ m.ok = TRUE
      /\ m = [order |-> m.order, confirmed |-> m.confirmed, pending |-> m.pending, sid |-> m.sid,
              lastPass |-> m.lastPass, sessions |-> m.sessions, ok |-> m.ok]
  BY DEF Memory
<1> HIDE DEF m
<1>4. lastPass' \in {<<>>} \cup (Keys \X Nat)
  <2>1. Memory.lastPass = lastPass
    BY DEF Memory
  <2>2. Memory \in MemoryType(made')
    BY <1>1, <1>2, ArchDef
  <2>3. lastPass \in {<<>>} \cup (Keys \X Nat)
    BY <2>1, <2>2 DEF MemoryType
  <2>. QED BY <2>3
<1>5. ArchOK(B, m, made')
  <2>1. Memory \in MemoryType(made') /\ Len(m.order) <= Cap
    BY <1>1, <1>2, <1>3, ArchDef
  <2>2. m \in MemoryType(made')
    BY <1>3, <1>4, <2>1 DEF MemoryType
  <2>3. \A j \in Keys : KeyOK(m, j)
    BY <1>2, <1>3, ArchParts DEF KeyOK
  <2>. QED BY <1>2, <1>3, <2>1, <2>2, <2>3, ArchParts
<1>6. (Memory').sid = Memory.sid /\ (Memory').sessions = Memory.sessions
  BY <1>3 DEF m
<1>7. Tables'
  BY <1>1 DEF Tables
<1>8. ASSUME NEW j \in Keys PROVE Chats(j)'
  <2>1. CASE j = k
    <3>1. history'[j] = h /\ appended'[j] = a /\ window'[j] = w /\ incarnation'[j] = e
      BY <1>1, <2>1 DEF Tables
    <3>. QED BY <1>1, <1>6, <2>1, <3>1 DEF Chats, Fits
  <2>2. CASE j # k
    <3>1. /\ history'[j] = history[j] /\ appended'[j] = appended[j] /\ window'[j] = window[j]
          /\ incarnation'[j] = incarnation[j]
      BY <1>1, <2>2 DEF Tables
    <3>2. Chat(made', incarnation[j], history[j], appended[j], window[j])
      BY <1>1, ChatGrow DEF Inv, Chats
    <3>3. window[j] # <<>> \/ history[j] # <<>> => Fits(Blurred, Memory, j, incarnation[j])
      BY DEF Inv, Chats
    <3>. QED BY <1>1, <1>6, <3>1, <3>2, <3>3 DEF Chats, Fits
  <2>. QED BY <2>1, <2>2
<1>. QED BY <1>1, <1>5, <1>7, <1>8 DEF Inv, m, B

\* The turn is over: of its messages those in h are persisted.
LEMMA TurnOverKeeps ==
    ASSUME Inv, NEW k \in Keys, window[k] # <<>>, ReleaseWindow(k),
           UNCHANGED <<order, confirmed, pending, sid, sessions, incarnation, blurred, made>>,
           NEW h, history' = [history EXCEPT ![k] = h],
           h \in Seq(Messages(made, incarnation[k])),
           window' = [window EXCEPT ![k] = <<>>], appended' = [appended EXCEPT ![k] = <<>>]
    PROVE  Inv'
<1>1. /\ incarnation[k] \in Nat /\ incarnation' = [incarnation EXCEPT ![k] = incarnation[k]]
      /\ Fits(Blurred, Memory, k, incarnation[k]) /\ made' \in Nat /\ made <= made'
  BY DEF Inv, Tables, Chats
<1>2. Chat(made', incarnation[k], h, <<>>, <<>>)
  BY DEF Chat
<1>3. lastPass' = lastPass \/ lastPass' = <<>>
  BY DEF ReleaseWindow
<1>. QED BY <1>1, <1>2, <1>3, QuietKeeps

LEMMA DroppedTyped ==
    ASSUME NEW T, NEW s \in Seq(T), NEW i \in DOMAIN s
    PROVE  RemoveAt(s, i) \in Seq(T)
<1>1. RemoveAt(s, i) = SubSeq(s, 1, i - 1) \o SubSeq(s, i + 1, Len(s))
  BY DEF RemoveAt
<1>. QED BY <1>1, CutOut

LEMMA EndTurnKeeps ==
    ASSUME Inv, NEW k \in Keys, EndTurn(k) \/ InterruptTurn(k) \/ EndTurnDropping(k)
    PROVE  Inv' /\ UNCHANGED <<sid, sessions>>
<1>1. /\ history = [history EXCEPT ![k] = history[k]]
      /\ history[k] \in Seq(Messages(made, incarnation[k]))
      /\ appended[k] \in Seq(Messages(made, incarnation[k]))
  BY DEF Inv, Tables, Chats, Chat
<1>2. CASE EndTurn(k)
  <2>1. history[k] \o appended[k] \in Seq(Messages(made, incarnation[k]))
    BY <1>1, ConcatProperties
  <2>2. /\ window[k] # <<>> /\ ReleaseWindow(k)
        /\ UNCHANGED <<order, confirmed, pending, sid, sessions, incarnation, blurred, made>>
        /\ history' = [history EXCEPT ![k] = history[k] \o appended[k]]
        /\ window' = [window EXCEPT ![k] = <<>>] /\ appended' = [appended EXCEPT ![k] = <<>>]
    BY <1>2 DEF EndTurn
  <2>. QED BY <2>1, <2>2, TurnOverKeeps
<1>3. CASE InterruptTurn(k)
  <2>1. /\ window[k] # <<>> /\ ReleaseWindow(k)
        /\ UNCHANGED <<order, confirmed, pending, sid, sessions, incarnation, blurred, made>>
        /\ history' = [history EXCEPT ![k] = history[k]]
        /\ window' = [window EXCEPT ![k] = <<>>] /\ appended' = [appended EXCEPT ![k] = <<>>]
    BY <1>1, <1>3 DEF InterruptTurn
  <2>. QED BY <1>1, <2>1, TurnOverKeeps
<1>4. CASE EndTurnDropping(k)
  <2>1. PICK i \in DOMAIN appended[k] :
            history' = [history EXCEPT ![k] = history[k] \o RemoveAt(appended[k], i)]
    BY <1>4 DEF EndTurnDropping
  <2>2. RemoveAt(appended[k], i) \in Seq(Messages(made, incarnation[k]))
    BY <1>1, DroppedTyped
  <2>3. history[k] \o RemoveAt(appended[k], i) \in Seq(Messages(made, incarnation[k]))
    BY <1>1, <2>2, ConcatProperties
  <2>4. /\ window[k] # <<>> /\ ReleaseWindow(k)
        /\ UNCHANGED <<order, confirmed, pending, sid, sessions, incarnation, blurred, made>>
        /\ window' = [window EXCEPT ![k] = <<>>] /\ appended' = [appended EXCEPT ![k] = <<>>]
    BY <1>4 DEF EndTurnDropping
  <2>. QED BY <2>1, <2>3, <2>4, TurnOverKeeps
<1>. QED BY <1>2, <1>3, <1>4

LEMMA UpheavalKeeps ==
    ASSUME Inv, NEW k \in Keys, NewCommand(k) \/ Compact(k)
    PROVE  Inv' /\ UNCHANGED <<sid, sessions>>
<1>1. /\ made \in Nat /\ incarnation[k] \in Nat
      /\ appended = [appended EXCEPT ![k] = appended[k]]
      /\ window = [window EXCEPT ![k] = window[k]]
      /\ incarnation = [incarnation EXCEPT ![k] = incarnation[k]]
      /\ Chat(made, incarnation[k], history[k], appended[k], window[k])
  BY DEF Inv, Tables, Chats
<1>2. window[k] = <<>> /\ history[k] # <<>>
  BY DEF NewCommand, Compact
<1>3. Len(appended[k]) \in Nat /\ Len(appended[k]) <= 0 /\ appended[k] = <<>>
  BY <1>1, <1>2, LenOf DEF Chat
<1>4. CASE NewCommand(k)
  <2>1. /\ UNCHANGED <<order, confirmed, pending, sid, sessions, lastPass, blurred, made>>
        /\ made' \in Nat /\ made <= made'
        /\ history' = [history EXCEPT ![k] = <<>>] /\ appended' = [appended EXCEPT ![k] = <<>>]
        /\ window' = [window EXCEPT ![k] = <<>>]
        /\ incarnation' = [incarnation EXCEPT ![k] = incarnation[k] + 1]
    BY <1>1, <1>2, <1>3, <1>4 DEF NewCommand, archiver
  <2>2. Chat(made', incarnation[k] + 1, <<>>, <<>>, <<>>) /\ incarnation[k] + 1 \in Nat
    BY <1>1 DEF Chat
  <2>3. Inv'
    BY <2>1, <2>2, QuietKeeps
  <2>. QED BY <2>1, <2>3
<1>5. CASE Compact(k)
  <2>1. /\ UNCHANGED <<order, confirmed, pending, sid, sessions, lastPass, blurred>>
        /\ made' = made + 1 /\ made' \in Nat /\ made <= made'
        /\ history' = [history EXCEPT ![k] = <<User(k, made + 1)>>]
        /\ appended' = [appended EXCEPT ![k] = <<>>] /\ window' = [window EXCEPT ![k] = <<>>]
        /\ incarnation' = [incarnation EXCEPT ![k] = incarnation[k]]
    BY <1>1, <1>2, <1>3, <1>5 DEF Compact, archiver
  <2>2. User(k, made + 1) \in Messages(made + 1, incarnation[k])
    BY <1>1 DEF User, Message, Messages, Roles, Bodies
  <2>3. Chat(made', incarnation[k], <<User(k, made + 1)>>, <<>>, <<>>)
    BY <2>1, <2>2 DEF Chat
  <2>4. Fits(Blurred, Memory, k, incarnation[k])
    BY <1>2 DEF Inv, Chats
  <2>5. Inv'
    BY <1>1, <2>1, <2>3, <2>4, QuietKeeps
  <2>. QED BY <2>1, <2>5
<1>. QED BY <1>4, <1>5

LEMMA RestartKeeps ==
    ASSUME Inv, Restart
    PROVE  Inv' /\ sessions' = sessions /\ sid' = [k \in Keys |-> NoSession]
<1> DEFINE m == Memory'
<1>1. /\ made' = made /\ made \in Nat /\ incarnation' = incarnation /\ history' = history
      /\ sessions' = sessions /\ sid' = [k \in Keys |-> NoSession]
      /\ window' = [k \in Keys |-> <<>>] /\ appended' = [k \in Keys |-> <<>>]
      /\ blurred' = blurred /\ Blurred' = Blurred
  BY DEF Restart, Inv, Tables, Blurred
<1>2. /\ m.order = <<>> /\ m.confirmed = [k \in Keys |-> <<>>] /\ m.pending = [k \in Keys |-> <<>>]
      /\ m.sid = [k \in Keys |-> NoSession] /\ m.lastPass = <<>>
      /\ m.sessions = Memory.sessions /\ m.ok = TRUE
      /\ m = [order |-> m.order, confirmed |-> m.confirmed, pending |-> m.pending, sid |-> m.sid,
              lastPass |-> m.lastPass, sessions |-> m.sessions, ok |-> m.ok]
  BY DEF Restart, Memory
<1> HIDE DEF m
<1>3. m \in MemoryType(made) /\ Len(m.order) <= Cap
  <2>1. /\ <<>> \in Seq(Fp(made)) /\ <<>> \in Seq(Item(made)) /\ NoSession \in Nat
        /\ <<>> \in Recency(Keys) /\ Len(<<>>) = 0
    BY DEF NoSession, Recency
  <2>2. Memory.sessions \in Seq(Session)
    BY <1>1, ArchDef DEF Inv
  <2>3. m.order \in Recency(Keys) /\ Len(m.order) <= Cap
    BY <1>2, <2>1, CapAssumption
  <2>4. /\ m.confirmed \in [Keys -> Seq(Fp(made))] /\ m.pending \in [Keys -> Seq(Item(made))]
        /\ m.sid \in [Keys -> Nat]
    BY <1>2, <2>1
  <2>. QED BY <1>2, <2>2, <2>3, <2>4 DEF MemoryType
<1>4. \A j \in Keys : KeyOK(m, j)
  BY <1>2 DEF KeyOK
<1>5. ArchOK(Blurred, m, made)
  BY <1>2, <1>3, <1>4, ArchParts DEF Inv
<1>6. Tables'
  BY <1>1 DEF Inv, Tables
<1>7. ASSUME NEW j \in Keys PROVE Chats(j)'
  <2>1. Chat(made', incarnation'[j], history'[j], appended'[j], window'[j])
    BY <1>1 DEF Inv, Chats, Chat
  <2>2. Fits(Blurred', m, j, incarnation'[j])
    BY <1>2 DEF Fits
  <2>. QED BY <2>1, <2>2 DEF Chats, m
<1>. QED BY <1>1, <1>5, <1>6, <1>7 DEF Inv, m

LEMMA InitInv == Init => Inv
<1> SUFFICES ASSUME Init PROVE Inv
  OBVIOUS
<1> DEFINE m == Memory
<1>1. /\ m.order = <<>> /\ m.confirmed = [k \in Keys |-> <<>>] /\ m.pending = [k \in Keys |-> <<>>]
      /\ m.sid = [k \in Keys |-> NoSession] /\ m.lastPass = <<>> /\ m.sessions = <<>> /\ m.ok = TRUE
      /\ m = [order |-> m.order, confirmed |-> m.confirmed, pending |-> m.pending, sid |-> m.sid,
              lastPass |-> m.lastPass, sessions |-> m.sessions, ok |-> m.ok]
  BY DEF Init, Memory
<1>2. /\ made = 0 /\ incarnation = [k \in Keys |-> 0] /\ history = [k \in Keys |-> <<>>]
      /\ window = [k \in Keys |-> <<>>] /\ appended = [k \in Keys |-> <<>>]
      /\ blurred = [k \in Keys |-> FALSE]
  BY DEF Init
<1> HIDE DEF m
<1>3. m \in MemoryType(made) /\ Len(m.order) <= Cap
  <2>1. /\ <<>> \in Seq(Fp(made)) /\ <<>> \in Seq(Item(made)) /\ NoSession \in Nat
        /\ <<>> \in Recency(Keys) /\ Len(<<>>) = 0 /\ <<>> \in Seq(Session)
    BY DEF NoSession, Recency
  <2>2. m.order \in Recency(Keys) /\ Len(m.order) <= Cap
    BY <1>1, <2>1, CapAssumption
  <2>3. /\ m.confirmed \in [Keys -> Seq(Fp(made))] /\ m.pending \in [Keys -> Seq(Item(made))]
        /\ m.sid \in [Keys -> Nat] /\ m.sessions \in Seq(Session)
    BY <1>1, <2>1
  <2>. QED BY <1>1, <2>2, <2>3 DEF MemoryType
<1>4. ArchOK(Blurred, m, made)
  <2>1. \A j \in Keys : KeyOK(m, j)
    BY <1>1 DEF KeyOK
  <2>2. Len(m.sessions) = 0
    BY <1>1
  <2>. QED BY <1>3, <2>1, <2>2, ArchParts
<1>5. Tables
  BY <1>2 DEF Tables
<1>6. ASSUME NEW j \in Keys PROVE Chats(j)
  BY <1>2 DEF Chats, Chat
<1>. QED BY <1>4, <1>5, <1>6 DEF Inv, m

\* What a step does to the rows and ids: one pass of a conversation, a restart, or nothing.
LEMMA StepMoves ==
    ASSUME Inv, [Next]_vars
    PROVE  /\ Inv'
           /\ \/ \E k \in Keys : \E idle, how : Moves(Memory, Memory', k, idle, how)
              \/ sessions' = sessions /\ sid' = [k \in Keys |-> NoSession]
              \/ UNCHANGED <<sid, sessions>>
<1>1. ASSUME NEW k \in Keys,
             \/ StartTurn(k) \/ StartTurnFollowed(k)
             \/ AppendReply(k) \/ AppendFollowUp(k) \/ PassAgain(k)
      PROVE  Inv' /\ \E idle, how : Moves(Memory, Memory', k, idle, how)
  BY <1>1, StartTurnKeeps, StartTurnFollowedKeeps, AppendReplyKeeps, AppendFollowUpKeeps,
     PassAgainKeeps
<1>2. ASSUME NEW k \in Keys, EndTurn(k) \/ InterruptTurn(k) \/ EndTurnDropping(k)
      PROVE  Inv' /\ UNCHANGED <<sid, sessions>>
  BY <1>2, EndTurnKeeps
<1>3. ASSUME NEW k \in Keys, NewCommand(k) \/ Compact(k)
      PROVE  Inv' /\ UNCHANGED <<sid, sessions>>
  BY <1>3, UpheavalKeeps
<1>4. CASE Restart
  BY <1>4, RestartKeeps
<1>5. CASE UNCHANGED vars
  <2>1. /\ UNCHANGED <<order, confirmed, pending, sid, lastPass, sessions>>
        /\ UNCHANGED <<history, window, appended, incarnation, blurred, made>>
    BY <1>5 DEF vars, archiver, nanobot
  <2>2. Memory' = Memory
    BY <2>1 DEF Memory
  <2>. QED BY <2>1, <2>2 DEF Inv, Tables, Chats, Blurred
<1>. QED BY <1>1, <1>2, <1>3, <1>4, <1>5 DEF Next

LEMMA MemoryIs ==
    ASSUME Inv
    PROVE  /\ order \in Recency(Keys) /\ Len(order) <= Cap /\ made \in Nat
           /\ confirmed \in [Keys -> Seq(Fp(made))] /\ pending \in [Keys -> Seq(Item(made))]
           /\ sid \in [Keys -> Nat] /\ sessions \in Seq(Session) /\ Len(sessions) \in Nat
           /\ DOMAIN sessions = 1 .. Len(sessions)
           /\ lastPass \in {<<>>} \cup (Keys \X Nat)
           /\ \A k \in Keys : sid[k] # NoSession => sid[k] \in 1 .. Len(sessions)
           /\ \A s \in 1 .. Len(sessions) : sessions[s] \in Session
           /\ \A s \in 1 .. Len(sessions) : \E e \in Nat : OfEra(Blurred, sessions[s], e)
<1> DEFINE m == Memory
<1>1. /\ m.order = order /\ m.confirmed = confirmed /\ m.pending = pending /\ m.sid = sid
      /\ m.lastPass = lastPass /\ m.sessions = sessions
  BY DEF Memory
<1>2. made \in Nat /\ ArchOK(Blurred, m, made)
  BY DEF Inv, Tables
<1> HIDE DEF m
<1>3. m \in MemoryType(made) /\ m.lastPass \in {<<>>} \cup (Keys \X Nat)
  <2>1. m \in MemoryType(made)
    BY ONLY <1>2, ArchDef
  <2>. QED BY ONLY <2>1 DEF MemoryType
<1>4. /\ \A k \in Keys : m.sid[k] # NoSession => m.sid[k] \in 1 .. Len(m.sessions)
      /\ \A s \in 1 .. Len(m.sessions) : \E e \in Nat : OfEra(Blurred, m.sessions[s], e)
  BY ONLY <1>2 DEF ArchOK, KeyOK
<1>5. /\ m.order \in Recency(Keys) /\ Len(m.order) <= Cap
      /\ m.confirmed \in [Keys -> Seq(Fp(made))] /\ m.pending \in [Keys -> Seq(Item(made))]
      /\ m.sid \in [Keys -> Nat] /\ m.sessions \in Seq(Session) /\ Len(m.sessions) \in Nat
      /\ DOMAIN m.sessions = 1 .. Len(m.sessions)
      /\ \A s \in 1 .. Len(m.sessions) : m.sessions[s] \in Session
  BY ONLY <1>2, ArchDef
<1>. QED BY ONLY <1>1, <1>2, <1>3, <1>4, <1>5

LEMMA InvTyped == Inv => TypeOK
<1> SUFFICES ASSUME Inv PROVE TypeOK
  OBVIOUS
<1>1. ToSet(order) \subseteq Keys /\ Len(order) <= Cap
  BY MemoryIs, RecencyDef DEF ToSet
<1>2. ASSUME NEW k \in Keys
      PROVE  /\ \A i \in DOMAIN confirmed[k] : confirmed[k][i][1] \in {"user", "assistant", "tool"}
             /\ \A i \in DOMAIN pending[k] : pending[k][i].role \in {"user", "assistant", "tool"}
             /\ sid[k] \in {NoSession} \cup DOMAIN sessions
             /\ Len(appended[k]) <= Len(window[k])
  <2>1. confirmed[k] \in Seq(Fp(made)) /\ pending[k] \in Seq(Item(made))
    BY MemoryIs
  <2>2. /\ \A i \in DOMAIN confirmed[k] : confirmed[k][i] \in Fp(made)
        /\ \A i \in DOMAIN pending[k] : pending[k][i] \in Item(made)
    BY <2>1
  <2>3. sid[k] \in {NoSession} \cup DOMAIN sessions
    BY MemoryIs
  <2>4. Len(appended[k]) <= Len(window[k])
    BY DEF Inv, Chats, Chat
  <2>. QED BY <2>2, <2>3, <2>4 DEF Fp, Item, Roles
<1>3. lastPass = <<>> \/ lastPass[1] \in Keys
  BY MemoryIs
<1>4. \A s \in DOMAIN sessions : sessions[s].key \in Keys /\ sessions[s].ended \in BOOLEAN
  BY MemoryIs DEF Session
<1>. QED BY <1>1, <1>2, <1>3, <1>4 DEF TypeOK

LEMMA InvSeparates == Inv => OneConversationPerSession
<1> SUFFICES ASSUME Inv, NEW s \in DOMAIN sessions, ~blurred[sessions[s].key],
                    NEW m \in StoredIn(s), NEW n \in StoredIn(s)
             PROVE  m.era = n.era
  BY DEF OneConversationPerSession
<1>1. PICK e \in Nat : OfEra(Blurred, sessions[s], e)
  BY MemoryIs
<1>2. sessions[s].rows \in Seq(Row)
  BY MemoryIs DEF Session
<1>3. DOMAIN sessions[s].rows = 1 .. Len(sessions[s].rows) /\ sessions[s].key \notin Blurred
  BY <1>2 DEF Blurred
<1>4. StoredIn(s) \subseteq Idents(e)
  BY <1>1, <1>3 DEF StoredIn, OfEra
<1>. QED BY <1>4 DEF Idents

\* The archiver's types hold in every state, whatever raises or restarts.
THEOREM ArchiverTyped == Spec => []TypeOK
<1>1. Inv /\ [Next]_vars => Inv'
  BY StepMoves
<1>. QED BY <1>1, InitInv, InvTyped, PTL DEF Spec

\* No session ever holds messages from both sides of a /new: the archiver notices the
\* other conversation by its first window, though it is told nothing.  Excused is a
\* conversation whose windows no longer tell one user's message from another: without
\* the stamp, one that repeated a text (archiver.py: "*Residual, version-dependent:*"),
\* and one whose turn began with a follow-up.
THEOREM Separated == Spec => []OneConversationPerSession
<1>1. Inv /\ [Next]_vars => Inv'
  BY StepMoves
<1>. QED BY <1>1, InitInv, InvSeparates, PTL DEF Spec

\* A session that was ended is never written again, nor opened again.
THEOREM StaysClosed == Spec => EndedStaysClosed
<1>1. Inv /\ [Next]_vars => Inv'
  BY StepMoves
<1>2. ASSUME Inv, [Next]_vars, NEW s \in DOMAIN sessions, sessions[s].ended
      PROVE  sessions'[s] = sessions[s]
  <2>1. CASE sessions' = sessions
    BY <2>1
  <2>2. ASSUME NEW k \in Keys, NEW idle, NEW how, Moves(Memory, Memory', k, idle, how)
        PROVE  sessions'[s] = sessions[s]
    <3>1. /\ (Memory').sessions = sessions' /\ Memory.sessions = sessions
      BY DEF Memory
    <3>2. s \in 1 .. Len(Memory.sessions) /\ Memory.sessions[s].ended
      BY <1>2, <3>1, MemoryIs
    <3>3. (Memory').sessions[s] = Memory.sessions[s]
      BY <2>2, <3>2 DEF Moves
    <3>. QED BY <3>1, <3>3
  <2>. QED BY <1>2, <2>1, <2>2, StepMoves
<1>3. Inv /\ [Next]_vars =>
        [\A s \in DOMAIN sessions : sessions[s].ended => sessions'[s] = sessions[s]]_vars
  BY <1>2
<1>. QED BY <1>1, <1>3, InitInv, PTL DEF Spec, EndedStaysClosed

-----------------------------------------------------------------------------
(* The refinement: what a pass does to the rows, the ledger allows.        *)

LEMMA LedgerPass ==
    ASSUME Inv, Inv', NEW k \in Keys, NEW idle, NEW how, Moves(Memory, Memory', k, idle, how)
    PROVE  Promise!Pass(k)
<1> DEFINE n == Len(sessions)
           own == [s \in DOMAIN sessions |-> sessions[s].key]
           own2 == [s \in DOMAIN sessions' |-> sessions'[s].key]
           fin == {s \in DOMAIN sessions : sessions[s].ended}
           fin2 == {s \in DOMAIN sessions' : sessions'[s].ended}
           m == Memory
           m2 == Memory'
<1>1. /\ m2.sessions = sessions' /\ m.sessions = sessions /\ m2.sid = sid' /\ m.sid = sid
  BY DEF Memory
<1>2. ArchOK(Blurred, m, made) /\ ArchOK(Blurred', m2, made') /\ made \in Nat /\ made' \in Nat
      /\ Moves(m, m2, k, idle, how)
  BY DEF Inv, Tables
<1> HIDE DEF m, m2
<1>3. /\ sid \in [Keys -> Nat] /\ n \in Nat /\ DOMAIN sessions = 1 .. n
      /\ \A s \in 1 .. n : sessions[s] \in Session
  BY <1>1, <1>2, ArchDef
<1>4. /\ sid' \in [Keys -> Nat] /\ Len(sessions') \in Nat
      /\ DOMAIN sessions' = 1 .. Len(sessions')
      /\ \A s \in 1 .. Len(sessions') : sessions'[s] \in Session
  BY <1>1, <1>2, ArchDef
<1>5. /\ idle \in SUBSET (Keys \ {k})
      /\ \A j \in Keys \ {k} : sid'[j] = IF j \in idle THEN NoSession ELSE sid[j]
      /\ \A s \in 1 .. n : sessions'[s].key = sessions[s].key
  BY <1>1, <1>2 DEF Moves
<1>6. how \in {"continue", "release", "open"}
  BY <1>2 DEF Moves
<1> HIDE DEF own, own2, fin, fin2
<1> DEFINE stamped == {s \in DOMAIN own : sessions'[s].ended}
           out == stamped \cap {sid[j] : j \in idle}
           freed == [j \in Keys |-> IF j \in idle THEN NoSession ELSE sid[j]]
           l == [owner |-> own, ended |-> fin, mapped |-> sid]
           r == Promise!Passed(l, k, idle, stamped, how)
<1>7. Promise!Conversations = Keys /\ Promise!NoSession = NoSession /\ Promise!Ledger = l
  BY DEF Promise!Conversations, Promise!NoSession, NoSession, Promise!Ledger, own, fin
<1>8. DOMAIN own = 1 .. n /\ own = [s \in 1 .. n |-> sessions[s].key] /\ Len(own) = n
      /\ own \in Seq(Keys)
  <2>1. DOMAIN own = 1 .. n /\ own = [s \in 1 .. n |-> own[s]]
    BY <1>3 DEF own
  <2>2. \A s \in 1 .. n : own[s] \in Keys /\ own[s] = sessions[s].key
    BY <1>3 DEF own, Session
  <2>. QED BY <1>3, <2>1, <2>2, FunIsSeq
<1> DEFINE rest == Promise!LetGo(l, idle, stamped)
           free == Promise!LetGo(rest, {k}, stamped)
<1>9. rest.owner = own /\ rest.ended = fin \cup out /\ rest.mapped = freed
  BY <1>7 DEF Promise!LetGo
<1>10. rest.mapped[k] = sid[k]
  BY <1>5, <1>9
<1> HIDE DEF rest
<1>11. /\ free.owner = own
       /\ free.ended = fin \cup out \cup (stamped \cap {sid[k]})
       /\ free.mapped = [j \in Keys |-> IF j = k THEN NoSession ELSE freed[j]]
  <2>1. /\ free.owner = rest.owner
        /\ free.ended = rest.ended \cup (stamped \cap {rest.mapped[c] : c \in {k}})
        /\ free.mapped = [j \in Keys |-> IF j \in {k} THEN NoSession ELSE rest.mapped[j]]
    BY <1>7 DEF Promise!LetGo
  <2>2. {rest.mapped[c] : c \in {k}} = {sid[k]}
    BY <1>10
  <2> HIDE DEF free
  <2>. QED BY <1>9, <2>1, <2>2
<1> HIDE DEF free
<1>12. /\ how = "continue" => r = rest
       /\ how = "release" => r = free
       /\ how = "open" => r = Promise!Open(free, k)
  BY DEF Promise!Passed, rest, free
<1> HIDE DEF r, out, freed, l
<1>20. \A s \in 1 .. n : s \in stamped <=> sessions'[s].ended
  BY <1>8
<1>21. stamped \subseteq 1 .. n
  BY <1>8
<1>22. \A s \in 1 .. n : sessions[s].ended => sessions'[s] = sessions[s]
  BY <1>1, <1>2 DEF Moves
<1> HIDE DEF stamped
<1>13. ASSUME NEW s \in 1 .. n PROVE s \in out <=> s \in stamped /\ \E j \in idle : s = sid[j]
  BY <1>13 DEF out
<1>14. out \subseteq 1 .. n /\ fin \subseteq 1 .. n /\ fin2 \subseteq 1 .. Len(sessions')
  BY <1>3, <1>4, <1>21 DEF out, fin, fin2
<1>15. own2 = r.owner /\ fin2 = r.ended /\ sid' = r.mapped
  <2>1. CASE how = "continue"
    <3>1. /\ sid[k] # NoSession /\ sid'[k] = sid[k] /\ Len(sessions') = n
          /\ \A s \in 1 .. n : sessions'[s].ended =>
                sessions[s].ended \/ \E j \in idle : s = sid[j]
      BY <1>1, <1>2, <2>1 DEF Moves
    <3>2. own2 = own
      BY <1>3, <1>4, <1>5, <3>1 DEF own, own2
    <3>3. ASSUME NEW s \in 1 .. n PROVE s \in fin2 <=> s \in fin \cup out
      BY <1>3, <1>4, <1>13, <1>20, <1>22, <3>1 DEF fin, fin2
    <3>4. fin2 = fin \cup out
      BY <1>14, <3>1, <3>3
    <3>5. sid' = freed
      BY <1>3, <1>4, <1>5, <3>1 DEF freed
    <3>. QED BY <1>9, <1>12, <2>1, <3>2, <3>4, <3>5
  <2>2. CASE how = "release"
    <3>1. /\ sid'[k] = NoSession /\ Len(sessions') = n
          /\ \A s \in 1 .. n : sessions'[s].ended =>
                (sessions[s].ended \/ \E j \in idle : s = sid[j]) \/ s = sid[k]
      BY <1>1, <1>2, <2>2 DEF Moves
    <3>2. own2 = own
      BY <1>3, <1>4, <1>5, <3>1 DEF own, own2
    <3>3. ASSUME NEW s \in 1 .. n
          PROVE  s \in fin2 <=> s \in fin \cup out \cup (stamped \cap {sid[k]})
      BY <1>3, <1>4, <1>13, <1>20, <1>22, <3>1 DEF fin, fin2
    <3>4. fin2 = fin \cup out \cup (stamped \cap {sid[k]})
      BY <1>14, <1>21, <3>1, <3>3
    <3>5. sid' = [j \in Keys |-> IF j = k THEN NoSession ELSE freed[j]]
      BY <1>3, <1>4, <1>5, <3>1 DEF freed
    <3>. QED BY <1>11, <1>12, <2>2, <3>2, <3>4, <3>5
  <2>3. CASE how = "open"
    <3>1. /\ sid'[k] = n + 1 /\ Len(sessions') = n + 1
          /\ sessions'[n + 1].key = k /\ ~sessions'[n + 1].ended
          /\ \A s \in 1 .. n :
               /\ sessions'[s].ended => (sessions[s].ended \/ \E j \in idle : s = sid[j])
                                          \/ s = sid[k] \/ sessions[s].key = k
               /\ sessions[s].key = k => sessions'[s].ended
      BY <1>1, <1>2, <2>3 DEF Moves
    <3> DEFINE left == {s \in DOMAIN own : own[s] = k}
    <3>2. /\ r.owner = Append(own, k)
          /\ r.ended = fin \cup out \cup (stamped \cap {sid[k]}) \cup left
          /\ r.mapped = [free.mapped EXCEPT ![k] = n + 1]
      <4>1. /\ r.owner = Append(free.owner, k)
            /\ r.ended = free.ended \cup {s \in DOMAIN free.owner : k \in Keys /\ free.owner[s] = k}
            /\ r.mapped = [free.mapped EXCEPT ![k] = Len(free.owner) + 1]
        BY <1>12, <2>3 DEF Promise!Open
      <4>2. {s \in DOMAIN free.owner : k \in Keys /\ free.owner[s] = k} = left
        BY <1>11
      <4> HIDE DEF left
      <4>. QED BY <1>8, <1>11, <4>1, <4>2
    <3>8. left \subseteq 1 .. n /\ \A s \in 1 .. n : s \in left <=> sessions[s].key = k
      BY <1>8
    <3> HIDE DEF left
    <3>3. own2 = Append(own, k)
      <4>1. own2 = [s \in 1 .. n + 1 |-> sessions'[s].key]
        BY <1>4, <3>1 DEF own2
      <4>2. Append(own, k) = [s \in 1 .. n + 1 |-> IF s = n + 1 THEN k ELSE own[s]]
        BY <1>3, <1>8
      <4>3. \A s \in 1 .. n + 1 : sessions'[s].key = IF s = n + 1 THEN k ELSE own[s]
        BY <1>3, <1>5, <1>8, <3>1
      <4>. QED BY <4>1, <4>2, <4>3
    <3>4. ASSUME NEW s \in 1 .. n
          PROVE  s \in fin2 <=> s \in fin \cup out \cup (stamped \cap {sid[k]}) \cup left
      <4>1. s \in fin2 <=> \/ sessions[s].ended \/ (s \in stamped /\ \E j \in idle : s = sid[j])
                           \/ (s \in stamped /\ s = sid[k]) \/ sessions[s].key = k
        <5>1. s \in 1 .. Len(sessions')
          BY <1>3, <3>1, <3>4
        <5>2. s \in fin2 <=> sessions'[s].ended
          BY <1>4, <5>1 DEF fin2
        <5>. QED BY <1>20, <1>22, <3>1, <3>4, <5>2
      <4>2. s \in fin <=> sessions[s].ended
        BY <1>3, <3>4 DEF fin
      <4>. QED BY <1>13, <3>4, <3>8, <4>1, <4>2
    <3>5. n + 1 \notin fin2
      BY <3>1 DEF fin2
    <3>6. fin2 = fin \cup out \cup (stamped \cap {sid[k]}) \cup left
      <4> DEFINE all == fin \cup out \cup (stamped \cap {sid[k]}) \cup left
      <4>1. all \subseteq 1 .. n
        BY <1>14, <1>21, <3>8
      <4>2. fin2 \subseteq 1 .. n
        <5>1. \A s \in 1 .. n + 1 : s # n + 1 => s \in 1 .. n
          BY <1>3
        <5>. QED BY <1>14, <3>1, <3>5, <5>1
      <4>3. \A s \in 1 .. n : s \in fin2 <=> s \in all
        BY <3>4
      <4> HIDE DEF all
      <4>4. fin2 = all
        BY <4>1, <4>2, <4>3
      <4>. QED BY <4>4 DEF all
    <3>7. sid' = [free.mapped EXCEPT ![k] = n + 1]
      BY <1>3, <1>4, <1>5, <1>11, <3>1 DEF freed
    <3>. QED BY <3>2, <3>3, <3>6, <3>7
  <2>. QED BY <1>6, <2>1, <2>2, <2>3
<1>16. how \in Promise!Cases(k)
  <2>1. how = "continue" => sid[k] # NoSession
    BY <1>1, <1>2 DEF Moves
  <2>. QED BY <1>6, <1>7, <2>1 DEF Promise!Cases
<1>17. Promise!Become(Promise!Passed(Promise!Ledger, k, idle, stamped, how))
  <2>1. r = Promise!Passed(Promise!Ledger, k, idle, stamped, how)
    BY <1>7 DEF r
  <2> DEFINE q == Promise!Passed(Promise!Ledger, k, idle, stamped, how)
  <2>2. own2 = q.owner /\ fin2 = q.ended /\ sid' = q.mapped
    BY <1>15, <2>1
  <2> HIDE DEF q
  <2>3. Promise!Become(q)
    BY <2>2 DEF Promise!Become, own2, fin2
  <2>. QED BY <2>3 DEF q
<1>18. idle \in SUBSET (Promise!Conversations \ {k})
  BY <1>5, <1>7
<1>19. stamped \in SUBSET DOMAIN [s \in DOMAIN sessions |-> sessions[s].key]
  BY <1>3, <1>21
<1>. QED BY <1>16, <1>17, <1>18, <1>19 DEF Promise!Pass, Promise!Become

\* The archiver implements the ledger: a key leaves a session only by ending it, a start
\* ends whatever else is open under the key, and only the mapping dies with the process.
THEOREM LedgerImplemented == Spec => KeepsLedger
<1>1. Init => Promise!Init
  <2> SUFFICES ASSUME Init PROVE Promise!Init
    OBVIOUS
  <2>1. sessions = <<>> /\ sid = [k \in Keys |-> NoSession]
    BY DEF Init
  <2>2. Promise!Conversations = Keys /\ Promise!NoSession = NoSession
    BY DEF Promise!Conversations, Promise!NoSession, NoSession
  <2>3. [s \in DOMAIN sessions |-> sessions[s].key] = <<>>
    BY <2>1
  <2>4. {s \in DOMAIN sessions : sessions[s].ended} = {}
    BY <2>1
  <2>. QED BY <2>1, <2>2, <2>3, <2>4 DEF Promise!Init
<1>2. ASSUME Inv, [Next]_vars
      PROVE  Inv' /\ [Promise!Next]_(Promise!ledger)
  <2>1. Inv'
    BY <1>2, StepMoves
  <2>2. Promise!Conversations = Keys /\ Promise!NoSession = NoSession
    BY DEF Promise!Conversations, Promise!NoSession, NoSession
  <2>3. ASSUME NEW k \in Keys, NEW idle, NEW how, Moves(Memory, Memory', k, idle, how)
        PROVE  Promise!Next
    <3>1. Promise!Pass(k)
      BY <1>2, <2>1, <2>3, LedgerPass
    <3>. QED BY <2>2, <3>1 DEF Promise!Next
  <2>4. CASE sessions' = sessions /\ sid' = [k \in Keys |-> NoSession]
    <3>1. Promise!Forget
      BY <2>2, <2>4 DEF Promise!Forget
    <3>. QED BY <2>1, <3>1 DEF Promise!Next
  <2>5. CASE UNCHANGED <<sid, sessions>>
    BY <2>1, <2>5 DEF Promise!ledger
  <2>. QED BY <1>2, <2>1, <2>3, <2>4, <2>5, StepMoves
<1>. QED BY <1>1, <1>2, InitInv, PTL DEF Spec, KeepsLedger, Promise!Spec
=============================================================================
