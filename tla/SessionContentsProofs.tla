----------------------- MODULE SessionContentsProofs -----------------------
(***************************************************************************)
(* What the archiver's sessions contain: nothing a pass was shown is       *)
(* missing, nothing is in a session twice and a turn goes on where the     *)
(* last one ended, for every set of keys and replies, every cap and limit  *)
(* and any number of messages, faults and upheavals.                       *)
(***************************************************************************)
EXTENDS SessionArchiverProofs

\* Fingerprints c end with those of the first n entries of window w.
EndsWith(c, w, n) == n <= Len(c) /\ \A i \in 1 .. n : c[Len(c) - n + i] = w[i].fp

\* Where a turn's first pass and a later one go on.
FirstAlign(c, p, w) == Align(c, p, w, FALSE)
MidAlign(c, p, w)   == Align(c, p, w, TRUE)

IsNew(al) == al.isNew
StartsOver(al) == al.start = 1 /\ al.adopted = <<>> /\ al.keep = <<>>

\* An alignment goes on after o entries that end memory and r adopted ones.
Continues(al, w, o, r) ==
    /\ o + r < Len(w) /\ al.start = o + r + 1
    /\ al.keep = <<>> /\ al.adopted = [j \in 1 .. r |-> w[o + j].fp]

\* The archiver's memory of a conversation covers the first l entries of window w: the
\* fingerprints end with those of the first q, and none is that of the next one, which
\* could prolong the run; the pending messages have the roles of the other ones.
Covers(c, p, w, l, q) ==
    /\ l \in 1 .. Len(w) /\ q \in 0 .. l - 1
    /\ EndsWith(c, w, q)
    /\ Len(c) = q \/ \A i \in 1 .. Len(c) : c[i] # w[q + 1].fp
    /\ Len(p) = l - q /\ \A j \in 1 .. Len(p) : p[j].role = w[q + j].role
    /\ l = Len(w) => p[Len(p)].fp = w[l].fp

\* The archiver's memory covers the first l messages of history h: its pending messages
\* are of the last turn, whose user message is not among the fingerprints.
Remembers(c, p, h, l) ==
    LET m == Len(p)
    IN  /\ l \in 1 .. Len(h) /\ m \in 1 .. l
        /\ \A j \in 1 .. m : p[j].role = h[l - m + j].role
        /\ \A i \in l - m + 2 .. Len(h) : ~h[i].opens
        /\ l - m <= Len(c) /\ \A i \in 1 .. l - m : c[Len(c) - (l - m) + i] = Replayed(h[i]).fp
        /\ \A i \in 1 .. Len(c) : c[i] # Replayed(h[l - m + 1]).fp

\* Fingerprints d hold none that c does not.
NoneNew(c, d) ==
    \A x : (\A i \in 1 .. Len(c) : c[i] # x) => \A i \in 1 .. Len(d) : d[i] # x

\* Items p are those of b, then the entries of window w after the first l.
Extends(p, b, w, l) ==
    /\ Len(p) = Len(b) + (Len(w) - l)
    /\ \A j \in 1 .. Len(b) : p[j] = b[j]
    /\ \A j \in 1 .. Len(w) - l : p[Len(b) + j] = Unreplayed(w[l + j])

-----------------------------------------------------------------------------
(* Where a window is continued.                                            *)

LEMMA LongestOf ==
    ASSUME NEW S \in SUBSET Nat, NEW q \in S, \A x \in S : x <= q
    PROVE  Longest(S) = q
<1>1. q \in Nat /\ \A k \in S : k \in Nat
  OBVIOUS
<1>2. ASSUME NEW k \in S, \A other \in S : other <= k PROVE k = q
  BY <1>1, <1>2
<1>. QED BY <1>2 DEF Longest

LEMMA OverlapIs ==
    ASSUME NEW c, Len(c) \in Nat, DOMAIN c = 1 .. Len(c), NEW w, Len(w) \in Nat,
           NEW q \in Nat, q <= Len(w), q <= Len(c),
           \A i \in 1 .. q : c[Len(c) - q + i] = w[i],
           Len(c) = q \/ (q < Len(w) /\ \A i \in 1 .. Len(c) : c[i] # w[q + 1])
    PROVE  Overlap(c, w) = q
<1> DEFINE m == Len(c)
           n == Len(w)
<1>0. /\ m \in Nat /\ n \in Nat /\ Len(c) = m /\ Len(w) = n /\ DOMAIN c = 1 .. m
      /\ q \in Nat /\ q <= n /\ q <= m
      /\ \A i \in 1 .. q : c[m - q + i] = w[i]
      /\ m = q \/ (q < n /\ \A i \in 1 .. m : c[i] # w[q + 1])
  OBVIOUS
<1> HIDE DEF m, n
<1> USE ONLY <1>0
<1>1. ASSUME NEW i \in 1 .. m, NEW k \in RunsFrom(c, w, i) PROVE k \in Nat /\ k <= q
  <2>1. k \in 0 .. n /\ i + k - 1 <= m /\ \A j \in 1 .. k : c[i + j - 1] = w[j]
    BY DEF RunsFrom
  <2>2. CASE m = q
    BY <2>1, <2>2
  <2>3. CASE q < n /\ \A j \in 1 .. m : c[j] # w[q + 1]
    <3>1. SUFFICES ASSUME k > q PROVE FALSE
      BY <2>1
    <3>2. q + 1 \in 1 .. k /\ i + q \in 1 .. m /\ i + (q + 1) - 1 = i + q
      BY <2>1, <3>1
    <3>3. c[i + (q + 1) - 1] = w[q + 1]
      BY <2>1, <3>2
    <3>. QED BY <2>3, <3>2, <3>3
  <2>. QED BY <2>2, <2>3
<1>2. ASSUME NEW k \in AcceptedRuns(c, w) PROVE k \in Nat /\ k <= q
  <2>1. PICK i \in 1 .. m : k = Longest(RunsFrom(c, w, i))
    BY DEF AcceptedRuns
  <2>2. RunsFrom(c, w, i) \subseteq 0 .. n
    BY DEF RunsFrom
  <2>3. 0 \in RunsFrom(c, w, i)
    <3>1. 0 \in 0 .. n /\ i + 0 - 1 <= m /\ 1 .. 0 = {}
      OBVIOUS
    <3>. QED BY <3>1 DEF RunsFrom
  <2>4. k \in RunsFrom(c, w, i)
    BY <2>1, <2>2, <2>3, LongestIsOne
  <2>. QED BY <1>1, <2>4
<1>3. q \in AcceptedRuns(c, w) \cup {0}
  <2>1. SUFFICES ASSUME q > 0 PROVE q \in AcceptedRuns(c, w)
    OBVIOUS
  <2> DEFINE i == m - q + 1
  <2>2. i \in 1 .. m /\ i + q - 1 = m /\ q \in 1 .. n
    BY <2>1
  <2>3. q \in RunsFrom(c, w, i)
    <3>1. ASSUME NEW j \in 1 .. q PROVE c[i + j - 1] = w[j]
      <4>1. i + j - 1 = m - q + j
        OBVIOUS
      <4> HIDE DEF i
      <4>. QED BY <4>1
    <3> HIDE DEF i
    <3>2. q \in 0 .. n /\ i + q - 1 <= m
      BY <2>2
    <3>. QED BY <3>1, <3>2 DEF RunsFrom
  <2> HIDE DEF i
  <2>4. Longest(RunsFrom(c, w, i)) = q
    <3>1. RunsFrom(c, w, i) \in SUBSET Nat
      <4>1. RunsFrom(c, w, i) \subseteq 0 .. n
        BY DEF RunsFrom
      <4>. QED BY <4>1
    <3>. QED BY <1>1, <2>2, <2>3, <3>1, LongestOf
  <2>. QED BY <2>2, <2>4 DEF AcceptedRuns
<1> DEFINE S == AcceptedRuns(c, w) \cup {0}
<1>4. S \in SUBSET Nat /\ q \in S /\ \A x \in S : x <= q
  <2> HIDE DEF S
  <2>1. \A x \in S : x \in Nat /\ x <= q
    BY <1>2 DEF S
  <2>. QED BY <1>3, <2>1 DEF S
<1> HIDE DEF S
<1>5. Longest(S) = q
  BY <1>4, LongestOf
<1>. QED BY <1>5 DEF S, Overlap

LEMMA RunIs ==
    ASSUME NEW p, Len(p) \in Nat, NEW w, Len(w) \in Nat, NEW o \in Nat, o + Len(p) <= Len(w),
           \A j \in 1 .. Len(p) : Replays(p[j], w, o + j)
    PROVE  PendingRun(p, w, o) = Len(p)
<1> DEFINE S == {n \in 0 .. Len(p) : /\ o + n <= Len(w)
                                     /\ \A i \in 1 .. n : Replays(p[i], w, o + i)}
<1>1. S \in SUBSET Nat /\ Len(p) \in S /\ \A x \in S : x <= Len(p)
  OBVIOUS
<1>2. PendingRun(p, w, o) = Longest(S)
  BY DEF PendingRun
<1> HIDE DEF S
<1>. QED BY <1>1, <1>2, LongestOf

\* A window whose first entries the memory covers goes on right after them.
LEMMA CoveredGoesOn ==
    ASSUME NEW n \in Nat, NEW e, NEW c \in Seq(Fp(n)), NEW p \in Seq(Item(n)),
           NEW w \in Seq(Entries(n, e)), NEW l, NEW q, Covers(c, p, w, l, q)
    PROVE  /\ FirstAlign(c, p, w).start = l + 1 /\ ~IsNew(FirstAlign(c, p, w))
           /\ MidAlign(c, p, w).start = l + 1 /\ ~IsNew(MidAlign(c, p, w))
           /\ MidAlign(c, p, w).adopted = <<>> /\ MidAlign(c, p, w).keep = p
<1> DEFINE set == {j \in 1 .. Len(p) : ~(TRUE \/ q + j = Len(w))}
           a == FirstAlign(c, p, w)
           b == MidAlign(c, p, w)
<1>1. /\ Len(c) \in Nat /\ DOMAIN c = 1 .. Len(c) /\ Len(p) \in Nat /\ DOMAIN p = 1 .. Len(p)
      /\ Len(w) \in Nat /\ DOMAIN w = 1 .. Len(w)
  OBVIOUS
<1>2. /\ l \in Nat /\ 1 <= l /\ l <= Len(w) /\ q \in Nat /\ q < l
      /\ Len(p) = l - q /\ Len(p) > 0
  <2>1. l \in 1 .. Len(w) /\ q \in 0 .. l - 1 /\ Len(p) = l - q
    BY DEF Covers
  <2>. QED BY <1>1, <2>1
<1>3. Overlap(c, Fps(w)) = q
  <2> DEFINE v == Fps(w)
  <2>1. Len(v) = Len(w) /\ \A i \in 1 .. Len(w) : v[i] = w[i].fp
    BY <1>1 DEF Fps
  <2> HIDE DEF v
  <2>2. q <= Len(c) /\ \A i \in 1 .. q : c[Len(c) - q + i] = v[i]
    <3>1. q <= Len(c) /\ \A i \in 1 .. q : c[Len(c) - q + i] = w[i].fp
      BY DEF Covers, EndsWith
    <3>2. \A i \in 1 .. q : i \in 1 .. Len(w)
      BY <1>1, <1>2
    <3>. QED BY <2>1, <3>1, <3>2
  <2>3. q + 1 \in 1 .. Len(w)
    BY <1>1, <1>2
  <2>4. Len(c) = q \/ (q < Len(v) /\ \A i \in 1 .. Len(c) : c[i] # v[q + 1])
    <3>1. Len(c) = q \/ \A i \in 1 .. Len(c) : c[i] # w[q + 1].fp
      BY DEF Covers
    <3>2. v[q + 1] = w[q + 1].fp /\ q < Len(v)
      BY <1>1, <1>2, <2>1, <2>3
    <3>. QED BY <3>1, <3>2
  <2>5. q <= Len(v)
    BY <1>1, <1>2, <2>1
  <2>6. Len(v) \in Nat
    BY <1>1, <2>1
  <2>7. Overlap(c, v) = q
    <3>1. Len(c) = q \/ (q < Len(v) /\ \A i \in 1 .. Len(c) : c[i] # v[q + 1])
      BY <2>4
    <3>2. Len(c) \in Nat /\ DOMAIN c = 1 .. Len(c) /\ q \in Nat
      BY <1>1, <1>2
    <3>3. q <= Len(c) /\ \A i \in 1 .. q : c[Len(c) - q + i] = v[i]
      BY <2>2
    <3>. QED BY <2>5, <2>6, <3>1, <3>2, <3>3, OverlapIs
  <2>. QED BY <2>7 DEF v
<1>4. PendingRun(p, w, q) = Len(p)
  <2>1. q + Len(p) = l /\ l <= Len(w)
    BY <1>1, <1>2
  <2>2. ASSUME NEW j \in 1 .. Len(p) PROVE Replays(p[j], w, q + j)
    <3>1. CASE q + j = Len(w)
      <4>1. j = Len(p) /\ l = Len(w)
        <5> DEFINE x == Len(w)
                   y == Len(p)
        <5>1. x \in Nat /\ y \in Nat /\ q + y = l /\ l <= x /\ q + j = x /\ j \in 1 .. y
          BY <1>1, <2>1, <3>1
        <5> HIDE DEF x, y
        <5>2. j = y /\ l = x
          BY <1>2, <5>1
        <5>. QED BY <5>2 DEF x, y
      <4>. QED BY <3>1, <4>1 DEF Covers, Replays
    <3>2. CASE q + j # Len(w)
      BY <3>2 DEF Covers, Replays
    <3>. QED BY <3>1, <3>2
  <2>. QED BY <1>1, <1>2, <2>1, <2>2, RunIs
<1>5. a.start = q + Len(p) + 1 /\ (IsNew(a) => q + Len(p) = 0)
  BY <1>3, <1>4 DEF FirstAlign, Align, IsNew
<1>6. /\ b.start = q + Len(p) + 1 /\ (IsNew(b) => q + Len(p) = 0)
      /\ b.adopted = [j \in 1 .. Cardinality(set) |-> w[q + j].fp]
      /\ b.keep = SubSeq(p, Cardinality(set) + 1, Len(p))
  BY <1>3, <1>4 DEF MidAlign, Align, IsNew
<1> HIDE DEF a, b
<1>7. q + Len(p) = l /\ l # 0
  BY <1>1, <1>2
<1>8. Cardinality(set) = 0
  BY FS_EmptySet
<1> HIDE DEF set
<1>9. SubSeq(p, 1, Len(p)) = p /\ [j \in 1 .. 0 |-> w[q + j].fp] = <<>>
  BY <1>1
<1>. QED BY <1>5, <1>6, <1>7, <1>8, <1>9 DEF a, b

-----------------------------------------------------------------------------
(* What a pass remembers of a window it stored.                            *)

\* _fingerprints[key] and _pending[key] after a pass over window w.
NewConfirmed(c, w, al, midTurn) ==
    KeepLast(c \o al.adopted \o Confirmable(SubSeq(w, al.start, Len(w)), midTurn),
             Larger(MaxFps, 2 * Len(w)))
NewPending(w, al, midTurn) ==
    LET fresh == SubSeq(w, al.start, Len(w))
        stays == IF midTurn THEN fresh ELSE KeepLast(fresh, 1)
    IN  al.keep \o [i \in DOMAIN stays |-> Unreplayed(stays[i])]

\* The same after a turn's first pass, and after a later one.
FirstFps(c, w, al) == NewConfirmed(c, w, al, FALSE)
FirstItems(w, al)  == NewPending(w, al, FALSE)
MidFps(c, w, al)   == NewConfirmed(c, w, al, TRUE)
MidItems(w, al)    == NewPending(w, al, TRUE)

\* The last n of a sequence are the sequence without its first d.
LEMMA KeepLastIs ==
    ASSUME NEW T, NEW s \in Seq(T), NEW n \in Nat
    PROVE  LET d == Larger(Len(s) - n, 0)
           IN  /\ d \in 0 .. Len(s) /\ (d = 0 \/ Len(s) - d = n)
               /\ KeepLast(s, n) \in Seq(T) /\ Len(KeepLast(s, n)) = Len(s) - d
               /\ \A i \in 1 .. Len(s) - d : KeepLast(s, n)[i] = s[d + i]
<1> DEFINE m == Len(s)
           d == Larger(m - n, 0)
           t == SubSeq(s, d + 1, m)
<1>1. m \in Nat /\ \A i \in 1 .. m : s[i] \in T
  OBVIOUS
<1>2. d \in 0 .. m /\ (d = 0 \/ m - d = n)
  BY <1>1 DEF Larger
<1>3. KeepLast(s, n) = t
  BY DEF KeepLast
<1> HIDE DEF d, m
<1>4. \A i \in d + 1 .. m : s[i] \in T
  BY <1>1, <1>2
<1>5. /\ t \in Seq(T)
      /\ Len(t) = IF d + 1 <= m THEN m - (d + 1) + 1 ELSE 0
      /\ \A i \in 1 .. m - (d + 1) + 1 : t[i] = s[d + 1 + i - 1]
  BY <1>1, <1>2, <1>4, SubSeqProperties
<1> HIDE DEF t
<1>6. Len(t) = m - d
  BY <1>1, <1>2, <1>5
<1>7. ASSUME NEW i \in 1 .. m - d PROVE t[i] = s[d + i]
  <2>1. i \in 1 .. m - (d + 1) + 1 /\ d + 1 + i - 1 = d + i
    BY <1>1, <1>2
  <2>. QED BY <1>5, <2>1
<1>. QED BY <1>2, <1>3, <1>5, <1>6, <1>7 DEF d, m

\* A window whose last entry memory has never seen: what it repeats ends before that.
LEMMA AlignUnseen ==
    ASSUME NEW n \in Nat, NEW c \in Seq(Fp(n)), NEW p \in Seq(Item(n)),
           NEW T, NEW w \in Seq(T), w # <<>>, w[Len(w)].fp \notin Fp(n)
    PROVE  LET al == FirstAlign(c, p, w)
           IN  \E o, r \in Nat :
                 Continues(al, w, o, r) /\ EndsWith(c, w, o)
<1> DEFINE v   == Fps(w)
           o   == Overlap(c, v)
           r   == PendingRun(p, w, o)
           set == {j \in 1 .. r : ~(FALSE \/ o + j = Len(w))}
           al  == FirstAlign(c, p, w)
<1>1. /\ Len(w) \in Nat /\ Len(w) > 0 /\ DOMAIN w = 1 .. Len(w)
      /\ Len(c) \in Nat /\ DOMAIN c = 1 .. Len(c) /\ \A i \in 1 .. Len(c) : c[i] \in Fp(n)
      /\ Len(p) \in Nat /\ DOMAIN p = 1 .. Len(p) /\ \A i \in 1 .. Len(p) : p[i] \in Item(n)
  OBVIOUS
<1>2. Len(v) = Len(w) /\ \A i \in 1 .. Len(w) : v[i] = w[i].fp
  BY <1>1 DEF Fps
<1>3. /\ al.start = o + r + 1
      /\ al.adopted = [j \in 1 .. Cardinality(set) |-> w[o + j].fp]
      /\ al.keep = SubSeq(p, Cardinality(set) + 1, r)
  BY DEF FirstAlign, Align
<1> HIDE DEF v, al
<1>4. /\ o \in Nat /\ o < Len(w) /\ o <= Len(c)
      /\ \A i \in 1 .. o : c[Len(c) - o + i] = w[i].fp
  <2>1. o \in AcceptedRuns(c, v) \cup {0} /\ o \in 0 .. Len(w)
    BY <1>1, <1>2, OverlapRange
  <2> HIDE DEF o
  <2>2. CASE o = 0
    BY <1>1, <2>2
  <2>3. CASE o # 0
    <3>1. PICK i \in DOMAIN c : /\ o = Longest(RunsFrom(c, v, i))
                                /\ i + o - 1 = Len(c) \/ o = Len(w)
      BY <1>2, <2>1, <2>3 DEF AcceptedRuns
    <3>2. RunsFrom(c, v, i) \subseteq 0 .. Len(w) /\ 0 \in RunsFrom(c, v, i)
      <4>1. 0 \in 0 .. Len(v) /\ i + 0 - 1 <= Len(c) /\ 1 .. 0 = {}
        BY <1>1, <1>2
      <4>. QED BY <1>2, <4>1 DEF RunsFrom
    <3>3. o \in RunsFrom(c, v, i)
      BY <1>1, <3>1, <3>2, LongestIsOne
    <3>4. i + o - 1 <= Len(c) /\ \A j \in 1 .. o : c[i + j - 1] = v[j]
      BY <3>3 DEF RunsFrom
    <3>5. o \in Nat /\ i \in 1 .. Len(c)
      BY <1>1, <2>1
    <3>6. o # Len(w)
      <4>1. SUFFICES ASSUME o = Len(w) PROVE FALSE
        OBVIOUS
      <4>2. o \in 1 .. o /\ i + o - 1 \in 1 .. Len(c)
        BY <1>1, <2>3, <3>4, <3>5
      <4>3. c[i + o - 1] = w[o].fp
        BY <1>2, <3>4, <4>1, <4>2
      <4>. QED BY <1>1, <4>1, <4>2, <4>3
    <3>7. i + o - 1 = Len(c)
      BY <3>1, <3>6
    <3>8. ASSUME NEW j \in 1 .. o PROVE c[Len(c) - o + j] = w[j].fp
      <4>1. Len(c) - o + j = i + j - 1
        <5> DEFINE y == Len(c)
        <5>1. y \in Nat
          BY <1>1
        <5>2. i + o - 1 = y
          BY <3>7
        <5> HIDE DEF y
        <5>3. o \in Nat /\ i \in Nat /\ j \in Nat
          BY <3>5
        <5>4. y - o = i - 1
          BY ONLY <5>1, <5>2, <5>3
        <5>5. i - 1 + j = i + j - 1
          BY ONLY <5>3
        <5>. QED BY <5>4, <5>5 DEF y
      <4>2. j \in 1 .. Len(w)
        BY <1>1, <2>1, <3>5
      <4>. QED BY <1>2, <3>4, <4>1, <4>2
    <3>9. o < Len(w) /\ o <= Len(c)
      <4> DEFINE x == Len(w)
                 y == Len(c)
      <4>1. x \in Nat /\ y \in Nat
        BY <1>1
      <4>2. o \in 0 .. x
        BY <2>1
      <4>3. i \in 1 .. y /\ o # x /\ i + o - 1 = y
        BY <3>5, <3>6, <3>7
      <4> HIDE DEF x, y
      <4>4. o < x /\ o <= y
        BY ONLY <4>1, <4>2, <4>3
      <4>. QED BY <4>4 DEF x, y
    <3>. QED BY <3>5, <3>8, <3>9
  <2>. QED BY <2>2, <2>3
<1> HIDE DEF o
<1>5. r \in Nat /\ r <= Len(p) /\ o + r <= Len(w) /\ \A i \in 1 .. r : Replays(p[i], w, o + i)
  <2>1. Len(p) \in Nat /\ Len(w) \in Nat
    BY <1>1
  <2>2. o \in 0 .. Len(w)
    BY <1>4, <2>1
  <2>3. r \in 0 .. Len(p)
    BY ONLY <2>1, <2>2, PendingRange DEF r
  <2>4. o + r <= Len(w)
    BY ONLY <2>1, <2>2, PendingRange DEF r
  <2>5. \A i \in 1 .. r : Replays(p[i], w, o + i)
    BY ONLY <2>1, <2>2, PendingRange DEF r
  <2> HIDE DEF r
  <2>. QED BY <2>1, <2>3, <2>4, <2>5
<1> HIDE DEF r
<1>6. o + r # Len(w)
  <2>1. SUFFICES ASSUME o + r = Len(w) PROVE FALSE
    OBVIOUS
  <2>2. r \in 1 .. r /\ r \in 1 .. Len(p)
    BY <1>1, <1>4, <1>5, <2>1
  <2>3. Replays(p[r], w, Len(w)) /\ p[r] \in Item(n)
    BY <1>1, <1>5, <2>1, <2>2
  <2>4. w[Len(w)].fp = p[r].fp
    BY <2>3 DEF Replays
  <2>. QED BY <2>3, <2>4 DEF Item
<1>7. o + r < Len(w)
  <2> DEFINE x == Len(w)
  <2>1. x \in Nat
    BY <1>1
  <2>2. o \in Nat
    BY <1>4
  <2>3. r \in Nat /\ o + r <= x
    BY <1>5
  <2>4. o + r # x
    BY <1>6
  <2> HIDE DEF x
  <2>5. o + r < x
    BY ONLY <2>1, <2>2, <2>3, <2>4
  <2>. QED BY <2>5 DEF x
<1>8. set = 1 .. r
  BY <1>4, <1>5, <1>7
<1>9. Cardinality(set) = r
  <2>1. Cardinality(1 .. r) = r
    BY <1>5, FS_Interval
  <2>. QED BY <1>8, <2>1
<1> HIDE DEF set
<1>10. SubSeq(p, r + 1, r) = <<>>
  BY <1>5
<1>11. Continues(al, w, o, r)
  BY <1>3, <1>7, <1>9, <1>10 DEF Continues
<1>12. EndsWith(c, w, o)
  BY <1>4 DEF EndsWith
<1>. QED BY <1>3, <1>4, <1>5, <1>11, <1>12 DEF al

LEMMA JoinIs ==
    ASSUME NEW S, NEW s \in Seq(S), NEW t \in Seq(S)
    PROVE  /\ s \o t \in Seq(S) /\ Len(s \o t) = Len(s) + Len(t)
           /\ \A i \in 1 .. Len(s) : (s \o t)[i] = s[i]
           /\ \A i \in 1 .. Len(t) : (s \o t)[Len(s) + i] = t[i]
<1> DEFINE z == s \o t
           m == Len(s)
           n == Len(t)
<1>1. /\ z \in Seq(S) /\ Len(z) = m + n
      /\ \A i \in 1 .. m + n : z[i] = IF i <= m THEN s[i] ELSE t[i - m]
  BY ConcatProperties
<1>2. m \in Nat /\ n \in Nat
  OBVIOUS
<1> HIDE DEF z, m, n
<1>3. ASSUME NEW i \in 1 .. n PROVE z[m + i] = t[i]
  <2>1. m + i \in 1 .. m + n /\ ~(m + i <= m) /\ m + i - m = i
    BY <1>2
  <2>. QED BY <1>1, <1>2, <2>1
<1>4. ASSUME NEW i \in 1 .. m PROVE z[i] = s[i]
  <2>1. i \in 1 .. m + n /\ i <= m
    BY <1>2
  <2>. QED BY <1>1, <2>1
<1>. QED BY <1>1, <1>3, <1>4 DEF z, m, n

\* What a pass that is not within a turn leaves pending is the window's last entry.
LEMMA LastPending ==
    ASSUME NEW T, NEW w \in Seq(T), NEW al, al.start \in 1 .. Len(w), al.keep = <<>>
    PROVE  FirstItems(w, al) = <<Unreplayed(w[Len(w)])>>
<1> DEFINE y == Len(w)
           l == y - al.start + 1
           fresh == SubSeq(w, al.start, Len(w))
           stays == KeepLast(fresh, 1)
           items == [i \in DOMAIN stays |-> Unreplayed(stays[i])]
           g == Larger(l - 1, 0)
<1>1. y \in Nat /\ al.start \in Nat /\ 1 <= al.start /\ al.start <= y /\ Len(w) = y
  OBVIOUS
<1>2. l \in Nat /\ l > 0 /\ al.start + l - 1 = y
  BY <1>1
<1>3. \A i \in al.start .. y : w[i] \in T
  OBVIOUS
<1> HIDE DEF y
<1>4. /\ fresh \in Seq(T) /\ Len(fresh) = l
      /\ \A i \in 1 .. l : fresh[i] = w[al.start + i - 1]
  <2>1. fresh = SubSeq(w, al.start, y)
    BY <1>1
  <2> HIDE DEF fresh
  <2>2. /\ fresh \in Seq(T) /\ Len(fresh) = IF al.start <= y THEN y - al.start + 1 ELSE 0
        /\ \A i \in 1 .. y - al.start + 1 : fresh[i] = w[al.start + i - 1]
    BY <1>1, <1>3, <2>1, SubSeqProperties
  <2>. QED BY <1>1, <2>2
<1> HIDE DEF fresh, l
<1>5. g = l - 1
  BY <1>2 DEF Larger
<1>6. stays \in Seq(T) /\ Len(stays) = l - g /\ \A i \in 1 .. l - g : stays[i] = fresh[g + i]
  <2>1. fresh \in Seq(T)
    BY <1>4
  <2>2. KeepLast(fresh, 1) \in Seq(T) /\ Len(KeepLast(fresh, 1)) = Len(fresh) - Larger(Len(fresh) - 1, 0)
    BY ONLY <2>1, KeepLastIs
  <2>3. \A i \in 1 .. Len(fresh) - Larger(Len(fresh) - 1, 0) :
            KeepLast(fresh, 1)[i] = fresh[Larger(Len(fresh) - 1, 0) + i]
    BY ONLY <2>1, KeepLastIs
  <2>. QED BY <1>4, <2>2, <2>3
<1> HIDE DEF stays, g
<1>7. Len(stays) = 1 /\ stays[1] = w[y]
  <2>1. l - g = 1 /\ g + 1 = l /\ l \in 1 .. l
    BY <1>2, <1>5
  <2>2. stays[1] = fresh[l] /\ fresh[l] = w[al.start + l - 1]
    BY <1>4, <1>6, <2>1
  <2>. QED BY <1>2, <1>6, <2>1, <2>2
<1>8. items = <<Unreplayed(w[y])>>
  <2>1. DOMAIN stays = 1 .. 1
    <3>1. stays \in Seq(T) /\ Len(stays) = 1
      BY <1>6, <1>7
    <3>. QED BY <3>1
  <2>. QED BY <1>7, <2>1
<1>9. FirstItems(w, al) = <<>> \o items
  BY DEF FirstItems, NewPending, fresh, stays
<1> HIDE DEF items
<1>10. <<>> \o items = items
  <2> DEFINE it == Unreplayed(w[y])
  <2>1. items = <<it>>
    BY <1>8
  <2> HIDE DEF it
  <2>2. <<>> \o <<it>> = <<it>>
    OBVIOUS
  <2>. QED BY <2>1, <2>2
<1>. QED BY <1>1, <1>8, <1>9, <1>10

\* A first pass stores a window but for what it repeats: memory then ends with all of it
\* but the last entry, which is pending.
LEMMA TailStored ==
    ASSUME NEW S, NEW b \in Seq(S), NEW T, NEW w \in Seq(T), w # <<>>,
           \A i \in 1 .. Len(w) - 1 : w[i].fp \in S,
           NEW o \in Nat, NEW r \in Nat, NEW al, Continues(al, w, o, r), EndsWith(b, w, o)
    PROVE  /\ FirstFps(b, w, al) \in Seq(S)
           /\ EndsWith(FirstFps(b, w, al), w, Len(w) - 1)
           /\ Len(FirstFps(b, w, al)) <= Len(b) - o + Len(w) - 1
<1>0. /\ al.start = o + r + 1 /\ al.keep = <<>> /\ al.adopted = [j \in 1 .. r |-> w[o + j].fp]
      /\ o + r < Len(w) /\ o <= Len(b) /\ \A i \in 1 .. o : b[Len(b) - o + i] = w[i].fp
  BY DEF Continues, EndsWith
<1> DEFINE x == Len(b)
           y == Len(w)
           k == o + r
           fresh == SubSeq(w, al.start, Len(w))
           ready == Confirmable(fresh, FALSE)
           known == b \o al.adopted \o ready
           most == Larger(MaxFps, 2 * Len(w))
           c == KeepLast(known, most)
<1>1. /\ x \in Nat /\ y \in Nat /\ y > 0 /\ DOMAIN w = 1 .. y /\ \A i \in 1 .. y : w[i] \in T
      /\ o + r < y /\ o <= x /\ al.start = o + r + 1 /\ k \in Nat /\ k < y /\ k = o + r
      /\ \A i \in 1 .. y - 1 : w[i].fp \in S
      /\ \A i \in 1 .. o : b[x - o + i] = w[i].fp
  BY <1>0
<1>2. \A i \in 1 .. x : b[i] \in S
  OBVIOUS
<1>3. FirstFps(b, w, al) = c
  BY DEF FirstFps, NewConfirmed
<1>4. most \in Nat /\ most >= y - 1
  <2>1. MaxFps \in Nat /\ 2 * y \in Nat /\ 2 * y >= y - 1
    BY <1>1, LimitsAssumption
  <2>. QED BY <2>1 DEF Larger
<1>5. Len(b) = x /\ Len(w) = y
  OBVIOUS
<1> HIDE DEF x, y, k, most
<1>6. fresh \in Seq(T) /\ Len(fresh) = y - k /\ \A i \in 1 .. y - k : fresh[i] = w[k + i]
  <2>1. \A i \in k + 1 .. y : w[i] \in T
    BY <1>1
  <2>2. fresh = SubSeq(w, k + 1, y)
    BY <1>0, <1>1, <1>5
  <2> HIDE DEF fresh
  <2>3. /\ fresh \in Seq(T) /\ Len(fresh) = IF k + 1 <= y THEN y - (k + 1) + 1 ELSE 0
        /\ \A i \in 1 .. y - (k + 1) + 1 : fresh[i] = w[k + 1 + i - 1]
    BY <1>1, <2>1, <2>2, SubSeqProperties
  <2>4. y - (k + 1) + 1 = y - k /\ k + 1 <= y
    BY <1>1
  <2>5. \A i \in 1 .. y - k : k + 1 + i - 1 = k + i
    BY <1>1
  <2>. QED BY <2>3, <2>4, <2>5
<1> HIDE DEF fresh
<1>7. ready \in Seq(S) /\ Len(ready) = y - k - 1 /\ \A i \in 1 .. y - k - 1 : ready[i] = w[k + i].fp
  <2> DEFINE front == Front(fresh)
             z == y - k - 1
  <2>1. z \in Nat /\ y - k = z + 1 /\ fresh # <<>>
    BY <1>1, <1>6
  <2>2. front = SubSeq(fresh, 1, z)
    BY <1>6, <2>1 DEF Front
  <2>3. \A i \in 1 .. z : fresh[i] \in T
    BY <1>6, <2>1
  <2> HIDE DEF z, front
  <2>4. front \in Seq(T) /\ Len(front) = z /\ \A i \in 1 .. z : front[i] = fresh[i]
    <3>1. /\ front \in Seq(T) /\ Len(front) = IF 1 <= z THEN z - 1 + 1 ELSE 0
          /\ \A i \in 1 .. z - 1 + 1 : front[i] = fresh[1 + i - 1]
      BY <1>6, <2>1, <2>2, <2>3, SubSeqProperties
    <3>2. z - 1 + 1 = z /\ \A i \in 1 .. z : 1 + i - 1 = i
      BY <2>1
    <3>. QED BY <2>1, <3>1, <3>2
  <2>5. ready = [i \in 1 .. z |-> front[i].fp]
    <3>1. DOMAIN front = 1 .. z
      BY <2>4
    <3>. QED BY <2>1, <3>1 DEF Confirmable, Fps, front
  <2> HIDE DEF ready
  <2>6. ASSUME NEW i \in 1 .. z PROVE ready[i] = w[k + i].fp /\ k + i \in 1 .. y - 1
    <3>1. i \in 1 .. y - k /\ k + i \in 1 .. y - 1
      BY <1>1, <2>1
    <3>2. ready[i] = front[i].fp /\ front[i] = fresh[i]
      BY <2>4, <2>5
    <3>. QED BY <1>6, <3>1, <3>2
  <2>7. \A i \in 1 .. z : ready[i] \in S
    BY <1>1, <2>6
  <2>8. ready \in Seq(S) /\ Len(ready) = z
    <3>1. z \in Nat
      BY <2>1
    <3>2. ready = [i \in 1 .. z |-> ready[i]]
      BY ONLY <2>5
    <3>. QED BY ONLY <2>7, <3>1, <3>2, FunIsSeq
  <2>. QED BY <2>6, <2>8 DEF z
<1> HIDE DEF ready
<1>8. al.adopted \in Seq(S) /\ Len(al.adopted) = r /\ \A i \in 1 .. r : al.adopted[i] = w[o + i].fp
  <2>1. \A i \in 1 .. r : o + i \in 1 .. y - 1
    BY <1>1
  <2>2. \A i \in 1 .. r : al.adopted[i] \in S
    BY <1>0, <1>1, <2>1
  <2>3. \A i \in 1 .. r : al.adopted[i] = w[o + i].fp
    BY <1>0
  <2>4. al.adopted = [i \in 1 .. r |-> al.adopted[i]]
    BY <1>0
  <2>5. al.adopted \in Seq(S) /\ Len(al.adopted) = r
    BY <2>2, <2>4, FunIsSeq
  <2>. QED BY <2>3, <2>5
<1> DEFINE two == b \o al.adopted
<1>9. /\ two \in Seq(S) /\ Len(two) = x + r
      /\ \A i \in 1 .. x : two[i] = b[i]
      /\ \A i \in 1 .. r : two[x + i] = al.adopted[i]
  <2> DEFINE t == al.adopted
  <2>1. t \in Seq(S) /\ x \in Nat /\ Len(b) = x /\ Len(t) = r
    BY <1>1, <1>5, <1>8
  <2> HIDE DEF t
  <2>2. b \o t \in Seq(S) /\ Len(b \o t) = x + r
    BY <2>1, JoinIs
  <2>3. \A i \in 1 .. x : (b \o t)[i] = b[i]
    BY <2>1, JoinIs
  <2>4. \A i \in 1 .. r : (b \o t)[x + i] = t[i]
    <3>1. \A i \in 1 .. Len(t) : (b \o t)[Len(b) + i] = t[i]
      BY <2>1, JoinIs
    <3>. QED BY <2>1, <3>1
  <2>. QED BY <2>2, <2>3, <2>4 DEF t
<1> HIDE DEF two
<1> DEFINE z == y - k - 1
<1>10. z \in Nat /\ Len(ready) = z /\ y - 1 = o + r + z
  BY <1>1, <1>7
<1> HIDE DEF z
<1>11. /\ known \in Seq(S) /\ Len(known) = x + r + z
       /\ \A i \in 1 .. x + r : known[i] = two[i]
       /\ \A i \in 1 .. z : known[x + r + i] = ready[i]
  <2>1. known = two \o ready
    BY DEF two
  <2> HIDE DEF known
  <2> DEFINE l == x + r
  <2>2. l \in Nat /\ Len(two) = l /\ two \in Seq(S) /\ Len(ready) = z /\ ready \in Seq(S) /\ z \in Nat
    BY <1>1, <1>7, <1>9, <1>10
  <2> HIDE DEF l
  <2>3. two \o ready \in Seq(S) /\ Len(two \o ready) = l + z
    BY <2>2, JoinIs
  <2>4. \A i \in 1 .. l : (two \o ready)[i] = two[i]
    BY <2>2, JoinIs
  <2>5. \A i \in 1 .. z : (two \o ready)[l + i] = ready[i]
    BY <2>2, JoinIs
  <2>. QED BY <2>1, <2>3, <2>4, <2>5 DEF l
<1> HIDE DEF known
<1>12. ASSUME NEW i \in 1 .. y - 1 PROVE known[x - o + i] = w[i].fp
  <2>1. CASE i <= o
    <3>1. i \in 1 .. o /\ x - o + i \in 1 .. x /\ x - o + i \in 1 .. x + r
      BY <1>1, <2>1
    <3>. QED BY <1>1, <1>9, <1>11, <3>1
  <2>2. CASE i > o /\ i <= o + r
    <3> DEFINE j == i - o
    <3>1. j \in 1 .. r /\ x - o + i = x + j /\ x + j \in 1 .. x + r /\ o + j = i
      BY <1>1, <2>2
    <3> HIDE DEF j
    <3>2. known[x + j] = two[x + j]
      BY <1>11, <3>1
    <3>3. two[x + j] = al.adopted[j] /\ al.adopted[j] = w[o + j].fp
      BY <1>8, <1>9, <3>1
    <3>. QED BY <3>1, <3>2, <3>3
  <2>3. CASE i > o + r
    <3> DEFINE j == i - k
    <3>1. j \in 1 .. z /\ j \in 1 .. y - k - 1 /\ x - o + i = x + r + j /\ k + j = i
      BY <1>1, <1>10, <2>3
    <3> HIDE DEF j
    <3>. QED BY <1>7, <1>11, <3>1
  <2>. QED BY <1>1, <2>1, <2>2, <2>3
<1> DEFINE u == x + r + z
<1>13. PICK d \in 0 .. u :
         /\ c \in Seq(S) /\ Len(c) = u - d
         /\ \A i \in 1 .. u - d : c[i] = known[d + i]
         /\ d = 0 \/ u - d = most
  <2>1. u \in Nat /\ Len(known) = u /\ known \in Seq(S)
    BY <1>1, <1>10, <1>11
  <2> HIDE DEF u
  <2> DEFINE g == Larger(u - most, 0)
  <2>2. g \in 0 .. u /\ (g = 0 \/ u - g = most)
    BY <1>4, <2>1, KeepLastIs
  <2>3. KeepLast(known, most) \in Seq(S) /\ Len(KeepLast(known, most)) = u - g
    BY <1>4, <2>1, KeepLastIs
  <2>4. \A i \in 1 .. u - g : KeepLast(known, most)[i] = known[g + i]
    <3>1. \A i \in 1 .. Len(known) - Larger(Len(known) - most, 0) :
              KeepLast(known, most)[i] = known[Larger(Len(known) - most, 0) + i]
      <4>1. known \in Seq(S) /\ most \in Nat
        BY <1>4, <2>1
      <4>. QED BY ONLY <4>1, KeepLastIs
    <3>. QED BY <2>1, <3>1
  <2> HIDE DEF g
  <2>. QED BY <2>2, <2>3, <2>4
<1>14. u \in Nat /\ u = (x - o) + (y - 1) /\ u >= y - 1
  BY <1>1, <1>10
<1> HIDE DEF c, u
<1>15. y - 1 <= Len(c) /\ Len(c) <= x - o + y - 1
  BY <1>1, <1>4, <1>13, <1>14
<1>16. ASSUME NEW i \in 1 .. y - 1 PROVE c[Len(c) - (y - 1) + i] = w[i].fp
  <2> DEFINE h == u - d
  <2>1. h \in Nat /\ y - 1 <= h /\ y - 1 \in Nat /\ u \in Nat /\ i \in Nat /\ 1 <= i /\ i <= y - 1
    BY <1>1, <1>4, <1>13, <1>14
  <2>2. u = (x - o) + (y - 1) /\ x \in Nat
    BY <1>1, <1>14
  <2>3. d + (h - (y - 1) + i) = x - o + i
    BY <1>1, <2>1, <2>2
  <2> HIDE DEF h
  <2>4. h - (y - 1) + i \in 1 .. h
    BY <2>1
  <2>5. c[h - (y - 1) + i] = known[x - o + i] /\ Len(c) = h
    BY <1>13, <2>3, <2>4 DEF h
  <2>. QED BY <1>12, <2>5
<1>18. EndsWith(c, w, y - 1)
  BY <1>15, <1>16 DEF EndsWith
<1>. QED BY <1>3, <1>5, <1>13, <1>15, <1>18

\* A window that continues nothing is stored from its first entry.
LEMMA AlignNothing ==
    ASSUME NEW S, NEW c \in Seq(S), NEW I, NEW p \in Seq(I), NEW T, NEW w \in Seq(T),
           NEW al, al = FirstAlign(c, p, w) \/ al = MidAlign(c, p, w),
           IsNew(al) \/ (c = <<>> /\ p = <<>>)
    PROVE  StartsOver(al) /\ (c = <<>> /\ p = <<>> => ~IsNew(al))
<1>0. PICK midTurn \in BOOLEAN : al = Align(c, p, w, midTurn)
  BY DEF FirstAlign, MidAlign
<1> DEFINE v   == Fps(w)
           o   == Overlap(c, v)
           r   == PendingRun(p, w, o)
           set == {j \in 1 .. r : ~(midTurn \/ o + j = Len(w))}
<1>1. Len(w) \in Nat /\ DOMAIN w = 1 .. Len(w) /\ Len(p) \in Nat /\ DOMAIN c = 1 .. Len(c)
  OBVIOUS
<1>2. Len(v) = Len(w)
  BY <1>1 DEF Fps
<1>3. /\ al.start = o + r + 1
      /\ al.adopted = [j \in 1 .. Cardinality(set) |-> w[o + j].fp]
      /\ al.keep = SubSeq(p, Cardinality(set) + 1, r)
      /\ IsNew(al) => o + r = 0
      /\ c = <<>> /\ p = <<>> => ~IsNew(al)
  BY <1>0 DEF Align, IsNew
<1> HIDE DEF v
<1>4. o \in Nat /\ o <= Len(w) /\ (c = <<>> => o = 0)
  <2>1. o \in AcceptedRuns(c, v) \cup {0} /\ o \in 0 .. Len(w)
    BY <1>1, <1>2, OverlapRange
  <2>2. c = <<>> => AcceptedRuns(c, v) = {}
    BY DEF AcceptedRuns
  <2> HIDE DEF o
  <2>. QED BY <1>1, <2>1, <2>2
<1> HIDE DEF o
<1>5. r \in Nat /\ r <= Len(p)
  BY <1>1, <1>4, PendingRange
<1> HIDE DEF r
<1>6. o = 0 /\ r = 0
  <2>1. CASE IsNew(al)
    BY <1>3, <1>4, <1>5, <2>1
  <2>2. CASE c = <<>> /\ p = <<>>
    BY <1>4, <1>5, <2>2
  <2>. QED BY <2>1, <2>2
<1>7. set = {}
  BY <1>6
<1>8. Cardinality(set) = 0
  BY <1>7, FS_EmptySet
<1> HIDE DEF set
<1>9. SubSeq(p, 1, 0) = <<>> /\ [j \in 1 .. 0 |-> w[o + j].fp] = <<>>
  OBVIOUS
<1>. QED BY <1>3, <1>6, <1>8, <1>9 DEF StartsOver

\* After a turn's first pass, which has never seen the last entry, all of the window is
\* stored or repeated, and covered.
LEMMA UnseenStored ==
    ASSUME NEW n \in Nat, NEW c \in Seq(Fp(n)), NEW p \in Seq(Item(n)),
           NEW T, NEW w \in Seq(T), w # <<>>, w[Len(w)].fp \notin Fp(n),
           \A i \in 1 .. Len(w) - 1 : w[i].fp \in Fp(n),
           NEW b, b = c \/ (b = <<>> /\ FirstAlign(c, p, w).start = 1)
    PROVE  LET al == FirstAlign(c, p, w)
           IN  /\ al.start \in 1 .. Len(w) /\ FirstFps(b, w, al) \in Seq(Fp(n))
               /\ Covers(FirstFps(b, w, al), FirstItems(w, al), w, Len(w), Len(w) - 1)
               /\ FirstItems(w, al) = <<Unreplayed(w[Len(w)])>>
<1> DEFINE al == FirstAlign(c, p, w)
           c2 == FirstFps(b, w, al)
           p2 == FirstItems(w, al)
           y  == Len(w)
           S  == Fp(n)
<1>1. PICK o, r \in Nat :
        Continues(al, w, o, r) /\ EndsWith(c, w, o)
  BY AlignUnseen
<1>2. b \in Seq(Fp(n)) /\ EndsWith(b, w, o)
  <2>1. CASE b = c
    BY <1>1, <2>1
  <2>2. CASE b = <<>> /\ al.start = 1
    <3>1. o = 0
      <4>1. al.start = o + r + 1
        BY <1>1 DEF Continues
      <4> HIDE DEF al
      <4>. QED BY <2>2, <4>1
    <3>2. Len(b) = 0 /\ b \in Seq(Fp(n))
      BY <2>2
    <3>. QED BY <3>1, <3>2 DEF EndsWith
  <2>. QED BY <2>1, <2>2
<1> HIDE DEF al
<1>9. al.start \in 1 .. Len(w) /\ al.keep = <<>>
  <2>1. o + r < Len(w) /\ al.start = o + r + 1 /\ al.keep = <<>>
    BY <1>1 DEF Continues
  <2>. QED BY <2>1
<1>3. c2 \in Seq(S) /\ EndsWith(c2, w, Len(w) - 1) /\ p2 = <<Unreplayed(w[Len(w)])>>
  <2>1. c2 \in Seq(S) /\ EndsWith(c2, w, Len(w) - 1)
    BY <1>1, <1>2, TailStored
  <2>2. p2 = <<Unreplayed(w[Len(w)])>>
    BY <1>9, LastPending
  <2>. QED BY <2>1, <2>2
<1> HIDE DEF c2, p2
<1>4. y \in Nat /\ y > 0 /\ Len(w) = y
  OBVIOUS
<1>5. Len(p2) = 1 /\ p2[1].role = w[y].role /\ p2[1].fp = w[y].fp
  BY <1>3 DEF Unreplayed
<1>6. \A i \in 1 .. Len(c2) : c2[i] # w[y].fp
  BY <1>3
<1> HIDE DEF y
<1>7. Covers(c2, p2, w, y, y - 1)
  <2>1. y \in 1 .. y /\ y - 1 \in 0 .. y - 1 /\ y - 1 + 1 = y /\ 1 = y - (y - 1)
    BY <1>4
  <2>2. EndsWith(c2, w, y - 1)
    BY <1>3, <1>4
  <2>3. \A j \in 1 .. Len(p2) : p2[j].role = w[y - 1 + j].role
    BY <1>4, <1>5
  <2>. QED BY <1>4, <1>5, <1>6, <2>1, <2>2, <2>3 DEF Covers
<1>. QED BY <1>3, <1>7, <1>9 DEF al, c2, p2, y

\* A window stored whole by a pass that is not within a turn is covered.
LEMMA AnewStored ==
    ASSUME NEW T, NEW w \in Seq(T), w # <<>>, NEW al,
           al.start = 1, al.adopted = <<>>, al.keep = <<>>
    PROVE  /\ Covers(FirstFps(<<>>, w, al), FirstItems(w, al), w, Len(w), Len(w) - 1)
           /\ FirstItems(w, al) = <<Unreplayed(w[Len(w)])>>
<1> DEFINE c2 == FirstFps(<<>>, w, al)
           p2 == FirstItems(w, al)
           y  == Len(w)
           S  == {w[i].fp : i \in 1 .. Len(w)}
           b  == <<>>
<1>1. y \in Nat /\ y > 0 /\ Len(w) = y /\ \A i \in 1 .. Len(w) - 1 : w[i].fp \in S
  OBVIOUS
<1>2. Len(b) = 0 /\ b \in Seq(S) /\ al.adopted = [j \in 1 .. 0 |-> w[0 + j].fp] /\ 0 + 0 < Len(w)
  BY <1>1
<1>3. Continues(al, w, 0, 0) /\ EndsWith(b, w, 0)
  BY <1>2 DEF Continues, EndsWith
<1> HIDE DEF S
<1>4. /\ c2 \in Seq(S) /\ EndsWith(c2, w, Len(w) - 1) /\ Len(c2) <= 0 - 0 + Len(w) - 1
      /\ p2 = <<Unreplayed(w[Len(w)])>>
  <2> HIDE DEF b, p2
  <2>1. /\ FirstFps(b, w, al) \in Seq(S)
        /\ EndsWith(FirstFps(b, w, al), w, Len(w) - 1)
        /\ Len(FirstFps(b, w, al)) <= Len(b) - 0 + Len(w) - 1
    <3>1. /\ b \in Seq(S) /\ w \in Seq(T) /\ w # <<>> /\ 0 \in Nat
          /\ Continues(al, w, 0, 0) /\ EndsWith(b, w, 0)
      BY <1>2, <1>3
    <3>2. \A i \in 1 .. Len(w) - 1 : w[i].fp \in S
      BY <1>1
    <3>. QED BY ONLY <3>1, <3>2, TailStored
  <2>2. p2 = <<Unreplayed(w[Len(w)])>>
    <3>1. al.start \in 1 .. Len(w) /\ al.keep = <<>>
      BY <1>1
    <3>. QED BY <3>1, LastPending DEF p2
  <2>. QED BY <1>2, <2>1, <2>2 DEF b
<1> HIDE DEF c2, p2
<1>5. Len(p2) = 1 /\ p2[1].role = w[y].role /\ p2[1].fp = w[y].fp
  BY <1>4 DEF Unreplayed
<1> HIDE DEF y
<1>6. Len(c2) = y - 1
  <2>1. y - 1 <= Len(c2) /\ Len(c2) <= y - 1 /\ Len(c2) \in Nat
    BY <1>1, <1>4 DEF EndsWith
  <2>. QED BY <1>1, <2>1
<1>7. Covers(c2, p2, w, y, y - 1)
  <2>1. y \in 1 .. y /\ y - 1 \in 0 .. y - 1 /\ y - 1 + 1 = y /\ 1 = y - (y - 1)
    BY <1>1
  <2>2. EndsWith(c2, w, y - 1)
    BY <1>1, <1>4
  <2>3. \A j \in 1 .. Len(p2) : p2[j].role = w[y - 1 + j].role
    BY <1>1, <1>5
  <2>. QED BY <1>1, <1>5, <1>6, <2>1, <2>2, <2>3 DEF Covers
<1>. QED BY <1>4, <1>7 DEF c2, p2, y

\* Within a turn all that a pass stores stays pending, after what it kept.
LEMMA MidPending ==
    ASSUME NEW T, NEW w \in Seq(T), NEW I, NEW l \in 0 .. Len(w), NEW al, al.start = l + 1,
           al.keep \in Seq(I)
    PROVE  Extends(MidItems(w, al), al.keep, w, l)
<1> DEFINE y == Len(w)
           d == y - l
           fresh == SubSeq(w, al.start, Len(w))
           items == [i \in DOMAIN fresh |-> Unreplayed(fresh[i])]
           keep == al.keep
           k == Len(keep)
           R == I \cup {Unreplayed(w[i]) : i \in 1 .. Len(w)}
           p == keep \o items
<1>1. y \in Nat /\ l \in Nat /\ l <= y /\ al.start = l + 1 /\ Len(w) = y
  OBVIOUS
<1>2. d \in Nat
  BY <1>1
<1>3. \A i \in l + 1 .. y : w[i] \in T
  BY <1>1
<1>4. \A i \in 1 .. y : Unreplayed(w[i]) \in R
  OBVIOUS
<1>5. MidItems(w, al) = p
  BY DEF MidItems, NewPending
<1>6. k \in Nat /\ keep \in Seq(R)
  <2>1. I \subseteq R /\ keep \in Seq(I)
    OBVIOUS
  <2> HIDE DEF R, keep
  <2>. QED BY <2>1, SeqGrow
<1> HIDE DEF y, R
<1>7. fresh \in Seq(T) /\ Len(fresh) = d /\ \A i \in 1 .. d : fresh[i] = w[l + i]
  <2>1. fresh = SubSeq(w, l + 1, y)
    BY <1>1
  <2> HIDE DEF fresh
  <2>2. /\ fresh \in Seq(T) /\ Len(fresh) = IF l + 1 <= y THEN y - (l + 1) + 1 ELSE 0
        /\ \A i \in 1 .. y - (l + 1) + 1 : fresh[i] = w[l + 1 + i - 1]
    BY <1>1, <1>3, <2>1, SubSeqProperties
  <2>3. Len(fresh) = d
    BY <1>1, <2>2
  <2>4. ASSUME NEW i \in 1 .. d PROVE fresh[i] = w[l + i]
    <3>1. i \in 1 .. y - (l + 1) + 1 /\ l + 1 + i - 1 = l + i
      BY <1>1
    <3>. QED BY <2>2, <3>1
  <2>. QED BY <2>2, <2>3, <2>4
<1> HIDE DEF fresh, d
<1>8. \A i \in 1 .. d : l + i \in 1 .. y
  BY <1>1, <1>2 DEF d
<1>9. items \in Seq(R) /\ Len(items) = d /\ \A i \in 1 .. d : items[i] = Unreplayed(w[l + i])
  <2>1. DOMAIN fresh = 1 .. d
    BY <1>7
  <2>2. \A i \in 1 .. d : items[i] = Unreplayed(w[l + i])
    BY <1>7, <1>8, <2>1
  <2>3. \A i \in 1 .. d : items[i] \in R
    BY <1>4, <1>8, <2>2
  <2>4. items = [i \in 1 .. d |-> items[i]]
    BY <2>1
  <2> HIDE DEF items
  <2>. QED BY <1>2, <2>2, <2>3, <2>4, FunIsSeq
<1> HIDE DEF items, keep
<1>10. Len(p) = k + d
  BY <1>6, <1>9, JoinIs
<1>11. \A j \in 1 .. Len(keep) : p[j] = keep[j]
  BY <1>6, <1>9, JoinIs
<1>12. \A j \in 1 .. Len(items) : p[Len(keep) + j] = items[j]
  <2>1. keep \in Seq(R) /\ items \in Seq(R)
    BY <1>6, <1>9
  <2>. QED BY ONLY <2>1, JoinIs
<1> HIDE DEF p
<1>13. \A j \in 1 .. d : p[k + j] = Unreplayed(w[l + j])
  BY <1>9, <1>12
<1>14. Extends(p, keep, w, l)
  BY <1>1, <1>10, <1>11, <1>13 DEF Extends, d, k
<1>. QED BY <1>5, <1>14 DEF keep

\* Within a turn nothing new is confirmed: memory may only drop its oldest.
LEMMA MidConfirmed ==
    ASSUME NEW S, NEW c \in Seq(S), NEW w, Len(w) \in Nat, NEW al, al.adopted = <<>>
    PROVE  LET d == Larger(Len(c) - Larger(MaxFps, 2 * Len(w)), 0)
               n == MidFps(c, w, al)
           IN  /\ d \in 0 .. Len(c) /\ (d = 0 \/ Len(c) - d >= Len(w))
               /\ n \in Seq(S) /\ Len(n) = Len(c) - d
               /\ \A i \in 1 .. Len(c) - d : n[i] = c[d + i]
<1> DEFINE most == Larger(MaxFps, 2 * Len(w))
           d == Larger(Len(c) - most, 0)
           n == MidFps(c, w, al)
<1>1. n = KeepLast(c, most)
  <2>1. n = KeepLast(c \o <<>> \o <<>>, most)
    BY DEF MidFps, NewConfirmed, Confirmable
  <2>2. c \o <<>> = c
    OBVIOUS
  <2>. QED BY <2>1, <2>2
<1>2. most \in Nat /\ most >= Len(w)
  <2> DEFINE y == Len(w)
  <2>1. MaxFps \in Nat /\ y \in Nat /\ 2 * y >= y
    BY LimitsAssumption
  <2> HIDE DEF y
  <2>2. Larger(MaxFps, 2 * y) \in Nat /\ Larger(MaxFps, 2 * y) >= y
    BY <2>1 DEF Larger
  <2>. QED BY <2>2 DEF y
<1> HIDE DEF most, n
<1>3. d \in 0 .. Len(c) /\ (d = 0 \/ Len(c) - d = most)
  BY ONLY <1>2, c \in Seq(S), KeepLastIs DEF d
<1>4. n \in Seq(S) /\ Len(n) = Len(c) - d
  BY <1>1, <1>2, KeepLastIs
<1>5. \A i \in 1 .. Len(c) - d : n[i] = c[d + i]
  BY <1>1, <1>2, KeepLastIs
<1> HIDE DEF d
<1>6. d = 0 \/ Len(c) - d >= Len(w)
  BY <1>2, <1>3
<1>. QED BY <1>3, <1>4, <1>5, <1>6 DEF d, most, n

\* What a pass within a turn remembers of a window whose first entries were covered
\* covers all of it, and nothing new is confirmed.
LEMMA CoveredStored ==
    ASSUME NEW n \in Nat, NEW e, NEW c \in Seq(Fp(n)), NEW p \in Seq(Item(n)),
           NEW w \in Seq(Entries(n, e)), NEW l, NEW q, Covers(c, p, w, l, q)
    PROVE  LET al == MidAlign(c, p, w)
               c2 == MidFps(c, w, al)
               p2 == MidItems(w, al)
           IN  /\ Covers(c2, p2, w, Len(w), q)
               /\ p2[1] = p[1] /\ NoneNew(c, c2)
<1> DEFINE al == MidAlign(c, p, w)
           c2 == MidFps(c, w, al)
           p2 == MidItems(w, al)
           y  == Len(w)
           m  == Len(c)
           k  == Len(p)
           d  == Larger(m - Larger(MaxFps, 2 * y), 0)
<1>1. y \in Nat /\ m \in Nat /\ k \in Nat /\ Len(w) = y /\ Len(c) = m /\ Len(p) = k
  OBVIOUS
<1>2. al.start = l + 1 /\ al.adopted = <<>> /\ al.keep = p
  BY CoveredGoesOn
<1> HIDE DEF al
<1>3. l \in 1 .. y /\ q \in 0 .. l - 1 /\ k = l - q /\ EndsWith(c, w, q)
  BY DEF Covers
<1>4. /\ d \in 0 .. m /\ (d = 0 \/ m - d >= y)
      /\ c2 \in Seq(Fp(n)) /\ Len(c2) = m - d
      /\ \A i \in 1 .. m - d : c2[i] = c[d + i]
  <2>1. c \in Seq(Fp(n)) /\ Len(w) \in Nat /\ al.adopted = <<>>
    BY <1>1, <1>2
  <2>2. d \in 0 .. m /\ (d = 0 \/ m - d >= y)
    BY ONLY <2>1, MidConfirmed DEF d, m, y
  <2>3. c2 \in Seq(Fp(n)) /\ Len(c2) = m - d
    BY ONLY <2>1, MidConfirmed DEF d, m, y, c2
  <2>4. \A i \in 1 .. m - d : c2[i] = c[d + i]
    BY ONLY <2>1, MidConfirmed DEF d, m, y, c2
  <2>. QED BY <2>2, <2>3, <2>4
<1>5. /\ Len(p2) = k + (y - l) /\ \A j \in 1 .. k : p2[j] = p[j]
      /\ \A j \in 1 .. y - l : p2[k + j] = Unreplayed(w[l + j])
  <2>1. l \in 0 .. Len(w) /\ al.start = l + 1 /\ w \in Seq(Entries(n, e)) /\ al.keep \in Seq(Item(n))
    BY <1>1, <1>2, <1>3
  <2>2. Extends(p2, al.keep, w, l)
    BY <2>1, MidPending
  <2> HIDE DEF p2
  <2>. QED BY <1>2, <2>2 DEF Extends
<1> HIDE DEF c2, p2, d, y, m, k
<1>6. Len(p2) = y - q /\ Len(p2) > 0 /\ y > 0 /\ q \in Nat /\ q <= y - 1 /\ l \in Nat
  BY <1>1, <1>3, <1>5
<1>7. EndsWith(c2, w, q)
  <2>1. q <= m - d /\ m - d \in Nat
    BY <1>1, <1>3, <1>4, <1>6 DEF EndsWith
  <2>2. ASSUME NEW i \in 1 .. q PROVE c2[m - d - q + i] = w[i].fp
    <3>1. m - d - q + i \in 1 .. m - d /\ d + (m - d - q + i) = m - q + i
      BY <1>1, <1>4, <1>6, <2>1
    <3>2. c[m - q + i] = w[i].fp
      BY <1>1, <1>3 DEF EndsWith
    <3>. QED BY <1>4, <3>1, <3>2
  <2>. QED BY <1>4, <2>1, <2>2 DEF EndsWith
<1>8. \A x : (\A i \in 1 .. m : c[i] # x) => \A i \in 1 .. m - d : c2[i] # x
  <2>1. \A i \in 1 .. m - d : d + i \in 1 .. m
    BY <1>1, <1>4
  <2>. QED BY <1>4, <2>1
<1>9. Len(c2) = q \/ \A i \in 1 .. Len(c2) : c2[i] # w[q + 1].fp
  <2>1. m = q \/ \A i \in 1 .. m : c[i] # w[q + 1].fp
    BY <1>1 DEF Covers
  <2>2. m = q => m - d = q
    BY <1>1, <1>4, <1>6
  <2>. QED BY <1>4, <1>8, <2>1, <2>2
<1>10. ASSUME NEW j \in 1 .. Len(p2) PROVE p2[j].role = w[q + j].role
  <2>1. CASE j <= k
    <3>1. j \in 1 .. k
      BY <1>1, <1>5, <2>1
    <3>2. p[j].role = w[q + j].role
      BY <1>1, <3>1 DEF Covers
    <3>. QED BY <1>5, <3>1, <3>2
  <2>2. CASE j > k
    <3> DEFINE h == j - k
    <3>1. h \in 1 .. y - l /\ k + h = j /\ l + h = q + j
      <4>1. y \in Nat /\ l \in Nat /\ q \in Nat /\ k = l - q
        BY <1>1, <1>3, <1>6
      <4>2. j \in 1 .. y - q
        BY <1>6
      <4>. QED BY ONLY <2>2, <4>1, <4>2
    <3> HIDE DEF h
    <3>2. p2[j] = Unreplayed(w[q + j])
      BY <1>5, <3>1
    <3>. QED BY <3>2 DEF Unreplayed
  <2>. QED BY <1>1, <1>5, <1>6, <2>1, <2>2
<1>11. p2[Len(p2)].fp = w[y].fp
  <2>1. CASE l = y
    <3>1. p[k].fp = w[y].fp
      BY <1>1, <2>1 DEF Covers
    <3>2. Len(p2) = k /\ k \in 1 .. k
      BY <1>1, <1>3, <1>5, <2>1
    <3>. QED BY <1>5, <3>1, <3>2
  <2>2. CASE l < y
    <3> DEFINE h == y - l
    <3>1. h \in 1 .. h /\ l + h = y /\ Len(p2) = k + h
      BY <1>1, <1>3, <1>5, <1>6, <2>2
    <3>2. p2[k + h] = Unreplayed(w[l + h])
      BY <1>5, <3>1
    <3> HIDE DEF h
    <3>. QED BY <3>1, <3>2 DEF Unreplayed
  <2>. QED BY <1>1, <1>3, <2>1, <2>2
<1>12. Covers(c2, p2, w, y, q)
  <2>1. y \in 1 .. y /\ q \in 0 .. y - 1
    BY <1>1, <1>6
  <2>. QED BY <1>1, <1>6, <1>7, <1>9, <1>10, <1>11, <2>1 DEF Covers
<1>13. p2[1] = p[1]
  <2>1. 1 \in 1 .. k
    BY <1>1, <1>3
  <2>. QED BY <1>5, <2>1
<1>14. NoneNew(c, c2)
  BY <1>1, <1>4, <1>8 DEF NoneNew
<1>. QED BY <1>12, <1>13, <1>14 DEF al, c2, p2, y

\* A pass within a turn that finds no memory makes all of the window pending.
LEMMA FreshStored ==
    ASSUME NEW T, NEW w \in Seq(T), w # <<>>, NEW al,
           al.start = 1, al.adopted = <<>>, al.keep = <<>>
    PROVE  /\ Covers(MidFps(<<>>, w, al), MidItems(w, al), w, Len(w), 0)
           /\ MidItems(w, al)[1] = Unreplayed(w[1])
<1> DEFINE c2 == MidFps(<<>>, w, al)
           p2 == MidItems(w, al)
           y  == Len(w)
           b  == <<>>
<1>1. y \in Nat /\ y > 0 /\ Len(w) = y /\ b \in Seq(Nat) /\ Len(b) = 0
  OBVIOUS
<1>2. Len(c2) = 0
  <2> HIDE DEF b
  <2> DEFINE d == Larger(Len(b) - Larger(MaxFps, 2 * Len(w)), 0)
  <2>1. b \in Seq(Nat) /\ Len(w) \in Nat /\ al.adopted = <<>>
    BY <1>1
  <2>2. d \in 0 .. Len(b)
    BY ONLY <2>1, MidConfirmed DEF d
  <2>3. Len(MidFps(b, w, al)) = Len(b) - d
    BY ONLY <2>1, MidConfirmed DEF d
  <2> HIDE DEF d
  <2>4. Len(MidFps(b, w, al)) = 0
    <3>1. Len(b) = 0
      BY <1>1
    <3>2. d = 0
      BY ONLY <2>2, <3>1
    <3>. QED BY ONLY <2>3, <3>1, <3>2
  <2>. QED BY <2>4 DEF b
<1>3. Len(p2) = y /\ \A j \in 1 .. y : p2[j] = Unreplayed(w[j])
  <2>1. 0 \in 0 .. Len(w) /\ al.start = 0 + 1 /\ w \in Seq(T) /\ al.keep \in Seq(Nat)
    BY <1>1
  <2>2. Extends(p2, al.keep, w, 0)
    BY <2>1, MidPending
  <2> HIDE DEF p2
  <2>3. /\ Len(p2) = Len(al.keep) + (Len(w) - 0)
        /\ \A j \in 1 .. Len(w) - 0 : p2[Len(al.keep) + j] = Unreplayed(w[0 + j])
    BY <2>2 DEF Extends
  <2>4. Len(al.keep) = 0 /\ Len(w) - 0 = y
    BY <1>1
  <2> HIDE DEF y
  <2>5. Len(p2) = y
    BY <1>1, <2>3, <2>4
  <2>6. ASSUME NEW j \in 1 .. y PROVE p2[j] = Unreplayed(w[j])
    <3>1. p2[0 + j] = Unreplayed(w[0 + j])
      BY <2>3, <2>4
    <3>2. 0 + j = j
      OBVIOUS
    <3>. QED BY <3>1, <3>2
  <2>. QED BY <2>5, <2>6
<1> HIDE DEF c2, p2, y
<1>4. Covers(c2, p2, w, y, 0)
  <2>1. y \in 1 .. y /\ 0 \in 0 .. y - 1 /\ Len(p2) = y - 0
    BY <1>1, <1>3
  <2>2. EndsWith(c2, w, 0)
    BY <1>2 DEF EndsWith
  <2>3. ASSUME NEW j \in 1 .. Len(p2) PROVE p2[j].role = w[0 + j].role
    <3>1. 0 + j = j /\ j \in 1 .. y
      BY <1>3
    <3>. QED BY <1>3, <3>1 DEF Unreplayed
  <2>4. p2[Len(p2)].fp = w[y].fp
    BY <1>3, <2>1 DEF Unreplayed
  <2>. QED BY <1>1, <1>2, <2>1, <2>2, <2>3, <2>4 DEF Covers
<1>5. p2[1] = Unreplayed(w[1])
  BY <1>1, <1>3
<1>. QED BY <1>4, <1>5 DEF c2, p2, y

-----------------------------------------------------------------------------
(* What a pass does to the memory and to the rows.                         *)

\* The rows of session s, none when it has not started.
RowsAt(a, s) == IF s \in 1 .. Len(a.sessions) THEN a.sessions[s].rows ELSE <<>>

\* The rows a pass inserts for the entries of window w after the first l.
Rows(w, l) == [i \in 1 .. Len(w) - l |-> [role |-> w[l + i].role, srcs |-> w[l + i].srcs]]

RowsStay(a, z) == \A s \in Nat : RowsAt(z, s) = RowsAt(a, s)
RowsAdded(a, z, k, w, l) ==
    /\ RowsAt(z, z.sid[k]) = RowsAt(a, z.sid[k]) \o Rows(w, l)
    /\ \A s \in Nat : s # z.sid[k] => RowsAt(z, s) = RowsAt(a, s)

\* What is remembered of conversation j stays, or all of it goes.
Same(a, z, j) == /\ z.confirmed[j] = a.confirmed[j] /\ z.pending[j] = a.pending[j]
                 /\ z.sid[j] = a.sid[j]
Cleared(z, j) == z.confirmed[j] = <<>> /\ z.pending[j] = <<>> /\ z.sid[j] = NoSession
Others(a, z, k) == \A j \in Keys \ {k} : Same(a, z, j) \/ Cleared(z, j)

LEMMA OthersCompose ==
    ASSUME NEW a, NEW b, NEW c, NEW k, Others(a, b, k), Others(b, c, k)
    PROVE  Others(a, c, k)
<1>1. ASSUME NEW j \in Keys \ {k} PROVE Same(a, c, j) \/ Cleared(c, j)
  <2>1. (Same(a, b, j) \/ Cleared(b, j)) /\ (Same(b, c, j) \/ Cleared(c, j))
    BY DEF Others
  <2>. QED BY <2>1 DEF Same, Cleared
<1>. QED BY <1>1 DEF Others

\* Ending sessions leaves their rows.
LEMMA EndedRows ==
    ASSUME NEW B, NEW n \in Nat, NEW a, ArchOK(B, a, n), NEW z, NEW ids,
           z.sessions = Ended(a.sessions, ids)
    PROVE  RowsStay(a, z)
<1>1. a.sessions \in Seq(Session)
  BY ArchDef
<1>2. /\ Len(z.sessions) = Len(a.sessions)
      /\ \A s \in 1 .. Len(a.sessions) : z.sessions[s].rows = a.sessions[s].rows
  BY <1>1, EndedTyped
<1>. QED BY <1>2 DEF RowsStay, RowsAt

LEMMA ReleaseIs ==
    ASSUME NEW B, NEW n \in Nat, NEW a, ArchOK(B, a, n), NEW k \in Keys, NEW fault
    PROVE  LET b == Release(a, k, fault)
           IN  RowsStay(a, b) /\ Cleared(b, k) /\ Others(a, b, k) /\ b.lastPass = a.lastPass
<1> DEFINE b == Release(a, k, fault)
<1>1. /\ a \in MemoryType(n)
      /\ a.confirmed \in [Keys -> Seq(Fp(n))] /\ a.pending \in [Keys -> Seq(Item(n))]
      /\ a.sid \in [Keys -> Nat]
  BY ArchDef
<1>2. /\ b.sessions = Ended(a.sessions, Stamped({a.sid[k]}, fault)) /\ b.sid = [a.sid EXCEPT ![k] = NoSession]
      /\ b.confirmed = [a.confirmed EXCEPT ![k] = <<>>]
      /\ b.pending = [a.pending EXCEPT ![k] = <<>>] /\ b.lastPass = a.lastPass
  BY <1>1 DEF Release, MemoryType
<1> HIDE DEF b
<1>3. Cleared(b, k) /\ \A j \in Keys \ {k} : Same(a, b, j)
  BY <1>1, <1>2 DEF Cleared, Same
<1>4. RowsStay(a, b)
  BY <1>2, EndedRows
<1>. QED BY <1>2, <1>3, <1>4 DEF Others, b

LEMMA StartIs ==
    ASSUME NEW B, NEW n \in Nat, NEW a, ArchOK(B, a, n), NEW k \in Keys
    PROVE  LET b == StartSession(a, k)
           IN  /\ RowsStay(a, b) /\ Others(a, b, k) /\ b.lastPass = a.lastPass
               /\ b.confirmed[k] = a.confirmed[k] /\ b.pending[k] = a.pending[k]
               /\ b.sid[k] = Len(a.sessions) + 1
<1> DEFINE b == StartSession(a, k)
           left == {s \in DOMAIN a.sessions : a.sessions[s].key = k}
           ss == Ended(a.sessions, left)
           new == [key |-> k, ended |-> FALSE, rows |-> <<>>]
           m == Len(a.sessions)
<1>1. /\ a \in MemoryType(n) /\ a.sid \in [Keys -> Nat]
      /\ a.sessions \in Seq(Session) /\ m \in Nat
  BY ArchDef
<1>2. /\ b.sessions = Append(ss, new) /\ b.sid = [a.sid EXCEPT ![k] = m + 1]
      /\ b.confirmed = a.confirmed /\ b.pending = a.pending /\ b.lastPass = a.lastPass
  BY <1>1 DEF StartSession, MemoryType
<1>3. /\ ss \in Seq(Session) /\ Len(ss) = m
      /\ \A s \in 1 .. m : ss[s].rows = a.sessions[s].rows
  <2> HIDE DEF left
  <2>. QED BY <1>1, EndedTyped
<1> HIDE DEF b, ss, left
<1>4. new \in Session /\ new.rows = <<>>
  BY DEF Session
<1>5. /\ Len(b.sessions) = m + 1 /\ b.sessions[m + 1] = new
      /\ \A s \in 1 .. m : b.sessions[s] = ss[s]
  <2> HIDE DEF new
  <2>. QED BY <1>1, <1>2, <1>3, <1>4
<1> HIDE DEF new
<1>6. RowsStay(a, b)
  <2> SUFFICES ASSUME NEW s \in Nat PROVE RowsAt(b, s) = RowsAt(a, s)
    BY DEF RowsStay
  <2>1. CASE s \in 1 .. m
    BY <1>1, <1>3, <1>5, <2>1 DEF RowsAt
  <2>2. CASE s = m + 1
    BY <1>1, <1>4, <1>5, <2>2 DEF RowsAt
  <2>3. CASE s \notin 1 .. m + 1
    BY <1>1, <1>5, <2>3 DEF RowsAt
  <2>. QED BY <1>1, <2>1, <2>2, <2>3
<1>7. Others(a, b, k)
  BY <1>1, <1>2 DEF Others, Same
<1>8. b.sid[k] = m + 1
  BY <1>1, <1>2
<1>. QED BY <1>2, <1>6, <1>7, <1>8 DEF b

\* What a pass that stored its window remembers of it.
Recalls(a, z, k, w, al, midTurn) ==
    /\ z.confirmed[k] = NewConfirmed(a.confirmed[k], w, al, midTurn)
    /\ z.pending[k] = NewPending(w, al, midTurn)
    /\ z.sid[k] = a.sid[k] /\ z.lastPass = <<k, Len(w)>>

\* The rest of a pass once every insert has landed.
LEMMA StoreIs ==
    ASSUME NEW B, NEW n \in Nat, NEW a, ArchOK(B, a, n), NEW k \in Keys, a.sid[k] # NoSession,
           NEW T, NEW w \in Seq(T), NEW al, al.start \in 1 .. Len(w) + 1, NEW midTurn, NEW fault
    PROVE  LET z == Store(a, k, w, al, midTurn, fault)
           IN  /\ Recalls(a, z, k, w, al, midTurn)
               /\ RowsAdded(a, z, k, w, al.start - 1) /\ Others(a, z, k)
<1> DEFINE fresh == SubSeq(w, al.start, Len(w))
           rows == [i \in DOMAIN fresh |-> [role |-> fresh[i].role, srcs |-> fresh[i].srcs]]
           c == NewConfirmed(a.confirmed[k], w, al, midTurn)
           p == NewPending(w, al, midTurn)
           b == [a EXCEPT !.sessions[a.sid[k]].rows = @ \o rows,
                          !.confirmed[k] = c, !.pending[k] = p]
           idle == Evicted(a.order, k, TRUE, Cap)
           ids == Stamped({b.sid[j] : j \in idle}, fault)
           z == Store(a, k, w, al, midTurn, fault)
           s == a.sid[k]
           m == Len(a.sessions)
<1>1. /\ a \in MemoryType(n) /\ a.sid \in [Keys -> Nat] /\ a.order \in Recency(Keys)
      /\ Len(a.order) <= Cap
      /\ a.confirmed \in [Keys -> Seq(Fp(n))] /\ a.pending \in [Keys -> Seq(Item(n))]
      /\ a.sessions \in Seq(Session) /\ m \in Nat /\ DOMAIN a.sessions = 1 .. m
      /\ \A t \in 1 .. m : a.sessions[t] \in Session
  BY ArchDef
<1>2. z = [EvictIdle(b, k, fault) EXCEPT !.lastPass = <<k, Len(w)>>]
  BY DEF Store, NewConfirmed, NewPending
<1>3. s \in 1 .. m
  BY ArchParts DEF KeyOK
<1> HIDE DEF c, p, rows
<1>4. /\ b.sessions = [a.sessions EXCEPT ![s] = [a.sessions[s] EXCEPT !.rows = @ \o rows]]
      /\ b.confirmed = [a.confirmed EXCEPT ![k] = c] /\ b.pending = [a.pending EXCEPT ![k] = p]
      /\ b.sid = a.sid /\ b.order = a.order
      /\ b = [a EXCEPT !.sessions = b.sessions, !.confirmed = b.confirmed, !.pending = b.pending]
  BY <1>1, <1>3 DEF MemoryType
<1> HIDE DEF b, z
<1>5. /\ z.sessions = Ended(b.sessions, ids) /\ z.lastPass = <<k, Len(w)>>
      /\ z.confirmed = [j \in Keys |-> IF j \in idle THEN <<>> ELSE b.confirmed[j]]
      /\ z.pending = [j \in Keys |-> IF j \in idle THEN <<>> ELSE b.pending[j]]
      /\ z.sid = [j \in Keys |-> IF j \in idle THEN NoSession ELSE b.sid[j]]
  BY <1>1, <1>2, <1>4 DEF EvictIdle, MemoryType
<1>6. idle \subseteq Keys \ {k}
  <2>1. Among(a.order) \subseteq Keys
    BY <1>1, RecencyDef
  <2>2. Evicted(a.order, k, TRUE, Cap) \subseteq Among(a.order) \ {k}
    BY <1>1, CapAssumption, TouchKeeps
  <2>. QED BY <2>1, <2>2
<1> HIDE DEF idle, ids
<1>7. z.confirmed[k] = c /\ z.pending[k] = p /\ z.sid[k] = s
  <2>1. k \in Keys /\ k \notin idle
    BY <1>6
  <2>2. z.confirmed[k] = b.confirmed[k] /\ z.pending[k] = b.pending[k] /\ z.sid[k] = b.sid[k]
    BY ONLY <1>5, <2>1
  <2>3. b.confirmed[k] = c
    BY ONLY <1>1, <1>4, <2>1
  <2>4. b.pending[k] = p
    BY ONLY <1>1, <1>4, <2>1
  <2>. QED BY <1>4, <2>2, <2>3, <2>4
<1>8. Others(a, z, k)
  <2>1. ASSUME NEW j \in Keys \ {k} PROVE Same(a, z, j) \/ Cleared(z, j)
    <3>1. j \in Keys /\ j # k
      OBVIOUS
    <3>2. CASE j \in idle
      <4>1. z.confirmed[j] = <<>> /\ z.pending[j] = <<>> /\ z.sid[j] = NoSession
        BY ONLY <1>5, <3>1, <3>2
      <4>. QED BY <4>1 DEF Cleared
    <3>3. CASE j \notin idle
      <4>1. z.confirmed[j] = b.confirmed[j] /\ z.pending[j] = b.pending[j] /\ z.sid[j] = b.sid[j]
        BY ONLY <1>5, <3>1, <3>3
      <4>2. b.confirmed[j] = a.confirmed[j] /\ b.pending[j] = a.pending[j]
        BY ONLY <1>1, <1>4, <3>1
      <4>. QED BY <1>4, <4>1, <4>2 DEF Same
    <3>. QED BY <3>2, <3>3
  <2>. QED BY <2>1 DEF Others
<1>9. rows = Rows(w, al.start - 1)
  <2>1. /\ Len(fresh) = Len(w) - (al.start - 1) /\ DOMAIN fresh = 1 .. Len(w) - (al.start - 1)
        /\ \A i \in 1 .. Len(w) - (al.start - 1) : fresh[i] = w[al.start - 1 + i]
    <3> DEFINE y == Len(w)
               f == al.start
    <3>1. y \in Nat /\ f \in Nat /\ 1 <= f /\ f <= y + 1 /\ \A i \in f .. y : w[i] \in T
      OBVIOUS
    <3>2. fresh = SubSeq(w, f, y)
      OBVIOUS
    <3> HIDE DEF fresh, y, f
    <3>3. /\ fresh \in Seq(T) /\ Len(fresh) = IF f <= y THEN y - f + 1 ELSE 0
          /\ \A i \in 1 .. y - f + 1 : fresh[i] = w[f + i - 1]
      BY <3>1, <3>2, SubSeqProperties
    <3>4. Len(fresh) = y - (f - 1) /\ y - f + 1 = y - (f - 1)
      BY <3>1, <3>3
    <3>5. ASSUME NEW i \in 1 .. y - (f - 1) PROVE fresh[i] = w[f - 1 + i]
      <4>1. i \in 1 .. y - f + 1 /\ f + i - 1 = f - 1 + i
        BY <3>1
      <4>. QED BY <3>3, <4>1
    <3>6. DOMAIN fresh = 1 .. y - (f - 1)
      BY <3>3, <3>4
    <3>. QED BY <3>4, <3>5, <3>6 DEF y, f
  <2> HIDE DEF fresh
  <2>2. DOMAIN rows = 1 .. Len(w) - (al.start - 1)
    BY <2>1 DEF rows
  <2>3. \A i \in 1 .. Len(w) - (al.start - 1) :
            rows[i] = [role |-> w[al.start - 1 + i].role, srcs |-> w[al.start - 1 + i].srcs]
    BY <2>1 DEF rows
  <2>4. rows = [i \in 1 .. Len(w) - (al.start - 1) |-> rows[i]]
    BY <2>2 DEF rows
  <2>. QED BY <2>3, <2>4 DEF Rows
<1>10. /\ Len(z.sessions) = m /\ z.sessions[s].rows = a.sessions[s].rows \o rows
       /\ \A t \in 1 .. m : t # s => z.sessions[t].rows = a.sessions[t].rows
  <2> DEFINE now == [a.sessions[s] EXCEPT !.rows = a.sessions[s].rows \o rows]
  <2>1. now.rows = a.sessions[s].rows \o rows
    BY <1>1, <1>3 DEF Session
  <2>2. \A t \in 1 .. m : z.sessions[t].rows = b.sessions[t].rows
    <3>1. DOMAIN b.sessions = 1 .. m
      BY <1>1, <1>4
    <3>2. ASSUME NEW t \in 1 .. m PROVE z.sessions[t].rows = b.sessions[t].rows
      <4>1. z.sessions[t] = [b.sessions[t] EXCEPT !.ended = @ \/ t \in ids]
        BY <1>5, <3>1 DEF Ended
      <4>2. b.sessions[t] = IF t = s THEN now ELSE a.sessions[t]
        BY <1>1, <1>4
      <4>3. a.sessions[t] \in [key : Keys, ended : BOOLEAN, rows : Seq(Row)]
        BY <1>1 DEF Session
      <4>4. a.sessions[s] \in [key : Keys, ended : BOOLEAN, rows : Seq(Row)]
        BY <1>1, <1>3 DEF Session
      <4>. QED BY <4>1, <4>2, <4>3, <4>4
    <3>. QED BY <3>2
  <2>3. DOMAIN z.sessions = 1 .. m
    BY <1>1, <1>4, <1>5 DEF Ended
  <2>4. Len(z.sessions) = m
    <3>1. z.sessions = [t \in 1 .. m |-> z.sessions[t]]
      <4>1. DOMAIN b.sessions = 1 .. m
        BY <1>1, <1>4
      <4>. QED BY <1>5, <4>1 DEF Ended
    <3>2. z.sessions \in Seq({z.sessions[t] : t \in 1 .. m}) /\ Len(z.sessions) = m
      <4> DEFINE R == {z.sessions[t] : t \in 1 .. m}
      <4>1. \A t \in 1 .. m : z.sessions[t] \in R
        OBVIOUS
      <4> HIDE DEF R
      <4>. QED BY <1>1, <3>1, <4>1, FunIsSeq DEF R
    <3>. QED BY <3>2
  <2>5. b.sessions[s] = now /\ \A t \in 1 .. m : t # s => b.sessions[t] = a.sessions[t]
    BY <1>1, <1>3, <1>4
  <2> HIDE DEF now
  <2>. QED BY <1>3, <2>1, <2>2, <2>4, <2>5
<1>11. RowsAdded(a, z, k, w, al.start - 1)
  <2>1. RowsAt(z, s) = RowsAt(a, s) \o rows
    BY <1>3, <1>10 DEF RowsAt
  <2>2. ASSUME NEW t \in Nat, t # s PROVE RowsAt(z, t) = RowsAt(a, t)
    BY <1>10, <2>2 DEF RowsAt
  <2>. QED BY <1>7, <1>9, <2>1, <2>2 DEF RowsAdded
<1>12. Recalls(a, z, k, w, al, midTurn)
  <2> HIDE DEF z
  <2>. QED BY <1>5, <1>7 DEF Recalls, c, p, s
<1>. QED BY <1>5, <1>7, <1>8, <1>11, <1>12 DEF z

\* A whole pass that stored what alignment al left to store.
SessionAfter(a, k, al) ==
    IF IsNew(al) \/ a.sid[k] = NoSession THEN Len(a.sessions) + 1 ELSE a.sid[k]
Base(al, c) == IF IsNew(al) THEN <<>> ELSE c
Stored(a, z, k, w, al, c, p) ==
    /\ z.confirmed[k] = c /\ z.pending[k] = p /\ z.lastPass = <<k, Len(w)>>
    /\ z.sid[k] = SessionAfter(a, k, al) /\ RowsAdded(a, z, k, w, al.start - 1)

\* A pass that raised.
Unstored(a, z, k) ==
    /\ RowsStay(a, z) /\ z.lastPass = a.lastPass
    /\ \/ z.confirmed[k] = a.confirmed[k] /\ z.pending[k] = a.pending[k]
       \/ z.confirmed[k] = <<>> /\ z.pending[k] = <<>>

\* A pass that let go of the session let go of what it held.
Forgets(z, k, al) == IsNew(al) => z.confirmed[k] = <<>> /\ z.pending[k] = <<>>
PassRaised(a, z, k, al, fault) == Unstored(a, z, k) /\ Forgets(z, k, al) /\ fault # "none"

LEMMA ArchiveIs ==
    ASSUME NEW B, NEW n \in Nat, NEW a, ArchOK(B, a, n), a.ok = TRUE, NEW k \in Keys, NEW e,
           NEW w \in Seq(Entries(n, e)), w # <<>>, NEW midTurn \in BOOLEAN, NEW fault
    PROVE  LET al == Align(a.confirmed[k], a.pending[k], w, midTurn)
               z == Archive(a, k, w, midTurn, fault)
           IN  /\ Others(a, z, k) /\ z.ok \in BOOLEAN
               /\ z.ok = TRUE =>
                    Stored(a, z, k, w, al, NewConfirmed(Base(al, a.confirmed[k]), w, al, midTurn),
                           NewPending(w, al, midTurn))
               /\ z.ok # TRUE => PassRaised(a, z, k, al, fault)
<1> DEFINE al == Align(a.confirmed[k], a.pending[k], w, midTurn)
           b == IF al.isNew THEN Release(a, k, fault) ELSE a
           c == IF b.sid[k] = NoSession THEN StartSession(b, k) ELSE b
           z == Archive(a, k, w, midTurn, fault)
           base == Base(al, a.confirmed[k])
<1>1. z = IF b.sid[k] = NoSession /\ fault = "start" THEN [b EXCEPT !.ok = FALSE]
          ELSE IF al.start <= Len(w) /\ fault = "insert" THEN [c EXCEPT !.ok = FALSE]
          ELSE Store(c, k, w, al, midTurn, fault)
  BY DEF Archive
<1>2. al.start \in 1 .. Len(w) + 1
  <2>1. a.confirmed[k] \in Seq(Fp(n)) /\ a.pending[k] \in Seq(Item(n))
    BY ArchDef
  <2>. QED BY <2>1, AlignTyped
<1>3. a.sid[k] = NoSession => a.confirmed[k] = <<>> /\ a.pending[k] = <<>>
  BY ArchParts DEF KeyOK
<1> HIDE DEF al
<1>4. /\ ArchOK(B, b, n) /\ RowsStay(a, b) /\ Others(a, b, k) /\ b.lastPass = a.lastPass /\ b.ok = TRUE
      /\ b.confirmed[k] = base /\ Len(b.sessions) = Len(a.sessions)
      /\ al.isNew => Cleared(b, k)
      /\ ~al.isNew => b.sid[k] = a.sid[k] /\ b.pending[k] = a.pending[k]
  <2>1. CASE al.isNew
    <3> DEFINE d == Release(a, k, fault)
    <3>1. ArchOK(B, d, n) /\ Moves(a, d, k, {}, "release") /\ d.ok = a.ok
      BY ReleaseKept
    <3>2. RowsStay(a, d) /\ Cleared(d, k) /\ Others(a, d, k) /\ d.lastPass = a.lastPass
      BY ReleaseIs
    <3>3. Len(d.sessions) = Len(a.sessions)
      BY <3>1 DEF Moves
    <3>4. b = d /\ base = <<>>
      BY <2>1 DEF Base, IsNew
    <3> HIDE DEF b, base, d
    <3>. QED BY <2>1, <3>1, <3>2, <3>3, <3>4 DEF Cleared
  <2>2. CASE ~al.isNew
    <3>1. b = a /\ base = a.confirmed[k]
      BY <2>2 DEF Base, IsNew
    <3>2. RowsStay(a, a) /\ Others(a, a, k)
      BY DEF RowsStay, Others, Same
    <3> HIDE DEF b, base
    <3>. QED BY <2>2, <3>1, <3>2
  <2>. QED BY <2>1, <2>2
<1>5. b.sid[k] = NoSession <=> al.isNew \/ a.sid[k] = NoSession
  BY <1>4 DEF Cleared
<1>6. /\ \/ base = a.confirmed[k] /\ b.pending[k] = a.pending[k]
         \/ base = <<>> /\ b.pending[k] = <<>>
      /\ al.isNew => base = <<>> /\ b.pending[k] = <<>>
  BY <1>4 DEF Cleared
<1> HIDE DEF b
<1>7. b.sid[k] = NoSession => base = <<>> /\ b.pending[k] = <<>>
  BY <1>4, ArchParts DEF KeyOK
<1> HIDE DEF base
<1>8. /\ ArchOK(B, c, n) /\ RowsStay(a, c) /\ Others(a, c, k) /\ c.lastPass = a.lastPass
      /\ c.confirmed[k] = base /\ c.pending[k] = b.pending[k]
      /\ c.sid[k] = SessionAfter(a, k, al) /\ c.sid[k] # NoSession
  <2>1. CASE b.sid[k] = NoSession
    <3> DEFINE d == StartSession(b, k)
    <3>1. ArchOK(B, d, n) /\ d.sid[k] # NoSession
      BY <1>4, <2>1, StartKept
    <3>2. /\ RowsStay(b, d) /\ Others(b, d, k) /\ d.lastPass = b.lastPass
          /\ d.confirmed[k] = b.confirmed[k] /\ d.pending[k] = b.pending[k]
          /\ d.sid[k] = Len(b.sessions) + 1
      BY <1>4, StartIs
    <3>3. c = d
      BY <2>1
    <3> HIDE DEF c, d
    <3>4. RowsStay(a, d) /\ Others(a, d, k)
      BY <1>4, <3>2, OthersCompose DEF RowsStay
    <3>5. d.sid[k] = SessionAfter(a, k, al)
      BY <1>4, <1>5, <2>1, <3>2 DEF SessionAfter, IsNew
    <3>. QED BY <1>4, <3>1, <3>2, <3>3, <3>4, <3>5
  <2>2. CASE b.sid[k] # NoSession
    <3>1. c = b
      BY <2>2
    <3>2. b.sid[k] = SessionAfter(a, k, al)
      BY <1>4, <1>5, <2>2 DEF SessionAfter, IsNew
    <3> HIDE DEF c
    <3>. QED BY <1>4, <2>2, <3>1, <3>2
  <2>. QED BY <2>1, <2>2
<1> HIDE DEF c, z
<1>9. CASE b.sid[k] = NoSession /\ fault = "start"
  <2>1. z = [b EXCEPT !.ok = FALSE] /\ b \in MemoryType(n)
    BY <1>1, <1>4, <1>9, ArchDef
  <2>2. /\ z.sid = b.sid /\ z.sessions = b.sessions /\ z.ok = FALSE /\ z.lastPass = b.lastPass
        /\ z.confirmed = b.confirmed /\ z.pending = b.pending
    BY <2>1 DEF MemoryType
  <2>3. Others(a, z, k) /\ RowsStay(a, z)
    BY <1>4, <2>2 DEF Others, Same, Cleared, RowsStay, RowsAt
  <2>4. Unstored(a, z, k) /\ Forgets(z, k, al)
    BY <1>4, <1>6, <2>2, <2>3 DEF Unstored, Forgets, IsNew
  <2>. QED BY <1>9, <2>2, <2>3, <2>4 DEF PassRaised, z, al
<1>10. CASE ~(b.sid[k] = NoSession /\ fault = "start") /\ al.start <= Len(w) /\ fault = "insert"
  <2>1. z = [c EXCEPT !.ok = FALSE] /\ c \in MemoryType(n)
    BY <1>1, <1>8, <1>10, ArchDef
  <2>2. /\ z.sid = c.sid /\ z.sessions = c.sessions /\ z.ok = FALSE /\ z.lastPass = c.lastPass
        /\ z.confirmed = c.confirmed /\ z.pending = c.pending
    BY <2>1 DEF MemoryType
  <2>3. Others(a, z, k) /\ RowsStay(a, z)
    BY <1>8, <2>2 DEF Others, Same, Cleared, RowsStay, RowsAt
  <2>4. Unstored(a, z, k) /\ Forgets(z, k, al)
    BY <1>6, <1>8, <2>2, <2>3 DEF Unstored, Forgets, IsNew
  <2>. QED BY <1>10, <2>2, <2>3, <2>4 DEF PassRaised, z, al
<1>11. CASE /\ ~(b.sid[k] = NoSession /\ fault = "start")
            /\ ~(al.start <= Len(w) /\ fault = "insert")
  <2>1. z = Store(c, k, w, al, midTurn, fault)
    BY <1>1, <1>11
  <2>2. /\ z.confirmed[k] = NewConfirmed(c.confirmed[k], w, al, midTurn)
        /\ z.pending[k] = NewPending(w, al, midTurn)
        /\ z.sid[k] = c.sid[k] /\ z.lastPass = <<k, Len(w)>>
        /\ RowsAdded(c, z, k, w, al.start - 1) /\ Others(c, z, k)
    <3> DEFINE d == Store(c, k, w, al, midTurn, fault)
    <3>1. /\ n \in Nat /\ ArchOK(B, c, n) /\ k \in Keys /\ c.sid[k] # NoSession
          /\ w \in Seq(Entries(n, e)) /\ al.start \in 1 .. Len(w) + 1
      BY <1>2, <1>8
    <3>2. Recalls(c, d, k, w, al, midTurn)
      BY ONLY <3>1, StoreIs
    <3>4. RowsAdded(c, d, k, w, al.start - 1)
      BY ONLY <3>1, StoreIs
    <3>6. Others(c, d, k)
      BY ONLY <3>1, StoreIs
    <3> HIDE DEF d
    <3>5. z = d
      BY <2>1 DEF d
    <3>. QED BY <3>2, <3>4, <3>5, <3>6 DEF Recalls
  <2>3. Others(a, z, k)
    BY <1>8, <2>2, OthersCompose
  <2>4. RowsAdded(a, z, k, w, al.start - 1)
    <3>1. c.sid[k] \in Nat
      <4>1. ArchOK(B, c, n) /\ n \in Nat
        BY <1>8
      <4>2. c.sid \in [Keys -> Nat]
        BY ONLY <4>1, ArchDef
      <4>. QED BY <4>2
    <3>2. RowsAt(c, z.sid[k]) = RowsAt(a, z.sid[k])
      BY <1>8, <2>2, <3>1 DEF RowsStay
    <3>3. \A s \in Nat : RowsAt(c, s) = RowsAt(a, s)
      BY <1>8 DEF RowsStay
    <3>. QED BY <2>2, <3>2, <3>3 DEF RowsAdded
  <2>5. Stored(a, z, k, w, al, NewConfirmed(base, w, al, midTurn), NewPending(w, al, midTurn))
    BY <1>8, <2>2, <2>4 DEF Stored
  <2>6. z.ok = TRUE
    <3>1. z.ok = c.ok
      BY <1>8, <2>1, ArchDef DEF Store, EvictIdle, MemoryType
    <3>2. c.ok = TRUE
      BY <1>4, ArchDef DEF c, StartSession, MemoryType
    <3>. QED BY <3>1, <3>2
  <2>. QED BY <2>3, <2>5, <2>6 DEF z, base, al
<1>. QED BY <1>9, <1>10, <1>11

\* A pass after one that raised, which stored the whole window anew.
StoredAnew(a, z, k, w) ==
    \E al : /\ StartsOver(al)
            /\ z.confirmed[k] = FirstFps(<<>>, w, al) /\ z.pending[k] = FirstItems(w, al)
            /\ z.lastPass = <<k, Len(w)>> /\ z.sid[k] # NoSession
            /\ RowsAdded(a, z, k, w, 0)

\* What a hook call of k comes to: its window stored, with or without a session left
\* unstamped, or a fault.
Counted(k, x, y) == faults' = faults + x /\ failed' = [failed EXCEPT ![k] = failed[k] + y]
Outcome(k, w, al, c, p) ==
    \/ (Counted(k, 0, 0) \/ Counted(k, 1, 0)) /\ Stored(Memory, Memory', k, w, al, c, p)
    \/ Counted(k, 1, 1) /\ Unstored(Memory, Memory', k) /\ Forgets(Memory', k, al)
    \/ (Counted(k, 1, 0) \/ Counted(k, 2, 0)) /\ StoredAnew(Memory, Memory', k, w)
    \/ Counted(k, 2, 1) /\ Unstored(Memory, Memory', k)

\* The second pass starts over: it finds no memory, or one its window does not continue.
LEMMA RetriedIs ==
    ASSUME NEW B, NEW n \in Nat, NEW a, ArchOK(B, a, n), a.ok = TRUE, NEW k \in Keys, NEW e,
           NEW w \in Seq(Entries(n, e)), w # <<>>, CurrentSession(a, k, w) = NoSession, NEW fault
    PROVE  LET z == Archive(a, k, w, FALSE, fault)
           IN  /\ Others(a, z, k) /\ z.ok \in BOOLEAN
               /\ z.ok = TRUE => StoredAnew(a, z, k, w) /\ z.sid[k] \in Nat
               /\ z.ok # TRUE => Unstored(a, z, k) /\ fault # "none"
<1> DEFINE z == Archive(a, k, w, FALSE, fault)
           al == FirstAlign(a.confirmed[k], a.pending[k], w)
           c == a.confirmed[k]
           p == a.pending[k]
<1>1. /\ c \in Seq(Fp(n)) /\ p \in Seq(Item(n))
      /\ a.sid[k] = NoSession => c = <<>> /\ p = <<>>
  <2>1. c \in Seq(Fp(n)) /\ p \in Seq(Item(n))
    BY ArchDef
  <2>. QED BY <2>1, ArchParts DEF KeyOK
<1>2. IsNew(al) \/ (c = <<>> /\ p = <<>>)
  BY <1>1 DEF CurrentSession, IsNew, FirstAlign
<1>3. StartsOver(al)
  BY <1>1, <1>2, AlignNothing
<1>4. Base(al, c) = <<>>
  BY <1>2 DEF Base
<1>5. /\ Others(a, z, k) /\ z.ok \in BOOLEAN
      /\ z.ok = TRUE => Stored(a, z, k, w, al, FirstFps(Base(al, c), w, al), FirstItems(w, al))
      /\ z.ok # TRUE => Unstored(a, z, k) /\ fault # "none"
  <2>1. FALSE \in BOOLEAN
    OBVIOUS
  <2>2. Others(a, z, k) /\ z.ok \in BOOLEAN
    BY <2>1, ArchiveIs
  <2>3. z.ok = TRUE => Stored(a, z, k, w, al, FirstFps(Base(al, c), w, al), FirstItems(w, al))
    BY <2>1, ArchiveIs DEF FirstAlign, FirstFps, FirstItems
  <2>4. z.ok # TRUE => Unstored(a, z, k) /\ fault # "none"
    <3>1. z.ok # TRUE => PassRaised(a, z, k, al, fault)
      BY <2>1, ArchiveIs DEF FirstAlign
    <3> HIDE DEF z, al
    <3>. QED BY <3>1 DEF PassRaised
  <2>. QED BY <2>2, <2>3, <2>4
<1>6. ASSUME z.ok = TRUE PROVE StoredAnew(a, z, k, w) /\ z.sid[k] \in Nat
  <2> HIDE DEF z
  <2>1. Stored(a, z, k, w, al, FirstFps(Base(al, c), w, al), FirstItems(w, al))
    BY <1>5, <1>6
  <2> HIDE DEF al, c
  <2>2. al.start - 1 = 0
    BY <1>3 DEF StartsOver
  <2>3. z.sid[k] # NoSession /\ z.sid[k] \in Nat
    <3>1. z.sid[k] = SessionAfter(a, k, al)
      BY <2>1 DEF Stored
    <3>2. Len(a.sessions) \in Nat /\ a.sid[k] \in Nat
      BY ArchDef
    <3>. QED BY <3>1, <3>2 DEF SessionAfter, NoSession
  <2>. QED BY <1>3, <1>4, <2>1, <2>2, <2>3 DEF StoredAnew, Stored
<1>. QED BY <1>5, <1>6

LEMMA HookIs ==
    ASSUME faults \in Nat, NEW B, NEW n \in Nat, ArchOK(B, Memory, n), NEW k \in Keys,
           NEW e \in Nat,
           NEW w \in Seq(Entries(n, e)), w # <<>>, NEW midTurn \in BOOLEAN,
           NEW fault, NEW syncFault,
           \/ Fits(B, Memory, k, e)
           \/ Align(confirmed[k], pending[k], w, midTurn).isNew,
           HookCall(k, w, midTurn, fault, syncFault)
    PROVE  LET al == Align(confirmed[k], pending[k], w, midTurn)
           IN  /\ Others(Memory, Memory', k)
               /\ Outcome(k, w, al, NewConfirmed(Base(al, confirmed[k]), w, al, midTurn),
                          NewPending(w, al, midTurn))
<1> DEFINE m == Memory
           z == Memory'
           a == Archive(m, k, w, midTurn, fault)
           a2 == [a EXCEPT !.ok = TRUE]
           b == IF CurrentSession(a, k, w) = NoSession
                THEN Archive(a2, k, w, FALSE, syncFault)
                ELSE a
           al == Align(confirmed[k], pending[k], w, midTurn)
           c == NewConfirmed(Base(al, confirmed[k]), w, al, midTurn)
           p == NewPending(w, al, midTurn)
<1>1. m.ok = TRUE /\ m.confirmed = confirmed /\ m.pending = pending
  BY DEF Memory
<1>2. /\ z = [order |-> b.order, confirmed |-> b.confirmed, pending |-> b.pending,
              sid |-> b.sid, lastPass |-> b.lastPass, sessions |-> b.sessions, ok |-> TRUE]
      /\ faults' = faults + (IF fault = "none" THEN 0 ELSE 1)
                           + (IF syncFault = "none" THEN 0 ELSE 1)
      /\ failed' = [failed EXCEPT ![k] = @ + (IF b.ok THEN 0 ELSE 1)]
      /\ CurrentSession(a, k, w) # NoSession => syncFault = "none"
  BY HookParts
<1> DEFINE f == IF fault = "none" THEN 0 ELSE 1
           g == IF syncFault = "none" THEN 0 ELSE 1
<1>0. f \in {0, 1} /\ g \in {0, 1} /\ faults' = faults + f + g
  BY <1>2
<1>10. f # 0 <=> fault # "none"
  OBVIOUS
<1>11. (g # 0 <=> syncFault # "none") /\ (g = 0 <=> syncFault = "none")
  OBVIOUS
<1> HIDE DEF m, z, f, g
<1>3. /\ ArchOK(B, a, n)
      /\ a.ok = TRUE => Shown(a, k, w)
  <2>1. \/ Fits(B, m, k, e)
        \/ Align(m.confirmed[k], m.pending[k], w, midTurn).isNew
    BY <1>1 DEF m
  <2>2. ArchOK(B, m, n)
    BY DEF m
  <2>3. ArchOK(B, a, n)
    BY <1>1, <2>1, <2>2, ArchiveKept
  <2>4. a.ok = TRUE => Shown(a, k, w)
    BY <1>1, <2>1, <2>2, ArchiveKept
  <2>. QED BY <2>3, <2>4
<1>4. /\ Others(m, a, k)
      /\ a.ok = TRUE => Stored(m, a, k, w, al, c, p)
      /\ a.ok # TRUE => Unstored(m, a, k) /\ Forgets(a, k, al) /\ fault # "none"
  <2>1. ArchOK(B, m, n)
    BY DEF m
  <2>2. Others(m, a, k)
    BY <1>1, <2>1, ArchiveIs
  <2>3. a.ok = TRUE => Stored(m, a, k, w, al, c, p)
    BY <1>1, <2>1, ArchiveIs
  <2>4. a.ok # TRUE => PassRaised(m, a, k, al, fault)
    BY <1>1, <2>1, ArchiveIs
  <2>5. PassRaised(m, a, k, al, fault) => Unstored(m, a, k) /\ Forgets(a, k, al) /\ fault # "none"
    BY DEF PassRaised
  <2> HIDE DEF a, al
  <2>. QED BY <2>2, <2>3, <2>4, <2>5
<1> HIDE DEF a, al, c, p
<1>5. a.ok \in BOOLEAN
  BY <1>3, ArchDef
<1>6. ASSUME b = a, a.ok # TRUE
      PROVE  Others(m, z, k) /\ Unstored(m, z, k) /\ Forgets(z, k, al)
  <2> HIDE DEF b
  <2>. QED BY <1>2, <1>4, <1>5, <1>6
           DEF Others, Same, Cleared, Unstored, Forgets, RowsStay, RowsAt
<1>7. CASE CurrentSession(a, k, w) # NoSession /\ a.ok = TRUE
  <2>1. b = a
    BY <1>7
  <2> HIDE DEF b
  <2>2. Others(m, z, k)
    BY <1>2, <1>4, <2>1 DEF Others, Same, Cleared
  <2>3. Stored(m, z, k, w, al, c, p)
    BY <1>2, <1>4, <1>7, <2>1 DEF Stored, RowsAdded, RowsAt
  <2>4. Counted(k, 0, 0) \/ Counted(k, 1, 0)
    <3>1. failed' = [failed EXCEPT ![k] = failed[k] + 0] /\ g = 0
      BY <1>2, <1>7, <1>11, <2>1
    <3>2. faults' = faults + 0 \/ faults' = faults + 1
      BY <1>0, <3>1
    <3>. QED BY <3>1, <3>2 DEF Counted
  <2>. QED BY <2>2, <2>3, <2>4 DEF Outcome, m, z, al, c, p
<1>8. CASE CurrentSession(a, k, w) # NoSession /\ a.ok # TRUE
  <2>1. b = a
    BY <1>8
  <2> HIDE DEF b
  <2>2. Others(m, z, k) /\ Unstored(m, z, k) /\ Forgets(z, k, al)
    BY <1>6, <1>8, <2>1
  <2>3. Counted(k, 1, 1)
    <3>1. failed' = [failed EXCEPT ![k] = failed[k] + 1] /\ g = 0 /\ f # 0
      BY <1>2, <1>4, <1>5, <1>8, <1>10, <1>11, <2>1
    <3>2. faults' = faults + 1
      BY <1>0, <3>1
    <3>. QED BY <3>1, <3>2 DEF Counted
  <2>. QED BY <2>2, <2>3 DEF Outcome, m, z, al, c, p
<1>9. CASE CurrentSession(a, k, w) = NoSession
  <2>1. a.ok # TRUE
    BY <1>3, <1>9 DEF Shown, CurrentSession
  <2>2. a \in MemoryType(n)
    BY <1>3, ArchDef
  <2>3. /\ a2.sid = a.sid /\ a2.sessions = a.sessions /\ a2.lastPass = a.lastPass
        /\ a2.confirmed = a.confirmed /\ a2.pending = a.pending /\ a2.ok = TRUE
    BY <2>2 DEF MemoryType
  <2>4. ArchOK(B, a2, n)
    BY <1>3, MarkKept
  <2>5. b = Archive(a2, k, w, FALSE, syncFault)
    BY <1>9
  <2> HIDE DEF a2, b
  <2>6. CurrentSession(a2, k, w) = NoSession
    BY <1>9, <2>3 DEF CurrentSession
  <2>7. /\ Others(a2, b, k) /\ b.ok \in BOOLEAN
        /\ b.ok = TRUE => StoredAnew(a2, b, k, w) /\ b.sid[k] \in Nat
        /\ b.ok # TRUE => Unstored(a2, b, k) /\ syncFault # "none"
    <3>1. Others(a2, b, k) /\ b.ok \in BOOLEAN
      BY <2>3, <2>4, <2>5, <2>6, RetriedIs
    <3>2. b.ok = TRUE => StoredAnew(a2, b, k, w) /\ b.sid[k] \in Nat
      BY <2>3, <2>4, <2>5, <2>6, RetriedIs
    <3>3. b.ok # TRUE => Unstored(a2, b, k) /\ syncFault # "none"
      BY <2>3, <2>4, <2>5, <2>6, RetriedIs
    <3>. QED BY <3>1, <3>2, <3>3
  <2>8. Unstored(m, a2, k) /\ Others(m, a2, k)
    BY <1>4, <2>1, <2>3 DEF Unstored, RowsStay, RowsAt, Others, Same, Cleared
  <2>9. Others(m, b, k)
    BY <2>7, <2>8, OthersCompose
  <2>10. Others(m, z, k)
    BY <1>2, <2>9 DEF Others, Same, Cleared
  <2>11. b.ok = TRUE \/ b.ok = FALSE
    BY <2>7
  <2>12. CASE b.ok = TRUE
    <3>1. PICK al2 : /\ StartsOver(al2)
                     /\ b.confirmed[k] = FirstFps(<<>>, w, al2) /\ b.pending[k] = FirstItems(w, al2)
                     /\ b.lastPass = <<k, Len(w)>> /\ b.sid[k] # NoSession
                     /\ RowsAdded(a2, b, k, w, 0)
      BY <2>7, <2>12 DEF StoredAnew
    <3>2. RowsAdded(m, z, k, w, 0)
      <4>1. b.sid[k] \in Nat
        BY <2>7, <2>12
      <4>. QED BY <1>2, <2>8, <3>1, <4>1 DEF RowsAdded, Unstored, RowsStay, RowsAt
    <3>3. StoredAnew(m, z, k, w)
      BY <1>2, <3>1, <3>2 DEF StoredAnew
    <3>4. Counted(k, 1, 0) \/ Counted(k, 2, 0)
      <4>1. failed' = [failed EXCEPT ![k] = failed[k] + 0] /\ f # 0
        BY <1>2, <1>4, <1>5, <1>9, <1>10, <2>1, <2>12
      <4>2. faults' = faults + 1 \/ faults' = faults + 2
        BY <1>0, <4>1
      <4>. QED BY <4>1, <4>2 DEF Counted
    <3>. QED BY <2>10, <3>3, <3>4 DEF Outcome, m, z, al, c, p
  <2>13. CASE b.ok = FALSE
    <3>1. Unstored(m, b, k)
      BY <2>7, <2>8, <2>13 DEF Unstored, RowsStay
    <3>2. Unstored(m, z, k)
      BY <1>2, <3>1 DEF Unstored, RowsStay, RowsAt
    <3>3. Counted(k, 2, 1)
      <4>1. failed' = [failed EXCEPT ![k] = failed[k] + 1] /\ f # 0 /\ g # 0
        BY <1>2, <1>4, <1>5, <1>9, <1>10, <1>11, <2>1, <2>7, <2>13
      <4>2. faults' = faults + 2
        BY <1>0, <4>1
      <4>. QED BY <4>1, <4>2 DEF Counted
    <3>. QED BY <2>10, <3>2, <3>3 DEF Outcome, m, z, al, c, p
  <2>. QED BY <2>11, <2>12, <2>13
<1>. QED BY <1>5, <1>7, <1>8, <1>9

-----------------------------------------------------------------------------
(* A turn's window and the history it replays.                             *)

\* Sequence hist is sequence h from position i.
TailFrom(hist, h, i) ==
    /\ i \in 1 .. Len(h) /\ Len(hist) = Len(h) - i + 1
    /\ \A j \in 1 .. Len(hist) : hist[j] = h[i - 1 + j]

\* A window is its history replayed and the message of the user, merged into
\* a history that ends with a user's.
Merges(hist) == hist # <<>> /\ hist[Len(hist)].role = "user"
PlainWindow(hist, m, w) ==
    /\ Len(w) = Len(hist) + 1 /\ w[Len(hist) + 1] = Live(m)
    /\ \A i \in 1 .. Len(hist) : w[i] = Replayed(hist[i])
MergedWindow(hist, m, w) ==
    /\ Len(w) = Len(hist) /\ w[Len(hist)] = MergedLive(hist[Len(hist)], m)
    /\ \A i \in 1 .. Len(hist) - 1 : w[i] = Replayed(hist[i])

LEMMA TailParts ==
    ASSUME NEW T, NEW h \in Seq(T), NEW hist \in LegalTails(h), hist # <<>>
    PROVE  \E i \in 1 .. Len(h) : TailFrom(hist, h, i) /\ h[i].role = "user"
<1>1. Len(h) \in Nat /\ DOMAIN h = 1 .. Len(h) /\ \A i \in 1 .. Len(h) : h[i] \in T
  OBVIOUS
<1>2. PICK i \in 1 .. Len(h) : hist = SubSeq(h, i, Len(h)) /\ h[i].role = "user"
  BY <1>1 DEF LegalTails
<1> DEFINE y == Len(h)
<1>3. y \in Nat /\ i \in 1 .. y /\ Len(h) = y
  BY <1>1
<1>4. \A j \in i .. y : h[j] \in T
  BY <1>1
<1> HIDE DEF y
<1>5. /\ hist \in Seq(T) /\ Len(hist) = IF i <= y THEN y - i + 1 ELSE 0
      /\ \A j \in 1 .. y - i + 1 : hist[j] = h[i + j - 1]
  BY <1>2, <1>3, <1>4, SubSeqProperties
<1>6. Len(hist) = y - i + 1
  BY <1>3, <1>5
<1>7. ASSUME NEW j \in 1 .. Len(hist) PROVE hist[j] = h[i - 1 + j]
  <2>1. j \in 1 .. y - i + 1 /\ i + j - 1 = i - 1 + j
    BY <1>3, <1>6
  <2>. QED BY <1>5, <2>1
<1>8. TailFrom(hist, h, i)
  BY <1>3, <1>6, <1>7 DEF TailFrom
<1>. QED BY <1>2, <1>8

LEMMA WindowParts ==
    ASSUME NEW n \in Nat, NEW e \in Nat, NEW hist \in Seq(Messages(n, e)), NEW m
    PROVE  IF Merges(hist) THEN MergedWindow(hist, m, BuildWindow(hist, m))
                           ELSE PlainWindow(hist, m, BuildWindow(hist, m))
<1> DEFINE past == [i \in DOMAIN hist |-> Replayed(hist[i])]
           y == Len(hist)
           T == {Replayed(hist[i]) : i \in 1 .. y} \cup {Live(m)}
           w == BuildWindow(hist, m)
<1>1. /\ y \in Nat /\ DOMAIN hist = 1 .. y /\ Len(hist) = y
      /\ \A i \in 1 .. y : hist[i] \in Messages(n, e)
  OBVIOUS
<1>2. past \in Seq(T) /\ Len(past) = y /\ \A i \in 1 .. y : past[i] = Replayed(hist[i])
  <2>1. past = [i \in 1 .. y |-> past[i]] /\ \A i \in 1 .. y : past[i] = Replayed(hist[i])
    BY <1>1
  <2>2. \A i \in 1 .. y : past[i] \in T
    BY <2>1
  <2> HIDE DEF past, T, y
  <2>. QED BY <1>1, <2>1, <2>2, FunIsSeq
<1>3. Live(m) \in T
  OBVIOUS
<1>4. hist # <<>> /\ Last(hist).role = "user" <=> Merges(hist)
  BY DEF Merges, Last
<1>5. w = IF hist # <<>> /\ Last(hist).role = "user"
          THEN Append(Front(past), MergedLive(Last(hist), m))
          ELSE Append(past, Live(m))
  BY DEF BuildWindow
<1> HIDE DEF past, w, T
<1>6. CASE ~Merges(hist)
  <2>1. w = Append(past, Live(m))
    BY <1>4, <1>5, <1>6
  <2> DEFINE x == Live(m)
  <2> HIDE DEF x
  <2>2. Len(w) = Len(past) + 1 /\ w[Len(past) + 1] = x /\ \A i \in 1 .. Len(past) : w[i] = past[i]
    BY <1>2, <1>3, <2>1 DEF x
  <2>3. PlainWindow(hist, m, w)
    BY <1>1, <1>2, <2>2 DEF PlainWindow, x
  <2>. QED BY <1>6, <2>3 DEF w
<1>7. CASE Merges(hist)
  <2>1. w = Append(Front(past), MergedLive(Last(hist), m)) /\ Last(hist) = hist[y]
    BY <1>4, <1>5, <1>7 DEF Last
  <2>2. y > 0
    BY <1>1, <1>7 DEF Merges
  <2> DEFINE x == MergedLive(Last(hist), m)
             front == Front(past)
  <2>3. front \in Seq(T) /\ Len(front) = y - 1 /\ \A i \in 1 .. y - 1 : front[i] = past[i]
    <3>1. front = SubSeq(past, 1, y - 1)
      BY <1>2 DEF Front
    <3>2. \A i \in 1 .. y - 1 : past[i] \in T
      BY <1>1, <1>2
    <3> HIDE DEF front, y
    <3>3. /\ front \in Seq(T) /\ Len(front) = IF 1 <= y - 1 THEN y - 1 - 1 + 1 ELSE 0
          /\ \A i \in 1 .. y - 1 - 1 + 1 : front[i] = past[1 + i - 1]
      BY <1>1, <1>2, <2>2, <3>1, <3>2, SubSeqProperties
    <3>4. y - 1 - 1 + 1 = y - 1 /\ \A i \in 1 .. y - 1 : 1 + i - 1 = i
      BY <1>1
    <3>. QED BY <1>1, <2>2, <3>3, <3>4
  <2>4. front \in Seq(T \cup {x}) /\ x \in T \cup {x}
    <3> HIDE DEF front, x
    <3>. QED BY <2>3, SeqGrow
  <2> HIDE DEF x, front
  <2>5. Len(w) = Len(front) + 1 /\ w[Len(front) + 1] = x /\ \A i \in 1 .. Len(front) : w[i] = front[i]
    BY <2>1, <2>4 DEF x, front
  <2> HIDE DEF y
  <2>6. y - 1 + 1 = y /\ \A i \in 1 .. y - 1 : i \in 1 .. y
    BY <1>1
  <2>7. MergedWindow(hist, m, w)
    BY <1>1, <1>2, <2>1, <2>3, <2>5, <2>6 DEF MergedWindow, x
  <2>. QED BY <1>7, <2>7 DEF w
<1>. QED BY <1>6, <1>7

\* The last entry of a turn's first window has never been seen, the other ones have.
LEMMA WindowUnseen ==
    ASSUME NEW n \in Nat, NEW e \in Nat, NEW hist \in Seq(Messages(n, e)),
           NEW m, m.role = "user", m.body = n + 1,
           hist = <<>> \/ hist[1].role = "user"
    PROVE  LET w == BuildWindow(hist, m)
           IN  /\ w # <<>> /\ Len(w) \in {Len(hist), Len(hist) + 1}
               /\ w[Len(w)].fp \notin Fp(n) /\ w[Len(w)].role = "user" /\ w[1].role = "user"
               /\ \A i \in 1 .. Len(w) - 1 : w[i] = Replayed(hist[i]) /\ w[i].fp \in Fp(n)
<1> DEFINE w == BuildWindow(hist, m)
           y == Len(hist)
<1>1. y \in Nat /\ Len(hist) = y /\ \A i \in 1 .. y : hist[i] \in Messages(n, e)
  OBVIOUS
<1>2. \A i \in 1 .. y : Replayed(hist[i]).fp \in Fp(n) /\ Replayed(hist[i]).role = hist[i].role
  <2>1. \A i \in 1 .. y : Replayed(hist[i]) \in Entries(n, e)
    BY <1>1, ShapesTyped
  <2>. QED BY <2>1 DEF Entries, Replayed, Entry
<1>3. ASSUME NEW S, n + 1 \in S PROVE <<"user", "live", S>> \notin Fp(n)
  <2>1. n + 1 \notin 1 .. n
    OBVIOUS
  <2>2. ~(S \subseteq 1 .. n)
    BY <1>3, <2>1
  <2>. QED BY <2>2 DEF Fp
<1> HIDE DEF w
<1>4. CASE ~Merges(hist)
  <2>1. PlainWindow(hist, m, w)
    BY <1>4, WindowParts DEF w
  <2> HIDE DEF y
  <2>2. Len(w) = y + 1 /\ w[y + 1] = Live(m) /\ \A i \in 1 .. y : w[i] = Replayed(hist[i])
    BY <1>1, <2>1 DEF PlainWindow
  <2>3. w # <<>> /\ Len(w) - 1 = y /\ y + 1 > 0
    BY <1>1, <2>2
  <2>4. w[Len(w)].fp \notin Fp(n) /\ w[Len(w)].role = "user"
    BY <1>3, <2>2 DEF Live, Entry
  <2>5. w[1].role = "user"
    <3>1. CASE hist = <<>>
      <4>1. y = 0
        BY <3>1 DEF y
      <4>. QED BY <2>2, <2>4, <4>1
    <3>2. CASE hist # <<>>
      <4>1. hist[1].role = "user" /\ 1 \in 1 .. y
        BY <1>1, <3>2
      <4>. QED BY <1>2, <2>2, <4>1
    <3>. QED BY <3>1, <3>2
  <2>6. Len(w) \in {Len(hist), Len(hist) + 1}
    BY <1>1, <2>2
  <2>. QED BY <1>2, <2>2, <2>3, <2>4, <2>5, <2>6 DEF w
<1>5. CASE Merges(hist)
  <2>1. MergedWindow(hist, m, w)
    BY <1>5, WindowParts DEF w
  <2> HIDE DEF y
  <2>2. Len(w) = y /\ w[y] = MergedLive(hist[y], m) /\ \A i \in 1 .. y - 1 : w[i] = Replayed(hist[i])
    BY <1>1, <2>1 DEF MergedWindow
  <2>3. y > 0
    BY <1>1, <1>5 DEF Merges
  <2>4. w # <<>> /\ \A i \in 1 .. y - 1 : i \in 1 .. y
    BY <1>1, <2>2, <2>3
  <2>5. w[Len(w)].fp \notin Fp(n) /\ w[Len(w)].role = "user"
    BY <1>3, <2>2 DEF MergedLive, Entry
  <2>6. w[1].role = "user"
    <3>1. CASE y = 1
      BY <2>2, <2>5, <3>1
    <3>2. CASE y # 1
      <4>1. hist[1].role = "user" /\ 1 \in 1 .. y - 1 /\ 1 \in 1 .. y
        BY <1>1, <1>5, <2>3, <3>2 DEF Merges
      <4>. QED BY <1>2, <2>2, <4>1
    <3>. QED BY <3>1, <3>2
  <2>7. Len(w) \in {Len(hist), Len(hist) + 1}
    BY <1>1, <2>2
  <2>. QED BY <1>2, <2>2, <2>4, <2>5, <2>6, <2>7 DEF w
<1>. QED BY <1>4, <1>5

\* What covers part of a window covers it when the window grows.
LEMMA CoversLonger ==
    ASSUME NEW T, NEW w \in Seq(T), NEW x \in T, NEW c, NEW p, NEW l, NEW q, Covers(c, p, w, l, q)
    PROVE  Covers(c, p, Append(w, x), l, q)
<1> DEFINE v == Append(w, x)
           y == Len(w)
<1>1. /\ y \in Nat /\ Len(w) = y /\ Len(v) = y + 1 /\ \A i \in 1 .. y : v[i] = w[i]
  OBVIOUS
<1> HIDE DEF v
<1>2. l \in 1 .. y /\ q \in 0 .. l - 1 /\ Len(p) = l - q
  BY <1>1 DEF Covers
<1> HIDE DEF y
<1>3. /\ l \in 1 .. y + 1 /\ q + 1 \in 1 .. y /\ l # y + 1
      /\ \A i \in 1 .. q : i \in 1 .. y
      /\ \A j \in 1 .. l - q : q + j \in 1 .. y
  BY <1>1, <1>2
<1>4. EndsWith(c, v, q)
  <2>1. EndsWith(c, w, q)
    BY DEF Covers
  <2>. QED BY <1>1, <1>3, <2>1 DEF EndsWith
<1>5. Len(c) = q \/ \A i \in 1 .. Len(c) : c[i] # v[q + 1].fp
  BY <1>1, <1>3 DEF Covers
<1>6. \A j \in 1 .. Len(p) : p[j].role = v[q + j].role
  BY <1>1, <1>2, <1>3 DEF Covers
<1>7. Covers(c, p, v, l, q)
  BY <1>1, <1>2, <1>3, <1>4, <1>5, <1>6 DEF Covers
<1>. QED BY <1>7 DEF v

\* A memory of a history covers that much of a window that replays a tail of it: the
\* tail holds the message that opened the last turn.
LEMMA TailCovered ==
    ASSUME NEW h, Len(h) \in Nat, NEW c, Len(c) \in Nat, NEW p, Len(p) \in Nat,
           NEW l, Remembers(c, p, h, l), NEW hist, NEW i, TailFrom(hist, h, i),
           \E j \in i .. Len(h) : h[j].opens,
           NEW w, NEW u, PlainWindow(hist, u, w)
    PROVE  Covers(c, p, w, l - i + 1, l - Len(p) - i + 1)
<1> DEFINE y == Len(h)
           m == Len(p)
           z == Len(c)
           x == Len(hist)
           L == l - i + 1
           q == l - m - i + 1
<1>1. /\ y \in Nat /\ m \in Nat /\ z \in Nat /\ Len(h) = y /\ Len(p) = m /\ Len(c) = z /\ Len(hist) = x
      /\ l \in 1 .. y /\ m \in 1 .. l /\ i \in 1 .. y /\ x = y - i + 1 /\ l - m <= z
  BY DEF Remembers, TailFrom
<1>2. /\ \A j \in 1 .. m : p[j].role = h[l - m + j].role
      /\ \A j \in l - m + 2 .. y : ~h[j].opens
      /\ \A j \in 1 .. l - m : c[z - (l - m) + j] = Replayed(h[j]).fp
      /\ \A j \in 1 .. z : c[j] # Replayed(h[l - m + 1]).fp
  BY DEF Remembers
<1>3. \A j \in 1 .. x : hist[j] = h[i - 1 + j] /\ w[j] = Replayed(h[i - 1 + j])
  BY DEF TailFrom, PlainWindow
<1>4. Len(w) = x + 1
  BY DEF PlainWindow
<1> HIDE DEF y, m, z, x, L, q
<1>5. i <= l - m + 1
  <2>1. PICK j \in i .. y : h[j].opens
    BY <1>1
  <2>2. j \notin l - m + 2 .. y
    BY <1>2, <2>1
  <2>. QED BY <1>1, <2>2
<1>6. /\ L \in 1 .. x /\ q \in 0 .. L - 1 /\ m = L - q /\ q <= z /\ x \in Nat /\ L \in Nat /\ q \in Nat
      /\ L \in 1 .. x + 1 /\ L # x + 1
  BY <1>1, <1>5 DEF L, q
<1>7. EndsWith(c, w, q)
  <2>1. ASSUME NEW j \in 1 .. q PROVE c[z - q + j] = w[j].fp
    <3> DEFINE g == i - 1 + j
    <3>1. g \in 1 .. l - m /\ z - (l - m) + g = z - q + j /\ j \in 1 .. x
      BY <1>1, <1>5, <1>6 DEF q
    <3>2. w[j] = Replayed(h[g])
      BY <1>3, <3>1
    <3> HIDE DEF g
    <3>. QED BY <1>2, <3>1, <3>2
  <2>. QED BY <1>1, <1>6, <2>1 DEF EndsWith
<1>8. \A j \in 1 .. z : c[j] # w[q + 1].fp
  <2>1. q + 1 \in 1 .. x /\ i - 1 + (q + 1) = l - m + 1
    BY <1>1, <1>6 DEF q
  <2>2. w[q + 1] = Replayed(h[l - m + 1])
    BY <1>3, <2>1
  <2>. QED BY <1>2, <2>2
<1>9. ASSUME NEW j \in 1 .. m PROVE p[j].role = w[q + j].role
  <2>1. q + j \in 1 .. x /\ i - 1 + (q + j) = l - m + j
    BY <1>1, <1>6 DEF q
  <2>2. w[q + j] = Replayed(h[l - m + j])
    BY <1>3, <2>1
  <2>. QED BY <1>2, <2>2 DEF Replayed, Entry
<1>10. Covers(c, p, w, L, q)
  BY <1>1, <1>4, <1>6, <1>7, <1>8, <1>9 DEF Covers
<1>. QED BY <1>10 DEF L, q, m

-----------------------------------------------------------------------------
(* The inductive invariant, of one conversation.  A view v holds what the  *)
(* archiver remembers of it (c, p, its session s), its history h, appended *)
(* messages a and window w, the faults all and those f that left a window  *)
(* of it unarchived, the last pass's length, the identities st stored for  *)
(* it, the messages n made so far and the era e.                           *)

Typed(v) ==
    /\ v.n \in Nat /\ v.e \in Nat /\ Chat(v.n, v.e, v.h, v.a, v.w)
    /\ v.c \in Seq(Fp(v.n)) /\ v.p \in Seq(Item(v.n)) /\ v.s \in Nat
    /\ v.s = NoSession => v.c = <<>> /\ v.p = <<>>
    /\ v.f \in Nat /\ v.all \in Nat /\ v.f <= v.all
    /\ v.last \in Nat /\ v.last <= Len(v.w)
    /\ v.st \subseteq [id : Nat, era : Nat]

Knows(v, m) == Ident(m) \in v.st
Has(v, entry) == entry.srcs \subseteq v.st
Empty(v) == v.c = <<>> /\ v.p = <<>>

\* Messages are numbered in the order they came.
Rising(s, n) == \A i \in 1 .. Len(s) : s[i].id <= n /\ \A j \in 1 .. Len(s) : i < j => s[i].id < s[j].id
Before(s, t) == \A i \in 1 .. Len(s), j \in 1 .. Len(t) : s[i].id < t[j].id
Numbered(v) ==
    /\ Rising(v.h, v.n) /\ Rising(v.a, v.n) /\ Before(v.h, v.a)
    /\ \A i \in 1 .. Len(v.a) : ~v.a[i].opens
    /\ \A x \in v.st : x.id <= v.n
    /\ \A i \in 1 .. Len(v.w) : \A x \in v.w[i].srcs : x.id <= v.n

\* A window starts with a user's message, and so do the pending ones: only a fault
\* could leave them with a reply first.
Led(v) ==
    /\ v.w # <<>> => v.w[1].role = "user"
    /\ v.all = 0 /\ v.s # NoSession => v.p # <<>> /\ v.p[1].role = "user"

\* As long as every window was archived: all a turn shows is stored and covered, and of
\* a history all but the message a compaction may have put at its end.
WholeIdle(v) ==
    \A i \in 1 .. Len(v.h) : Knows(v, v.h[i]) \/ (i = Len(v.h) /\ v.h[i].role = "user")
WholeTurn(v) ==
    /\ \A i \in 1 .. Len(v.h) : Knows(v, v.h[i])
    /\ \A i \in 1 .. Len(v.a) : Knows(v, v.a[i])
    /\ \A i \in 1 .. Len(v.w) : Has(v, v.w[i])
    /\ Empty(v) \/ \E q \in Nat : Covers(v.c, v.p, v.w, Len(v.w), q)
Whole(v) == v.f = 0 => IF v.w = <<>> THEN WholeIdle(v) ELSE WholeTurn(v)

\* The window of a turn is its history replayed, but for the live message that ends it,
\* and what the turn appended.
Shape(h, a, w) ==
    /\ h # <<>> /\ h[Len(h)].role = "user" /\ Len(w) = Len(h) + Len(a)
    /\ \A i \in 1 .. Len(h) - 1 : w[i] = Replayed(h[i])
    /\ w[Len(h)] = Live(h[Len(h)])
    /\ \A j \in 1 .. Len(a) : w[Len(h) + j] = Raw(a[j])

\* Memory covers l entries of a turn's window up to its user's message, not itself known.
Tracks(v, l) ==
    /\ Covers(v.c, v.p, v.w, l, Len(v.h) - 1)
    /\ \A i \in 1 .. Len(v.c) : v.c[i] # Replayed(v.h[Len(v.h)]).fp

\* With at most one fault, which left a window unarchived, and no compaction: what is
\* remembered is up to date, or but for the last message.
CleanIdle(v) ==
    /\ v.h # <<>> => v.h[Len(v.h)].role # "user"
    /\ v.all = 0 /\ v.h # <<>> /\ v.s # NoSession => Remembers(v.c, v.p, v.h, Len(v.h))
    /\ v.all = 1 /\ v.h # <<>> =>
         /\ \A i \in 1 .. Len(v.h) - 1 : Knows(v, v.h[i])
         /\ \/ Knows(v, v.h[Len(v.h)]) \/ Empty(v)
            \/ Remembers(v.c, v.p, v.h, Len(v.h) - 1)
Lags(v) ==
    \/ Empty(v)
    \/ Has(v, v.w[Len(v.w)]) /\ \E q \in Nat : Covers(v.c, v.p, v.w, Len(v.w), q)
    \/ v.a = <<>> /\ \E q \in Nat : Covers(v.c, v.p, v.w, Len(v.w) - 1, q)
    \/ v.a # <<>> /\ Tracks(v, Len(v.w) - 1)
CleanTurn(v) ==
    /\ Shape(v.h, v.a, v.w)
    /\ v.all = 0 /\ v.s # NoSession => Tracks(v, Len(v.w))
    /\ v.all = 1 =>
         /\ \A i \in 1 .. Len(v.w) - 1 : Has(v, v.w[i])
         /\ v.last = Len(v.w) => Has(v, v.w[Len(v.w)])
         /\ Lags(v)
Steady(v) == v.irr = FALSE
Regular(v) == v.irr = FALSE /\ v.f = v.all /\ v.all <= 1
Clean(v) == Regular(v) => IF v.w = <<>> THEN CleanIdle(v) ELSE CleanTurn(v)

-----------------------------------------------------------------------------
(* How a step of the conversation itself changes its view.                 *)

\* The pass stored the window as alignment al asks, raised `x` times, or stored it
\* anew after it had raised.
Took(v, z, al, c, p) ==
    /\ z.f = v.f /\ z.all \in {v.all, v.all + 1} /\ z.c = c /\ z.p = p /\ z.last = Len(z.w)
    /\ z.s # NoSession /\ (z.s = v.s <=> ~IsNew(al) /\ v.s # NoSession)
    /\ v.st \subseteq z.st /\ \A i \in al.start .. Len(z.w) : Has(z, z.w[i])
Missed(v, z, x) ==
    /\ z.f = v.f + 1 /\ z.all = v.all + x /\ z.last = v.last /\ z.st = v.st
    /\ (z.c = v.c /\ z.p = v.p) \/ Empty(z)
TookAnew(v, z) ==
    /\ z.f = v.f /\ z.all \in {v.all + 1, v.all + 2}
    /\ v.st \subseteq z.st /\ \A i \in 1 .. Len(z.w) : Has(z, z.w[i])
    /\ \E al : StartsOver(al) /\ z.c = FirstFps(<<>>, z.w, al) /\ z.p = FirstItems(z.w, al)
Passed(v, z, al, c, p) ==
    \/ Took(v, z, al, c, p)
    \/ Missed(v, z, 1) /\ (IsNew(al) => Empty(z))
    \/ TookAnew(v, z)
    \/ Missed(v, z, 2)
FirstPassed(v, z) ==
    LET al == FirstAlign(v.c, v.p, z.w)
    IN  Passed(v, z, al, FirstFps(Base(al, v.c), z.w, al), FirstItems(z.w, al))
MidPassed(v, z) ==
    LET al == MidAlign(v.c, v.p, z.w)
    IN  Passed(v, z, al, MidFps(Base(al, v.c), z.w, al), MidItems(z.w, al))

\* A turn begins with message m after history hist.
Begins(v, z, hist, m) ==
    /\ v.w = <<>> /\ hist \in LegalTails(v.h)
    /\ m \in Messages(v.n + 1, v.e) /\ m.role = "user" /\ m.id = v.n + 1 /\ m.body = v.n + 1
    /\ z.h = Append(hist, m) /\ z.a = v.a /\ z.w = BuildWindow(hist, m)
    /\ m.opens /\ z.n = v.n + 1 /\ z.e = v.e
    /\ z.irr = FALSE => v.irr = FALSE /\ (hist = <<>> \/ \E i \in 1 .. Len(hist) : hist[i].opens)

\* A turn goes on, with another message or none; it is irregular from then on if its
\* session is not the one it was.
Repeats(v, z) == z.w = v.w /\ z.a = v.a /\ z.n = v.n
AddsMessage(v, z) ==
    \E m \in Messages(v.n + 1, v.e) :
        /\ ~m.opens /\ m.id = v.n + 1
        /\ z.w = Append(v.w, Raw(m)) /\ z.a = Append(v.a, m) /\ z.n = v.n + 1
GoesOn(v, z) ==
    /\ v.w # <<>> /\ z.h = v.h /\ z.e = v.e
    /\ z.irr = FALSE => v.irr = FALSE /\ z.s = v.s
    /\ Repeats(v, z) \/ AddsMessage(v, z)

\* A first pass stores what it does not repeat, and its memory covers all of it.
LEMMA BeginParts ==
    ASSUME NEW v, Typed(v), NEW z, NEW hist, NEW m, Begins(v, z, hist, m)
    PROVE  LET w  == z.w
               al == FirstAlign(v.c, v.p, w)
               c  == FirstFps(Base(al, v.c), w, al)
               p  == FirstItems(w, al)
           IN  /\ hist \in Seq(Messages(v.n, v.e))
               /\ w # <<>> /\ w[Len(w)].role = "user" /\ w[1].role = "user"
               /\ al.start \in 1 .. Len(w) /\ c \in Seq(Fp(v.n))
               /\ Covers(c, p, w, Len(w), Len(w) - 1) /\ p = <<Unreplayed(w[Len(w)])>>
<1> DEFINE n == v.n
           e == v.e
           w == z.w
           al == FirstAlign(v.c, v.p, w)
           b == Base(al, v.c)
<1>1. /\ n \in Nat /\ e \in Nat /\ v.h \in Seq(Messages(n, e))
      /\ v.c \in Seq(Fp(n)) /\ v.p \in Seq(Item(n))
  BY DEF Typed, Chat
<1>2. hist \in Seq(Messages(n, e)) /\ (hist = <<>> \/ hist[1].role = "user")
  <2>1. hist \in LegalTails(v.h)
    BY DEF Begins
  <2>2. hist \in Seq(Messages(n, e))
    BY <1>1, <2>1, TailTyped
  <2>3. ASSUME hist # <<>> PROVE hist[1].role = "user"
    <3>1. PICK i \in 1 .. Len(v.h) : TailFrom(hist, v.h, i) /\ v.h[i].role = "user"
      BY <1>1, <2>1, <2>3, TailParts
    <3>2. 1 \in 1 .. Len(hist) /\ i - 1 + 1 = i
      BY <2>2, <2>3
    <3>. QED BY <3>1, <3>2 DEF TailFrom
  <2>. QED BY <2>2, <2>3
<1>3. w = BuildWindow(hist, m) /\ m.role = "user" /\ m.body = n + 1
  BY DEF Begins
<1> HIDE DEF n, e, w
<1>4. /\ w # <<>> /\ w[Len(w)].fp \notin Fp(n) /\ w[Len(w)].role = "user" /\ w[1].role = "user"
      /\ \A i \in 1 .. Len(w) - 1 : w[i].fp \in Fp(n)
  BY ONLY <1>1, <1>2, <1>3, WindowUnseen
<1>5. \E T : w \in Seq(T)
  <2>1. m \in Messages(n + 1, e) /\ n + 1 \in Nat
    BY <1>1 DEF Begins, n, e
  <2>2. hist \in Seq(Messages(n + 1, e))
    <3> DEFINE S == Messages(n, e)
               T == Messages(n + 1, e)
    <3>1. n + 1 \in Nat /\ n <= n + 1
      BY <1>1
    <3>2. S \subseteq T
      BY <1>1, <3>1, Grow
    <3>3. hist \in Seq(S)
      BY <1>2
    <3> HIDE DEF S, T
    <3>4. hist \in Seq(T)
      BY <3>2, <3>3, SeqGrow
    <3>. QED BY <3>4 DEF T
  <2>3. w \in Seq(Entries(n + 1, e))
    BY <1>1, <1>3, <2>1, <2>2, WindowTyped
  <2>. QED BY <2>3
<1>6. PICK T : w \in Seq(T)
  BY <1>5
<1>7. b = v.c \/ (b = <<>> /\ al.start = 1)
  <2>1. IsNew(al) => StartsOver(al)
    BY <1>1, <1>6, AlignNothing
  <2> HIDE DEF al
  <2>. QED BY <2>1 DEF Base, StartsOver
<1> HIDE DEF b
<1>8. /\ al.start \in 1 .. Len(w) /\ FirstFps(b, w, al) \in Seq(Fp(n))
      /\ Covers(FirstFps(b, w, al), FirstItems(w, al), w, Len(w), Len(w) - 1)
      /\ FirstItems(w, al) = <<Unreplayed(w[Len(w)])>>
  <2> DEFINE d == v.c
             i == v.p
  <2>1. /\ n \in Nat /\ d \in Seq(Fp(n)) /\ i \in Seq(Item(n)) /\ w \in Seq(T)
        /\ w # <<>> /\ w[Len(w)].fp \notin Fp(n) /\ \A j \in 1 .. Len(w) - 1 : w[j].fp \in Fp(n)
    BY <1>1, <1>4, <1>6
  <2>2. al = FirstAlign(d, i, w)
    OBVIOUS
  <2>3. b = d \/ (b = <<>> /\ FirstAlign(d, i, w).start = 1)
    BY <1>7
  <2> HIDE DEF d, i, al
  <2>. QED BY ONLY <2>1, <2>2, <2>3, UnseenStored
<1> HIDE DEF al
<1>. QED BY <1>2, <1>4, <1>8 DEF al, b, w, n, e

\* A pass within a turn stores what memory does not cover and then covers all of it.
LEMMA CaughtUp ==
    ASSUME NEW n \in Nat, NEW e, NEW c \in Seq(Fp(n)), NEW p \in Seq(Item(n)),
           NEW w \in Seq(Entries(n, e)), w # <<>>, c = <<>>, p = <<>>
    PROVE  LET al == MidAlign(c, p, w)
               c2 == MidFps(Base(al, c), w, al)
               p2 == MidItems(w, al)
           IN  /\ ~IsNew(al) /\ al.start = 1 /\ Covers(c2, p2, w, Len(w), 0)
               /\ p2[1].role = w[1].role
<1> DEFINE al == MidAlign(c, p, w)
<1>1. StartsOver(al) /\ ~IsNew(al)
  BY AlignNothing
<1> HIDE DEF al
<1>2. al.start = 1 /\ al.adopted = <<>> /\ al.keep = <<>> /\ Base(al, c) = <<>>
  BY <1>1 DEF StartsOver, Base
<1>3. Covers(MidFps(<<>>, w, al), MidItems(w, al), w, Len(w), 0)
  BY <1>2, FreshStored
<1>4. MidItems(w, al)[1] = Unreplayed(w[1])
  BY <1>2, FreshStored
<1>. QED BY <1>1, <1>2, <1>3, <1>4 DEF al, Unreplayed

LEMMA StaysCaughtUp ==
    ASSUME NEW n \in Nat, NEW e, NEW c \in Seq(Fp(n)), NEW p \in Seq(Item(n)),
           NEW w \in Seq(Entries(n, e)), NEW l, NEW q, Covers(c, p, w, l, q)
    PROVE  LET al == MidAlign(c, p, w)
               c2 == MidFps(Base(al, c), w, al)
               p2 == MidItems(w, al)
           IN  /\ ~IsNew(al) /\ al.start = l + 1 /\ Covers(c2, p2, w, Len(w), q) /\ p2[1] = p[1]
               /\ NoneNew(c, c2)
<1> DEFINE al == MidAlign(c, p, w)
           c2 == MidFps(c, w, al)
<1>1. ~IsNew(al) /\ al.start = l + 1
  BY CoveredGoesOn
<1>2. Base(al, c) = c
  BY <1>1 DEF Base
<1>3. Covers(c2, MidItems(w, al), w, Len(w), q) /\ MidItems(w, al)[1] = p[1]
  BY CoveredStored
<1>4. NoneNew(c, c2)
  BY CoveredStored
<1> HIDE DEF al, c2
<1>. QED BY <1>1, <1>2, <1>3, <1>4 DEF al, c2

\* A first pass without a fault took the window.
LEMMA BeginLed ==
    ASSUME NEW v, Typed(v), NEW z, NEW hist, NEW m, Begins(v, z, hist, m), FirstPassed(v, z)
    PROVE  Led(z)
<1> DEFINE w  == z.w
           al == FirstAlign(v.c, v.p, w)
           c  == FirstFps(Base(al, v.c), w, al)
           p  == FirstItems(w, al)
<1>1. w[Len(w)].role = "user" /\ w[1].role = "user" /\ p = <<Unreplayed(w[Len(w)])>>
  BY BeginParts
<1>2. Passed(v, z, al, c, p)
  BY DEF FirstPassed
<1> HIDE DEF al, c, p
<1>3. v.all \in Nat /\ (z.all = 0 => z.p = p)
  BY <1>2 DEF Typed, Passed, Took, Missed, TookAnew
<1>4. z.all = 0 => z.p # <<>> /\ z.p[1].role = "user"
  BY <1>1, <1>3 DEF Unreplayed
<1>. QED BY <1>1, <1>4 DEF Led

\* What a turn's first window shows of the history it replays and of its own message.
Opens(v, z, hist, m) ==
    LET w == z.w
        y == Len(hist)
    IN  /\ y \in Nat /\ hist \in Seq(Messages(v.n, v.e)) /\ Len(w) \in Nat /\ Len(w) > 0
        /\ IF Merges(hist) THEN MergedWindow(hist, m, w) ELSE PlainWindow(hist, m, w)
        /\ IF Merges(hist) THEN Len(w) = y ELSE Len(w) = y + 1
        /\ \A i \in 1 .. Len(w) - 1 : i \in 1 .. y /\ w[i] = Replayed(hist[i])
        /\ Len(z.h) = y + 1 /\ z.h[y + 1] = m /\ \A i \in 1 .. y : z.h[i] = hist[i]
        /\ \A i \in 1 .. y + 1 : \E j \in 1 .. Len(w) : Ident(z.h[i]) \in w[j].srcs
        /\ \A i \in 1 .. y : \E g \in 1 .. Len(v.h) :
             hist[i] = v.h[g] /\ (g = Len(v.h) => i = y)
        /\ z.a = <<>> /\ v.a = <<>>

LEMMA BeginShows ==
    ASSUME NEW v, Typed(v), NEW z, NEW hist, NEW m, Begins(v, z, hist, m)
    PROVE  Opens(v, z, hist, m)
<1> DEFINE w == z.w
           y == Len(hist)
<1>1. /\ v.n \in Nat /\ v.e \in Nat /\ v.h \in Seq(Messages(v.n, v.e))
      /\ hist \in LegalTails(v.h) /\ w = BuildWindow(hist, m) /\ m.role = "user"
      /\ z.h = Append(hist, m) /\ z.a = v.a
  BY DEF Typed, Chat, Begins
<1>2. hist \in Seq(Messages(v.n, v.e)) /\ y \in Nat
  BY <1>1, TailTyped
<1>3. IF Merges(hist) THEN MergedWindow(hist, m, w) ELSE PlainWindow(hist, m, w)
  BY <1>1, <1>2, WindowParts
<1>4. Merges(hist) => y > 0
  BY <1>2 DEF Merges
<1>5. Len(z.h) = y + 1 /\ z.h[y + 1] = m /\ \A i \in 1 .. y : z.h[i] = hist[i]
  <2>1. hist \in Seq(Messages(v.n, v.e) \cup {m}) /\ m \in Messages(v.n, v.e) \cup {m}
    BY <1>2, SeqGrow
  <2>. QED BY <1>1, <2>1
<1>6. z.a = <<>> /\ v.a = <<>>
  <2>1. Len(v.a) \in Nat /\ Len(v.a) <= Len(v.w) /\ v.a \in Seq(Messages(v.n, v.e)) /\ v.w = <<>>
    BY DEF Typed, Chat, Begins
  <2>2. Len(v.a) = 0
    BY <2>1
  <2>. QED BY <1>1, <2>1, <2>2, LenOf
<1>7. ASSUME NEW i \in 1 .. y
      PROVE  \E g \in 1 .. Len(v.h) : hist[i] = v.h[g] /\ (g = Len(v.h) => i = y)
  <2>1. hist # <<>>
    BY <1>2
  <2>2. PICK j \in 1 .. Len(v.h) : TailFrom(hist, v.h, j)
    BY <1>1, <2>1, TailParts
  <2>3. /\ Len(v.h) \in Nat /\ j \in 1 .. Len(v.h) /\ y = Len(v.h) - j + 1
        /\ hist[i] = v.h[j - 1 + i]
    BY <1>1, <2>2 DEF TailFrom
  <2> DEFINE g == j - 1 + i
             l == Len(v.h)
  <2> HIDE DEF y, l
  <2>4. g \in 1 .. l /\ (g = l => i = y)
    BY <2>3 DEF l
  <2> HIDE DEF g
  <2>. QED BY <2>3, <2>4 DEF g, l
<1> HIDE DEF w, y
<1>8. CASE Merges(hist)
  <2>1. Len(w) = y /\ w[y] = MergedLive(hist[y], m) /\ \A i \in 1 .. y - 1 : w[i] = Replayed(hist[i])
    BY <1>3, <1>8 DEF MergedWindow, y
  <2>2. {Ident(hist[y]), Ident(m)} = w[y].srcs
    BY <2>1 DEF MergedLive, Entry
  <2>3. ASSUME NEW i \in 1 .. y + 1 PROVE \E j \in 1 .. Len(w) : Ident(z.h[i]) \in w[j].srcs
    <3>1. CASE i \in 1 .. y - 1
      <4>1. i \in 1 .. y
        BY <1>2, <3>1
      <4>2. z.h[i] = hist[i] /\ w[i] = Replayed(hist[i])
        BY <1>5, <2>1, <3>1, <4>1
      <4>3. Ident(z.h[i]) \in w[i].srcs
        BY <4>2 DEF Replayed, Entry
      <4>. QED BY <2>1, <4>1, <4>3
    <3>2. CASE i \notin 1 .. y - 1
      <4>1. i = y \/ i = y + 1
        BY <1>2, <3>2
      <4>2. y \in 1 .. y
        BY <1>2, <1>4, <1>8
      <4>3. Ident(z.h[i]) \in w[y].srcs
        BY <1>5, <2>2, <4>1, <4>2
      <4>. QED BY <2>1, <4>2, <4>3
    <3>. QED BY <3>1, <3>2
  <2>4. \A i \in 1 .. Len(w) - 1 : i \in 1 .. y /\ w[i] = Replayed(hist[i])
    BY <1>2, <2>1
  <2>. QED BY <1>2, <1>3, <1>4, <1>5, <1>6, <1>7, <1>8, <2>1, <2>3, <2>4 DEF w, y, Opens
<1>9. CASE ~Merges(hist)
  <2>1. Len(w) = y + 1 /\ w[y + 1] = Live(m) /\ \A i \in 1 .. y : w[i] = Replayed(hist[i])
    BY <1>3, <1>9 DEF PlainWindow, y
  <2>2. ASSUME NEW i \in 1 .. y + 1 PROVE \E j \in 1 .. Len(w) : Ident(z.h[i]) \in w[j].srcs
    <3>1. CASE i = y + 1
      <4>1. Ident(z.h[i]) \in w[i].srcs
        BY <1>5, <2>1, <3>1 DEF Live, Entry
      <4>. QED BY <2>1, <4>1
    <3>2. CASE i # y + 1
      <4>1. i \in 1 .. y
        BY <1>2, <3>2
      <4>3. z.h[i] = hist[i] /\ w[i] = Replayed(hist[i])
        BY <1>5, <2>1, <4>1
      <4>2. Ident(z.h[i]) \in w[i].srcs
        BY <4>3 DEF Replayed, Entry
      <4>. QED BY <2>1, <4>2
    <3>. QED BY <3>1, <3>2
  <2>3. \A i \in 1 .. Len(w) - 1 : i \in 1 .. y /\ w[i] = Replayed(hist[i])
    BY <1>2, <2>1
  <2>4. Len(w) > 0 /\ Len(w) \in Nat
    BY <1>2, <2>1
  <2>. QED BY <1>2, <1>3, <1>5, <1>6, <1>7, <1>9, <2>1, <2>2, <2>3, <2>4 DEF w, y, Opens
<1>. QED BY <1>8, <1>9

\* A first pass of a conversation whose windows were all archived leaves it so.
LEMMA BeginWhole ==
    ASSUME NEW v, Typed(v), Whole(v), NEW z, Typed(z), NEW hist, NEW m, Begins(v, z, hist, m),
           FirstPassed(v, z)
    PROVE  Whole(z)
<1> SUFFICES ASSUME z.f = 0 PROVE Whole(z)
  BY DEF Whole
<1> DEFINE w  == z.w
           al == FirstAlign(v.c, v.p, w)
           c  == FirstFps(Base(al, v.c), w, al)
           p  == FirstItems(w, al)
           y  == Len(hist)
<1>1. al.start \in 1 .. Len(w) /\ Covers(c, p, w, Len(w), Len(w) - 1)
  BY BeginParts
<1>0. Opens(v, z, hist, m)
  BY BeginShows
<1>2. /\ y \in Nat /\ Len(w) \in Nat /\ Len(w) > 0 /\ z.a = <<>>
      /\ IF Merges(hist) THEN Len(w) = y ELSE Len(w) = y + 1
      /\ \A i \in 1 .. Len(w) - 1 : i \in 1 .. y /\ w[i] = Replayed(hist[i])
      /\ Len(z.h) = y + 1
      /\ \A i \in 1 .. y + 1 : \E j \in 1 .. Len(w) : Ident(z.h[i]) \in w[j].srcs
      /\ \A i \in 1 .. y : \E g \in 1 .. Len(v.h) : hist[i] = v.h[g] /\ (g = Len(v.h) => i = y)
  BY <1>0 DEF Opens
<1>3. Passed(v, z, al, c, p)
  BY DEF FirstPassed
<1> HIDE DEF w, al, c, p, y
<1>4. /\ v.f = 0 /\ v.st \subseteq z.st
      /\ \/ Took(v, z, al, c, p)
         \/ TookAnew(v, z)
  <2>1. v.f \in Nat /\ z.f = 0 /\ v.f + 1 # 0
    BY DEF Typed
  <2>2. ~Missed(v, z, 1) /\ ~Missed(v, z, 2)
    BY ONLY <2>1 DEF Missed
  <2>3. CASE Took(v, z, al, c, p)
    <3>1. z.f = v.f /\ v.st \subseteq z.st
      BY <2>3 DEF Took
    <3>. QED BY <2>1, <2>3, <3>1
  <2>4. CASE TookAnew(v, z)
    <3>1. z.f = v.f /\ v.st \subseteq z.st
      BY <2>4 DEF TookAnew
    <3>. QED BY <2>1, <2>4, <3>1
  <2>. QED BY <1>3, <2>2, <2>3, <2>4 DEF Passed
<1>5. WholeIdle(v)
  BY <1>4 DEF Whole, Begins
<1>6. ASSUME NEW i \in 1 .. Len(w) PROVE Has(z, w[i])
  <2>1. CASE TookAnew(v, z)
    BY <1>6, <2>1 DEF TookAnew, w
  <2>2. CASE Took(v, z, al, c, p) /\ i \in al.start .. Len(w)
    BY <2>2 DEF Took, w
  <2>3. CASE i \notin al.start .. Len(w)
    <3>1. i \in 1 .. Len(w) - 1
      BY <1>1, <1>2, <2>3
    <3>2. i \in 1 .. y /\ w[i] = Replayed(hist[i])
      BY <1>2, <3>1
    <3>3. PICK g \in 1 .. Len(v.h) : hist[i] = v.h[g] /\ (g = Len(v.h) => i = y)
      BY <1>2, <3>2
    <3>4. Knows(v, hist[i])
      <4>1. CASE g = Len(v.h) /\ v.h[g].role = "user"
        <5>1. hist # <<>> /\ i = y /\ hist[y].role = "user"
          BY <1>2, <3>2, <3>3, <4>1, LenOf DEF y
        <5>2. Len(w) = y
          BY <1>2, <5>1 DEF Merges, y
        <5>. QED BY <1>2, <3>1, <5>1, <5>2
      <4>2. CASE ~(g = Len(v.h) /\ v.h[g].role = "user")
        BY <1>5, <3>3, <4>2 DEF WholeIdle
      <4>. QED BY <4>1, <4>2
    <3>. QED BY <1>4, <3>2, <3>4 DEF Has, Knows, Replayed, Entry
  <2>. QED BY <1>4, <2>1, <2>2, <2>3
<1>7. ASSUME NEW i \in 1 .. Len(z.h) PROVE Knows(z, z.h[i])
  <2>1. PICK j \in 1 .. Len(w) : Ident(z.h[i]) \in w[j].srcs
    BY <1>2
  <2>2. Has(z, w[j])
    BY <1>6
  <2>. QED BY <2>1, <2>2 DEF Has, Knows
<1>8. \E q \in Nat : Covers(z.c, z.p, w, Len(w), q)
  <2>1. Len(w) - 1 \in Nat
    BY <1>2
  <2>2. CASE Took(v, z, al, c, p)
    <3>1. Covers(z.c, z.p, w, Len(w), Len(w) - 1)
      BY <1>1, <2>2 DEF Took
    <3>. QED BY <2>1, <3>1
  <2>3. CASE TookAnew(v, z)
    <3>1. PICK a : StartsOver(a) /\ z.c = FirstFps(<<>>, w, a) /\ z.p = FirstItems(w, a)
      BY <2>3 DEF TookAnew, w
    <3>2. a.start = 1 /\ a.adopted = <<>> /\ a.keep = <<>>
      BY <3>1 DEF StartsOver
    <3>3. w \in Seq(Entries(z.n, z.e)) /\ w # <<>>
      BY <1>2 DEF Typed, Chat, w
    <3>4. Covers(z.c, z.p, w, Len(w), Len(w) - 1)
      BY <3>1, <3>2, <3>3, AnewStored
    <3>. QED BY <2>1, <3>4
  <2>. QED BY <1>4, <2>2, <2>3
<1>9. WholeTurn(z) /\ z.w # <<>>
  <2>1. Len(z.a) = 0 /\ z.w # <<>>
    BY <1>2 DEF w
  <2>2. \A i \in 1 .. Len(z.a) : Knows(z, z.a[i])
    BY <2>1
  <2>. QED BY <1>6, <1>7, <1>8, <2>1, <2>2 DEF WholeTurn, w
<1>. QED BY <1>9 DEF Whole

\* What the archiver remembers of the history it covers of the window.
LEMMA BeginCovered ==
    ASSUME NEW v, Typed(v), NEW z, Typed(z), NEW hist, NEW m, Begins(v, z, hist, m),
           Steady(z), ~Merges(hist), hist # <<>>, NEW d \in Nat, NEW l, l = Len(v.h) - d,
           Remembers(v.c, v.p, v.h, l)
    PROVE  LET al == FirstAlign(v.c, v.p, z.w)
           IN  /\ \E q \in Nat : Covers(v.c, v.p, z.w, Len(z.w) - 1 - d, q)
               /\ al.start = Len(z.w) - d /\ ~IsNew(al)
<1> DEFINE w == z.w
           y == Len(hist)
           n == v.n
           e == v.e
           h == v.h
           c == v.c
           p == v.p
<1>1. /\ n \in Nat /\ e \in Nat /\ h \in Seq(Messages(n, e)) /\ z.n = n + 1 /\ z.e = e
      /\ c \in Seq(Fp(n)) /\ p \in Seq(Item(n)) /\ hist \in LegalTails(h)
      /\ w \in Seq(Entries(n + 1, e))
  BY DEF Typed, Chat, Begins
<1>2. Opens(v, z, hist, m)
  BY BeginShows
<1>3. y \in Nat /\ PlainWindow(hist, m, w)
  BY <1>2 DEF Opens
<1>4. Len(w) = y + 1
  BY <1>3 DEF PlainWindow
<1>5. l = Len(h) - d /\ Remembers(c, p, h, l)
  OBVIOUS
<1> HIDE DEF w, n, e, h, c, p
<1>6. PICK i \in 1 .. Len(h) : TailFrom(hist, h, i) /\ h[i].role = "user"
  BY <1>1, TailParts
<1>7. y = Len(h) - i + 1 /\ Len(h) \in Nat /\ Len(p) \in Nat /\ Len(c) \in Nat
  BY <1>1, <1>6 DEF TailFrom
<1>8. Covers(c, p, w, l - i + 1, l - Len(p) - i + 1)
  <2>1. PICK j \in 1 .. Len(hist) : hist[j].opens
    BY DEF Begins, Steady
  <2>2. i - 1 + j \in i .. Len(h) /\ hist[j] = h[i - 1 + j]
    BY <1>6, <1>7, <2>1 DEF TailFrom
  <2>3. \E x \in i .. Len(h) : h[x].opens
    BY <2>1, <2>2
  <2>. QED BY ONLY <1>3, <1>5, <1>6, <1>7, <2>3, TailCovered
<1> DEFINE g == l - i + 1
           q == l - Len(p) - i + 1
<1>9. g = Len(w) - 1 - d /\ g + 1 = Len(w) - d
  <2> DEFINE x == Len(h)
             t == Len(w)
  <2>1. x \in Nat /\ i \in 1 .. x /\ l = x - d /\ d \in Nat /\ t = y + 1 /\ y = x - i + 1
    BY <1>4, <1>5, <1>6, <1>7
  <2> HIDE DEF x, t, y
  <2>2. g = x - d - i + 1
    BY <2>1
  <2>3. y \in Int /\ i \in Nat
    BY <2>1
  <2>4. t - 1 - d = x - d - i + 1
    BY <2>1, <2>3
  <2>5. g = t - 1 - d /\ g + 1 = t - d
    BY <2>1, <2>2, <2>3, <2>4
  <2>. QED BY <2>5 DEF t
<1>10. Covers(c, p, w, g, q)
  BY <1>8
<1> HIDE DEF g, q, y
<1>11. q \in Nat /\ g \in Nat
  <2>1. g \in 1 .. Len(w) /\ q \in 0 .. g - 1
    BY <1>10 DEF Covers
  <2>. QED BY <2>1
<1> DEFINE k == n + 1
<1>12. c \in Seq(Fp(k)) /\ p \in Seq(Item(k)) /\ k \in Nat /\ w \in Seq(Entries(k, e))
  BY <1>1, Grow, SeqGrow
<1> HIDE DEF k
<1>13. FirstAlign(c, p, w).start = g + 1
  BY ONLY <1>10, <1>12, CoveredGoesOn
<1>14. ~IsNew(FirstAlign(c, p, w))
  BY ONLY <1>10, <1>12, CoveredGoesOn
<1>. QED BY <1>9, <1>10, <1>11, <1>13, <1>14 DEF w, c, p

\* With at most one fault, which left a window unarchived, a pass took its window or is
\* that fault.
LEMMA PassedRegular ==
    ASSUME NEW v, Typed(v), NEW z, z.irr = FALSE => v.irr = FALSE, Regular(z),
           NEW al, NEW c, NEW p, Passed(v, z, al, c, p)
    PROVE  /\ Regular(v)
           /\ \/ Took(v, z, al, c, p) /\ v.all \in {0, 1} /\ z.all = v.all
              \/ Missed(v, z, 1) /\ (IsNew(al) => Empty(z)) /\ v.f = 0 /\ v.all = 0 /\ z.all = 1
<1>1. v.f \in Nat /\ v.all \in Nat /\ v.f <= v.all
  BY DEF Typed
<1>2. z.f = z.all /\ z.all <= 1
  BY DEF Regular
<1>3. v.irr = FALSE
  BY DEF Regular
<1> DEFINE vf == v.f
           va == v.all
           zf == z.f
           za == z.all
<1>4. CASE Took(v, z, al, c, p)
  <2>0. zf = vf /\ za \in {va, va + 1}
    BY <1>4 DEF Took
  <2>1. zf = vf /\ za = va
    <3>1. va \in Nat /\ vf <= va /\ zf = za
      BY <1>1, <1>2
    <3> HIDE DEF vf, va, zf, za
    <3>2. vf \in Nat
      BY <1>1 DEF vf
    <3>. QED BY <2>0, <3>1, <3>2
  <2> HIDE DEF vf, va, zf, za
  <2>2. vf = va /\ va \in {0, 1}
    <3>1. va \in Nat /\ zf = za /\ za <= 1
      BY <1>1, <1>2 DEF va, zf, za
    <3>. QED BY <2>1, <3>1
  <2>3. Regular(v)
    BY <1>3, <2>2 DEF Regular, vf, va
  <2>. QED BY <1>4, <2>1, <2>2, <2>3 DEF za, va
<1>5. CASE Missed(v, z, 1) /\ (IsNew(al) => Empty(z))
  <2>1. zf = vf + 1 /\ za = va + 1
    BY <1>5 DEF Missed
  <2>2. vf = 0 /\ va = 0 /\ za = 1
    <3> HIDE DEF vf, va, zf, za
    <3>1. vf \in Nat /\ va \in Nat /\ zf = za /\ za <= 1
      BY <1>1, <1>2 DEF vf, va, zf, za
    <3>. QED BY <2>1, <3>1
  <2> HIDE DEF vf, va, zf, za
  <2>3. Regular(v)
    BY <1>3, <2>2 DEF Regular, vf, va
  <2>. QED BY <1>5, <2>2, <2>3 DEF vf, va, za
<1>6. ~TookAnew(v, z) /\ ~Missed(v, z, 2)
  BY <1>1, <1>2 DEF TookAnew, Missed
<1>. QED BY <1>4, <1>5, <1>6 DEF Passed

\* A history that ends with a reply is replayed as it is.
LEMMA BeginShape ==
    ASSUME NEW v, Typed(v), CleanIdle(v), NEW z, NEW hist, NEW m, Begins(v, z, hist, m)
    PROVE  ~Merges(hist) /\ Shape(z.h, z.a, z.w)
<1> DEFINE w == z.w
           y == Len(hist)
<1>1. Opens(v, z, hist, m)
  BY BeginShows
<1>2. /\ y \in Nat /\ Len(w) \in Nat /\ Len(w) > 0 /\ z.a = <<>>
      /\ IF Merges(hist) THEN MergedWindow(hist, m, w) ELSE PlainWindow(hist, m, w)
      /\ Len(z.h) = y + 1 /\ z.h[y + 1] = m /\ \A i \in 1 .. y : z.h[i] = hist[i]
      /\ \A i \in 1 .. y : \E g \in 1 .. Len(v.h) : hist[i] = v.h[g] /\ (g = Len(v.h) => i = y)
  BY <1>1 DEF Opens
<1>3. ~Merges(hist)
  <2>1. ASSUME Merges(hist) PROVE FALSE
    <3>1. hist # <<>> /\ hist \in LegalTails(v.h) /\ v.h \in Seq(Messages(v.n, v.e))
      BY <2>1 DEF Merges, Begins, Typed, Chat
    <3>2. PICK i \in 1 .. Len(v.h) : TailFrom(hist, v.h, i)
      BY <3>1, TailParts
    <3>3. Len(v.h) \in Nat /\ y = Len(v.h) - i + 1 /\ \A j \in 1 .. y : hist[j] = v.h[i - 1 + j]
      BY <3>1, <3>2 DEF TailFrom
    <3>4. y \in 1 .. y /\ i - 1 + y = Len(v.h)
      BY <1>2, <3>2, <3>3
    <3>5. hist[y] = v.h[Len(v.h)] /\ v.h # <<>>
      BY <3>2, <3>3, <3>4
    <3>. QED BY <2>1, <3>5 DEF CleanIdle, Merges
  <2>. QED BY <2>1
<1>4. Len(w) = y + 1 /\ w[y + 1] = Live(m) /\ \A i \in 1 .. y : w[i] = Replayed(hist[i])
  BY <1>2, <1>3 DEF PlainWindow
<1>5. m.role = "user"
  BY DEF Begins
<1> HIDE DEF w, y
<1>6. Len(z.a) = 0 /\ z.h # <<>> /\ Len(z.h) - 1 = y
  BY <1>2
<1>7. \A i \in 1 .. Len(z.h) - 1 : w[i] = Replayed(z.h[i])
  BY <1>2, <1>4, <1>6
<1>8. Len(w) = Len(z.h) + Len(z.a) /\ \A j \in 1 .. Len(z.a) : w[Len(z.h) + j] = Raw(z.a[j])
  BY <1>2, <1>4, <1>6
<1>9. Shape(z.h, z.a, w)
  BY <1>2, <1>4, <1>5, <1>6, <1>7, <1>8 DEF Shape
<1>. QED BY <1>3, <1>9 DEF w

FirstTook(v, z) ==
    LET al == FirstAlign(v.c, v.p, z.w)
    IN  Took(v, z, al, FirstFps(Base(al, v.c), z.w, al), FirstItems(z.w, al))

\* What a first pass took is known, but for its last entry what it did not take as well.
LEMMA BeginCleanTook ==
    ASSUME NEW v, Typed(v), CleanIdle(v), NEW z, Typed(z), NEW hist, NEW m,
           Begins(v, z, hist, m), Steady(z),
           FirstTook(v, z), v.all \in {0, 1}, z.all = v.all
    PROVE  CleanTurn(z)
<1> DEFINE w  == z.w
           al == FirstAlign(v.c, v.p, w)
           c  == FirstFps(Base(al, v.c), w, al)
           p  == FirstItems(w, al)
           y  == Len(hist)
<1>1. /\ al.start \in 1 .. Len(w) /\ Covers(c, p, w, Len(w), Len(w) - 1)
      /\ c \in Seq(Fp(v.n))
  BY BeginParts
<1>2. ~Merges(hist) /\ Shape(z.h, z.a, w)
  BY BeginShape
<1>3. Opens(v, z, hist, m)
  BY BeginShows
<1>4. /\ y \in Nat /\ hist \in Seq(Messages(v.n, v.e)) /\ Len(w) = y + 1
      /\ \A i \in 1 .. Len(w) - 1 : i \in 1 .. y /\ w[i] = Replayed(hist[i])
      /\ Len(z.h) = y + 1 /\ z.h[y + 1] = m
      /\ \A i \in 1 .. y : \E g \in 1 .. Len(v.h) : hist[i] = v.h[g] /\ (g = Len(v.h) => i = y)
  BY <1>2, <1>3 DEF Opens
<1>5. Took(v, z, al, c, p)
  BY DEF FirstTook
<1>6. /\ z.c = c /\ z.p = p /\ v.st \subseteq z.st
      /\ \A i \in al.start .. Len(w) : Has(z, w[i])
  BY <1>5 DEF Took
<1>7. v.n \in Nat /\ v.c \in Seq(Fp(v.n)) /\ v.p \in Seq(Item(v.n)) /\ w \in Seq(Entries(z.n, z.e))
  BY DEF Typed, Chat
<1> DEFINE f == Replayed(m).fp
<1>8. f \notin Fp(v.n)
  <2>1. f = <<"user", "replayed", {v.n + 1}>>
    BY DEF Begins, Replayed, Entry
  <2>2. v.n + 1 \notin 1 .. v.n
    BY <1>7
  <2>3. ~({v.n + 1} \subseteq 1 .. v.n)
    BY <2>2
  <2>. QED BY <2>1, <2>3 DEF Fp
<1>9. StartsOver(al) => al.start = 1
  BY DEF StartsOver
<1>10. Empty(v) => StartsOver(al)
  BY <1>7, AlignNothing DEF Empty
<1> HIDE DEF w, al, c, p, y, f
<1>11. Len(z.h) - 1 = Len(w) - 1 /\ Len(z.h) = y + 1
  BY <1>4
<1>12. Tracks(z, Len(w))
  <2>1. Covers(z.c, z.p, w, Len(w), Len(z.h) - 1)
    BY <1>1, <1>6, <1>11
  <2>2. \A i \in 1 .. Len(z.c) : z.c[i] # f
    BY <1>1, <1>6, <1>8
  <2>3. Replayed(z.h[Len(z.h)]).fp = f
    BY <1>4 DEF f
  <2>. QED BY <2>1, <2>2, <2>3 DEF Tracks, w
<1>13. Has(z, w[Len(w)])
  BY <1>1, <1>4, <1>6
<1>14. Lags(z)
  <2>1. Len(w) - 1 \in Nat
    BY <1>4
  <2>2. Covers(z.c, z.p, w, Len(w), Len(w) - 1)
    BY <1>1, <1>6
  <2>. QED BY <1>13, <2>1, <2>2 DEF Lags, w
<1>15. ASSUME v.all = 1, NEW i \in 1 .. Len(w) - 1 PROVE Has(z, w[i])
  <2>1. i \in 1 .. y /\ w[i] = Replayed(hist[i])
    BY <1>4
  <2>2. PICK g \in 1 .. Len(v.h) : hist[i] = v.h[g] /\ (g = Len(v.h) => i = y)
    BY <1>4, <2>1
  <2>3. Len(v.h) \in Nat /\ v.h # <<>> /\ hist # <<>>
    <3>1. Len(v.h) \in Nat /\ v.h # <<>>
      BY <2>2 DEF Typed, Chat
    <3>. QED BY <1>4, <2>1, <3>1 DEF y
  <2>4. CASE Knows(v, hist[i])
    BY <1>6, <2>1, <2>4 DEF Has, Knows, Replayed, Entry
  <2>5. CASE i \in al.start .. Len(w)
    BY <1>6, <2>5
  <2>6. CASE ~Knows(v, hist[i]) /\ i \notin al.start .. Len(w)
    <3>1. g = Len(v.h) /\ i = y
      <4>1. g \notin 1 .. Len(v.h) - 1
        BY <1>15, <2>2, <2>3, <2>6 DEF CleanIdle
      <4>. QED BY <2>2, <2>3, <4>1
    <3>2. CASE Empty(v)
      <4>1. al.start = 1
        BY <1>9, <1>10, <3>2
      <4>. QED BY <1>4, <2>1, <2>6, <4>1
    <3>3. CASE Remembers(v.c, v.p, v.h, Len(v.h) - 1)
      <4>1. al.start = Len(w) - 1
        BY <1>2, <2>3, <3>3, BeginCovered, ZenonT(40) DEF al, w
      <4>. QED BY <1>4, <2>6, <3>1, <4>1
    <3>4. Knows(v, v.h[Len(v.h)]) \/ Empty(v) \/ Remembers(v.c, v.p, v.h, Len(v.h) - 1)
      BY <1>15, <2>3 DEF CleanIdle
    <3>. QED BY <2>2, <2>6, <3>1, <3>2, <3>3, <3>4
  <2>. QED BY <2>4, <2>5, <2>6
<1>. QED BY <1>2, <1>12, <1>13, <1>14, <1>15 DEF CleanTurn, w

\* The first fault leaves a window but for whose last message all is known.
LEMMA BeginCleanMissed ==
    ASSUME NEW v, Typed(v), CleanIdle(v), WholeIdle(v), NEW z, Typed(z), NEW hist, NEW m,
           Begins(v, z, hist, m), Steady(z), Missed(v, z, 1), v.all = 0, z.all = 1,
           IsNew(FirstAlign(v.c, v.p, z.w)) => Empty(z)
    PROVE  CleanTurn(z)
<1> DEFINE w  == z.w
           al == FirstAlign(v.c, v.p, w)
           y  == Len(hist)
<1>1. ~Merges(hist) /\ Shape(z.h, z.a, w)
  BY BeginShape
<1>2. Opens(v, z, hist, m)
  BY BeginShows
<1>3. /\ y \in Nat /\ hist \in Seq(Messages(v.n, v.e)) /\ Len(w) = y + 1 /\ z.a = <<>>
      /\ \A i \in 1 .. Len(w) - 1 : i \in 1 .. y /\ w[i] = Replayed(hist[i])
      /\ \A i \in 1 .. y : \E g \in 1 .. Len(v.h) : hist[i] = v.h[g] /\ (g = Len(v.h) => i = y)
  BY <1>1, <1>2 DEF Opens
<1>4. /\ z.last = v.last /\ z.st = v.st
      /\ (z.c = v.c /\ z.p = v.p) \/ Empty(z)
  BY DEF Missed
<1>5. /\ v.n \in Nat /\ v.c \in Seq(Fp(v.n)) /\ v.p \in Seq(Item(v.n)) /\ w \in Seq(Entries(z.n, z.e))
      /\ v.last \in Nat /\ v.last <= Len(v.w) /\ v.w = <<>> /\ v.h \in Seq(Messages(v.n, v.e))
      /\ v.s = NoSession => Empty(v)
  BY DEF Typed, Chat, Begins, Empty
<1>6. ASSUME NEW i \in 1 .. Len(w) - 1 PROVE Has(z, w[i])
  <2>1. i \in 1 .. y /\ w[i] = Replayed(hist[i])
    BY <1>3
  <2>2. PICK g \in 1 .. Len(v.h) : hist[i] = v.h[g]
    BY <1>3, <2>1
  <2>3. v.h # <<>>
    BY <1>5, <2>2
  <2>4. Knows(v, hist[i])
    BY <2>2, <2>3 DEF WholeIdle, CleanIdle
  <2>. QED BY <1>4, <2>1, <2>4 DEF Has, Knows, Replayed, Entry
<1>7. z.last # Len(w)
  BY <1>3, <1>4, <1>5
<1>8. Lags(z)
  <2>1. CASE Empty(z)
    BY <2>1 DEF Lags
  <2>2. CASE ~Empty(z)
    <3>1. z.c = v.c /\ z.p = v.p /\ ~Empty(v) /\ ~IsNew(al)
      BY <1>4, <2>2 DEF Empty
    <3>2. hist # <<>>
      <4>1. CASE hist = <<>>
        <5>1. Len(w) = 1 /\ DOMAIN w = {1}
          BY <1>3, <1>5, <4>1
        <5>2. w[1].fp \notin Fp(v.n)
          <6>1. w = BuildWindow(hist, m) /\ m.role = "user" /\ m.body = v.n + 1
            BY DEF Begins
          <6>2. hist \in Seq(Messages(v.n, v.e)) /\ v.e \in Nat
            BY <1>3 DEF Typed
          <6> HIDE DEF w
          <6>3. w[Len(w)].fp \notin Fp(v.n)
            BY <1>5, <4>1, <6>1, <6>2, WindowUnseen
          <6>. QED BY <5>1, <6>3
        <5>3. v.c # <<>> \/ v.p # <<>>
          BY <3>1 DEF Empty
        <5> HIDE DEF w
        <5>4. Align(v.c, v.p, w, FALSE).isNew
          BY <1>5, <5>1, <5>2, <5>3, UnseenIsNew
        <5>. QED BY <3>1, <5>4 DEF IsNew, FirstAlign, w
      <4>. QED BY <4>1
    <3>3. v.h # <<>>
      <4>1. 1 \in 1 .. y
        BY <1>3, <3>2
      <4>. QED BY <1>3, <1>5, <4>1
    <3>4. Remembers(v.c, v.p, v.h, Len(v.h))
      BY <1>5, <3>1, <3>3 DEF CleanIdle
    <3>5. Len(v.h) = Len(v.h) - 0 /\ 0 \in Nat
      BY <1>5
    <3>6. PICK q \in Nat : Covers(v.c, v.p, w, Len(w) - 1 - 0, q)
      BY <1>1, <3>2, <3>4, <3>5, BeginCovered
    <3>7. Len(w) - 1 - 0 = Len(w) - 1
      BY <1>3
    <3>8. \E x \in Nat : Covers(z.c, z.p, z.w, Len(z.w) - 1, x)
      BY <3>1, <3>6, <3>7
    <3>. QED BY <1>3, <3>8 DEF Lags
  <2>. QED BY <2>1, <2>2
<1>. QED BY <1>1, <1>6, <1>7, <1>8 DEF CleanTurn

\* A first pass keeps the memory that has seen at most one fault in order.
LEMMA BeginClean ==
    ASSUME NEW v, Typed(v), Whole(v), Clean(v), NEW z, Typed(z), NEW hist, NEW m,
           Begins(v, z, hist, m), FirstPassed(v, z)
    PROVE  Clean(z)
<1> SUFFICES ASSUME Regular(z) PROVE Clean(z)
  BY DEF Clean
<1> DEFINE al == FirstAlign(v.c, v.p, z.w)
           c  == FirstFps(Base(al, v.c), z.w, al)
           p  == FirstItems(z.w, al)
<1>1. v.w = <<>> /\ (z.irr = FALSE => v.irr = FALSE) /\ Steady(z)
  BY DEF Begins, Regular, Steady
<1>2. z.w # <<>>
  BY BeginParts
<1>3. Passed(v, z, al, c, p)
  BY DEF FirstPassed
<1> HIDE DEF al, c, p
<1>4. /\ Regular(v)
      /\ \/ Took(v, z, al, c, p) /\ v.all \in {0, 1} /\ z.all = v.all
         \/ Missed(v, z, 1) /\ (IsNew(al) => Empty(z)) /\ v.f = 0 /\ v.all = 0 /\ z.all = 1
  BY <1>1, <1>3, PassedRegular
<1>5. CleanIdle(v)
  BY <1>1, <1>4 DEF Clean
<1>6. CASE Took(v, z, al, c, p) /\ v.all \in {0, 1} /\ z.all = v.all
  <2>1. FirstTook(v, z)
    BY <1>6 DEF FirstTook, al, c, p
  <2>2. CleanTurn(z)
    BY <1>1, <1>5, <1>6, <2>1, BeginCleanTook
  <2>. QED BY <1>2, <2>2 DEF Clean
<1>7. CASE Missed(v, z, 1) /\ (IsNew(al) => Empty(z)) /\ v.f = 0 /\ v.all = 0 /\ z.all = 1
  <2>1. WholeIdle(v)
    BY <1>1, <1>7 DEF Whole
  <2>2. CleanTurn(z)
    BY <1>1, <1>5, <1>7, <2>1, BeginCleanMissed DEF al
  <2>. QED BY <1>2, <2>2 DEF Clean
<1>. QED BY <1>4, <1>6, <1>7

\* A window that starts with the role of the first pending message, and goes on, is not new.
LEMMA LedIsNotNew ==
    ASSUME NEW c, NEW p, Len(p) \in Nat, Len(p) > 0, NEW w, Len(w) \in Nat, Len(w) > 1,
           DOMAIN w = 1 .. Len(w), w[1].role = p[1].role
    PROVE  ~IsNew(FirstAlign(c, p, w))
<1> DEFINE o == Overlap(c, Fps(w))
           r == PendingRun(p, w, o)
           S == {n \in 0 .. Len(p) : /\ o + n <= Len(w)
                                     /\ \A i \in 1 .. n : Replays(p[i], w, o + i)}
           al == FirstAlign(c, p, w)
<1>1. IsNew(al) => o + r = 0
  BY DEF FirstAlign, Align, IsNew
<1>2. o \in 0 .. Len(w)
  <2>1. Len(Fps(w)) = Len(w)
    BY DEF Fps
  <2>. QED BY <2>1, OverlapRange
<1>3. r = Longest(S)
  BY DEF PendingRun
<1> HIDE DEF al, o, r
<1>4. S \subseteq 0 .. Len(p) /\ 0 \in S
  BY <1>2
<1>5. r \in S /\ \A x \in S : x <= r
  <2> HIDE DEF S
  <2>. QED BY <1>3, <1>4, LongestIsOne
<1>6. o = 0 => 1 \in S
  <2>1. Replays(p[1], w, 1)
    BY DEF Replays
  <2>. QED BY <2>1
<1> HIDE DEF S
<1>7. r \in 0 .. Len(p)
  BY <1>4, <1>5
<1>8. o + r # 0
  <2>1. o = 0 => 1 <= r
    BY <1>5, <1>6
  <2>. QED BY <1>2, <1>7, <2>1
<1>. QED BY <1>1, <1>8 DEF al

\* A turn whose window starts with more than its own message continues the session.
LEMMA BeginContinues ==
    ASSUME NEW v, Typed(v), Led(v), NEW z, Typed(z), NEW hist, NEW m, Begins(v, z, hist, m),
           FirstPassed(v, z), z.all = 0, v.s # NoSession, Len(z.w) > 1
    PROVE  z.s = v.s
<1> DEFINE al == FirstAlign(v.c, v.p, z.w)
           c  == FirstFps(Base(al, v.c), z.w, al)
           p  == FirstItems(z.w, al)
<1>1. Passed(v, z, al, c, p)
  BY DEF FirstPassed
<1>2. v.all \in Nat /\ v.p \in Seq(Item(v.n)) /\ Len(v.p) \in Nat
  BY DEF Typed
<1>3. z.w[1].role = "user"
  BY BeginParts
<1>4. Len(z.w) \in Nat /\ DOMAIN z.w = 1 .. Len(z.w)
  <2>1. z.w \in Seq(Entries(z.n, z.e))
    BY DEF Typed, Chat
  <2>. QED BY <2>1
<1> HIDE DEF al, c, p
<1>5. v.all = 0 /\ Took(v, z, al, c, p)
  BY <1>1, <1>2 DEF Passed, Took, Missed, TookAnew
<1>6. v.p # <<>> /\ v.p[1].role = "user"
  BY <1>5 DEF Led
<1>7. ~IsNew(al)
  <2>1. Len(v.p) > 0
    BY <1>2, <1>6, LenOf
  <2>. QED BY <1>2, <1>3, <1>4, <1>6, <2>1, LedIsNotNew DEF al
<1>. QED BY <1>5, <1>7 DEF Took

\* What a pass adds to a session it goes on with is the message that has just come.
AddsLast(v, z, start) ==
    /\ start \in {Len(z.w), Len(z.w) + 1}
    /\ start = Len(z.w) => z.n = v.n + 1 /\ \A x \in z.w[Len(z.w)].srcs : x.id = z.n

LEMMA BeginAdds ==
    ASSUME NEW v, Typed(v), CleanIdle(v), NEW z, Typed(z), NEW hist, NEW m,
           Begins(v, z, hist, m), Steady(z), v.all = 0, v.s # NoSession
    PROVE  AddsLast(v, z, FirstAlign(v.c, v.p, z.w).start)
<1> DEFINE w  == z.w
           al == FirstAlign(v.c, v.p, w)
           y  == Len(hist)
<1>1. al.start \in 1 .. Len(w)
  BY BeginParts
<1>2. ~Merges(hist) /\ Shape(z.h, z.a, w)
  BY BeginShape
<1>3. Opens(v, z, hist, m)
  BY BeginShows
<1>4. /\ y \in Nat /\ hist \in Seq(Messages(v.n, v.e)) /\ Len(w) = y + 1 /\ w[y + 1] = Live(m)
      /\ \A i \in 1 .. y : \E g \in 1 .. Len(v.h) : hist[i] = v.h[g]
  BY <1>2, <1>3 DEF Opens, PlainWindow
<1>5. z.n = v.n + 1 /\ m.id = v.n + 1 /\ v.h \in Seq(Messages(v.n, v.e))
  BY DEF Begins, Typed, Chat
<1> HIDE DEF w, al, y
<1>6. \A x \in w[Len(w)].srcs : x.id = z.n
  BY <1>4, <1>5 DEF Live, Entry, Ident
<1>7. al.start = Len(w)
  <2>1. CASE hist = <<>>
    <3>1. Len(w) = 1
      BY <1>4, <2>1 DEF y
    <3>. QED BY <1>1, <3>1
  <2>2. CASE hist # <<>>
    <3>1. 1 \in 1 .. y
      BY <1>4, <2>2 DEF y
    <3>2. v.h # <<>>
      BY <1>4, <1>5, <3>1
    <3>3. Remembers(v.c, v.p, v.h, Len(v.h))
      BY <3>2 DEF CleanIdle
    <3>4. Len(v.h) = Len(v.h) - 0 /\ 0 \in Nat
      BY <1>5
    <3>5. al.start = Len(w) - 0
      BY <1>2, <2>2, <3>3, <3>4, BeginCovered DEF al, w
    <3>. QED BY <1>4, <3>5
  <2>. QED BY <2>1, <2>2
<1>. QED BY <1>5, <1>6, <1>7 DEF AddsLast, w, al

\* The entries of a turn's window show messages of their own.
Apart(w) == \A i, j \in 1 .. Len(w) : i # j => w[i].srcs \cap w[j].srcs = {}

LEMMA ShapeApart ==
    ASSUME NEW v, Typed(v), Numbered(v), Shape(v.h, v.a, v.w)
    PROVE  Apart(v.w)
<1> DEFINE h == v.h
           a == v.a
           w == v.w
           y == Len(h)
           g(i) == IF i <= y THEN h[i] ELSE a[i - y]
<1>1. y \in Nat /\ Len(a) \in Nat /\ v.n \in Nat
  BY DEF Typed, Chat
<1>2. /\ y > 0 /\ Len(w) = y + Len(a)
      /\ \A i \in 1 .. y - 1 : w[i] = Replayed(h[i])
      /\ w[y] = Live(h[y])
      /\ \A j \in 1 .. Len(a) : w[y + j] = Raw(a[j])
  <2>1. h # <<>> /\ h \in Seq(Messages(v.n, v.e))
    BY DEF Shape, Typed, Chat
  <2>2. y > 0
    BY <2>1
  <2>. QED BY <2>2 DEF Shape
<1> HIDE DEF h, a, w, y
<1>3. ASSUME NEW i \in 1 .. Len(w) PROVE w[i].srcs = {Ident(g(i))}
  <2>1. CASE i \in 1 .. y - 1
    <3>1. w[i] = Replayed(h[i]) /\ i <= y
      BY <1>1, <1>2, <2>1
    <3>. QED BY <3>1 DEF Replayed, Entry
  <2>2. CASE i = y
    <3>1. w[i] = Live(h[i]) /\ i <= y
      BY <1>1, <1>2, <2>2
    <3>. QED BY <3>1 DEF Live, Entry
  <2>3. CASE i \notin 1 .. y
    <3>1. i - y \in 1 .. Len(a) /\ y + (i - y) = i /\ ~(i <= y)
      BY <1>1, <1>2, <2>3
    <3>2. w[i] = Raw(a[i - y])
      BY <1>2, <3>1
    <3>. QED BY <3>1, <3>2 DEF Raw, Entry
  <2>. QED BY <1>1, <1>2, <2>1, <2>2, <2>3
<1>4. ASSUME NEW i \in 1 .. Len(w), NEW j \in 1 .. Len(w), i < j PROVE g(i).id < g(j).id
  <2>1. /\ \A k, l \in 1 .. y : k < l => h[k].id < h[l].id
        /\ \A k, l \in 1 .. Len(a) : k < l => a[k].id < a[l].id
        /\ \A k \in 1 .. y, l \in 1 .. Len(a) : h[k].id < a[l].id
    BY DEF Numbered, Rising, Before, h, a, y
  <2>2. CASE j <= y
    <3>1. i \in 1 .. y /\ j \in 1 .. y
      BY <1>1, <1>2, <1>4, <2>2
    <3>2. h[i].id < h[j].id
      BY <1>4, <2>1, <3>1
    <3>. QED BY <3>1, <3>2
  <2>3. CASE ~(j <= y)
    <3>1. j - y \in 1 .. Len(a)
      BY <1>1, <1>2, <2>3
    <3>2. CASE i <= y
      <4>1. i \in 1 .. y
        BY <1>1, <3>2
      <4>2. h[i].id < a[j - y].id
        BY <2>1, <3>1, <4>1
      <4>. QED BY <2>3, <3>2, <4>2
    <3>3. CASE ~(i <= y)
      <4>1. i - y \in 1 .. Len(a) /\ i - y < j - y
        BY <1>1, <1>2, <1>4, <3>3
      <4>2. a[i - y].id < a[j - y].id
        BY <2>1, <3>1, <4>1
      <4>. QED BY <2>3, <3>3, <4>2
    <3>. QED BY <3>2, <3>3
  <2>. QED BY <2>2, <2>3
<1>5. ASSUME NEW i \in 1 .. Len(w) PROVE g(i).id \in Nat
  <2>1. /\ \A k \in 1 .. y : h[k].id \in Nat
        /\ \A k \in 1 .. Len(a) : a[k].id \in Nat
    <3>1. h \in Seq(Messages(v.n, v.e)) /\ a \in Seq(Messages(v.n, v.e))
      BY DEF Typed, Chat, h, a
    <3>2. /\ \A k \in 1 .. y : h[k] \in Messages(v.n, v.e)
          /\ \A k \in 1 .. Len(a) : a[k] \in Messages(v.n, v.e)
      BY <3>1 DEF y
    <3>. QED BY <3>2 DEF Messages
  <2>2. CASE i <= y
    <3>1. i \in 1 .. y
      BY <1>1, <2>2
    <3>. QED BY <2>1, <2>2, <3>1
  <2>3. CASE ~(i <= y)
    <3>1. i - y \in 1 .. Len(a)
      BY <1>1, <1>2, <2>3
    <3>. QED BY <2>1, <2>3, <3>1
  <2>. QED BY <2>2, <2>3
<1> HIDE DEF g
<1>6. ASSUME NEW i \in 1 .. Len(w), NEW j \in 1 .. Len(w), i < j
      PROVE  w[i].srcs \cap w[j].srcs = {}
  <2>1. g(i).id < g(j).id /\ g(i).id \in Nat /\ g(j).id \in Nat
    BY <1>4, <1>5, <1>6
  <2>2. g(i).id # g(j).id
    BY <2>1
  <2>3. Ident(g(i)) # Ident(g(j))
    BY <2>2 DEF Ident
  <2>. QED BY <1>3, <2>3
<1>7. ASSUME NEW i \in 1 .. Len(w), NEW j \in 1 .. Len(w), i # j
      PROVE  w[i].srcs \cap w[j].srcs = {}
  <2>1. i < j \/ j < i
    BY <1>1, <1>2, <1>7
  <2>. QED BY <1>6, <2>1
<1>. QED BY <1>7 DEF Apart, w

-----------------------------------------------------------------------------
(* A turn goes on.                                                         *)

\* The window is what it was, or one message longer.
Longer(v, z) ==
    /\ z.n = v.n + 1 /\ Len(z.w) = Len(v.w) + 1 /\ Len(z.a) = Len(v.a) + 1
    /\ \A i \in 1 .. Len(v.a) : z.a[i] = v.a[i]
    /\ LET m == z.a[Len(z.a)]
       IN  z.w[Len(z.w)] = Raw(m) /\ m.id = z.n /\ ~m.opens
Goes(v, z) ==
    /\ z.n \in Nat /\ v.c \in Seq(Fp(z.n)) /\ v.p \in Seq(Item(z.n))
    /\ z.w \in Seq(Entries(z.n, z.e)) /\ z.w # <<>>
    /\ Len(v.w) \in Nat /\ Len(v.w) > 0 /\ Len(z.w) \in Nat /\ Len(v.a) \in Nat
    /\ \A i \in 1 .. Len(v.w) : z.w[i] = v.w[i]
    /\ Repeats(v, z) \/ Longer(v, z)

LEMMA GoesOnParts ==
    ASSUME NEW v, Typed(v), NEW z, Typed(z), GoesOn(v, z)
    PROVE  /\ Goes(v, z) /\ v.w # <<>>
           /\ \A l, q : Covers(v.c, v.p, v.w, l, q) => Covers(v.c, v.p, z.w, l, q)
<1>1. /\ z.n \in Nat /\ v.n \in Nat /\ v.c \in Seq(Fp(v.n)) /\ v.p \in Seq(Item(v.n))
      /\ z.w \in Seq(Entries(z.n, z.e)) /\ v.w \in Seq(Entries(v.n, v.e))
      /\ v.a \in Seq(Messages(v.n, v.e)) /\ v.e \in Nat /\ v.w # <<>> /\ z.e = v.e
  BY DEF Typed, Chat, GoesOn
<1>2. Len(v.w) \in Nat /\ Len(v.w) > 0 /\ Len(z.w) \in Nat /\ Len(v.a) \in Nat
  BY <1>1
<1>3. CASE Repeats(v, z)
  <2>1. z.w = v.w /\ z.n = v.n
    BY <1>3 DEF Repeats
  <2>2. Goes(v, z)
    BY <1>1, <1>2, <1>3, <2>1 DEF Goes
  <2>. QED BY <1>1, <2>1, <2>2
<1>4. CASE AddsMessage(v, z)
  <2>1. PICK m \in Messages(v.n + 1, v.e) :
          /\ ~m.opens /\ m.id = v.n + 1
          /\ z.w = Append(v.w, Raw(m)) /\ z.a = Append(v.a, m) /\ z.n = v.n + 1
    BY <1>4 DEF AddsMessage
  <2> DEFINE x == Raw(m)
             T == Entries(z.n, z.e)
             M == Messages(z.n, z.e)
  <2>2. x \in T
    BY <1>1, <2>1, ShapesTyped
  <2>3. v.w \in Seq(T)
    BY <1>1, <2>1, Grow, SeqGrow
  <2>4. v.a \in Seq(M) /\ m \in M
    BY <1>1, <2>1, Grow, SeqGrow
  <2>5. v.c \in Seq(Fp(z.n)) /\ v.p \in Seq(Item(z.n))
    BY <1>1, <2>1, Grow, SeqGrow
  <2>6. z.w = Append(v.w, x)
    BY <2>1
  <2> HIDE DEF x, T, M
  <2>7. /\ Len(z.w) = Len(v.w) + 1 /\ z.w[Len(z.w)] = x
        /\ \A i \in 1 .. Len(v.w) : z.w[i] = v.w[i]
    BY <2>2, <2>3, <2>6
  <2>8. /\ Len(z.a) = Len(v.a) + 1 /\ z.a[Len(z.a)] = m
        /\ \A i \in 1 .. Len(v.a) : z.a[i] = v.a[i]
    BY <2>1, <2>4
  <2>9. Longer(v, z)
    BY <2>1, <2>7, <2>8 DEF Longer, x
  <2>10. z.w # <<>>
    BY <1>2, <2>7, LenOf
  <2>11. Goes(v, z)
    BY <1>1, <1>2, <2>5, <2>7, <2>9, <2>10 DEF Goes
  <2>12. ASSUME NEW l, NEW q, Covers(v.c, v.p, v.w, l, q) PROVE Covers(v.c, v.p, z.w, l, q)
    BY <2>2, <2>3, <2>6, <2>12, CoversLonger
  <2>. QED BY <1>1, <2>11, <2>12
<1>. QED BY <1>3, <1>4 DEF GoesOn

MidTook(v, z) ==
    LET al == MidAlign(v.c, v.p, z.w)
    IN  Took(v, z, al, MidFps(Base(al, v.c), z.w, al), MidItems(z.w, al))

\* A later pass goes on after what memory covers, or stores the window anew.
LEMMA MidResumes ==
    ASSUME NEW v, NEW z, Goes(v, z), MidTook(v, z), NEW l, NEW q, Covers(v.c, v.p, z.w, l, q)
    PROVE  /\ Covers(z.c, z.p, z.w, Len(z.w), q) /\ z.p[1] = v.p[1]
           /\ MidAlign(v.c, v.p, z.w).start = l + 1
           /\ \A i \in l + 1 .. Len(z.w) : Has(z, z.w[i])
           /\ NoneNew(v.c, z.c)
<1> DEFINE w == z.w
           c == v.c
           p == v.p
           n == z.n
           e == z.e
           al == MidAlign(c, p, w)
           c2 == MidFps(Base(al, c), w, al)
           p2 == MidItems(w, al)
<1>1. n \in Nat /\ c \in Seq(Fp(n)) /\ p \in Seq(Item(n)) /\ w \in Seq(Entries(n, e))
  BY DEF Goes
<1>2. Covers(c, p, w, l, q)
  OBVIOUS
<1>3. Took(v, z, al, c2, p2)
  BY DEF MidTook
<1>4. /\ al.start = l + 1 /\ Covers(c2, p2, w, Len(w), q) /\ p2[1] = p[1]
      /\ NoneNew(c, c2)
  <2> HIDE DEF n, e, c, p, w
  <2>. QED BY ONLY <1>1, <1>2, StaysCaughtUp DEF al, c2, p2
<1> HIDE DEF al, c2, p2
<1>5. z.c = c2 /\ z.p = p2 /\ \A i \in al.start .. Len(w) : Has(z, w[i])
  BY <1>3 DEF Took
<1>. QED BY <1>4, <1>5 DEF al

LEMMA MidAnew ==
    ASSUME NEW v, NEW z, Goes(v, z), MidTook(v, z), Empty(v)
    PROVE  /\ Covers(z.c, z.p, z.w, Len(z.w), 0) /\ z.p[1].role = z.w[1].role
           /\ \A i \in 1 .. Len(z.w) : Has(z, z.w[i])
<1> DEFINE w == z.w
           c == v.c
           p == v.p
           n == z.n
           e == z.e
           al == MidAlign(c, p, w)
           c2 == MidFps(Base(al, c), w, al)
           p2 == MidItems(w, al)
<1>1. /\ n \in Nat /\ c \in Seq(Fp(n)) /\ p \in Seq(Item(n)) /\ w \in Seq(Entries(n, e))
      /\ w # <<>> /\ c = <<>> /\ p = <<>>
  BY DEF Goes, Empty
<1>2. Took(v, z, al, c2, p2)
  BY DEF MidTook
<1>3. al.start = 1 /\ Covers(c2, p2, w, Len(w), 0) /\ p2[1].role = w[1].role
  <2> HIDE DEF n, e, c, p, w
  <2>. QED BY ONLY <1>1, CaughtUp, ZenonT(40) DEF al, c2, p2
<1> HIDE DEF al, c2, p2
<1>4. z.c = c2 /\ z.p = p2 /\ \A i \in al.start .. Len(w) : Has(z, w[i])
  BY <1>2 DEF Took
<1>. QED BY <1>3, <1>4

\* A later pass of a conversation whose windows were all archived leaves all of it stored.
LEMMA MidWhole ==
    ASSUME NEW v, Typed(v), Whole(v), NEW z, Typed(z), GoesOn(v, z), MidPassed(v, z)
    PROVE  Whole(z)
<1> SUFFICES ASSUME z.f = 0 PROVE Whole(z)
  BY DEF Whole
<1> DEFINE al == MidAlign(v.c, v.p, z.w)
           c  == MidFps(Base(al, v.c), z.w, al)
           p  == MidItems(z.w, al)
<1>1. Passed(v, z, al, c, p)
  BY DEF MidPassed
<1>2. Took(v, z, al, c, p) => MidTook(v, z)
  BY DEF MidTook
<1> HIDE DEF al, c, p
<1>3. /\ v.f = 0 /\ v.st \subseteq z.st
      /\ MidTook(v, z) \/ TookAnew(v, z)
  <2>1. v.f \in Nat
    BY DEF Typed
  <2>2. ~Missed(v, z, 1) /\ ~Missed(v, z, 2)
    BY <2>1 DEF Missed
  <2>3. Took(v, z, al, c, p) \/ TookAnew(v, z)
    BY <1>1, <2>2 DEF Passed
  <2>4. v.f = 0 /\ v.st \subseteq z.st
    BY <2>3 DEF Took, TookAnew
  <2>. QED BY <1>2, <2>3, <2>4
<1>4. /\ Goes(v, z) /\ v.w # <<>>
      /\ \A l, q : Covers(v.c, v.p, v.w, l, q) => Covers(v.c, v.p, z.w, l, q)
  BY GoesOnParts
<1>5. WholeTurn(v)
  BY <1>3, <1>4 DEF Whole
<1> DEFINE w == z.w
           y == Len(v.w)
<1>6. /\ w # <<>> /\ w \in Seq(Entries(z.n, z.e)) /\ Len(w) \in Nat /\ y \in Nat
      /\ \A i \in 1 .. y : w[i] = v.w[i]
  BY <1>4 DEF Goes
<1>7. (\A i \in 1 .. Len(w) : Has(z, w[i])) /\ \E q \in Nat : Covers(z.c, z.p, w, Len(w), q)
  <2>1. CASE TookAnew(v, z)
    <3>1. PICK a : StartsOver(a) /\ z.c = FirstFps(<<>>, w, a) /\ z.p = FirstItems(w, a)
      BY <2>1 DEF TookAnew
    <3>2. a.start = 1 /\ a.adopted = <<>> /\ a.keep = <<>>
      BY <3>1 DEF StartsOver
    <3> HIDE DEF w
    <3>3. Covers(z.c, z.p, w, Len(w), Len(w) - 1)
      BY <1>6, <3>1, <3>2, AnewStored
    <3>4. Len(w) - 1 \in Nat
      BY <1>6, LenOf
    <3>. QED BY <2>1, <3>3, <3>4 DEF TookAnew, w
  <2>2. CASE MidTook(v, z) /\ Empty(v)
    <3>1. 0 \in Nat
      OBVIOUS
    <3>. QED BY <1>4, <2>2, <3>1, MidAnew
  <2>3. CASE MidTook(v, z) /\ ~Empty(v)
    <3>1. PICK q \in Nat : Covers(v.c, v.p, v.w, y, q)
      BY <1>5, <2>3 DEF WholeTurn
    <3>2. Covers(v.c, v.p, w, y, q)
      BY <1>4, <3>1
    <3>3. Covers(z.c, z.p, w, Len(w), q) /\ \A i \in y + 1 .. Len(w) : Has(z, w[i])
      BY <1>4, <2>3, <3>2, MidResumes
    <3>4. ASSUME NEW i \in 1 .. y PROVE Has(z, w[i])
      BY <1>3, <1>5, <1>6 DEF WholeTurn, Has
    <3>. QED BY <1>6, <3>3, <3>4
  <2>. QED BY <1>3, <2>1, <2>2, <2>3
<1>8. z.h = v.h /\ \A i \in 1 .. Len(z.h) : Knows(z, z.h[i])
  BY <1>3, <1>5 DEF GoesOn, WholeTurn, Knows
<1>9. ASSUME NEW i \in 1 .. Len(z.a) PROVE Knows(z, z.a[i])
  <2>1. CASE Repeats(v, z)
    BY <1>3, <1>5, <1>9, <2>1 DEF Repeats, WholeTurn, Knows
  <2>2. CASE Longer(v, z)
    <3>1. Len(v.a) \in Nat /\ Len(z.a) = Len(v.a) + 1
      BY <1>4, <2>2 DEF Goes, Longer
    <3>2. CASE i = Len(z.a)
      <4>1. w[Len(w)] = Raw(z.a[i])
        BY <2>2, <3>2 DEF Longer
      <4>2. Len(w) \in 1 .. Len(w)
        BY <1>6, LenOf
      <4>3. Has(z, w[Len(w)])
        BY <1>7, <4>2
      <4>. QED BY <4>1, <4>3 DEF Raw, Entry, Has, Knows
    <3>3. CASE i # Len(z.a)
      <4>1. i \in 1 .. Len(v.a)
        BY <1>9, <3>1, <3>3
      <4>2. z.a[i] = v.a[i]
        BY <2>2, <4>1 DEF Longer
      <4>. QED BY <1>3, <1>5, <4>1, <4>2 DEF WholeTurn, Knows
    <3>. QED BY <3>2, <3>3
  <2>. QED BY <1>4, <2>1, <2>2 DEF Goes
<1>10. WholeTurn(z)
  BY <1>7, <1>8, <1>9 DEF WholeTurn
<1>. QED BY <1>6, <1>10 DEF Whole

\* The first pending message stays a user's.
LEMMA MidLed ==
    ASSUME NEW v, Typed(v), Led(v), Whole(v), NEW z, Typed(z), GoesOn(v, z), MidPassed(v, z)
    PROVE  Led(z)
<1> DEFINE al == MidAlign(v.c, v.p, z.w)
           c  == MidFps(Base(al, v.c), z.w, al)
           p  == MidItems(z.w, al)
<1>1. Passed(v, z, al, c, p)
  BY DEF MidPassed
<1>2. Took(v, z, al, c, p) => MidTook(v, z)
  BY DEF MidTook
<1> HIDE DEF al, c, p
<1>3. /\ Goes(v, z) /\ v.w # <<>>
      /\ \A l, q : Covers(v.c, v.p, v.w, l, q) => Covers(v.c, v.p, z.w, l, q)
  BY GoesOnParts
<1>4. z.w[1].role = "user" /\ Len(z.w) \in Nat /\ Len(z.w) > 0
  <2>1. 1 \in 1 .. Len(v.w) /\ z.w[1] = v.w[1]
    BY <1>3 DEF Goes
  <2>2. Len(z.w) \in Nat /\ z.w # <<>> /\ z.w \in Seq(Entries(z.n, z.e))
    BY <1>3 DEF Goes
  <2>. QED BY <1>3, <2>1, <2>2, LenOf DEF Led
<1>5. ASSUME z.all = 0, z.s # NoSession PROVE z.p # <<>> /\ z.p[1].role = "user"
  <2>1. v.all = 0 /\ v.f = 0 /\ MidTook(v, z)
    BY <1>1, <1>2, <1>5 DEF Typed, Passed, Took, Missed, TookAnew
  <2>2. WholeTurn(v)
    BY <1>3, <2>1 DEF Whole
  <2>3. ASSUME NEW q, Covers(z.c, z.p, z.w, Len(z.w), q) PROVE z.p # <<>>
    <3>1. q \in 0 .. Len(z.w) - 1 /\ Len(z.p) = Len(z.w) - q
      BY <2>3 DEF Covers
    <3>2. Len(z.p) > 0
      BY <1>4, <3>1
    <3>3. z.p \in Seq(Item(z.n))
      BY DEF Typed
    <3>. QED BY <3>2, <3>3
  <2>4. CASE Empty(v)
    <3>1. Covers(z.c, z.p, z.w, Len(z.w), 0) /\ z.p[1].role = z.w[1].role
      BY <1>3, <2>1, <2>4, MidAnew
    <3>. QED BY <1>4, <2>3, <3>1
  <2>5. CASE ~Empty(v)
    <3>1. v.s # NoSession
      BY <2>5 DEF Typed, Empty
    <3>2. v.p[1].role = "user"
      BY <2>1, <3>1 DEF Led
    <3>3. PICK q \in Nat : Covers(v.c, v.p, v.w, Len(v.w), q)
      BY <2>2, <2>5 DEF WholeTurn
    <3>4. Covers(v.c, v.p, z.w, Len(v.w), q)
      BY <1>3, <3>3
    <3>5. Covers(z.c, z.p, z.w, Len(z.w), q) /\ z.p[1] = v.p[1]
      BY <1>3, <2>1, <3>4, MidResumes
    <3>. QED BY <2>3, <3>2, <3>5
  <2>. QED BY <2>4, <2>5
<1>. QED BY <1>4, <1>5 DEF Led

LEMMA MidShape ==
    ASSUME NEW v, Typed(v), Shape(v.h, v.a, v.w), NEW z, z.h = v.h, Goes(v, z)
    PROVE  Shape(z.h, z.a, z.w)
<1>1. CASE Repeats(v, z)
  BY <1>1 DEF Repeats
<1>2. CASE Longer(v, z)
  <2> DEFINE y == Len(v.h)
             k == Len(v.a)
             w == z.w
             a == z.a
  <2>1. /\ y \in Nat /\ k \in Nat /\ v.h # <<>> /\ v.h[y].role = "user" /\ Len(v.w) = y + k
        /\ \A i \in 1 .. y - 1 : v.w[i] = Replayed(v.h[i])
        /\ v.w[y] = Live(v.h[y])
        /\ \A j \in 1 .. k : v.w[y + j] = Raw(v.a[j])
    BY DEF Shape, Typed, Chat
  <2>2. y > 0
    BY <2>1 DEF Typed, Chat
  <2>3. /\ Len(w) = Len(v.w) + 1 /\ Len(a) = k + 1
        /\ \A i \in 1 .. k : a[i] = v.a[i]
        /\ w[Len(w)] = Raw(a[Len(a)])
        /\ \A i \in 1 .. Len(v.w) : w[i] = v.w[i]
    BY <1>2 DEF Longer, Goes
  <2> HIDE DEF y, k, w, a
  <2>4. Len(w) = y + Len(a)
    BY <2>1, <2>3
  <2>5. ASSUME NEW i \in 1 .. y - 1 PROVE w[i] = Replayed(v.h[i])
    <3>1. i \in 1 .. Len(v.w)
      BY <2>1
    <3>. QED BY <2>1, <2>3, <3>1
  <2>6. w[y] = Live(v.h[y])
    <3>1. y \in 1 .. Len(v.w)
      BY <2>1, <2>2
    <3>. QED BY <2>1, <2>3, <3>1
  <2>7. ASSUME NEW j \in 1 .. Len(a) PROVE w[y + j] = Raw(a[j])
    <3>1. CASE j = k + 1
      <4>1. y + j = Len(w) /\ j = Len(a)
        BY <2>1, <2>3, <3>1
      <4>. QED BY <2>3, <4>1
    <3>2. CASE j # k + 1
      <4>1. j \in 1 .. k /\ y + j \in 1 .. Len(v.w)
        BY <2>1, <2>2, <2>3, <3>2
      <4>. QED BY <2>1, <2>3, <4>1
    <3>. QED BY <3>1, <3>2
  <2>. QED BY <2>1, <2>4, <2>5, <2>6, <2>7 DEF Shape, y, w, a
<1>. QED BY <1>1, <1>2 DEF Goes

\* After a fault that a later pass makes good, all of the window is known.
LEMMA MidMends ==
    ASSUME NEW v, Typed(v), CleanTurn(v), v.all = 1, NEW z, Typed(z), GoesOn(v, z), MidTook(v, z)
    PROVE  /\ \A i \in 1 .. Len(z.w) : Has(z, z.w[i])
           /\ \E q \in Nat : Covers(z.c, z.p, z.w, Len(z.w), q)
<1>1. /\ Goes(v, z) /\ v.w # <<>>
      /\ \A l, q : Covers(v.c, v.p, v.w, l, q) => Covers(v.c, v.p, z.w, l, q)
  BY GoesOnParts
<1>2. /\ Len(v.w) \in Nat /\ Len(v.w) > 0 /\ Len(z.w) \in Nat
      /\ \A i \in 1 .. Len(v.w) : z.w[i] = v.w[i]
  BY <1>1 DEF Goes
<1>3. v.st \subseteq z.st
  BY DEF MidTook, Took
<1>4. \A i \in 1 .. Len(v.w) - 1 : Has(z, z.w[i])
  <2>1. \A i \in 1 .. Len(v.w) - 1 : i \in 1 .. Len(v.w) /\ Has(v, v.w[i])
    BY <1>2 DEF CleanTurn
  <2>. QED BY <1>2, <1>3, <2>1 DEF Has
<1>5. ASSUME NEW l, NEW q \in Nat, Covers(v.c, v.p, v.w, l, q),
             l = Len(v.w) - 1 \/ (l = Len(v.w) /\ Has(v, v.w[l]))
      PROVE  /\ \A i \in 1 .. Len(z.w) : Has(z, z.w[i])
             /\ Covers(z.c, z.p, z.w, Len(z.w), q)
  <2>1. Covers(v.c, v.p, z.w, l, q)
    BY <1>1, <1>5
  <2>2. Covers(z.c, z.p, z.w, Len(z.w), q) /\ \A i \in l + 1 .. Len(z.w) : Has(z, z.w[i])
    BY <1>1, <2>1, MidResumes
  <2>3. \A i \in 1 .. l : Has(z, z.w[i])
    <3>1. CASE l = Len(v.w) - 1
      BY <1>4, <3>1
    <3>2. CASE l = Len(v.w) /\ Has(v, v.w[l])
      <4>1. z.w[l] = v.w[l] /\ l \in Nat
        BY <1>2, <3>2
      <4>2. Has(z, z.w[l])
        BY <1>3, <3>2, <4>1 DEF Has
      <4>3. \A i \in 1 .. l : i = l \/ i \in 1 .. Len(v.w) - 1
        BY <1>2, <3>2
      <4>. QED BY <1>4, <4>2, <4>3
    <3>. QED BY <1>5, <3>1, <3>2
  <2>4. l \in Nat /\ \A i \in 1 .. Len(z.w) : i \in 1 .. l \/ i \in l + 1 .. Len(z.w)
    <3>1. l \in Nat
      BY <1>2, <1>5
    <3>. QED BY <1>2, <3>1
  <2>. QED BY <2>2, <2>3, <2>4
<1>6. Lags(v)
  BY DEF CleanTurn
<1>7. CASE Empty(v)
  <2>1. 0 \in Nat
    OBVIOUS
  <2>. QED BY <1>1, <1>7, <2>1, MidAnew
<1>8. CASE Has(v, v.w[Len(v.w)]) /\ \E q \in Nat : Covers(v.c, v.p, v.w, Len(v.w), q)
  BY <1>5, <1>8
<1>9. CASE \E q \in Nat : Covers(v.c, v.p, v.w, Len(v.w) - 1, q)
  BY <1>5, <1>9
<1>10. CASE Tracks(v, Len(v.w) - 1)
  <2> DEFINE q == Len(v.h) - 1
             l == Len(v.w) - 1
  <2>1. Covers(v.c, v.p, v.w, l, q)
    BY <1>10 DEF Tracks
  <2>2. q \in Nat
    <3>1. Len(v.h) \in Nat /\ v.h # <<>> /\ v.h \in Seq(Messages(v.n, v.e))
      BY DEF CleanTurn, Shape, Typed, Chat
    <3>. QED BY <3>1, LenOf
  <2> HIDE DEF q
  <2>. QED BY <1>5, <2>1, <2>2
<1>. QED BY <1>6, <1>7, <1>8, <1>9, <1>10 DEF Lags

\* The first fault of a turn leaves all but its last message known.
LEMMA MidMissed ==
    ASSUME NEW v, Typed(v), CleanTurn(v), WholeTurn(v), v.all = 0, NEW z, Typed(z), GoesOn(v, z),
           z.s = v.s, Missed(v, z, 1), z.all = 1
    PROVE  CleanTurn(z)
<1>1. /\ Goes(v, z) /\ v.w # <<>>
      /\ \A l, q : Covers(v.c, v.p, v.w, l, q) => Covers(v.c, v.p, z.w, l, q)
  BY GoesOnParts
<1>2. /\ Len(v.w) \in Nat /\ Len(v.w) > 0 /\ Len(z.w) \in Nat
      /\ \A i \in 1 .. Len(v.w) : z.w[i] = v.w[i]
      /\ Repeats(v, z) \/ Longer(v, z)
  BY <1>1 DEF Goes
<1>3. z.h = v.h /\ Shape(z.h, z.a, z.w)
  BY <1>1, MidShape DEF GoesOn, CleanTurn
<1>4. /\ z.last = v.last /\ z.st = v.st
      /\ (z.c = v.c /\ z.p = v.p) \/ Empty(z)
  BY DEF Missed
<1>5. \A i \in 1 .. Len(v.w) : Has(z, z.w[i])
  BY <1>2, <1>4 DEF WholeTurn, Has
<1>6. Repeats(v, z) => Len(z.w) = Len(v.w)
  BY DEF Repeats
<1>7. Longer(v, z) => Len(z.w) = Len(v.w) + 1
  BY DEF Longer
<1>8. \A i \in 1 .. Len(z.w) - 1 : Has(z, z.w[i])
  <2>1. \A i \in 1 .. Len(z.w) - 1 : i \in 1 .. Len(v.w)
    BY <1>2, <1>6, <1>7
  <2>. QED BY <1>5, <2>1
<1>9. z.last = Len(z.w) => Has(z, z.w[Len(z.w)])
  <2>1. v.last \in Nat /\ v.last <= Len(v.w)
    BY DEF Typed
  <2>2. z.last = Len(z.w) => Len(z.w) \in 1 .. Len(v.w)
    BY <1>2, <1>4, <1>6, <1>7, <2>1
  <2>. QED BY <1>5, <2>2
<1>10. Lags(z)
  <2>1. CASE Empty(z)
    BY <2>1 DEF Lags
  <2>2. CASE ~Empty(z)
    <3>1. z.c = v.c /\ z.p = v.p /\ ~Empty(v)
      BY <1>4, <2>2 DEF Empty
    <3>2. v.s # NoSession
      BY <3>1 DEF Typed, Empty
    <3>3. Tracks(v, Len(v.w))
      BY <3>2 DEF CleanTurn
    <3> DEFINE l == Len(v.w)
               q == Len(v.h) - 1
    <3>4. Covers(v.c, v.p, z.w, l, q)
      BY <1>1, <3>3 DEF Tracks
    <3>5. q \in Nat
      <4>1. Len(v.h) \in Nat /\ v.h # <<>> /\ v.h \in Seq(Messages(v.n, v.e))
        BY DEF CleanTurn, Shape, Typed, Chat
      <4>. QED BY <4>1, LenOf
    <3>6. CASE Repeats(v, z)
      <4>1. Len(z.w) = l /\ l \in 1 .. l
        BY <1>2, <1>6, <3>6
      <4>2. Has(z, z.w[Len(z.w)])
        BY <1>5, <4>1
      <4> HIDE DEF l, q
      <4>3. Covers(z.c, z.p, z.w, Len(z.w), q)
        BY <3>1, <3>4, <4>1
      <4>. QED BY <3>5, <4>2, <4>3 DEF Lags
    <3>7. CASE Longer(v, z)
      <4>1. Len(z.w) - 1 = l
        BY <1>2, <1>7, <3>7
      <4>2. Tracks(z, Len(z.w) - 1)
        <5>1. Covers(z.c, z.p, z.w, Len(z.w) - 1, Len(z.h) - 1)
          BY <1>3, <3>1, <3>4, <4>1
        <5>. QED BY <1>3, <3>1, <3>3, <5>1 DEF Tracks
      <4>3. z.a # <<>>
        <5>1. Len(z.a) = Len(v.a) + 1 /\ Len(v.a) \in Nat
          BY <1>1, <3>7 DEF Longer, Goes
        <5>. QED BY <5>1, LenOf
      <4>. QED BY <4>2, <4>3 DEF Lags
    <3>. QED BY <1>2, <3>6, <3>7
  <2>. QED BY <2>1, <2>2
<1>. QED BY <1>3, <1>8, <1>9, <1>10 DEF CleanTurn

\* What a later pass without a fault leaves is covered up to the turn's user message.
LEMMA MidTracks ==
    ASSUME NEW v, Typed(v), CleanTurn(v), v.all = 0, NEW z, Typed(z), GoesOn(v, z), v.s # NoSession
    PROVE  /\ MidTook(v, z) => Tracks(z, Len(z.w))
           /\ AddsLast(v, z, MidAlign(v.c, v.p, z.w).start) /\ ~IsNew(MidAlign(v.c, v.p, z.w))
<1> DEFINE l == Len(v.w)
           q == Len(v.h) - 1
           al == MidAlign(v.c, v.p, z.w)
<1>1. /\ Goes(v, z)
      /\ \A k, r : Covers(v.c, v.p, v.w, k, r) => Covers(v.c, v.p, z.w, k, r)
  BY GoesOnParts
<1>2. Tracks(v, l) /\ z.h = v.h
  BY DEF CleanTurn, GoesOn
<1>3. Covers(v.c, v.p, z.w, l, q)
  BY <1>1, <1>2 DEF Tracks
<1>4. ASSUME MidTook(v, z) PROVE Tracks(z, Len(z.w))
  <2>1. Covers(z.c, z.p, z.w, Len(z.w), q) /\ NoneNew(v.c, z.c)
    BY <1>1, <1>3, <1>4, MidResumes
  <2> HIDE DEF l
  <2>. QED BY <1>2, <2>1 DEF Tracks, NoneNew
<1>5. al.start = l + 1 /\ ~IsNew(al)
  <2> DEFINE n == z.n
             e == z.e
             c == v.c
             p == v.p
             w == z.w
  <2>1. n \in Nat /\ c \in Seq(Fp(n)) /\ p \in Seq(Item(n)) /\ w \in Seq(Entries(n, e))
    BY <1>1 DEF Goes
  <2>2. Covers(c, p, w, l, q)
    BY <1>3
  <2> HIDE DEF n, e, c, p, w, l, q
  <2>3. MidAlign(c, p, w).start = l + 1
    BY ONLY <2>1, <2>2, CoveredGoesOn
  <2>4. ~IsNew(MidAlign(c, p, w))
    BY ONLY <2>1, <2>2, CoveredGoesOn
  <2>. QED BY <2>3, <2>4 DEF c, p, w
<1> HIDE DEF al
<1>6. AddsLast(v, z, al.start)
  <2>1. CASE Repeats(v, z)
    <3>1. Len(z.w) = l /\ l \in Nat
      BY <1>1, <2>1 DEF Repeats, Goes
    <3>. QED BY <1>5, <3>1 DEF AddsLast
  <2>2. CASE Longer(v, z)
    <3>1. Len(z.w) = l + 1 /\ z.n = v.n + 1
      BY <2>2 DEF Longer
    <3>2. \A x \in z.w[Len(z.w)].srcs : x.id = z.n
      BY <2>2 DEF Longer, Raw, Entry, Ident
    <3>. QED BY <1>5, <3>1, <3>2 DEF AddsLast
  <2>. QED BY <1>1, <2>1, <2>2 DEF Goes
<1>. QED BY <1>4, <1>5, <1>6 DEF al

\* A later pass keeps the memory that has seen at most one fault in order.
LEMMA MidClean ==
    ASSUME NEW v, Typed(v), Whole(v), Clean(v), NEW z, Typed(z), GoesOn(v, z), MidPassed(v, z)
    PROVE  Clean(z)
<1> SUFFICES ASSUME Regular(z) PROVE Clean(z)
  BY DEF Clean
<1> DEFINE al == MidAlign(v.c, v.p, z.w)
           c  == MidFps(Base(al, v.c), z.w, al)
           p  == MidItems(z.w, al)
<1>1. /\ Goes(v, z) /\ v.w # <<>> /\ z.w # <<>> /\ z.h = v.h
      /\ z.irr = FALSE => v.irr = FALSE /\ z.s = v.s
  BY GoesOnParts DEF GoesOn, Goes
<1>2. Passed(v, z, al, c, p)
  BY DEF MidPassed
<1>3. Took(v, z, al, c, p) => MidTook(v, z)
  BY DEF MidTook
<1> HIDE DEF al, c, p
<1>4. z.irr = FALSE => v.irr = FALSE
  BY <1>1
<1>5. /\ Regular(v)
      /\ \/ Took(v, z, al, c, p) /\ v.all \in {0, 1} /\ z.all = v.all
         \/ Missed(v, z, 1) /\ (IsNew(al) => Empty(z)) /\ v.f = 0 /\ v.all = 0 /\ z.all = 1
  BY <1>2, <1>4, PassedRegular
<1>6. CleanTurn(v) /\ z.s = v.s
  <2>1. z.irr = FALSE
    BY DEF Regular
  <2>. QED BY <1>1, <1>5, <2>1 DEF Clean
<1>7. CASE MidTook(v, z) /\ v.all \in {0, 1} /\ z.all = v.all
  <2>1. Shape(z.h, z.a, z.w)
    BY <1>1, <1>6, MidShape DEF CleanTurn
  <2>2. z.all = 0 /\ z.s # NoSession => Tracks(z, Len(z.w))
    BY <1>6, <1>7, MidTracks
  <2>3. ASSUME z.all = 1
        PROVE  (\A i \in 1 .. Len(z.w) : Has(z, z.w[i])) /\ Lags(z)
    <3>1. /\ \A i \in 1 .. Len(z.w) : Has(z, z.w[i])
          /\ \E q \in Nat : Covers(z.c, z.p, z.w, Len(z.w), q)
      BY <1>6, <1>7, <2>3, MidMends
    <3>2. Len(z.w) \in 1 .. Len(z.w)
      <4>1. z.w \in Seq(Entries(z.n, z.e)) /\ Len(z.w) \in Nat
        BY <1>1 DEF Goes
      <4>. QED BY <1>1, <4>1, LenOf
    <3>. QED BY <3>1, <3>2 DEF Lags
  <2>4. \A i \in 1 .. Len(z.w) - 1 : i \in 1 .. Len(z.w)
    BY <1>1 DEF Goes
  <2>5. Len(z.w) \in 1 .. Len(z.w)
    <3>1. z.w \in Seq(Entries(z.n, z.e)) /\ Len(z.w) \in Nat
      BY <1>1 DEF Goes
    <3>. QED BY <1>1, <3>1, LenOf
  <2>6. CleanTurn(z)
    BY <2>1, <2>2, <2>3, <2>4, <2>5 DEF CleanTurn
  <2>. QED BY <1>1, <2>6 DEF Clean
<1>8. CASE Missed(v, z, 1) /\ v.f = 0 /\ v.all = 0 /\ z.all = 1
  <2>1. WholeTurn(v)
    BY <1>1, <1>8 DEF Whole
  <2>2. CleanTurn(z)
    BY <1>6, <1>8, <2>1, MidMissed
  <2>. QED BY <1>1, <2>2 DEF Clean
<1>. QED BY <1>3, <1>5, <1>7, <1>8

-----------------------------------------------------------------------------
(* A turn is over, and the steps that archive nothing.                     *)

\* Sequence b is sequence a, or what dropping an element or all of it leaves.
Keeps(a, b) ==
    /\ Len(b) \in Nat /\ Len(b) <= Len(a)
    /\ \E i \in Nat : \A j \in 1 .. Len(b) :
         IF j < i THEN b[j] = a[j] ELSE j + 1 <= Len(a) /\ b[j] = a[j + 1]

LEMMA KeepsIs ==
    ASSUME NEW T, NEW a \in Seq(T)
    PROVE  Keeps(a, a) /\ Keeps(a, <<>>) /\ \A i \in DOMAIN a : Keeps(a, RemoveAt(a, i))
<1>1. Len(a) \in Nat /\ DOMAIN a = 1 .. Len(a)
  OBVIOUS
<1>2. Keeps(a, a)
  <2>1. Len(a) + 1 \in Nat /\ \A j \in 1 .. Len(a) : j < Len(a) + 1
    BY <1>1
  <2>. QED BY <1>1, <2>1 DEF Keeps
<1>3. Keeps(a, <<>>)
  <2>1. Len(<<>>) = 0
    OBVIOUS
  <2>. QED BY <1>1, <2>1 DEF Keeps
<1>4. ASSUME NEW i \in DOMAIN a PROVE Keeps(a, RemoveAt(a, i))
  <2> DEFINE b == RemoveAt(a, i)
  <2>1. b = SubSeq(a, 1, i - 1) \o SubSeq(a, i + 1, Len(a))
    BY DEF RemoveAt
  <2>2. i \in 1 .. Len(a)
    BY <1>1
  <2>3. /\ Len(b) = Len(a) - 1
        /\ \A j \in 1 .. Len(b) : b[j] = IF j < i THEN a[j] ELSE a[j + 1]
    <3> DEFINE x == SubSeq(a, 1, i - 1) \o SubSeq(a, i + 1, Len(a))
    <3>1. Len(x) = Len(a) - 1 /\ \A j \in 1 .. Len(x) : x[j] = IF j < i THEN a[j] ELSE a[j + 1]
      BY <2>2, CutOut
    <3>2. b = x
      BY <2>1
    <3> HIDE DEF b, x
    <3>. QED BY <3>1, <3>2
  <2> HIDE DEF b
  <2>4. Len(b) \in Nat /\ Len(b) <= Len(a) /\ i \in Nat
    BY <1>1, <2>2, <2>3
  <2>5. \A j \in 1 .. Len(b) : j + 1 <= Len(a)
    BY <1>1, <2>3
  <2>6. \A j \in 1 .. Len(b) :
          IF j < i THEN b[j] = a[j] ELSE j + 1 <= Len(a) /\ b[j] = a[j + 1]
    BY <2>3, <2>5
  <2>7. Keeps(a, b)
    BY <2>4, <2>6 DEF Keeps
  <2>. QED BY <2>7 DEF b
<1>. QED BY <1>2, <1>3, <1>4

\* What is kept of it is in order.
LEMMA KeptRises ==
    ASSUME NEW a, Len(a) \in Nat, NEW n, Rising(a, n), NEW b, Keeps(a, b)
    PROVE  /\ Rising(b, n) /\ \A h : Before(h, a) => Before(h, b)
           /\ \A j \in 1 .. Len(b) : \E i \in 1 .. Len(a) : b[j] = a[i]
<1>1. PICK i \in Nat : \A j \in 1 .. Len(b) :
         IF j < i THEN b[j] = a[j] ELSE j + 1 <= Len(a) /\ b[j] = a[j + 1]
  BY DEF Keeps
<1>2. Len(b) \in Nat /\ Len(b) <= Len(a)
  BY DEF Keeps
<1> DEFINE g(j) == IF j < i THEN j ELSE j + 1
<1>3. ASSUME NEW j \in 1 .. Len(b) PROVE g(j) \in 1 .. Len(a) /\ b[j] = a[g(j)]
  BY <1>1, <1>2
<1>4. ASSUME NEW j \in 1 .. Len(b), NEW k \in 1 .. Len(b), j < k PROVE g(j) < g(k)
  BY <1>2, <1>4
<1> HIDE DEF g
<1>5. \A j \in 1 .. Len(a) : a[j].id <= n /\ \A k \in 1 .. Len(a) : j < k => a[j].id < a[k].id
  BY DEF Rising
<1>6. \A j \in 1 .. Len(b) : b[j].id <= n
  BY <1>3, <1>5
<1>7. ASSUME NEW j \in 1 .. Len(b), NEW k \in 1 .. Len(b), j < k PROVE b[j].id < b[k].id
  <2>1. /\ g(j) \in 1 .. Len(a) /\ b[j] = a[g(j)] /\ g(k) \in 1 .. Len(a) /\ b[k] = a[g(k)]
        /\ g(j) < g(k)
    BY <1>3, <1>4, <1>7
  <2>2. a[g(j)].id < a[g(k)].id
    BY <1>5, <2>1
  <2>. QED BY <2>1, <2>2
<1>8. Rising(b, n)
  BY <1>6, <1>7 DEF Rising
<1>9. \A h : Before(h, a) => Before(h, b)
  BY <1>3 DEF Before
<1>. QED BY <1>3, <1>8, <1>9

LEMMA JoinRises ==
    ASSUME NEW T, NEW h \in Seq(T), NEW b \in Seq(T), NEW n,
           Rising(h, n), Rising(b, n), Before(h, b)
    PROVE  Rising(h \o b, n)
<1> DEFINE y == Len(h)
           k == Len(b)
           H == h \o b
<1>1. y \in Nat /\ k \in Nat
  OBVIOUS
<1>2. /\ Len(H) = y + k
      /\ \A i \in 1 .. y : H[i] = h[i]
      /\ \A i \in 1 .. k : H[y + i] = b[i]
  BY ConcatProperties
<1> HIDE DEF y, k, H
<1>3. /\ \A i \in 1 .. y : h[i].id <= n
      /\ \A i, j \in 1 .. y : i < j => h[i].id < h[j].id
      /\ \A i \in 1 .. k : b[i].id <= n
      /\ \A i, j \in 1 .. k : i < j => b[i].id < b[j].id
      /\ \A i \in 1 .. y, j \in 1 .. k : h[i].id < b[j].id
  BY DEF Rising, Before, y, k
<1>4. ASSUME NEW i \in 1 .. Len(H), ~(i <= y) PROVE i - y \in 1 .. k /\ H[i] = b[i - y]
  <2>1. i - y \in 1 .. k /\ y + (i - y) = i
    BY <1>1, <1>2, <1>4
  <2>. QED BY <1>2, <2>1
<1>5. ASSUME NEW i \in 1 .. Len(H), i <= y PROVE i \in 1 .. y /\ H[i] = h[i]
  BY <1>1, <1>2, <1>5
<1>6. ASSUME NEW i \in 1 .. Len(H) PROVE H[i].id <= n
  BY <1>3, <1>4, <1>5
<1>7. ASSUME NEW i \in 1 .. Len(H), NEW j \in 1 .. Len(H), i < j PROVE H[i].id < H[j].id
  <2>1. CASE j <= y
    <3>1. i <= y
      BY <1>1, <1>2, <1>7, <2>1
    <3>. QED BY <1>3, <1>5, <1>7, <2>1, <3>1
  <2>2. CASE ~(j <= y) /\ i <= y
    BY <1>3, <1>4, <1>5, <2>2
  <2>3. CASE ~(j <= y) /\ ~(i <= y)
    <3>1. i - y < j - y
      BY <1>1, <1>2, <1>7
    <3>2. i - y \in 1 .. k /\ H[i] = b[i - y] /\ j - y \in 1 .. k /\ H[j] = b[j - y]
      BY <1>4, <2>3
    <3>3. b[i - y].id < b[j - y].id
      BY <1>3, <3>1, <3>2
    <3>. QED BY <3>2, <3>3
  <2>. QED BY <2>1, <2>2, <2>3
<1>8. Rising(H, n)
  BY <1>6, <1>7 DEF Rising
<1>. QED BY <1>8 DEF H

\* A turn is over: of what it appended, b joins the history.
Over(v, z, b) ==
    /\ v.w # <<>> /\ z.w = <<>> /\ z.a = <<>> /\ z.last = 0
    /\ b \in Seq(Messages(v.n, v.e)) /\ Keeps(v.a, b) /\ z.h = v.h \o b
    /\ z.c = v.c /\ z.p = v.p /\ z.s = v.s /\ z.f = v.f /\ z.irr = v.irr /\ z.st = v.st
    /\ z.n = v.n /\ z.e = v.e
    /\ \/ z.all = v.all /\ b = v.a /\ v.a # <<>> /\ v.a[Len(v.a)].role # "user"
       \/ z.all = v.all + 1

\* What a turn's memory covers of its window, it remembers of the history after it.
LEMMA EndRemembers ==
    ASSUME NEW v, Typed(v), Numbered(v), Shape(v.h, v.a, v.w), NEW l, Tracks(v, l)
    PROVE  Remembers(v.c, v.p, v.h \o v.a, l)
<1> DEFINE h == v.h
           a == v.a
           w == v.w
           c == v.c
           p == v.p
           y == Len(h)
           k == Len(a)
           H == h \o a
           cn == Len(c)
           m == Len(p)
<1>1. /\ h \in Seq(Messages(v.n, v.e)) /\ a \in Seq(Messages(v.n, v.e))
      /\ c \in Seq(Fp(v.n)) /\ p \in Seq(Item(v.n))
  BY DEF Typed, Chat
<1>2. y \in Nat /\ k \in Nat /\ cn \in Nat /\ m \in Nat
  BY <1>1
<1>3. /\ Len(H) = y + k
      /\ \A i \in 1 .. y : H[i] = h[i]
      /\ \A i \in 1 .. k : H[y + i] = a[i]
  <2> HIDE DEF h, a
  <2>. QED BY <1>1, JoinIs
<1>4. /\ Shape(h, a, w) /\ Covers(c, p, w, l, y - 1)
      /\ \A i \in 1 .. cn : c[i] # Replayed(h[y]).fp
      /\ \A i \in 1 .. k : ~a[i].opens
  BY DEF Tracks, Numbered
<1>5. h # <<>>
  BY <1>4 DEF Shape
<1> HIDE DEF h, a, w, c, p
<1>6. y > 0
  BY <1>1, <1>5, LenOf
<1> HIDE DEF y, k, H, cn, m
<1>7. /\ Len(w) = y + k /\ h[y].role = "user"
      /\ \A i \in 1 .. y - 1 : w[i] = Replayed(h[i])
      /\ w[y] = Live(h[y])
      /\ \A j \in 1 .. k : w[y + j] = Raw(a[j])
  BY <1>4 DEF Shape, y, k
<1>8. /\ l \in 1 .. y + k /\ y - 1 \in 0 .. l - 1 /\ y - 1 <= cn
      /\ \A i \in 1 .. y - 1 : c[cn - (y - 1) + i] = w[i].fp
      /\ m = l - (y - 1) /\ \A j \in 1 .. m : p[j].role = w[y - 1 + j].role
  BY <1>4, <1>7 DEF Covers, EndsWith, m, cn
<1>9. l \in Nat /\ l <= y + k /\ y <= l /\ m \in 1 .. l /\ l - m = y - 1
  BY <1>2, <1>6, <1>8
<1>10. ASSUME NEW i \in 1 .. y + k, i > y PROVE i - y \in 1 .. k /\ H[i] = a[i - y] /\ w[i] = Raw(a[i - y])
  <2>1. i - y \in 1 .. k /\ y + (i - y) = i
    BY <1>2, <1>10
  <2>. QED BY <1>3, <1>7, <2>1
<1>11. ASSUME NEW i \in 1 .. y + k PROVE w[i].role = H[i].role
  <2>1. CASE i > y
    <3>1. \A x : Raw(x).role = x.role
      BY DEF Raw, Entry
    <3>. QED BY <1>10, <2>1, <3>1
  <2>2. CASE i = y
    <3>1. H[y] = h[y]
      BY <1>2, <1>3, <1>6
    <3>. QED BY <1>7, <2>2, <3>1 DEF Live, Entry
  <2>3. CASE i < y
    <3>1. H[i] = h[i] /\ w[i] = Replayed(h[i])
      BY <1>2, <1>3, <1>7, <2>3
    <3>. QED BY <3>1 DEF Replayed, Entry
  <2>. QED BY <1>2, <2>1, <2>2, <2>3
<1>12. ASSUME NEW j \in 1 .. m PROVE p[j].role = H[l - m + j].role
  <2>1. y - 1 + j \in 1 .. y + k /\ l - m + j = y - 1 + j
    BY <1>2, <1>6, <1>8, <1>9
  <2>2. p[j].role = w[y - 1 + j].role
    BY <1>8
  <2>. QED BY <1>11, <2>1, <2>2
<1>13. ASSUME NEW i \in l - m + 2 .. Len(H) PROVE ~H[i].opens
  <2>1. i \in 1 .. y + k /\ i > y
    BY <1>2, <1>3, <1>6, <1>9
  <2>. QED BY <1>4, <1>10, <2>1
<1>14. ASSUME NEW i \in 1 .. l - m PROVE c[cn - (l - m) + i] = Replayed(H[i]).fp
  <2>1. i \in 1 .. y - 1 /\ i \in 1 .. y /\ cn - (l - m) + i = cn - (y - 1) + i
    BY <1>2, <1>9
  <2>2. H[i] = h[i] /\ w[i] = Replayed(h[i]) /\ c[cn - (y - 1) + i] = w[i].fp
    BY <1>3, <1>7, <1>8, <2>1
  <2>. QED BY <2>1, <2>2
<1>15. \A i \in 1 .. cn : c[i] # Replayed(H[l - m + 1]).fp
  <2>1. l - m + 1 = y /\ H[y] = h[y]
    BY <1>2, <1>3, <1>6, <1>9
  <2>. QED BY <1>4, <2>1
<1>16. /\ l \in 1 .. Len(H) /\ m \in 1 .. l /\ l - m <= cn
  BY <1>3, <1>8, <1>9
<1>. QED BY <1>12, <1>13, <1>14, <1>15, <1>16 DEF Remembers, H, h, a, c, p, m, cn

LEMMA OverParts ==
    ASSUME NEW v, Typed(v), NEW z, NEW b, Over(v, z, b)
    PROVE  \A i \in 1 .. Len(z.h) :
             \/ i \in 1 .. Len(v.h) /\ z.h[i] = v.h[i]
             \/ \E j \in 1 .. Len(v.a) : z.h[i] = v.a[j]
<1> DEFINE h == v.h
           y == Len(h)
           k == Len(b)
           H == h \o b
<1>1. h \in Seq(Messages(v.n, v.e)) /\ b \in Seq(Messages(v.n, v.e)) /\ z.h = H
  BY DEF Typed, Chat, Over
<1>2. Len(v.a) \in Nat
  BY DEF Typed, Chat
<1>3. \A j \in 1 .. k : \E i \in 1 .. Len(v.a) : b[j] = v.a[i]
  <2> DEFINE a == v.a
             n == v.n
  <2>1. Keeps(a, b) /\ Len(a) \in Nat
    BY <1>2 DEF Over
  <2>2. PICK i \in Nat : \A j \in 1 .. Len(b) :
          IF j < i THEN b[j] = a[j] ELSE j + 1 <= Len(a) /\ b[j] = a[j + 1]
    BY <2>1 DEF Keeps
  <2>3. Len(b) \in Nat /\ Len(b) <= Len(a)
    BY <2>1 DEF Keeps
  <2> HIDE DEF a
  <2>4. ASSUME NEW j \in 1 .. k PROVE \E x \in 1 .. Len(a) : b[j] = a[x]
    <3>1. j \in 1 .. Len(a)
      BY <2>1, <2>3
    <3>2. CASE j < i
      BY <2>2, <3>1, <3>2
    <3>3. CASE ~(j < i)
      <4>1. j + 1 \in 1 .. Len(a) /\ b[j] = a[j + 1]
        BY <2>1, <2>2, <3>3
      <4>. QED BY <4>1
    <3>. QED BY <3>2, <3>3
  <2>. QED BY <2>4 DEF a
<1> HIDE DEF h
<1>4. y \in Nat /\ k \in Nat
  BY <1>1
<1>5. /\ Len(H) = y + k
      /\ \A i \in 1 .. y : H[i] = h[i]
      /\ \A i \in 1 .. k : H[y + i] = b[i]
  BY <1>1, JoinIs
<1> HIDE DEF y, k, H
<1>6. ASSUME NEW i \in 1 .. Len(H) PROVE (i \in 1 .. y /\ H[i] = h[i]) \/ \E j \in 1 .. Len(v.a) : H[i] = v.a[j]
  <2>1. CASE i <= y
    BY <1>4, <1>5, <2>1
  <2>2. CASE ~(i <= y)
    <3>1. i - y \in 1 .. k /\ y + (i - y) = i
      BY <1>4, <1>5, <2>2
    <3>2. H[i] = b[i - y]
      BY <1>5, <3>1
    <3>. QED BY <1>3, <3>1, <3>2
  <2>. QED BY <2>1, <2>2
<1>. QED BY <1>1, <1>6 DEF y, h

\* The end of a turn keeps what is led, whole and numbered so.
LEMMA OverKeeps ==
    ASSUME NEW v, Typed(v), Led(v), Whole(v), Numbered(v), NEW z, NEW b, Over(v, z, b)
    PROVE  Led(z) /\ Whole(z) /\ Numbered(z)
<1>1. v.all \in Nat /\ v.w # <<>>
  BY DEF Typed, Over
<1>2. Led(z)
  <2>1. z.all = 0 => v.all = 0
    <3> DEFINE x == v.all
    <3>1. x \in Nat /\ (z.all = x \/ z.all = x + 1)
      BY <1>1 DEF Over
    <3> HIDE DEF x
    <3>2. z.all = 0 => x = 0
      BY <3>1
    <3>. QED BY <3>2 DEF x
  <2>2. z.w = <<>> /\ z.s = v.s /\ z.p = v.p
    BY DEF Over
  <2>. QED BY <2>1, <2>2 DEF Led
<1>3. ASSUME z.f = 0 PROVE WholeIdle(z)
  <2>1. v.f = 0 /\ z.st = v.st
    BY <1>3 DEF Over
  <2>2. WholeTurn(v)
    BY <1>1, <2>1 DEF Whole
  <2>3. \A i \in 1 .. Len(z.h) :
             \/ i \in 1 .. Len(v.h) /\ z.h[i] = v.h[i]
             \/ \E j \in 1 .. Len(v.a) : z.h[i] = v.a[j]
    BY OverParts
  <2>4. /\ \A i \in 1 .. Len(v.h) : Ident(v.h[i]) \in v.st
        /\ \A i \in 1 .. Len(v.a) : Ident(v.a[i]) \in v.st
    BY <2>2 DEF WholeTurn, Knows
  <2>5. \A i \in 1 .. Len(z.h) : Ident(z.h[i]) \in v.st
    BY <2>3, <2>4
  <2>. QED BY <2>1, <2>5 DEF WholeIdle, Knows
<1>4. Whole(z)
  <2>1. z.w = <<>>
    BY DEF Over
  <2>. QED BY <1>3, <2>1 DEF Whole
<1>5. Numbered(z)
  <2> DEFINE h == v.h
             a == v.a
             n == v.n
             T == Messages(v.n, v.e)
  <2>1. /\ h \in Seq(T) /\ b \in Seq(T) /\ Len(a) \in Nat /\ Keeps(a, b)
    BY DEF Typed, Chat, Over
  <2>2. Rising(h, n) /\ Rising(a, n) /\ Before(h, a) /\ \A x \in v.st : x.id <= n
    BY DEF Numbered
  <2>3. z.h = h \o b /\ z.a = <<>> /\ z.w = <<>> /\ z.n = n /\ z.st = v.st
    BY DEF Over
  <2> HIDE DEF h, a, n, T
  <2>4. Rising(b, n) /\ Before(h, b)
    <3>1. Rising(b, n)
      BY ONLY <2>1, <2>2, KeptRises
    <3>2. \A x : Before(x, a) => Before(x, b)
      BY ONLY <2>1, <2>2, KeptRises
    <3>. QED BY <2>2, <3>1, <3>2
  <2>5. Rising(h \o b, n)
    BY ONLY <2>1, <2>2, <2>4, JoinRises
  <2>6. Len(<<>>) = 0 /\ 1 .. 0 = {}
    OBVIOUS
  <2>7. Rising(<<>>, n) /\ Before(z.h, <<>>)
    BY <2>6 DEF Rising, Before
  <2>. QED BY <2>2, <2>3, <2>5, <2>6, <2>7 DEF Numbered
<1>. QED BY <1>2, <1>4, <1>5

LEMMA OverClean ==
    ASSUME NEW v, Typed(v), Numbered(v), Clean(v), NEW z, NEW b, Over(v, z, b)
    PROVE  Clean(z)
<1> SUFFICES ASSUME Regular(z) PROVE CleanIdle(z)
  BY DEF Clean, Over
<1>1. /\ v.all \in Nat /\ v.f \in Nat /\ v.f <= v.all
      /\ v.h \in Seq(Messages(v.n, v.e)) /\ v.a \in Seq(Messages(v.n, v.e))
  BY DEF Typed, Chat
<1>2. z.f = z.all /\ z.f = v.f /\ z.all <= 1 /\ v.w # <<>> /\ v.irr = FALSE
  BY DEF Regular, Over
<1>3. z.all # v.all + 1
  <2> DEFINE x == v.all
             f == v.f
  <2>1. x \in Nat /\ f \in Nat /\ f <= x /\ z.all = f
    BY <1>1, <1>2
  <2> HIDE DEF x, f
  <2>2. z.all # x + 1
    BY <2>1
  <2>. QED BY <2>2 DEF x
<1>4. z.all = v.all /\ z.h = v.h \o v.a /\ v.a # <<>>
  BY <1>3 DEF Over
<1>5. Regular(v)
  BY <1>2, <1>4 DEF Regular
<1>6. CleanTurn(v)
  BY <1>2, <1>5 DEF Clean
<1>7. Shape(v.h, v.a, v.w)
  BY <1>6 DEF CleanTurn
<1> DEFINE h == v.h
           a == v.a
           w == v.w
           y == Len(h)
           k == Len(a)
           H == h \o a
<1>8. /\ Len(H) = y + k
      /\ \A i \in 1 .. y : H[i] = h[i]
      /\ \A i \in 1 .. k : H[y + i] = a[i]
  <2>1. h \in Seq(Messages(v.n, v.e)) /\ a \in Seq(Messages(v.n, v.e))
    BY <1>1
  <2> HIDE DEF h, a
  <2>. QED BY <2>1, JoinIs
<1>9. y \in Nat /\ k \in Nat /\ k > 0 /\ y > 0
  <2>1. a # <<>> /\ h # <<>>
    BY <1>4, <1>7 DEF Shape
  <2>. QED BY <1>1, <2>1, LenOf
<1>10. a[k].role # "user"
  BY <1>3 DEF Over
<1>11. /\ Len(w) = y + k
       /\ \A i \in 1 .. y - 1 : w[i] = Replayed(h[i])
       /\ w[y] = Live(h[y])
       /\ \A j \in 1 .. k : w[y + j] = Raw(a[j])
  BY <1>7 DEF Shape
<1>12. z.c = v.c /\ z.p = v.p /\ z.s = v.s /\ z.st = v.st /\ z.h = H
  BY <1>4 DEF Over
<1>13. /\ v.all = 0 /\ v.s # NoSession => Tracks(v, Len(w))
       /\ v.all = 1 => (\A i \in 1 .. Len(w) - 1 : Has(v, w[i])) /\ Lags(v)
  BY <1>6 DEF CleanTurn
<1> HIDE DEF h, a, w, y, k, H
<1>14. \A m : Replayed(m).srcs = {Ident(m)} /\ Live(m).srcs = {Ident(m)} /\ Raw(m).srcs = {Ident(m)}
  BY DEF Replayed, Live, Raw, Entry
<1>15. ASSUME NEW i \in 1 .. y + k PROVE w[i].srcs = {Ident(H[i])}
  <2>1. CASE i > y
    <3>1. i - y \in 1 .. k /\ y + (i - y) = i
      BY <1>9, <2>1
    <3>2. H[i] = a[i - y] /\ w[i] = Raw(a[i - y])
      BY <1>8, <1>11, <3>1
    <3>. QED BY <1>14, <3>2
  <2>2. CASE i = y
    <3>1. H[y] = h[y]
      BY <1>8, <1>9
    <3>. QED BY <1>11, <1>14, <2>2, <3>1
  <2>3. CASE i < y
    <3>1. H[i] = h[i] /\ w[i] = Replayed(h[i])
      BY <1>8, <1>9, <1>11, <2>3
    <3>. QED BY <1>14, <3>1
  <2>. QED BY <1>9, <2>1, <2>2, <2>3
<1>16. \A i \in 1 .. y + k : Has(v, w[i]) => Knows(z, H[i])
  BY <1>12, <1>15 DEF Has, Knows
<1>17. H[Len(H)].role # "user"
  <2>1. k \in 1 .. k
    BY <1>9
  <2>. QED BY <1>8, <1>10, <2>1
<1>18. ASSUME NEW l, Tracks(v, l) PROVE Remembers(z.c, z.p, z.h, l)
  <2>1. Remembers(v.c, v.p, v.h \o v.a, l)
    BY <1>7, <1>18, EndRemembers
  <2>. QED BY <1>12, <2>1 DEF H, h, a
<1>19. ASSUME z.all = 0, z.s # NoSession PROVE Remembers(z.c, z.p, z.h, Len(z.h))
  <2>0. v.all = 0 /\ v.s # NoSession
    BY <1>4, <1>12, <1>19
  <2>1. Tracks(v, Len(w))
    BY <1>13, <2>0
  <2>2. Len(w) = Len(z.h)
    BY <1>8, <1>11, <1>12
  <2>. QED BY <1>18, <2>1, <2>2
<1>20. ASSUME z.all = 1
       PROVE  /\ \A i \in 1 .. Len(z.h) - 1 : Knows(z, z.h[i])
              /\ \/ Knows(z, z.h[Len(z.h)]) \/ Empty(z)
                 \/ Remembers(z.c, z.p, z.h, Len(z.h) - 1)
  <2>1. (\A i \in 1 .. y + k - 1 : Has(v, w[i])) /\ Lags(v)
    <3>1. v.all = 1
      BY <1>4, <1>20
    <3>2. Len(w) - 1 = y + k - 1
      BY <1>9, <1>11
    <3>. QED BY <1>13, <3>1, <3>2
  <2>2. \A i \in 1 .. y + k - 1 : i \in 1 .. y + k
    BY <1>9
  <2>3. y + k \in 1 .. y + k
    BY <1>9
  <2>4. \/ Empty(v) \/ Has(v, w[y + k]) \/ Tracks(v, y + k - 1)
    <3>1. Len(w) = y + k /\ Len(w) - 1 = y + k - 1
      BY <1>9, <1>11
    <3>2. v.a # <<>> /\ w = v.w
      BY <1>4 DEF w
    <3>. QED BY <2>1, <3>1, <3>2 DEF Lags
  <2>5. Empty(v) => Empty(z)
    BY <1>12 DEF Empty
  <2>6. Len(z.h) = y + k /\ z.h = H
    BY <1>8, <1>12
  <2>7. \A i \in 1 .. y + k - 1 : Knows(z, H[i])
    BY <1>16, <2>1, <2>2
  <2>8. Has(v, w[y + k]) => Knows(z, H[y + k])
    BY <1>16, <2>3
  <2>9. Tracks(v, y + k - 1) => Remembers(z.c, z.p, z.h, y + k - 1)
    BY <1>18
  <2>10. \A i \in 1 .. Len(z.h) - 1 : Knows(z, z.h[i])
    BY <1>9, <2>6, <2>7
  <2>11. \/ Knows(z, z.h[Len(z.h)]) \/ Empty(z) \/ Remembers(z.c, z.p, z.h, Len(z.h) - 1)
    BY <1>9, <2>4, <2>5, <2>6, <2>8, <2>9
  <2>. QED BY <2>10, <2>11
<1>. QED BY <1>8, <1>12, <1>17, <1>19, <1>20 DEF CleanIdle

\* Other conversations step: at most this one's memory goes, all of it.
Aside(v, z) ==
    /\ z.h = v.h /\ z.a = v.a /\ z.w = v.w /\ z.f = v.f /\ z.irr = v.irr /\ z.e = v.e /\ z.st = v.st
    /\ \/ z.c = v.c /\ z.p = v.p /\ z.s = v.s
       \/ Empty(z) /\ z.s = NoSession
    /\ v.all <= z.all /\ v.n <= z.n /\ z.last \in {v.last, 0}

\* The process restarts.
Restarted(v, z) ==
    /\ z.h = v.h /\ z.a = <<>> /\ z.w = <<>> /\ z.f = v.f /\ z.irr = v.irr /\ z.e = v.e /\ z.st = v.st
    /\ Empty(z) /\ z.s = NoSession /\ z.all = v.all + 1 /\ z.n = v.n /\ z.last = 0

\* /new clears the history, a compaction leaves one message of it.
Replaced(v, z) ==
    /\ v.w = <<>> /\ z.w = <<>> /\ z.a = v.a /\ z.c = v.c /\ z.p = v.p /\ z.s = v.s
    /\ z.f = v.f /\ z.all = v.all /\ z.st = v.st /\ z.last = v.last
    /\ \/ z.h = <<>> /\ z.n = v.n
       \/ /\ z.irr = TRUE /\ z.n = v.n + 1
          /\ \E m : z.h = <<m>> /\ m.role = "user" /\ m.id = v.n + 1

LEMMA EmptyKeeps ==
    ASSUME NEW n
    PROVE  Len(<<>>) = 0 /\ Rising(<<>>, n) /\ \A h : Before(<<>>, h) /\ Before(h, <<>>)
<1>1. Len(<<>>) = 0 /\ 1 .. 0 = {}
  OBVIOUS
<1>. QED BY <1>1 DEF Rising, Before

LEMMA RisingGrows ==
    ASSUME NEW n \in Nat, NEW m \in Nat, n <= m, NEW s, \A i \in 1 .. Len(s) : s[i].id \in Nat,
           Rising(s, n)
    PROVE  Rising(s, m)
<1>1. \A i \in 1 .. Len(s) : s[i].id <= m
  BY DEF Rising
<1>. QED BY <1>1 DEF Rising

\* Everything a view holds is numbered by naturals.
LEMMA IdsAreNat ==
    ASSUME NEW v, Typed(v)
    PROVE  /\ \A i \in 1 .. Len(v.h) : v.h[i].id \in Nat
           /\ \A i \in 1 .. Len(v.a) : v.a[i].id \in Nat
           /\ \A x \in v.st : x.id \in Nat
           /\ \A i \in 1 .. Len(v.w) : \A x \in v.w[i].srcs : x.id \in Nat
<1>1. /\ v.h \in Seq(Messages(v.n, v.e)) /\ v.a \in Seq(Messages(v.n, v.e))
      /\ v.w \in Seq(Entries(v.n, v.e)) /\ v.st \subseteq [id : Nat, era : Nat]
  BY DEF Typed, Chat
<1>2. \A m \in Messages(v.n, v.e) : m.id \in Nat
  BY DEF Messages
<1>3. \A x \in Entries(v.n, v.e) : \A y \in x.srcs : y.id \in Nat
  BY DEF Entries, Idents
<1> DEFINE h == v.h
           a == v.a
           w == v.w
           M == Messages(v.n, v.e)
           E == Entries(v.n, v.e)
<1>4. h \in Seq(M) /\ a \in Seq(M) /\ w \in Seq(E)
  BY <1>1
<1> HIDE DEF h, a, w, M, E
<1>5. /\ \A i \in 1 .. Len(h) : h[i] \in M
      /\ \A i \in 1 .. Len(a) : a[i] \in M
      /\ \A i \in 1 .. Len(w) : w[i] \in E
  BY <1>4
<1>6. \A x \in v.st : x.id \in Nat
  BY <1>1
<1>. QED BY <1>2, <1>3, <1>5, <1>6 DEF h, a, w, M, E

LEMMA AsideKeeps ==
    ASSUME NEW v, Typed(v), Led(v), Whole(v), Numbered(v), Clean(v), NEW z, Typed(z), Aside(v, z)
    PROVE  Led(z) /\ Whole(z) /\ Numbered(z) /\ Clean(z)
<1> DEFINE x == v.all
           y == z.all
           n == v.n
           m == z.n
<1>1. /\ x \in Nat /\ y \in Nat /\ x <= y /\ n \in Nat /\ m \in Nat /\ n <= m
  BY DEF Typed, Aside
<1>2. v.f \in Nat /\ v.f <= x /\ z.f = v.f
  BY DEF Typed, Aside
<1> HIDE DEF x, y, n, m
<1>3. y = 0 => x = 0
  BY <1>1
<1>4. z.h = v.h /\ z.a = v.a /\ z.w = v.w /\ z.st = v.st /\ z.irr = v.irr
  BY DEF Aside
<1>5. \/ z.c = v.c /\ z.p = v.p /\ z.s = v.s
      \/ Empty(z) /\ z.s = NoSession
  BY DEF Aside
<1>6. Led(z)
  BY <1>3, <1>4, <1>5 DEF Led, x, y
<1>7. \A i, s : (Knows(z, s) <=> Knows(v, s)) /\ (Has(z, s) <=> Has(v, s))
  BY <1>4 DEF Knows, Has
<1>8. Whole(z)
  BY <1>2, <1>4, <1>5, <1>7 DEF Whole, WholeIdle, WholeTurn, Empty
<1>9. Numbered(z)
  <2>1. /\ \A i \in 1 .. Len(v.h) : v.h[i].id \in Nat
        /\ \A i \in 1 .. Len(v.a) : v.a[i].id \in Nat
        /\ \A s \in v.st : s.id \in Nat
        /\ \A i \in 1 .. Len(v.w) : \A s \in v.w[i].srcs : s.id \in Nat
    BY IdsAreNat
  <2>2. /\ Rising(v.h, n) /\ Rising(v.a, n) /\ Before(v.h, v.a)
        /\ \A i \in 1 .. Len(v.a) : ~v.a[i].opens
        /\ \A s \in v.st : s.id <= n
        /\ \A i \in 1 .. Len(v.w) : \A s \in v.w[i].srcs : s.id <= n
    BY DEF Numbered, n
  <2>3. Rising(v.h, m) /\ Rising(v.a, m)
    BY <1>1, <2>1, <2>2, RisingGrows
  <2>4. \A s \in v.st : s.id <= m
    BY <1>1, <2>1, <2>2
  <2>5. \A i \in 1 .. Len(v.w) : \A s \in v.w[i].srcs : s.id <= m
    BY <1>1, <2>1, <2>2
  <2>. QED BY <1>4, <2>2, <2>3, <2>4, <2>5 DEF Numbered, m
<1>10. ASSUME Regular(z) PROVE Clean(z)
  <2>1. z.f = y /\ y <= 1 /\ z.irr = FALSE
    BY <1>10 DEF Regular, y
  <2>2. x = y
    BY <1>1, <1>2, <2>1
  <2>3. Regular(v)
    BY <1>2, <1>4, <2>1, <2>2 DEF Regular, x
  <2>4. z.s # NoSession => z.c = v.c /\ z.p = v.p /\ v.s # NoSession
    BY <1>5
  <2>5. Empty(z) \/ (z.c = v.c /\ z.p = v.p)
    BY <1>5
  <2>6. ASSUME z.w = <<>> PROVE Clean(z)
    <3>1. CleanIdle(v)
      BY <1>4, <2>3, <2>6 DEF Clean
    <3>2. CleanIdle(z)
      BY <1>4, <1>7, <2>2, <2>4, <2>5, <3>1 DEF CleanIdle, x, y, Empty
    <3>. QED BY <2>6, <3>2 DEF Clean
  <2>7. ASSUME z.w # <<>> PROVE Clean(z)
    <3>1. CleanTurn(v)
      BY <1>4, <2>3, <2>7 DEF Clean
    <3>2. z.s # NoSession => \A l : Tracks(v, l) => Tracks(z, l)
      BY <1>4, <2>4 DEF Tracks
    <3>3. Lags(v) => Lags(z)
      BY <1>4, <1>7, <2>5 DEF Lags, Tracks, Empty
    <3>4. z.last = Len(z.w) => v.last = Len(v.w)
      <4>1. z.last \in {v.last, 0}
        BY DEF Aside
      <4>2. Len(z.w) # 0
        <5> DEFINE w == z.w
        <5>1. w \in Seq(Entries(z.n, z.e)) /\ w # <<>>
          BY <2>7 DEF Typed, Chat
        <5> HIDE DEF w
        <5>2. Len(w) # 0
          BY <5>1, LenOf
        <5>. QED BY <5>2 DEF w
      <4>. QED BY <1>4, <4>1, <4>2
    <3>5. CleanTurn(z)
      BY <1>4, <1>7, <2>2, <2>4, <3>1, <3>2, <3>3, <3>4 DEF CleanTurn, x, y
    <3>. QED BY <2>7, <3>5 DEF Clean
  <2>. QED BY <2>6, <2>7
<1>11. Clean(z)
  BY <1>10 DEF Clean
<1>. QED BY <1>6, <1>8, <1>9, <1>11

LEMMA RestartedKeeps ==
    ASSUME NEW v, Typed(v), Led(v), Whole(v), Numbered(v), NEW z, Restarted(v, z)
    PROVE  Led(z) /\ Whole(z) /\ Numbered(z) /\ Clean(z)
<1>1. /\ z.h = v.h /\ z.a = <<>> /\ z.w = <<>> /\ z.f = v.f /\ z.st = v.st /\ z.n = v.n
      /\ z.s = NoSession
  BY DEF Restarted
<1>2. Led(z)
  BY <1>1 DEF Led
<1>3. Whole(z)
  BY <1>1 DEF Whole, WholeIdle, WholeTurn, Knows
<1>4. Numbered(z)
  <2>1. Len(<<>>) = 0 /\ Rising(<<>>, z.n) /\ Before(z.h, <<>>) /\ 1 .. 0 = {}
    BY EmptyKeeps
  <2>. QED BY <1>1, <2>1 DEF Numbered
<1>5. ~Regular(z)
  <2> DEFINE x == v.all
             f == v.f
  <2>1. x \in Nat /\ f \in Nat /\ f <= x /\ z.f = f /\ z.all = x + 1
    BY DEF Typed, Restarted
  <2> HIDE DEF x, f
  <2>2. z.f # z.all
    BY <2>1
  <2>. QED BY <2>2 DEF Regular
<1>. QED BY <1>2, <1>3, <1>4, <1>5 DEF Clean

LEMMA ReplacedKeeps ==
    ASSUME NEW v, Typed(v), Led(v), Whole(v), Numbered(v), NEW z, Typed(z), Replaced(v, z)
    PROVE  Led(z) /\ Whole(z) /\ Numbered(z) /\ Clean(z)
<1> DEFINE n == v.n
           k == z.n
<1>1. /\ z.w = <<>> /\ v.w = <<>> /\ z.a = v.a /\ z.p = v.p /\ z.s = v.s
      /\ z.f = v.f /\ z.all = v.all /\ z.st = v.st
  BY DEF Replaced
<1>2. \/ z.h = <<>> /\ k = n
      \/ /\ z.irr = TRUE /\ k = n + 1
         /\ \E m : z.h = <<m>> /\ m.role = "user" /\ m.id = n + 1
  BY DEF Replaced
<1>3. n \in Nat /\ k \in Nat
  BY DEF Typed
<1> HIDE DEF n, k
<1>4. Len(<<>>) = 0 /\ Rising(<<>>, k) /\ (\A h : Before(<<>>, h) /\ Before(h, <<>>)) /\ 1 .. 0 = {}
  BY EmptyKeeps
<1>5. \A m : Len(<<m>>) = 1 /\ <<m>>[1] = m
  OBVIOUS
<1>6. Led(z)
  BY <1>1 DEF Led
<1>7. WholeIdle(z)
  <2>1. CASE z.h = <<>>
    BY <1>4, <2>1 DEF WholeIdle
  <2>2. CASE z.h # <<>>
    <3>1. Len(z.h) = 1 /\ z.h[1].role = "user"
      BY <1>2, <1>5, <2>2
    <3>. QED BY <3>1 DEF WholeIdle
  <2>. QED BY <2>1, <2>2
<1>8. Whole(z)
  BY <1>1, <1>7 DEF Whole
<1>9. Numbered(z)
  <2>1. v.a = <<>>
    <3> DEFINE a == v.a
    <3>1. a \in Seq(Messages(v.n, v.e)) /\ Len(a) <= 0
      BY <1>1, <1>4 DEF Typed, Chat
    <3> HIDE DEF a
    <3>2. a = <<>>
      BY <3>1, LenOf
    <3>. QED BY <3>2 DEF a
  <2>2. n <= k
    BY <1>2, <1>3
  <2>3. \A s \in v.st : s.id \in Nat /\ s.id <= n
    BY IdsAreNat DEF Numbered, n
  <2>4. \A s \in v.st : s.id <= k
    BY <1>3, <2>2, <2>3
  <2>5. Rising(z.h, k)
    <3>1. CASE z.h = <<>>
      BY <1>4, <3>1
    <3>2. CASE z.h # <<>>
      <4>1. Len(z.h) = 1 /\ z.h[1].id = n + 1 /\ k = n + 1
        BY <1>2, <1>5, <3>2
      <4>2. \A i \in 1 .. 1 : i = 1
        OBVIOUS
      <4>3. z.h[1].id <= k /\ ~(1 < 1)
        BY <1>3, <4>1
      <4>. QED BY <4>1, <4>2, <4>3 DEF Rising
    <3>. QED BY <3>1, <3>2
  <2>. QED BY <1>1, <1>4, <2>1, <2>4, <2>5 DEF Numbered, k
<1>10. Clean(z)
  <2>1. CASE z.h = <<>>
    BY <1>1, <2>1 DEF Clean, CleanIdle
  <2>2. CASE z.irr = TRUE
    BY <2>2 DEF Clean, Regular
  <2>. QED BY <1>2, <2>1, <2>2
<1>. QED BY <1>6, <1>8, <1>9, <1>10

-----------------------------------------------------------------------------
(* A pass shows and stores what has been numbered.                         *)

\* What is stored was so before, or the window shows it.
Adds(v, z) == \A x \in z.st : x \in v.st \/ \E i \in 1 .. Len(z.w) : x \in z.w[i].srcs

LEMMA TailRises ==
    ASSUME NEW v, Typed(v), Numbered(v), NEW hist \in LegalTails(v.h)
    PROVE  Rising(hist, v.n)
<1> DEFINE h == v.h
           n == v.n
           T == Messages(v.n, v.e)
<1>1. h \in Seq(T) /\ Rising(h, n) /\ hist \in LegalTails(h)
  BY DEF Typed, Chat, Numbered
<1> HIDE DEF h, n, T
<1>2. CASE hist = <<>>
  BY <1>2, EmptyKeeps DEF n
<1>3. CASE hist # <<>>
  <2>1. PICK g \in 1 .. Len(h) : TailFrom(hist, h, g)
    BY <1>1, <1>3, TailParts
  <2> DEFINE y == Len(h)
             k == Len(hist)
  <2>2. y \in Nat /\ g \in 1 .. y /\ k = y - g + 1
    BY <1>1, <2>1 DEF TailFrom
  <2>3. \A j \in 1 .. k : hist[j] = h[g - 1 + j]
    BY <2>1 DEF TailFrom
  <2>4. \A i \in 1 .. y : h[i].id <= n /\ \A j \in 1 .. y : i < j => h[i].id < h[j].id
    BY <1>1 DEF Rising
  <2> HIDE DEF y, k
  <2>5. \A j \in 1 .. k : g - 1 + j \in 1 .. y
    BY <2>2
  <2>6. \A j \in 1 .. k : hist[j].id <= n
    BY <2>3, <2>4, <2>5
  <2>7. ASSUME NEW i \in 1 .. k, NEW j \in 1 .. k, i < j PROVE hist[i].id < hist[j].id
    <3>1. g - 1 + i < g - 1 + j
      BY <2>2, <2>7
    <3>2. g - 1 + i \in 1 .. y /\ g - 1 + j \in 1 .. y /\ hist[i] = h[g - 1 + i] /\ hist[j] = h[g - 1 + j]
      BY <2>3, <2>5
    <3>3. h[g - 1 + i].id < h[g - 1 + j].id
      BY <2>4, <3>1, <3>2
    <3>. QED BY <3>2, <3>3
  <2>. QED BY <2>6, <2>7 DEF Rising, n, k
<1>. QED BY <1>2, <1>3

LEMMA BeginNumbered ==
    ASSUME NEW v, Typed(v), Numbered(v), NEW z, NEW hist, NEW m, Begins(v, z, hist, m), Adds(v, z)
    PROVE  Numbered(z)
<1> DEFINE n == v.n
           y == Len(hist)
           h == z.h
           w == z.w
<1>1. Rising(hist, n)
  BY TailRises DEF Begins
<1>2. z.n = n + 1 /\ n \in Nat /\ m.id = n + 1
  BY DEF Begins, Typed
<1>3. /\ y \in Nat /\ hist \in Seq(Messages(v.n, v.e)) /\ Len(w) \in Nat
      /\ IF Merges(hist) THEN MergedWindow(hist, m, w) ELSE PlainWindow(hist, m, w)
      /\ \A i \in 1 .. Len(w) - 1 : i \in 1 .. y /\ w[i] = Replayed(hist[i])
      /\ Len(h) = y + 1 /\ h[y + 1] = m /\ \A i \in 1 .. y : h[i] = hist[i]
      /\ z.a = <<>>
  <2>1. Opens(v, z, hist, m)
    BY BeginShows
  <2>. QED BY <2>1 DEF Opens
<1>4. \A i \in 1 .. y : hist[i].id \in Nat
  <2>1. \A i \in 1 .. y : hist[i] \in Messages(v.n, v.e)
    BY <1>3
  <2>. QED BY <2>1 DEF Messages
<1>5. \A x \in v.st : x.id \in Nat /\ x.id <= n
  BY IdsAreNat DEF Numbered
<1>6. /\ \A i \in 1 .. y : hist[i].id <= n
      /\ \A i, j \in 1 .. y : i < j => hist[i].id < hist[j].id
  BY <1>1 DEF Rising
<1> HIDE DEF n, y, h, w
<1>7. \A i \in 1 .. y : hist[i].id <= n + 1 /\ hist[i].id < n + 1
  BY <1>2, <1>4, <1>6
<1>8. \A i \in 1 .. y + 1 : i \in 1 .. y \/ i = y + 1
  BY <1>3
<1>9. Rising(h, n + 1)
  <2>1. \A i \in 1 .. Len(h) : h[i].id <= n + 1
    BY <1>2, <1>3, <1>7, <1>8
  <2>2. ASSUME NEW i \in 1 .. Len(h), NEW j \in 1 .. Len(h), i < j PROVE h[i].id < h[j].id
    <3>1. i \in 1 .. y
      BY <1>3, <2>2
    <3>2. CASE j = y + 1
      BY <1>2, <1>3, <1>7, <3>1, <3>2
    <3>3. CASE j \in 1 .. y
      BY <1>3, <1>6, <2>2, <3>1, <3>3
    <3>. QED BY <1>3, <1>8, <3>2, <3>3
  <2>. QED BY <2>1, <2>2 DEF Rising
<1>10. ASSUME NEW i \in 1 .. Len(w), NEW x \in w[i].srcs PROVE x.id <= n + 1
  <2>1. CASE i \in 1 .. Len(w) - 1
    <3>0. \A r : Replayed(r).srcs = {Ident(r)}
      BY DEF Replayed, Entry
    <3>1. w[i].srcs = {Ident(hist[i])} /\ i \in 1 .. y
      BY <1>3, <2>1, <3>0
    <3>2. x.id = hist[i].id
      BY <3>1 DEF Ident
    <3>. QED BY <1>7, <3>1, <3>2
  <2>2. CASE i = Len(w)
    <3>1. CASE Merges(hist)
      <4>1. Len(w) = y /\ w[y] = MergedLive(hist[y], m)
        BY <1>3, <3>1 DEF MergedWindow, y
      <4>2. w[i].srcs = {Ident(hist[y]), Ident(m)}
        BY <2>2, <4>1 DEF MergedLive, Entry
      <4>3. x.id = hist[y].id \/ x.id = m.id
        BY <4>2 DEF Ident
      <4>4. y \in 1 .. y
        BY <1>3, <2>2, <4>1
      <4>. QED BY <1>2, <1>7, <4>3, <4>4
    <3>2. CASE ~Merges(hist)
      <4>1. Len(w) = y + 1 /\ w[y + 1] = Live(m)
        BY <1>3, <3>2 DEF PlainWindow, y
      <4>2. w[i].srcs = {Ident(m)}
        BY <2>2, <4>1 DEF Live, Entry
      <4>3. x.id = m.id
        BY <4>2 DEF Ident
      <4>. QED BY <1>2, <4>3
    <3>. QED BY <3>1, <3>2
  <2>. QED BY <1>3, <2>1, <2>2
<1>11. ASSUME NEW x \in z.st PROVE x.id <= n + 1
  <2>1. CASE x \in v.st
    BY <1>2, <1>5, <2>1
  <2>2. CASE x \notin v.st
    BY <1>10, <2>2 DEF Adds, w
  <2>. QED BY <2>1, <2>2
<1>12. Len(<<>>) = 0 /\ Rising(<<>>, n + 1) /\ Before(h, <<>>) /\ 1 .. 0 = {}
  BY EmptyKeeps
<1>. QED BY <1>2, <1>3, <1>9, <1>10, <1>11, <1>12 DEF Numbered, h, w

LEMMA MidNumbered ==
    ASSUME NEW v, Typed(v), Numbered(v), NEW z, Typed(z), GoesOn(v, z), Adds(v, z)
    PROVE  Numbered(z)
<1> DEFINE n == v.n
           k == z.n
           h == v.h
           a == v.a
           b == z.a
           w == z.w
<1>1. Goes(v, z) /\ z.h = h
  BY GoesOnParts DEF GoesOn
<1>2. n \in Nat /\ k \in Nat
  BY DEF Typed
<1>3. /\ Rising(h, n) /\ Rising(a, n) /\ Before(h, a)
      /\ \A i \in 1 .. Len(a) : ~a[i].opens
      /\ \A x \in v.st : x.id <= n
      /\ \A i \in 1 .. Len(v.w) : \A x \in v.w[i].srcs : x.id <= n
  BY DEF Numbered
<1>4. /\ \A i \in 1 .. Len(h) : h[i].id \in Nat
      /\ \A i \in 1 .. Len(a) : a[i].id \in Nat
      /\ \A x \in v.st : x.id \in Nat
      /\ \A i \in 1 .. Len(v.w) : \A x \in v.w[i].srcs : x.id \in Nat
  BY IdsAreNat
<1>5. CASE Repeats(v, z)
  <2>1. b = a /\ w = v.w /\ k = n
    BY <1>5 DEF Repeats
  <2>2. \A x \in z.st : x.id <= n
    BY <1>3, <2>1 DEF Adds
  <2>. QED BY <1>1, <1>3, <2>1, <2>2 DEF Numbered
<1>6. CASE Longer(v, z)
  <2> DEFINE g == Len(a)
             l == Len(v.w)
  <2>1. g \in Nat /\ l \in Nat /\ \A i \in 1 .. l : w[i] = v.w[i]
    BY <1>1 DEF Goes
  <2>2. /\ k = n + 1 /\ Len(w) = l + 1 /\ Len(b) = g + 1
        /\ \A i \in 1 .. g : b[i] = a[i]
        /\ w[l + 1] = Raw(b[g + 1]) /\ b[g + 1].id = k /\ ~b[g + 1].opens
    BY <1>6 DEF Longer
  <2> HIDE DEF n, k, h, a, b, w, g, l
  <2>3. /\ \A i \in 1 .. g + 1 : i \in 1 .. g \/ i = g + 1
        /\ \A i \in 1 .. l + 1 : i \in 1 .. l \/ i = l + 1
    BY <2>1
  <2>4. /\ \A i \in 1 .. g : a[i].id <= n /\ a[i].id \in Nat /\ ~a[i].opens
        /\ \A i, j \in 1 .. g : i < j => a[i].id < a[j].id
        /\ \A i \in 1 .. Len(h) : h[i].id <= n /\ h[i].id \in Nat
        /\ \A i \in 1 .. Len(h), j \in 1 .. g : h[i].id < a[j].id
    BY <1>3, <1>4 DEF Rising, Before, g
  <2>5. /\ \A i \in 1 .. g : a[i].id <= k /\ a[i].id < k
        /\ \A i \in 1 .. Len(h) : h[i].id <= k /\ h[i].id < k
    BY <1>2, <2>2, <2>4
  <2>6. Rising(h, k)
    BY <1>2, <1>3, <1>4, <2>2, RisingGrows
  <2>7. Rising(b, k)
    <3>1. \A i \in 1 .. Len(b) : b[i].id <= k
      BY <1>2, <2>2, <2>3, <2>5
    <3>2. ASSUME NEW i \in 1 .. Len(b), NEW j \in 1 .. Len(b), i < j PROVE b[i].id < b[j].id
      <4>1. i \in 1 .. g
        BY <2>1, <2>2, <3>2
      <4>2. CASE j = g + 1
        BY <2>2, <2>5, <4>1, <4>2
      <4>3. CASE j \in 1 .. g
        BY <2>2, <2>4, <3>2, <4>1, <4>3
      <4>. QED BY <2>2, <2>3, <4>2, <4>3
    <3>. QED BY <3>1, <3>2 DEF Rising
  <2>8. Before(h, b)
    <3>1. ASSUME NEW i \in 1 .. Len(h), NEW j \in 1 .. Len(b) PROVE h[i].id < b[j].id
      <4>1. CASE j = g + 1
        BY <2>2, <2>5, <4>1
      <4>2. CASE j \in 1 .. g
        BY <2>2, <2>4, <4>2
      <4>. QED BY <2>2, <2>3, <4>1, <4>2
    <3>. QED BY <3>1 DEF Before
  <2>9. \A i \in 1 .. Len(b) : ~b[i].opens
    BY <2>2, <2>3, <2>4
  <2>10. ASSUME NEW i \in 1 .. Len(w), NEW x \in w[i].srcs PROVE x.id <= k
    <3>1. CASE i = l + 1
      <4>1. w[i].srcs = {Ident(b[g + 1])}
        BY <2>2, <3>1 DEF Raw, Entry
      <4>2. x.id = k
        BY <2>2, <4>1 DEF Ident
      <4>. QED BY <1>2, <4>2
    <3>2. CASE i \in 1 .. l
      <4>1. x.id \in Nat /\ x.id <= n
        BY <1>3, <1>4, <2>1, <3>2 DEF l
      <4>. QED BY <1>2, <2>2, <4>1
    <3>. QED BY <2>2, <2>3, <3>1, <3>2
  <2>11. ASSUME NEW x \in z.st PROVE x.id <= k
    <3>1. CASE x \in v.st
      <4>1. x.id \in Nat /\ x.id <= n
        BY <1>3, <1>4, <3>1
      <4>. QED BY <1>2, <2>2, <4>1
    <3>2. CASE x \notin v.st
      BY <2>10, <3>2 DEF Adds, w
    <3>. QED BY <3>1, <3>2
  <2>. QED BY <1>1, <2>6, <2>7, <2>8, <2>9, <2>10, <2>11 DEF Numbered, k, b, w, h
<1>. QED BY <1>1, <1>5, <1>6 DEF Goes

-----------------------------------------------------------------------------
(* What the sessions of a conversation hold.                               *)

Holds(a, s, x) == \E i \in 1 .. Len(RowsAt(a, s)) : x \in RowsAt(a, s)[i].srcs
HeldFor(a, k) ==
    {x \in [id : Nat, era : Nat] :
        \E s \in 1 .. Len(a.sessions) : a.sessions[s].key = k /\ Holds(a, s, x)}

\* A pass of k leaves every session to its conversation and opens at most one, for k.
KeysKept(a, z, k) ==
    /\ Len(a.sessions) \in Nat /\ Len(z.sessions) \in {Len(a.sessions), Len(a.sessions) + 1}
    /\ \A s \in 1 .. Len(a.sessions) : z.sessions[s].key = a.sessions[s].key
    /\ Len(z.sessions) = Len(a.sessions) + 1 => z.sessions[Len(z.sessions)].key = k

LEMMA MovesKeep ==
    ASSUME NEW B, NEW n \in Nat, NEW a, ArchOK(B, a, n), NEW z, NEW k \in Keys, NEW idle, NEW how,
           Moves(a, z, k, idle, how)
    PROVE  KeysKept(a, z, k)
<1>1. Len(a.sessions) \in Nat
  BY ArchDef
<1>. QED BY <1>1 DEF Moves, KeysKept

LEMMA HeldStays ==
    ASSUME NEW a, NEW z, NEW k, KeysKept(a, z, k), RowsStay(a, z), NEW j
    PROVE  HeldFor(z, j) = HeldFor(a, j)
<1> DEFINE l == Len(a.sessions)
           g == Len(z.sessions)
<1>1. /\ l \in Nat /\ g \in {l, l + 1}
      /\ \A s \in 1 .. l : z.sessions[s].key = a.sessions[s].key
  BY DEF KeysKept
<1>2. \A s \in Nat : RowsAt(z, s) = RowsAt(a, s)
  BY DEF RowsStay
<1>3. ASSUME NEW s \in Nat, s \notin 1 .. l, NEW x PROVE ~Holds(a, s, x)
  <2>1. RowsAt(a, s) = <<>>
    BY <1>3 DEF RowsAt
  <2>2. Len(<<>>) = 0 /\ 1 .. 0 = {}
    OBVIOUS
  <2>. QED BY <2>1, <2>2 DEF Holds
<1>4. \A s \in Nat : \A x : Holds(z, s, x) <=> Holds(a, s, x)
  BY <1>2 DEF Holds
<1> HIDE DEF l, g
<1>5. \A s \in 1 .. g : s \in Nat /\ (s \in 1 .. l \/ s \notin 1 .. l)
  BY <1>1
<1>6. \A s \in 1 .. l : s \in Nat /\ s \in 1 .. g
  BY <1>1
<1>7. ASSUME NEW x
      PROVE  (\E s \in 1 .. g : z.sessions[s].key = j /\ Holds(z, s, x))
             <=> (\E s \in 1 .. l : a.sessions[s].key = j /\ Holds(a, s, x))
  <2>1. ASSUME NEW s \in 1 .. g, z.sessions[s].key = j, Holds(z, s, x)
        PROVE  \E r \in 1 .. l : a.sessions[r].key = j /\ Holds(a, r, x)
    <3>1. s \in 1 .. l /\ Holds(a, s, x)
      BY <1>3, <1>4, <1>5, <2>1
    <3>. QED BY <1>1, <2>1, <3>1
  <2>2. ASSUME NEW s \in 1 .. l, a.sessions[s].key = j, Holds(a, s, x)
        PROVE  \E r \in 1 .. g : z.sessions[r].key = j /\ Holds(z, r, x)
    <3>1. s \in 1 .. g /\ Holds(z, s, x)
      BY <1>4, <1>6, <2>2
    <3>. QED BY <1>1, <2>2, <3>1
  <2>. QED BY <2>1, <2>2
<1>. QED BY <1>7 DEF HeldFor, l, g

LEMMA RowsHold ==
    ASSUME NEW r \in Seq(Row), NEW n \in Nat, NEW e \in Nat, NEW w \in Seq(Entries(n, e)),
           NEW l \in 0 .. Len(w)
    PROVE  /\ Len(r \o Rows(w, l)) = Len(r) + (Len(w) - l)
           /\ \A i \in 1 .. Len(r) : (r \o Rows(w, l))[i] = r[i]
           /\ \A i \in 1 .. Len(w) - l : (r \o Rows(w, l))[Len(r) + i].srcs = w[l + i].srcs
<1> DEFINE f == Rows(w, l)
           k == Len(w) - l
<1>1. Len(w) \in Nat /\ k \in Nat /\ \A i \in 1 .. k : l + i \in 1 .. Len(w)
  OBVIOUS
<1>2. \A i \in 1 .. k : f[i] = [role |-> w[l + i].role, srcs |-> w[l + i].srcs]
  BY DEF Rows
<1>3. \A i \in 1 .. k : f[i] \in Row
  <2>1. \A x \in Entries(n, e) : [role |-> x.role, srcs |-> x.srcs] \in Row
    BY DEF Entries, Row, Idents
  <2>2. \A i \in 1 .. k : w[l + i] \in Entries(n, e)
    <3> DEFINE T == Entries(n, e)
    <3>1. w \in Seq(T)
      OBVIOUS
    <3> HIDE DEF T, k
    <3>2. \A i \in 1 .. Len(w) : w[i] \in T
      BY <3>1
    <3>. QED BY <1>1, <3>2 DEF T
  <2> HIDE DEF f, k
  <2>. QED BY <1>2, <2>1, <2>2
<1>4. f = [i \in 1 .. k |-> f[i]]
  BY DEF Rows
<1> HIDE DEF f, k
<1>5. f \in Seq(Row) /\ Len(f) = k
  BY <1>1, <1>3, <1>4, FunIsSeq
<1>6. /\ Len(r \o f) = Len(r) + k
      /\ \A i \in 1 .. Len(r) : (r \o f)[i] = r[i]
      /\ \A i \in 1 .. k : (r \o f)[Len(r) + i] = f[i]
  <2>1. r \in Seq(Row) /\ f \in Seq(Row)
    BY <1>5
  <2>2. /\ Len(r \o f) = Len(r) + Len(f)
        /\ \A i \in 1 .. Len(r) : (r \o f)[i] = r[i]
        /\ \A i \in 1 .. Len(f) : (r \o f)[Len(r) + i] = f[i]
    BY <2>1, JoinIs
  <2>. QED BY <1>5, <2>2
<1>7. ASSUME NEW i \in 1 .. k PROVE f[i].srcs = w[l + i].srcs
  <2>1. f[i] = [role |-> w[l + i].role, srcs |-> w[l + i].srcs]
    BY <1>2
  <2>. QED BY <2>1
<1>. QED BY <1>6, <1>7 DEF f, k

\* A conversation's sessions hold what the window shows after its first l entries, and
\* nothing new but what the window shows.
ShowsFrom(z, k, w, l) == \A i \in l + 1 .. Len(w) : w[i].srcs \subseteq HeldFor(z, k)
ShownOnly(a, z, k, w) ==
    \A x \in HeldFor(z, k) : x \in HeldFor(a, k) \/ \E i \in 1 .. Len(w) : x \in w[i].srcs
HoldAsBefore(a, z, k) == \A j : j # k => HeldFor(z, j) = HeldFor(a, j)

LEMMA HeldAdded ==
    ASSUME NEW B, NEW n \in Nat, NEW a, ArchOK(B, a, n), NEW z, ArchOK(B, z, n), NEW k \in Keys,
           KeysKept(a, z, k), NEW e \in Nat, NEW w \in Seq(Entries(n, e)), NEW l \in 0 .. Len(w),
           RowsAdded(a, z, k, w, l), z.sid[k] # NoSession
    PROVE  /\ HeldFor(a, k) \subseteq HeldFor(z, k)
           /\ ShowsFrom(z, k, w, l) /\ ShownOnly(a, z, k, w)
           /\ HoldAsBefore(a, z, k)
<1> DEFINE s0 == z.sid[k]
           g == Len(z.sessions)
           y == Len(a.sessions)
           r == RowsAt(a, s0)
           t == r \o Rows(w, l)
           I == [id : Nat, era : Nat]
<1>1. /\ y \in Nat /\ g \in {y, y + 1}
      /\ \A s \in 1 .. y : z.sessions[s].key = a.sessions[s].key
      /\ g = y + 1 => z.sessions[g].key = k
  BY DEF KeysKept
<1>2. s0 \in 1 .. g /\ z.sessions[s0].key = k
  <2>1. KeyOK(z, k)
    BY ArchParts
  <2>. QED BY <2>1 DEF KeyOK
<1>3. r \in Seq(Row)
  <2>1. CASE s0 \in 1 .. y
    <3>1. a.sessions[s0] \in Session
      BY <2>1, ArchDef
    <3>. QED BY <2>1, <3>1 DEF RowsAt, Session
  <2>2. CASE s0 \notin 1 .. y
    BY <2>2 DEF RowsAt
  <2>. QED BY <2>1, <2>2
<1>4. /\ RowsAt(z, s0) = t
      /\ \A s \in Nat : s # s0 => RowsAt(z, s) = RowsAt(a, s)
  BY DEF RowsAdded
<1>5. Len(w) \in Nat /\ l \in Nat /\ l <= Len(w)
  OBVIOUS
<1> HIDE DEF s0, g, y, r
<1>6. /\ Len(t) = Len(r) + (Len(w) - l) /\ Len(r) \in Nat
      /\ \A i \in 1 .. Len(r) : t[i] = r[i]
      /\ \A i \in 1 .. Len(w) - l : t[Len(r) + i].srcs = w[l + i].srcs
  BY <1>3, RowsHold
<1> HIDE DEF t
<1>7. ASSUME NEW x, Holds(a, s0, x) PROVE Holds(z, s0, x)
  <2>1. PICK i \in 1 .. Len(r) : x \in r[i].srcs
    BY <1>7 DEF Holds, r
  <2>2. i \in 1 .. Len(t) /\ t[i] = r[i]
    BY <1>5, <1>6
  <2>. QED BY <1>4, <2>1, <2>2 DEF Holds
<1>8. ASSUME NEW i \in l + 1 .. Len(w), NEW x \in w[i].srcs PROVE Holds(z, s0, x)
  <2>1. i - l \in 1 .. Len(w) - l /\ l + (i - l) = i /\ Len(r) + (i - l) \in 1 .. Len(t)
    BY <1>5, <1>6
  <2>2. t[Len(r) + (i - l)].srcs = w[i].srcs
    BY <1>6, <2>1
  <2>. QED BY <1>4, <2>1, <2>2 DEF Holds
<1>9. ASSUME NEW x, Holds(z, s0, x) PROVE Holds(a, s0, x) \/ \E i \in 1 .. Len(w) : x \in w[i].srcs
  <2>1. PICK i \in 1 .. Len(t) : x \in t[i].srcs
    BY <1>4, <1>9 DEF Holds
  <2>2. CASE i <= Len(r)
    <3>1. i \in 1 .. Len(r) /\ t[i] = r[i]
      BY <1>6, <2>2
    <3>. QED BY <2>1, <3>1 DEF Holds, r
  <2>3. CASE ~(i <= Len(r))
    <3>1. /\ i - Len(r) \in 1 .. Len(w) - l /\ Len(r) + (i - Len(r)) = i
          /\ l + (i - Len(r)) \in 1 .. Len(w)
      BY <1>5, <1>6, <2>3
    <3>2. x \in w[l + (i - Len(r))].srcs
      BY <1>6, <2>1, <3>1
    <3>. QED BY <3>1, <3>2
  <2>. QED BY <2>2, <2>3
<1>10. \A s \in Nat : \A x : s # s0 => (Holds(z, s, x) <=> Holds(a, s, x))
  BY <1>4 DEF Holds
<1>11. ASSUME NEW s, s \notin 1 .. y, NEW x PROVE ~Holds(a, s, x)
  <2>1. RowsAt(a, s) = <<>>
    BY <1>11 DEF RowsAt, y
  <2>2. Len(<<>>) = 0 /\ 1 .. 0 = {}
    OBVIOUS
  <2>. QED BY <2>1, <2>2 DEF Holds
<1>12. /\ \A s \in 1 .. y : s \in 1 .. g /\ s \in Nat
       /\ \A s \in 1 .. g : s \in Nat
  BY <1>1
<1>13. ASSUME NEW j, NEW x \in HeldFor(a, j) PROVE x \in HeldFor(z, j)
  <2>1. PICK s \in 1 .. y : a.sessions[s].key = j /\ Holds(a, s, x)
    BY <1>13 DEF HeldFor, y
  <2>2. s \in 1 .. g /\ z.sessions[s].key = j /\ Holds(z, s, x)
    BY <1>1, <1>7, <1>10, <1>12, <2>1
  <2>3. x \in I
    BY <1>13 DEF HeldFor
  <2>. QED BY <2>2, <2>3 DEF HeldFor, g
<1>14. ASSUME NEW i \in l + 1 .. Len(w), NEW x \in w[i].srcs PROVE x \in HeldFor(z, k)
  <2>1. i \in 1 .. Len(w)
    BY <1>5
  <2>2. w[i] \in Entries(n, e)
    <3> DEFINE T == Entries(n, e)
    <3>1. w \in Seq(T)
      OBVIOUS
    <3> HIDE DEF T
    <3>2. w[i] \in T
      BY <2>1, <3>1
    <3>. QED BY <3>2 DEF T
  <2>3. x \in I
    BY <2>2 DEF Entries, Idents
  <2>. QED BY <1>2, <1>8, <2>3 DEF HeldFor, g
<1>15. ASSUME NEW j, NEW x \in HeldFor(z, j)
       PROVE  x \in HeldFor(a, j) \/ (j = k /\ \E i \in 1 .. Len(w) : x \in w[i].srcs)
  <2>1. PICK s \in 1 .. g : z.sessions[s].key = j /\ Holds(z, s, x)
    BY <1>15 DEF HeldFor, g
  <2>2. x \in I
    BY <1>15 DEF HeldFor
  <2>3. ASSUME Holds(a, s, x) PROVE x \in HeldFor(a, j)
    <3>1. s \in 1 .. y
      BY <1>11, <2>3
    <3>2. a.sessions[s].key = j
      BY <1>1, <2>1, <3>1
    <3>. QED BY <2>2, <2>3, <3>1, <3>2 DEF HeldFor, y
  <2>4. CASE s = s0
    <3>1. j = k
      BY <1>2, <2>1, <2>4
    <3>. QED BY <1>9, <2>1, <2>3, <2>4, <3>1
  <2>5. CASE s # s0
    BY <1>10, <1>12, <2>1, <2>3, <2>5
  <2>. QED BY <2>4, <2>5
<1>16. ASSUME NEW j, j # k PROVE HeldFor(z, j) = HeldFor(a, j)
  BY <1>13, <1>15, <1>16
<1>17. ShowsFrom(z, k, w, l)
  BY <1>14 DEF ShowsFrom
<1>18. ShownOnly(a, z, k, w)
  BY <1>15 DEF ShownOnly
<1>19. HoldAsBefore(a, z, k)
  BY <1>16 DEF HoldAsBefore
<1>. QED BY <1>13, <1>17, <1>18, <1>19

-----------------------------------------------------------------------------
(* The conversations of the archiver.                                      *)

LastOf(a, k) == IF a.lastPass # <<>> /\ a.lastPass[1] = k THEN a.lastPass[2] ELSE 0
ViewOf(a, k, h, u, w, f, all, irr, n, e) ==
    [c |-> a.confirmed[k], p |-> a.pending[k], s |-> a.sid[k], h |-> h, a |-> u, w |-> w,
     f |-> f, all |-> all, irr |-> irr, last |-> LastOf(a, k), st |-> HeldFor(a, k),
     n |-> n, e |-> e]
View(k) ==
    ViewOf(Memory, k, history[k], appended[k], window[k], failed[k], faults, irregular[k],
           made, incarnation[k])

Counts == failed \in [Keys -> Nat] /\ irregular \in [Keys -> BOOLEAN] /\ faults \in Nat

\* What a view needs beyond what is known of every conversation.
Bounded(v) == v.f <= v.all /\ v.last <= Len(v.w)

LEMMA ViewIs ==
    ASSUME NEW k
    PROVE  LET v == View(k)
           IN  /\ v.c = confirmed[k] /\ v.p = pending[k] /\ v.s = sid[k] /\ v.h = history[k]
               /\ v.a = appended[k] /\ v.w = window[k] /\ v.f = failed[k] /\ v.all = faults
               /\ v.irr = irregular[k] /\ v.n = made /\ v.e = incarnation[k]
               /\ v.last = LastOf(Memory, k) /\ v.st = HeldFor(Memory, k)
BY DEF View, ViewOf, Memory

LEMMA ViewOfTyped ==
    ASSUME NEW B, NEW n \in Nat, NEW e \in Nat, NEW a, ArchOK(B, a, n), NEW k \in Keys, NEW h, NEW u, NEW w,
           Chat(n, e, h, u, w), NEW f \in Nat, NEW all \in Nat, NEW irr,
           Bounded(ViewOf(a, k, h, u, w, f, all, irr, n, e))
    PROVE  Typed(ViewOf(a, k, h, u, w, f, all, irr, n, e))
<1> DEFINE v == ViewOf(a, k, h, u, w, f, all, irr, n, e)
<1>1. /\ v.c = a.confirmed[k] /\ v.p = a.pending[k] /\ v.s = a.sid[k] /\ v.h = h
      /\ v.a = u /\ v.w = w /\ v.f = f /\ v.all = all /\ v.n = n /\ v.e = e
      /\ v.last = LastOf(a, k) /\ v.st = HeldFor(a, k)
  BY DEF ViewOf
<1>2. v.f <= v.all /\ v.last <= Len(v.w)
  BY DEF Bounded
<1> HIDE DEF v
<1>3. a.confirmed[k] \in Seq(Fp(n)) /\ a.pending[k] \in Seq(Item(n)) /\ a.sid[k] \in Nat
  <2>1. a.confirmed \in [Keys -> Seq(Fp(n))] /\ a.pending \in [Keys -> Seq(Item(n))]
    BY ArchDef
  <2>2. a.sid \in [Keys -> Nat]
    BY ArchDef
  <2>. QED BY <2>1, <2>2
<1>4. a.sid[k] = NoSession => a.confirmed[k] = <<>> /\ a.pending[k] = <<>>
  <2>1. KeyOK(a, k)
    BY ArchParts
  <2>. QED BY <2>1 DEF KeyOK
<1>5. LastOf(a, k) \in Nat
  <2>1. a \in MemoryType(n)
    BY ArchDef
  <2>2. a.lastPass \in {<<>>} \cup (Keys \X Nat)
    BY <2>1 DEF MemoryType
  <2>3. a.lastPass # <<>> => a.lastPass[2] \in Nat
    BY <2>2
  <2>. QED BY <2>3 DEF LastOf
<1>6. HeldFor(a, k) \subseteq [id : Nat, era : Nat]
  BY DEF HeldFor
<1>7. Typed(v)
  BY <1>1, <1>2, <1>3, <1>4, <1>5, <1>6 DEF Typed
<1>. QED BY <1>7 DEF v

\* A step leaves a view typed if the counters of its pass are in order.
LEMMA ViewTyped ==
    ASSUME Inv', Counts', NEW k \in Keys, Bounded(View(k)')
    PROVE  Typed(View(k)')
<1>1. made' \in Nat /\ incarnation'[k] \in Nat /\ ArchOK(Blurred', Memory', made')
  BY DEF Inv, Tables
<1>2. Chat(made', incarnation'[k], history'[k], appended'[k], window'[k])
  BY DEF Inv, Chats
<1>3. failed'[k] \in Nat /\ faults' \in Nat
  BY DEF Counts
<1>4. View(k)' = ViewOf(Memory', k, history'[k], appended'[k], window'[k], failed'[k], faults',
                        irregular'[k], made', incarnation'[k])
  BY DEF View
<1>. QED BY <1>1, <1>2, <1>3, <1>4, ViewOfTyped

\* What a pass of another conversation leaves of one.
LEMMA OthersAside ==
    ASSUME Inv, Counts, NEW k \in Keys, NEW j \in Keys \ {k}, Others(Memory, Memory', k),
           HeldFor(Memory', j) = HeldFor(Memory, j),
           faults' \in Nat, faults <= faults', made' \in Nat, made <= made', failed'[j] = failed[j],
           irregular'[j] = irregular[j],
           history'[j] = history[j], appended'[j] = appended[j], window'[j] = window[j],
           incarnation'[j] = incarnation[j],
           lastPass' = lastPass \/ lastPass' = <<>> \/ (lastPass' # <<>> /\ lastPass'[1] # j)
    PROVE  Aside(View(j), View(j)')
<1> DEFINE v == View(j)
           z == View(j)'
<1>1. /\ v.c = confirmed[j] /\ v.p = pending[j] /\ v.s = sid[j] /\ v.h = history[j]
      /\ v.a = appended[j] /\ v.w = window[j] /\ v.f = failed[j] /\ v.all = faults
      /\ v.irr = irregular[j] /\ v.n = made /\ v.e = incarnation[j]
      /\ v.last = LastOf(Memory, j) /\ v.st = HeldFor(Memory, j)
  BY ViewIs
<1>2. /\ z.c = confirmed'[j] /\ z.p = pending'[j] /\ z.s = sid'[j] /\ z.h = history'[j]
      /\ z.a = appended'[j] /\ z.w = window'[j] /\ z.f = failed'[j] /\ z.all = faults'
      /\ z.irr = irregular'[j] /\ z.n = made' /\ z.e = incarnation'[j]
      /\ z.last = LastOf(Memory', j) /\ z.st = HeldFor(Memory', j)
  BY DEF View, ViewOf, Memory
<1> HIDE DEF v, z
<1>3. Same(Memory, Memory', j) \/ Cleared(Memory', j)
  BY DEF Others
<1>4. /\ Memory.confirmed = confirmed /\ Memory.pending = pending /\ Memory.sid = sid
      /\ Memory.lastPass = lastPass
      /\ (Memory').confirmed = confirmed' /\ (Memory').pending = pending' /\ (Memory').sid = sid'
      /\ (Memory').lastPass = lastPass'
  BY DEF Memory
<1>5. \/ confirmed'[j] = confirmed[j] /\ pending'[j] = pending[j] /\ sid'[j] = sid[j]
      \/ confirmed'[j] = <<>> /\ pending'[j] = <<>> /\ sid'[j] = NoSession
  BY <1>3, <1>4 DEF Same, Cleared
<1>6. LastOf(Memory', j) \in {LastOf(Memory, j), 0}
  BY <1>4 DEF LastOf
<1>7. Aside(v, z)
  BY <1>1, <1>2, <1>5, <1>6 DEF Aside, Empty
<1>. QED BY <1>7 DEF v, z

\* What a hook call of k comes to, as a step of its view.
HookViewed(k, w, midTurn) ==
    LET v == View(k)
        z == View(k)'
        al == Align(confirmed[k], pending[k], w, midTurn)
    IN  /\ Passed(v, z, al, NewConfirmed(Base(al, confirmed[k]), w, al, midTurn),
                  NewPending(w, al, midTurn))
        /\ Adds(v, z) /\ z.last \in {v.last, Len(w)} /\ (v.f <= v.all => z.f <= z.all)
        /\ failed' \in [Keys -> Nat] /\ faults' \in Nat /\ faults <= faults'
        /\ Others(Memory, Memory', k)
        /\ \A j \in Keys \ {k} :
             HeldFor(Memory', j) = HeldFor(Memory, j) /\ failed'[j] = failed[j]
        /\ lastPass' = lastPass \/ lastPass' = <<k, Len(w)>>

LEMMA HookView ==
    ASSUME Inv, Inv', Counts, NEW k \in Keys, made' \in Nat, made <= made', NEW B, B = Blurred',
           Blurred \subseteq B,
           incarnation' = incarnation, NEW w, window'[k] = w, w # <<>>, NEW midTurn \in BOOLEAN,
           NEW f, NEW g, HookCall(k, w, midTurn, f, g), NEW idle, NEW how,
           Moves(Memory, Memory', k, idle, how),
           \/ Fits(B, Memory, k, incarnation[k])
           \/ Align(confirmed[k], pending[k], w, midTurn).isNew
    PROVE  HookViewed(k, w, midTurn)
<1> DEFINE v == View(k)
           z == View(k)'
           e == incarnation[k]
           n == made'
           a == Memory
           b == Memory'
           al == Align(confirmed[k], pending[k], w, midTurn)
           c == NewConfirmed(Base(al, confirmed[k]), w, al, midTurn)
           p == NewPending(w, al, midTurn)
<1>1. /\ v.c = confirmed[k] /\ v.p = pending[k] /\ v.s = sid[k] /\ v.h = history[k]
      /\ v.a = appended[k] /\ v.w = window[k] /\ v.f = failed[k] /\ v.all = faults
      /\ v.irr = irregular[k] /\ v.n = made /\ v.e = incarnation[k]
      /\ v.last = LastOf(a, k) /\ v.st = HeldFor(a, k)
  BY ViewIs
<1>2. /\ z.c = confirmed'[k] /\ z.p = pending'[k] /\ z.s = sid'[k] /\ z.h = history'[k]
      /\ z.a = appended'[k] /\ z.w = w /\ z.f = failed'[k] /\ z.all = faults'
      /\ z.irr = irregular'[k] /\ z.n = made' /\ z.e = incarnation'[k]
      /\ z.last = LastOf(b, k) /\ z.st = HeldFor(b, k)
  BY DEF View, ViewOf, Memory
<1>3. /\ made \in Nat /\ n \in Nat /\ e \in Nat /\ faults \in Nat /\ failed[k] \in Nat
  BY DEF Inv, Tables, Counts
<1>4. ArchOK(B, a, n) /\ ArchOK(B, b, n)
  <2>1. ArchOK(Blurred, a, made) /\ ArchOK(B, b, n)
    BY DEF Inv
  <2>. QED BY <1>3, <2>1, ArchGrow
<1>5. w \in Seq(Entries(n, e))
  <2>1. Chats(k)'
    BY DEF Inv
  <2>. QED BY <2>1 DEF Chats, Chat
<1>6. /\ a.confirmed = confirmed /\ a.pending = pending /\ a.sid = sid
      /\ a.lastPass = lastPass /\ a.sessions = sessions
      /\ b.confirmed = confirmed' /\ b.pending = pending' /\ b.sid = sid'
      /\ b.lastPass = lastPass' /\ b.sessions = sessions'
  BY DEF Memory
<1>7. KeysKept(a, b, k)
  BY <1>3, <1>4, MovesKeep
<1>8. Others(a, b, k) /\ Outcome(k, w, al, c, p)
  BY <1>3, <1>4, <1>5, HookIs
<1>9. al.start \in 1 .. Len(w) + 1 /\ Len(w) \in Nat
  <2> DEFINE x == confirmed[k]
             y == pending[k]
  <2>1. x \in Seq(Fp(n)) /\ y \in Seq(Item(n))
    <3>1. a.confirmed \in [Keys -> Seq(Fp(n))] /\ a.pending \in [Keys -> Seq(Item(n))]
      BY ONLY <1>3, <1>4, ArchDef
    <3>. QED BY <1>6, <3>1
  <2>2. n \in Nat /\ w \in Seq(Entries(n, e)) /\ midTurn \in BOOLEAN
    BY <1>3, <1>5
  <2> HIDE DEF x, y, n, e
  <2>3. Align(x, y, w, midTurn).start \in 1 .. Len(w) + 1
    BY ONLY <2>1, <2>2, AlignTyped
  <2>. QED BY <2>2, <2>3 DEF x, y
<1>10. Len(sessions) \in Nat /\ sid[k] \in Nat /\ sid[k] # Len(sessions) + 1
  <2>1. /\ Len(a.sessions) \in Nat /\ a.sid \in [Keys -> Nat]
        /\ \A j \in Keys : a.sid[j] # Len(a.sessions) + 1
    BY ONLY <1>3, <1>4, ArchDef
  <2>. QED BY <1>6, <2>1
<1> HIDE DEF v, z, a, b, al, c, p, e, n
<1>11. ASSUME NEW x, NEW y, x \in Nat, y \in Nat, y <= x, Counted(k, x, y)
       PROVE  /\ faults' = faults + x /\ failed'[k] = failed[k] + y
              /\ failed' \in [Keys -> Nat] /\ faults' \in Nat /\ faults <= faults'
              /\ \A j \in Keys \ {k} : failed'[j] = failed[j]
              /\ v.f <= v.all => z.f <= z.all
  <2>1. faults' = faults + x /\ failed' = [failed EXCEPT ![k] = failed[k] + y]
    BY <1>11 DEF Counted
  <2>2. failed \in [Keys -> Nat]
    BY DEF Counts
  <2>3. failed[k] + y \in Nat /\ faults + x \in Nat /\ faults <= faults + x
    BY <1>3, <1>11
  <2>4. /\ failed' \in [Keys -> Nat] /\ failed'[k] = failed[k] + y
        /\ \A j \in Keys \ {k} : failed'[j] = failed[j]
    BY <2>1, <2>2, <2>3
  <2> DEFINE r == failed[k]
  <2>5. r \in Nat /\ failed'[k] = r + y /\ v.f = r /\ z.f = r + y /\ v.all = faults /\ z.all = faults + x
    BY <1>1, <1>2, <1>3, <2>1, <2>4
  <2> HIDE DEF r
  <2>6. v.f <= v.all => z.f <= z.all
    BY <1>3, <1>11, <2>5
  <2>. QED BY <2>1, <2>3, <2>4, <2>6
<1>12. ASSUME NEW l \in 0 .. Len(w), RowsAdded(a, b, k, w, l), z.s # NoSession
       PROVE  /\ v.st \subseteq z.st /\ (\A i \in l + 1 .. Len(w) : Has(z, w[i])) /\ Adds(v, z)
              /\ \A j \in Keys \ {k} : HeldFor(b, j) = HeldFor(a, j)
  <2>1. b.sid[k] # NoSession
    BY <1>2, <1>6, <1>12
  <2>2. /\ HeldFor(a, k) \subseteq HeldFor(b, k)
        /\ \A i \in l + 1 .. Len(w) : w[i].srcs \subseteq HeldFor(b, k)
        /\ \A x \in HeldFor(b, k) : x \in HeldFor(a, k) \/ \E i \in 1 .. Len(w) : x \in w[i].srcs
        /\ \A j : j # k => HeldFor(b, j) = HeldFor(a, j)
    <3>1. /\ n \in Nat /\ ArchOK(B, a, n) /\ ArchOK(B, b, n) /\ k \in Keys /\ KeysKept(a, b, k)
          /\ e \in Nat /\ w \in Seq(Entries(n, e)) /\ l \in 0 .. Len(w) /\ RowsAdded(a, b, k, w, l)
      BY <1>3, <1>4, <1>5, <1>7, <1>12
    <3>2. HeldFor(a, k) \subseteq HeldFor(b, k)
      BY ONLY <2>1, <3>1, HeldAdded
    <3>3. ShowsFrom(b, k, w, l)
      BY ONLY <2>1, <3>1, HeldAdded
    <3>4. ShownOnly(a, b, k, w)
      BY ONLY <2>1, <3>1, HeldAdded
    <3>5. HoldAsBefore(a, b, k)
      BY ONLY <2>1, <3>1, HeldAdded
    <3>. QED BY <3>2, <3>3, <3>4, <3>5 DEF ShowsFrom, ShownOnly, HoldAsBefore
  <2>. QED BY <1>1, <1>2, <2>2 DEF Has, Adds
<1>13. ASSUME lastPass' = <<k, Len(w)>> PROVE z.last = Len(w)
  BY <1>2, <1>6, <1>13 DEF LastOf
<1>14. ASSUME Unstored(a, b, k)
       PROVE  /\ z.last = v.last /\ z.st = v.st /\ Adds(v, z) /\ lastPass' = lastPass
              /\ (z.c = v.c /\ z.p = v.p) \/ Empty(z)
              /\ \A j \in Keys \ {k} : HeldFor(b, j) = HeldFor(a, j)
  <2>1. /\ RowsStay(a, b) /\ lastPass' = lastPass
        /\ \/ confirmed'[k] = confirmed[k] /\ pending'[k] = pending[k]
           \/ confirmed'[k] = <<>> /\ pending'[k] = <<>>
    BY <1>6, <1>14 DEF Unstored
  <2>2. \A j : HeldFor(b, j) = HeldFor(a, j)
    BY <1>7, <2>1, HeldStays
  <2>3. z.last = v.last
    BY <1>1, <1>2, <1>6, <2>1 DEF LastOf
  <2>. QED BY <1>1, <1>2, <2>1, <2>2, <2>3 DEF Adds, Empty
<1> DEFINE Goal == /\ Passed(v, z, al, c, p)
                   /\ Adds(v, z) /\ z.last \in {v.last, Len(w)} /\ (v.f <= v.all => z.f <= z.all)
                   /\ failed' \in [Keys -> Nat] /\ faults' \in Nat /\ faults <= faults'
                   /\ \A j \in Keys \ {k} : HeldFor(b, j) = HeldFor(a, j) /\ failed'[j] = failed[j]
                   /\ lastPass' = lastPass \/ lastPass' = <<k, Len(w)>>
<1>15. ASSUME NEW x \in {0, 1}, Counted(k, x, 0), Stored(a, b, k, w, al, c, p)
       PROVE  Goal
  <2>1. /\ faults' \in {faults, faults + 1} /\ failed'[k] = failed[k]
        /\ failed' \in [Keys -> Nat] /\ faults' \in Nat /\ faults <= faults'
        /\ \A j \in Keys \ {k} : failed'[j] = failed[j]
        /\ v.f <= v.all => z.f <= z.all
    <3>1. x \in Nat /\ 0 \in Nat /\ 0 <= x
      OBVIOUS
    <3>2. /\ faults' = faults + x /\ failed'[k] = failed[k] + 0
          /\ failed' \in [Keys -> Nat] /\ faults' \in Nat /\ faults <= faults'
          /\ \A j \in Keys \ {k} : failed'[j] = failed[j]
          /\ v.f <= v.all => z.f <= z.all
      BY <1>11, <1>15, <3>1
    <3>. QED BY <1>3, <3>2
  <2>2. /\ z.c = c /\ z.p = p /\ lastPass' = <<k, Len(w)>>
        /\ z.s = SessionAfter(a, k, al) /\ RowsAdded(a, b, k, w, al.start - 1)
    BY <1>2, <1>6, <1>15 DEF Stored
  <2>3. z.s # NoSession /\ (z.s = v.s <=> ~IsNew(al) /\ v.s # NoSession)
    BY <1>1, <1>6, <1>10, <2>2 DEF SessionAfter, NoSession
  <2>4. al.start - 1 \in 0 .. Len(w) /\ al.start - 1 + 1 = al.start
    BY <1>9
  <2>5. /\ v.st \subseteq z.st /\ (\A i \in al.start .. Len(w) : Has(z, w[i])) /\ Adds(v, z)
        /\ \A j \in Keys \ {k} : HeldFor(b, j) = HeldFor(a, j)
    BY <1>12, <2>2, <2>3, <2>4
  <2>6. z.last = Len(w)
    BY <1>13, <2>2
  <2>7. Took(v, z, al, c, p)
    BY <1>1, <1>2, <2>1, <2>2, <2>3, <2>5, <2>6 DEF Took
  <2>8. Passed(v, z, al, c, p)
    BY <2>7 DEF Passed
  <2>9. Goal
    BY <2>1, <2>2, <2>5, <2>6, <2>8
  <2>. QED BY <2>9
<1>16. ASSUME Counted(k, 1, 1), Unstored(a, b, k), Forgets(b, k, al)
       PROVE  Goal
  <2>1. /\ faults' = faults + 1 /\ failed'[k] = failed[k] + 1
        /\ failed' \in [Keys -> Nat] /\ faults' \in Nat /\ faults <= faults'
        /\ \A j \in Keys \ {k} : failed'[j] = failed[j]
        /\ v.f <= v.all => z.f <= z.all
    BY <1>3, <1>11, <1>16
  <2>2. /\ z.last = v.last /\ z.st = v.st /\ Adds(v, z) /\ lastPass' = lastPass
        /\ (z.c = v.c /\ z.p = v.p) \/ Empty(z)
        /\ \A j \in Keys \ {k} : HeldFor(b, j) = HeldFor(a, j)
    BY <1>14, <1>16
  <2>3. IsNew(al) => Empty(z)
    BY <1>2, <1>6, <1>16 DEF Forgets, Empty
  <2>4. Missed(v, z, 1)
    BY <1>1, <1>2, <2>1, <2>2 DEF Missed
  <2>5. Passed(v, z, al, c, p)
    BY <2>3, <2>4 DEF Passed
  <2>6. Goal
    BY <2>1, <2>2, <2>5
  <2>. QED BY <2>6
<1>17. ASSUME NEW x \in {1, 2}, Counted(k, x, 0), StoredAnew(a, b, k, w)
       PROVE  Goal
  <2>1. /\ faults' \in {faults + 1, faults + 2} /\ failed'[k] = failed[k]
        /\ failed' \in [Keys -> Nat] /\ faults' \in Nat /\ faults <= faults'
        /\ \A j \in Keys \ {k} : failed'[j] = failed[j]
        /\ v.f <= v.all => z.f <= z.all
    <3>1. x \in Nat /\ 0 \in Nat /\ 0 <= x
      OBVIOUS
    <3>2. /\ faults' = faults + x /\ failed'[k] = failed[k] + 0
          /\ failed' \in [Keys -> Nat] /\ faults' \in Nat /\ faults <= faults'
          /\ \A j \in Keys \ {k} : failed'[j] = failed[j]
          /\ v.f <= v.all => z.f <= z.all
      BY <1>11, <1>17, <3>1
    <3>. QED BY <1>3, <3>2
  <2>2. PICK d : /\ StartsOver(d)
                 /\ b.confirmed[k] = FirstFps(<<>>, w, d) /\ b.pending[k] = FirstItems(w, d)
                 /\ b.lastPass = <<k, Len(w)>> /\ b.sid[k] # NoSession
                 /\ RowsAdded(a, b, k, w, 0)
    BY <1>17 DEF StoredAnew
  <2>3. z.s # NoSession /\ lastPass' = <<k, Len(w)>> /\ 0 \in 0 .. Len(w)
    BY <1>2, <1>6, <1>9, <2>2
  <2>4. /\ v.st \subseteq z.st /\ (\A i \in 1 .. Len(w) : Has(z, w[i])) /\ Adds(v, z)
        /\ \A j \in Keys \ {k} : HeldFor(b, j) = HeldFor(a, j)
    BY <1>12, <2>2, <2>3
  <2>5. z.last = Len(w)
    BY <1>13, <2>3
  <2>6. TookAnew(v, z)
    BY <1>1, <1>2, <1>6, <2>1, <2>2, <2>4 DEF TookAnew
  <2>7. Passed(v, z, al, c, p)
    BY <2>6 DEF Passed
  <2>8. Goal
    BY <2>1, <2>3, <2>4, <2>5, <2>7
  <2>. QED BY <2>8
<1>18. ASSUME Counted(k, 2, 1), Unstored(a, b, k)
       PROVE  Goal
  <2>1. /\ faults' = faults + 2 /\ failed'[k] = failed[k] + 1
        /\ failed' \in [Keys -> Nat] /\ faults' \in Nat /\ faults <= faults'
        /\ \A j \in Keys \ {k} : failed'[j] = failed[j]
        /\ v.f <= v.all => z.f <= z.all
    BY <1>3, <1>11, <1>18
  <2>2. /\ z.last = v.last /\ z.st = v.st /\ Adds(v, z) /\ lastPass' = lastPass
        /\ (z.c = v.c /\ z.p = v.p) \/ Empty(z)
        /\ \A j \in Keys \ {k} : HeldFor(b, j) = HeldFor(a, j)
    BY <1>14, <1>18
  <2>3. Missed(v, z, 2)
    BY <1>1, <1>2, <2>1, <2>2 DEF Missed
  <2>4. Passed(v, z, al, c, p)
    BY <2>3 DEF Passed
  <2>5. Goal
    BY <2>1, <2>2, <2>4
  <2>. QED BY <2>5
<1> HIDE DEF Goal
<1>19. Goal
  BY <1>8, <1>15, <1>16, <1>17, <1>18 DEF Outcome, a, b
<1>. QED BY <1>8, <1>19 DEF HookViewed, Goal, v, z, al, c, p, a, b

-----------------------------------------------------------------------------
(* No session holds a message twice.                                       *)

Distinct(r) == \A i, j \in 1 .. Len(r) : i # j => r[i].srcs \cap r[j].srcs = {}
OnceIn(a, k) ==
    \A s \in 1 .. Len(a.sessions) : a.sessions[s].key = k => Distinct(RowsAt(a, s))

\* Of the entries a pass adds, none is held by the session it goes on with.
News(a, k, w, al) ==
    ~IsNew(al) /\ a.sid[k] # NoSession =>
        \A i \in al.start .. Len(w) : \A x \in w[i].srcs : x \notin HeldFor(a, k)

LEMMA NewIsBlank ==
    ASSUME NEW a, NEW s, s \notin 1 .. Len(a.sessions)
    PROVE  RowsAt(a, s) = <<>> /\ Distinct(RowsAt(a, s)) /\ \A x : ~Holds(a, s, x)
<1>1. RowsAt(a, s) = <<>>
  BY DEF RowsAt
<1>2. Len(<<>>) = 0 /\ 1 .. 0 = {}
  OBVIOUS
<1>. QED BY <1>1, <1>2 DEF Distinct, Holds

LEMMA OnceStays ==
    ASSUME NEW a, NEW z, NEW k, KeysKept(a, z, k), NEW j, OnceIn(a, j),
           RowsStay(a, z) \/ (j # k /\ \E w, l : RowsAdded(a, z, k, w, l)
                                /\ z.sid[k] \in 1 .. Len(z.sessions) /\ z.sessions[z.sid[k]].key = k)
    PROVE  OnceIn(z, j)
<1> DEFINE l == Len(a.sessions)
           g == Len(z.sessions)
<1>1. /\ l \in Nat /\ g \in {l, l + 1}
      /\ \A s \in 1 .. l : z.sessions[s].key = a.sessions[s].key
  BY DEF KeysKept
<1>2. ASSUME NEW s \in 1 .. g, z.sessions[s].key = j PROVE RowsAt(z, s) = RowsAt(a, s)
  <2>1. s \in Nat
    BY <1>1
  <2>2. CASE RowsStay(a, z)
    BY <2>1, <2>2 DEF RowsStay
  <2>3. CASE j # k /\ \E w, h : RowsAdded(a, z, k, w, h)
                        /\ z.sid[k] \in 1 .. Len(z.sessions) /\ z.sessions[z.sid[k]].key = k
    <3>1. s # z.sid[k]
      BY <1>2, <2>3
    <3>. QED BY <2>1, <2>3, <3>1 DEF RowsAdded
  <2>. QED BY <2>2, <2>3
<1>3. ASSUME NEW s \in 1 .. g, z.sessions[s].key = j PROVE Distinct(RowsAt(z, s))
  <2>1. CASE s \in 1 .. l
    <3>1. a.sessions[s].key = j
      BY <1>1, <1>3, <2>1
    <3>2. Distinct(RowsAt(a, s))
      BY <2>1, <3>1 DEF OnceIn
    <3>. QED BY <1>2, <1>3, <3>2
  <2>2. CASE s \notin 1 .. l
    <3>1. Distinct(RowsAt(a, s))
      BY <2>2, NewIsBlank
    <3>. QED BY <1>2, <1>3, <3>1
  <2>. QED BY <2>1, <2>2
<1>. QED BY <1>3 DEF OnceIn

\* Entries apart, added to rows that hold none of them.
LEMMA DistinctAdded ==
    ASSUME NEW r \in Seq(Row), Distinct(r), NEW n \in Nat, NEW e \in Nat,
           NEW w \in Seq(Entries(n, e)), Apart(w), NEW l \in 0 .. Len(w),
           \A i \in 1 .. Len(r), j \in l + 1 .. Len(w) : r[i].srcs \cap w[j].srcs = {}
    PROVE  Distinct(r \o Rows(w, l))
<1> DEFINE t == r \o Rows(w, l)
           y == Len(r)
           k == Len(w)
<1>1. /\ Len(t) = y + (k - l)
      /\ \A i \in 1 .. y : t[i] = r[i]
      /\ \A i \in 1 .. k - l : t[y + i].srcs = w[l + i].srcs
  BY RowsHold
<1>2. y \in Nat /\ k \in Nat /\ l \in Nat /\ l <= k
  OBVIOUS
<1>3. /\ \A i, j \in 1 .. y : i # j => r[i].srcs \cap r[j].srcs = {}
      /\ \A i, j \in 1 .. k : i # j => w[i].srcs \cap w[j].srcs = {}
      /\ \A i \in 1 .. y, j \in l + 1 .. k : r[i].srcs \cap w[j].srcs = {}
  BY DEF Distinct, Apart
<1> HIDE DEF t, y, k
<1>4. ASSUME NEW i \in 1 .. Len(t), ~(i <= y)
      PROVE  i - y + l \in l + 1 .. k /\ i - y + l \in 1 .. k /\ t[i].srcs = w[i - y + l].srcs
  <2>1. i - y \in 1 .. k - l /\ y + (i - y) = i /\ l + (i - y) = i - y + l
    BY <1>1, <1>2, <1>4
  <2>2. t[i].srcs = w[i - y + l].srcs
    BY <1>1, <2>1
  <2>. QED BY <1>2, <2>1, <2>2
<1>5. ASSUME NEW i \in 1 .. Len(t), i <= y PROVE i \in 1 .. y /\ t[i] = r[i]
  BY <1>1, <1>2, <1>5
<1>6. ASSUME NEW i \in 1 .. Len(t), NEW j \in 1 .. Len(t), i # j PROVE t[i].srcs \cap t[j].srcs = {}
  <2>1. CASE i <= y /\ j <= y
    BY <1>3, <1>5, <1>6, <2>1
  <2>2. CASE i <= y /\ ~(j <= y)
    BY <1>3, <1>4, <1>5, <2>2
  <2>3. CASE ~(i <= y) /\ j <= y
    <3>1. t[j].srcs \cap t[i].srcs = {}
      <4>1. t[j] = r[j] /\ j \in 1 .. y
        BY <1>5, <2>3
      <4>2. i - y + l \in l + 1 .. k /\ t[i].srcs = w[i - y + l].srcs
        BY <1>4, <2>3
      <4>. QED BY <1>3, <4>1, <4>2
    <3>. QED BY <3>1
  <2>4. CASE ~(i <= y) /\ ~(j <= y)
    <3>1. /\ i - y + l \in 1 .. k /\ t[i].srcs = w[i - y + l].srcs
          /\ j - y + l \in 1 .. k /\ t[j].srcs = w[j - y + l].srcs
      BY <1>4, <2>4
    <3>2. i - y + l # j - y + l
      BY <1>1, <1>2, <1>6
    <3>. QED BY <1>3, <3>1, <3>2
  <2>. QED BY <2>1, <2>2, <2>3, <2>4
<1>. QED BY <1>6 DEF Distinct, t

LEMMA OnceAdded ==
    ASSUME NEW B, NEW n \in Nat, NEW a, ArchOK(B, a, n), NEW z, ArchOK(B, z, n), NEW k \in Keys,
           KeysKept(a, z, k), NEW e \in Nat, NEW w \in Seq(Entries(n, e)), Apart(w),
           NEW al, al.start \in 1 .. Len(w) + 1, News(a, k, w, al), OnceIn(a, k),
           NEW c, NEW p, Stored(a, z, k, w, al, c, p)
    PROVE  OnceIn(z, k)
<1> DEFINE s0 == z.sid[k]
           g == Len(z.sessions)
           y == Len(a.sessions)
           r == RowsAt(a, s0)
           l == al.start - 1
<1>1. /\ y \in Nat /\ g \in {y, y + 1}
      /\ \A s \in 1 .. y : z.sessions[s].key = a.sessions[s].key
  BY DEF KeysKept
<1>2. s0 = SessionAfter(a, k, al) /\ RowsAdded(a, z, k, w, l)
  BY DEF Stored
<1>3. r \in Seq(Row)
  <2>1. CASE s0 \in 1 .. y
    <3>1. a.sessions[s0] \in Session
      BY <2>1, ArchDef
    <3>. QED BY <2>1, <3>1 DEF RowsAt, Session
  <2>2. CASE s0 \notin 1 .. y
    BY <2>2 DEF RowsAt
  <2>. QED BY <2>1, <2>2
<1>4. l \in 0 .. Len(w) /\ l + 1 = al.start /\ Len(w) \in Nat
  OBVIOUS
<1>5. /\ RowsAt(z, s0) = r \o Rows(w, l)
      /\ \A s \in Nat : s # s0 => RowsAt(z, s) = RowsAt(a, s)
  BY <1>2 DEF RowsAdded
<1>6. Distinct(r) /\ \A i \in 1 .. Len(r), j \in al.start .. Len(w) : r[i].srcs \cap w[j].srcs = {}
  <2>1. CASE s0 \notin 1 .. y
    <3>1. r = <<>> /\ Distinct(r)
      BY <2>1, NewIsBlank
    <3>2. Len(<<>>) = 0 /\ 1 .. 0 = {}
      OBVIOUS
    <3>. QED BY <3>1, <3>2
  <2>2. CASE s0 \in 1 .. y
    <3>1. ~IsNew(al) /\ a.sid[k] # NoSession /\ s0 = a.sid[k]
      BY <1>1, <1>2, <2>2 DEF SessionAfter
    <3>2. a.sessions[s0].key = k
      <4>1. KeyOK(a, k)
        BY ArchParts
      <4>. QED BY <3>1, <4>1 DEF KeyOK
    <3>3. Distinct(r)
      BY <2>2, <3>2 DEF OnceIn
    <3>4. ASSUME NEW i \in 1 .. Len(r), NEW j \in al.start .. Len(w), NEW x \in r[i].srcs, x \in w[j].srcs
          PROVE  FALSE
      <4>1. Holds(a, s0, x)
        BY <3>4 DEF Holds
      <4>2. x \in [id : Nat, era : Nat]
        <5>1. r[i] \in Row
          BY <1>3
        <5>. QED BY <3>4, <5>1 DEF Row
      <4>3. x \in HeldFor(a, k)
        BY <2>2, <3>2, <4>1, <4>2 DEF HeldFor
      <4>. QED BY <3>1, <3>4, <4>3 DEF News
    <3>. QED BY <3>3, <3>4
  <2>. QED BY <2>1, <2>2
<1> HIDE DEF s0, g, y, r, l
<1>7. Distinct(RowsAt(z, s0))
  <2>1. Distinct(r \o Rows(w, l))
    BY <1>3, <1>4, <1>6, DistinctAdded
  <2>. QED BY <1>5, <2>1
<1>8. ASSUME NEW s \in 1 .. g, z.sessions[s].key = k PROVE Distinct(RowsAt(z, s))
  <2>1. CASE s = s0
    BY <1>7, <2>1
  <2>2. CASE s # s0 /\ s \in 1 .. y
    <3>1. a.sessions[s].key = k /\ s \in Nat
      BY <1>1, <1>8, <2>2
    <3>2. Distinct(RowsAt(a, s))
      BY <2>2, <3>1 DEF OnceIn, y
    <3>. QED BY <1>5, <2>2, <3>1, <3>2
  <2>3. CASE s # s0 /\ s \notin 1 .. y
    <3>1. Distinct(RowsAt(a, s)) /\ s \in Nat
      BY <1>1, <2>3, NewIsBlank DEF y
    <3>. QED BY <1>5, <2>3, <3>1
  <2>. QED BY <2>1, <2>2, <2>3
<1>. QED BY <1>8 DEF OnceIn, g

\* What a hook call of k without a fault leaves in the sessions.
HookedOnce(k, w, midTurn) ==
    LET al == Align(confirmed[k], pending[k], w, midTurn)
    IN  /\ faults = 0 /\ sid'[k] # NoSession
        /\ OnceIn(Memory, k) /\ Apart(w) /\ News(Memory, k, w, al) => OnceIn(Memory', k)
        /\ \A j \in Keys \ {k} : OnceIn(Memory, j) => OnceIn(Memory', j)

LEMMA HookOnce ==
    ASSUME Inv, Inv', Counts, NEW k \in Keys, made' \in Nat, made <= made', NEW B, B = Blurred',
           Blurred \subseteq B,
           incarnation' = incarnation, NEW w, window'[k] = w, w # <<>>, NEW midTurn \in BOOLEAN,
           NEW f, NEW g, HookCall(k, w, midTurn, f, g), NEW idle, NEW how,
           Moves(Memory, Memory', k, idle, how),
           \/ Fits(B, Memory, k, incarnation[k])
           \/ Align(confirmed[k], pending[k], w, midTurn).isNew,
           faults' = 0
    PROVE  HookedOnce(k, w, midTurn)
<1> DEFINE e == incarnation[k]
           n == made'
           a == Memory
           b == Memory'
           al == Align(confirmed[k], pending[k], w, midTurn)
           c == NewConfirmed(Base(al, confirmed[k]), w, al, midTurn)
           p == NewPending(w, al, midTurn)
<1>1. /\ made \in Nat /\ n \in Nat /\ e \in Nat /\ faults \in Nat
  BY DEF Inv, Tables, Counts
<1>2. ArchOK(B, a, n) /\ ArchOK(B, b, n)
  <2>1. ArchOK(Blurred, a, made) /\ ArchOK(B, b, n)
    BY DEF Inv
  <2>. QED BY <1>1, <2>1, ArchGrow
<1>3. w \in Seq(Entries(n, e))
  <2>1. Chats(k)'
    BY DEF Inv
  <2>. QED BY <2>1 DEF Chats, Chat
<1>4. a.confirmed = confirmed /\ a.pending = pending /\ a.sid = sid /\ b.sid = sid'
  BY DEF Memory
<1>5. KeysKept(a, b, k)
  BY <1>1, <1>2, MovesKeep
<1>6. Outcome(k, w, al, c, p)
  BY <1>1, <1>2, <1>3, HookIs
<1>7. al.start \in 1 .. Len(w) + 1
  <2> DEFINE x == confirmed[k]
             y == pending[k]
  <2>1. x \in Seq(Fp(n)) /\ y \in Seq(Item(n))
    <3>1. a.confirmed \in [Keys -> Seq(Fp(n))] /\ a.pending \in [Keys -> Seq(Item(n))]
      BY ONLY <1>1, <1>2, ArchDef
    <3>. QED BY <1>4, <3>1
  <2>2. n \in Nat /\ w \in Seq(Entries(n, e)) /\ midTurn \in BOOLEAN
    BY <1>1, <1>3
  <2> HIDE DEF x, y, n, e
  <2>3. Align(x, y, w, midTurn).start \in 1 .. Len(w) + 1
    BY ONLY <2>1, <2>2, AlignTyped
  <2>. QED BY <2>2, <2>3 DEF x, y
<1>8. Len(a.sessions) \in Nat /\ sid[k] \in Nat
  <2>1. Len(a.sessions) \in Nat /\ a.sid \in [Keys -> Nat]
    BY ONLY <1>1, <1>2, ArchDef
  <2>. QED BY <1>4, <2>1
<1> HIDE DEF a, b, al, c, p, e, n
<1>9. faults = 0 /\ Stored(a, b, k, w, al, c, p)
  <2>1. Counted(k, 0, 0) => faults' = faults + 0
    BY DEF Counted
  <2>2. \A y : ~Counted(k, 1, y) /\ ~Counted(k, 2, y)
    BY <1>1 DEF Counted
  <2>. QED BY <1>1, <1>6, <2>1, <2>2 DEF Outcome, a, b
<1>10. sid'[k] # NoSession
  <2>1. sid'[k] = SessionAfter(a, k, al)
    BY <1>4, <1>9 DEF Stored
  <2>. QED BY <1>4, <1>8, <2>1 DEF SessionAfter, NoSession
<1>11. ASSUME OnceIn(a, k), Apart(w), News(a, k, w, al) PROVE OnceIn(b, k)
  BY <1>1, <1>2, <1>3, <1>5, <1>7, <1>9, <1>11, OnceAdded
<1>12. ASSUME NEW j \in Keys \ {k}, OnceIn(a, j) PROVE OnceIn(b, j)
  <2>1. RowsAdded(a, b, k, w, al.start - 1)
    BY <1>9 DEF Stored
  <2>2. b.sid[k] \in 1 .. Len(b.sessions) /\ b.sessions[b.sid[k]].key = k
    <3>1. KeyOK(b, k)
      BY <1>2, ArchParts
    <3>. QED BY <1>4, <1>10, <3>1 DEF KeyOK
  <2>. QED BY <1>5, <1>12, <2>1, <2>2, OnceStays
<1>. QED BY <1>9, <1>10, <1>11, <1>12 DEF HookedOnce, a, b, al

\* What is added to a session last is not in it.
LEMMA LastIsNew ==
    ASSUME NEW v, Typed(v), Numbered(v), NEW z, Typed(z), NEW start, AddsLast(v, z, start)
    PROVE  \A i \in start .. Len(z.w) : \A x \in z.w[i].srcs : x \notin v.st
<1> DEFINE n == v.n
           k == Len(z.w)
<1>1. k \in Nat /\ n \in Nat
  BY DEF Typed, Chat
<1>2. /\ start \in {k, k + 1}
      /\ start = k => z.n = n + 1 /\ \A x \in z.w[k].srcs : x.id = z.n
  BY DEF AddsLast
<1>3. \A x \in v.st : x.id <= n
  BY DEF Numbered
<1> HIDE DEF n, k
<1>4. ASSUME NEW i \in start .. k, NEW x \in z.w[i].srcs, x \in v.st PROVE FALSE
  <2>1. start = k /\ i = k
    BY <1>1, <1>2
  <2>2. x.id = n + 1 /\ x.id <= n
    BY <1>2, <1>3, <1>4, <2>1
  <2>. QED BY <1>1, <2>2
<1>. QED BY <1>4 DEF k

-----------------------------------------------------------------------------
(* The inductive invariant.                                                *)

Good(v) == Typed(v) /\ Led(v) /\ Whole(v) /\ Numbered(v) /\ Clean(v)
Once(k) == faults = 0 /\ irregular[k] = FALSE => OnceIn(Memory, k)
Sound(k) == k \notin Blurred => Good(View(k)) /\ Once(k)
Contents == Inv /\ Counts /\ \A k \in Keys : Sound(k)

LEMMA AsideTyped ==
    ASSUME Inv', Counts', NEW j \in Keys, Typed(View(j)), Aside(View(j), View(j)')
    PROVE  Typed(View(j)')
<1> DEFINE v == View(j)
           z == View(j)'
           x == v.all
           f == v.f
           l == v.last
           y == z.all
<1>1. /\ x \in Nat /\ f \in Nat /\ f <= x /\ l \in Nat /\ l <= Len(v.w) /\ Len(v.w) \in Nat
  BY DEF Typed, Chat
<1>2. x <= y /\ z.f = f /\ z.w = v.w /\ z.last \in {l, 0}
  BY DEF Aside
<1>3. y \in Nat
  BY ViewIs DEF Counts, View, ViewOf
<1> HIDE DEF v, z, x, f, l, y
<1>4. z.f <= y /\ z.last <= Len(z.w)
  BY <1>1, <1>2, <1>3
<1>5. Bounded(View(j)')
  BY <1>4 DEF Bounded, z, y
<1>6. Typed(View(j)')
  BY <1>5, ViewTyped
<1>. QED BY <1>6 DEF z

\* A step of conversation k keeps the invariant if it does so for k.
LEMMA OneSteps ==
    ASSUME Contents, Inv', Counts', NEW k \in Keys, Sound(k)', faults <= faults',
           Blurred \subseteq Blurred',
           \A j \in Keys \ {k} :
             /\ Aside(View(j), View(j)') /\ irregular'[j] = irregular[j]
             /\ faults' = 0 /\ OnceIn(Memory, j) => OnceIn(Memory', j)
    PROVE  Contents'
<1>1. faults \in Nat /\ faults' \in Nat
  BY DEF Contents, Counts
<1>2. ASSUME NEW j \in Keys \ {k}, j \notin Blurred' PROVE Good(View(j)') /\ Once(j)'
  <2>1. Good(View(j)) /\ Once(j)
    BY <1>2 DEF Contents, Sound
  <2>2. Aside(View(j), View(j)')
    OBVIOUS
  <2>3. Typed(View(j)')
    BY <2>1, <2>2, AsideTyped DEF Good
  <2> DEFINE v == View(j)
             z == View(j)'
  <2>4. Typed(v) /\ Led(v) /\ Whole(v) /\ Numbered(v) /\ Clean(v) /\ Typed(z) /\ Aside(v, z)
    BY <2>1, <2>2, <2>3 DEF Good
  <2> HIDE DEF v, z
  <2>5. Good(z)
    BY <2>4, AsideKeeps DEF Good
  <2>6. ASSUME faults' = 0, irregular'[j] = FALSE PROVE OnceIn(Memory', j)
    <3>1. faults = 0 /\ irregular[j] = FALSE
      BY <1>1, <2>6
    <3>. QED BY <2>1, <2>6, <3>1 DEF Once
  <2>. QED BY <2>5, <2>6 DEF Once, z
<1>3. \A j \in Keys : Sound(j)'
  BY <1>2 DEF Sound
<1>. QED BY <1>3 DEF Contents

\* The archiver does nothing in a step: what it holds stays.
LEMMA QuietHolds ==
    ASSUME sessions' = sessions
    PROVE  \A j : /\ HeldFor(Memory', j) = HeldFor(Memory, j)
                  /\ OnceIn(Memory, j) => OnceIn(Memory', j)
<1> DEFINE a == Memory
           b == Memory'
<1>1. a.sessions = b.sessions
  BY DEF Memory
<1> HIDE DEF a, b
<1>2. \A s : RowsAt(b, s) = RowsAt(a, s)
  BY <1>1 DEF RowsAt
<1>3. \A s, x : Holds(b, s, x) <=> Holds(a, s, x)
  BY <1>2 DEF Holds
<1>4. \A j : HeldFor(b, j) = HeldFor(a, j)
  BY <1>1, <1>3 DEF HeldFor
<1>5. \A j : OnceIn(a, j) => OnceIn(b, j)
  BY <1>1, <1>2 DEF OnceIn
<1>. QED BY <1>4, <1>5 DEF a, b

\* A step of conversation k that archives nothing.
LEMMA QuietContents ==
    ASSUME Contents, Inv', Counts', NEW k \in Keys,
           UNCHANGED <<confirmed, pending, sid, sessions, blurred>>,
           lastPass' = lastPass \/ lastPass' = <<>>, failed' = failed,
           faults' = faults \/ faults' = faults + 1, made' = made \/ made' = made + 1,
           \A j \in Keys \ {k} :
             /\ history'[j] = history[j] /\ appended'[j] = appended[j] /\ window'[j] = window[j]
             /\ incarnation'[j] = incarnation[j] /\ irregular'[j] = irregular[j],
           irregular'[k] = FALSE => irregular[k] = FALSE,
           k \notin Blurred => Good(View(k)')
    PROVE  Contents'
<1>1. Inv /\ Counts /\ faults \in Nat /\ made \in Nat /\ made' \in Nat /\ faults' \in Nat
  BY DEF Contents, Counts, Inv, Tables
<1>2. faults <= faults' /\ made <= made'
  BY <1>1
<1>3. \A j : /\ HeldFor(Memory', j) = HeldFor(Memory, j)
             /\ OnceIn(Memory, j) => OnceIn(Memory', j)
  BY QuietHolds
<1>4. Others(Memory, Memory', k)
  BY DEF Others, Same, Memory
<1>5. ASSUME NEW j \in Keys \ {k} PROVE Aside(View(j), View(j)')
  <2>1. /\ history'[j] = history[j] /\ appended'[j] = appended[j] /\ window'[j] = window[j]
        /\ incarnation'[j] = incarnation[j] /\ irregular'[j] = irregular[j] /\ failed'[j] = failed[j]
    OBVIOUS
  <2>. QED BY <1>1, <1>2, <1>3, <1>4, <2>1, OthersAside
<1>6. ASSUME k \notin Blurred PROVE Once(k)'
  <2>1. ASSUME faults' = 0, irregular'[k] = FALSE PROVE OnceIn(Memory', k)
    <3>1. faults = 0 /\ irregular[k] = FALSE
      BY <1>1, <2>1
    <3>2. Once(k)
      BY <1>6 DEF Contents, Sound
    <3>. QED BY <1>3, <3>1, <3>2 DEF Once
  <2>. QED BY <2>1 DEF Once
<1>7. Blurred' = Blurred
  BY DEF Blurred
<1>8. Sound(k)'
  BY <1>6, <1>7 DEF Sound
<1>. QED BY <1>2, <1>3, <1>5, <1>7, <1>8, OneSteps

\* The fields of a view after a step.
LEMMA ViewNext ==
    ASSUME NEW k
    PROVE  LET z == View(k)'
           IN  /\ z.c = confirmed'[k] /\ z.p = pending'[k] /\ z.s = sid'[k] /\ z.h = history'[k]
               /\ z.a = appended'[k] /\ z.w = window'[k] /\ z.f = failed'[k] /\ z.all = faults'
               /\ z.irr = irregular'[k] /\ z.n = made' /\ z.e = incarnation'[k]
               /\ z.last = LastOf(Memory', k) /\ z.st = HeldFor(Memory', k)
BY DEF View, ViewOf, Memory

LEMMA TurnOver ==
    ASSUME Contents, Inv', NEW k \in Keys, window[k] # <<>>, ReleaseWindow(k),
           UNCHANGED <<order, confirmed, pending, sid, sessions, incarnation, irregular, blurred,
                       failed, made>>,
           NEW b \in Seq(Messages(made, incarnation[k])), Keeps(appended[k], b),
           history' = [history EXCEPT ![k] = history[k] \o b],
           window' = [window EXCEPT ![k] = <<>>], appended' = [appended EXCEPT ![k] = <<>>],
           \/ /\ faults' = faults /\ b = appended[k] /\ appended[k] # <<>>
              /\ appended[k][Len(appended[k])].role # "user"
           \/ faults' = faults + 1
    PROVE  Contents'
<1> DEFINE v == View(k)
           z == View(k)'
<1>1. Inv /\ Counts /\ Tables /\ faults \in Nat
  BY DEF Contents, Inv, Counts
<1>2. Counts'
  BY <1>1 DEF Counts
<1>3. /\ v.c = confirmed[k] /\ v.p = pending[k] /\ v.s = sid[k] /\ v.h = history[k]
      /\ v.a = appended[k] /\ v.w = window[k] /\ v.f = failed[k] /\ v.all = faults
      /\ v.irr = irregular[k] /\ v.n = made /\ v.e = incarnation[k]
      /\ v.last = LastOf(Memory, k) /\ v.st = HeldFor(Memory, k)
  BY ViewIs
<1>4. /\ z.c = confirmed'[k] /\ z.p = pending'[k] /\ z.s = sid'[k] /\ z.h = history'[k]
      /\ z.a = appended'[k] /\ z.w = window'[k] /\ z.f = failed'[k] /\ z.all = faults'
      /\ z.irr = irregular'[k] /\ z.n = made' /\ z.e = incarnation'[k]
      /\ z.last = LastOf(Memory', k) /\ z.st = HeldFor(Memory', k)
  BY ViewNext
<1> HIDE DEF v, z
<1>5. HeldFor(Memory', k) = HeldFor(Memory, k)
  BY QuietHolds
<1>6. history'[k] = history[k] \o b /\ window'[k] = <<>> /\ appended'[k] = <<>>
  BY <1>1 DEF Tables
<1>7. LastOf(Memory', k) = 0
  <2>1. (Memory').lastPass = lastPass'
    BY DEF Memory
  <2>. QED BY <2>1 DEF LastOf, ReleaseWindow
<1>8. Over(v, z, b)
  BY <1>3, <1>4, <1>5, <1>6, <1>7 DEF Over
<1>9. ASSUME k \notin Blurred PROVE Good(View(k)')
  <2>1. Typed(v) /\ Led(v) /\ Whole(v) /\ Numbered(v) /\ Clean(v)
    BY <1>9 DEF Contents, Sound, Good, v
  <2>2. Led(z) /\ Whole(z) /\ Numbered(z)
    BY <1>8, <2>1, OverKeeps
  <2>3. Clean(z)
    BY <1>8, <2>1, OverClean
  <2>4. Typed(z)
    <3>1. faults <= faults' /\ failed[k] <= faults
      BY <1>1, <1>3, <2>1 DEF Typed
    <3>2. failed[k] \in Nat /\ faults \in Nat /\ faults' \in Nat /\ failed'[k] = failed[k]
      BY <1>1, <1>2 DEF Counts
    <3>3. failed[k] <= faults'
      BY <3>1, <3>2
    <3>4. z.f <= z.all /\ z.last <= Len(z.w)
      BY <1>4, <1>6, <1>7, <3>2, <3>3
    <3>5. Bounded(View(k)')
      BY <3>4 DEF Bounded, z
    <3>. QED BY <1>2, <3>5, ViewTyped DEF z
  <2>. QED BY <2>2, <2>3, <2>4 DEF Good, z
<1>14. lastPass' = lastPass \/ lastPass' = <<>>
  BY DEF ReleaseWindow
<1>15. \A j \in Keys \ {k} :
         /\ history'[j] = history[j] /\ appended'[j] = appended[j] /\ window'[j] = window[j]
         /\ incarnation'[j] = incarnation[j] /\ irregular'[j] = irregular[j]
  BY <1>1 DEF Tables
<1>. QED BY <1>2, <1>9, <1>14, <1>15, QuietContents

LEMMA EndTurnContents ==
    ASSUME Contents, NEW k \in Keys, EndTurn(k) \/ InterruptTurn(k) \/ EndTurnDropping(k)
    PROVE  Contents'
<1> DEFINE T == Messages(made, incarnation[k])
<1>1. history[k] \in Seq(T) /\ appended[k] \in Seq(T)
  BY DEF Contents, Inv, Chats, Chat
<1>2. Inv'
  BY EndTurnKeeps DEF Contents
<1> HIDE DEF T
<1>3. CASE EndTurn(k)
  <2>1. Keeps(appended[k], appended[k])
    BY <1>1, KeepsIs
  <2>2. /\ window[k] # <<>> /\ ReleaseWindow(k) /\ faults' = faults /\ appended[k] # <<>>
        /\ appended[k][Len(appended[k])].role # "user"
        /\ UNCHANGED <<order, confirmed, pending, sid, sessions, incarnation, irregular, blurred,
                       failed, made>>
        /\ window' = [window EXCEPT ![k] = <<>>] /\ appended' = [appended EXCEPT ![k] = <<>>]
        /\ history' = [history EXCEPT ![k] = history[k] \o appended[k]]
    BY <1>3 DEF EndTurn, Last
  <2>. QED BY <1>1, <1>2, <2>1, <2>2, TurnOver DEF T
<1>4. CASE InterruptTurn(k)
  <2>1. Keeps(appended[k], <<>>) /\ <<>> \in Seq(T)
    BY <1>1, KeepsIs
  <2>2. history[k] \o <<>> = history[k]
    BY <1>1
  <2>3. history = [history EXCEPT ![k] = history[k]]
    BY DEF Contents, Inv, Tables
  <2>4. history' = [history EXCEPT ![k] = history[k] \o <<>>]
    BY <1>4, <2>2, <2>3 DEF InterruptTurn
  <2>5. /\ window[k] # <<>> /\ ReleaseWindow(k) /\ faults' = faults + 1
        /\ UNCHANGED <<order, confirmed, pending, sid, sessions, incarnation, irregular, blurred,
                       failed, made>>
        /\ window' = [window EXCEPT ![k] = <<>>] /\ appended' = [appended EXCEPT ![k] = <<>>]
    BY <1>4 DEF InterruptTurn
  <2>. QED BY <1>1, <1>2, <2>1, <2>4, <2>5, TurnOver DEF T
<1>5. CASE EndTurnDropping(k)
  <2>1. PICK i \in DOMAIN appended[k] :
            history' = [history EXCEPT ![k] = history[k] \o RemoveAt(appended[k], i)]
    BY <1>5 DEF EndTurnDropping
  <2>2. RemoveAt(appended[k], i) \in Seq(T)
    BY <1>1, DroppedTyped
  <2>3. Keeps(appended[k], RemoveAt(appended[k], i))
    BY <1>1, KeepsIs
  <2>4. /\ window[k] # <<>> /\ ReleaseWindow(k) /\ faults' = faults + 1
        /\ UNCHANGED <<order, confirmed, pending, sid, sessions, incarnation, irregular, blurred,
                       failed, made>>
        /\ window' = [window EXCEPT ![k] = <<>>] /\ appended' = [appended EXCEPT ![k] = <<>>]
    BY <1>5 DEF EndTurnDropping
  <2> DEFINE b == RemoveAt(appended[k], i)
  <2>5. b \in Seq(T) /\ Keeps(appended[k], b) /\ history' = [history EXCEPT ![k] = history[k] \o b]
    BY <2>1, <2>2, <2>3
  <2> HIDE DEF b
  <2>. QED BY <1>2, <2>4, <2>5, TurnOver DEF T
<1>. QED BY <1>3, <1>4, <1>5

LEMMA UpheavalContents ==
    ASSUME Contents, NEW k \in Keys, NewCommand(k) \/ Compact(k)
    PROVE  Contents'
<1> DEFINE v == View(k)
           z == View(k)'
<1>1. Inv /\ Counts /\ Tables /\ made \in Nat /\ Inv'
  BY UpheavalKeeps DEF Contents, Inv, Tables
<1>2. /\ UNCHANGED <<order, confirmed, pending, sid, lastPass, sessions, window, appended, failed,
                     faults, blurred>>
      /\ window[k] = <<>>
      /\ \/ /\ history' = [history EXCEPT ![k] = <<>>] /\ made' = made /\ irregular' = irregular
            /\ incarnation' = [incarnation EXCEPT ![k] = incarnation[k] + 1]
         \/ /\ history' = [history EXCEPT ![k] = <<User(k, made + 1)>>] /\ made' = made + 1
            /\ irregular' = [irregular EXCEPT ![k] = TRUE] /\ incarnation' = incarnation
  BY DEF NewCommand, Compact, archiver
<1>3. Counts'
  BY <1>1, <1>2 DEF Counts
<1>4. /\ v.c = confirmed[k] /\ v.p = pending[k] /\ v.s = sid[k] /\ v.h = history[k]
      /\ v.a = appended[k] /\ v.w = window[k] /\ v.f = failed[k] /\ v.all = faults
      /\ v.irr = irregular[k] /\ v.n = made /\ v.e = incarnation[k]
      /\ v.last = LastOf(Memory, k) /\ v.st = HeldFor(Memory, k)
  BY ViewIs
<1>5. /\ z.c = confirmed'[k] /\ z.p = pending'[k] /\ z.s = sid'[k] /\ z.h = history'[k]
      /\ z.a = appended'[k] /\ z.w = window'[k] /\ z.f = failed'[k] /\ z.all = faults'
      /\ z.irr = irregular'[k] /\ z.n = made' /\ z.e = incarnation'[k]
      /\ z.last = LastOf(Memory', k) /\ z.st = HeldFor(Memory', k)
  BY ViewNext
<1>6. HeldFor(Memory', k) = HeldFor(Memory, k) /\ LastOf(Memory', k) = LastOf(Memory, k)
  BY <1>2, QuietHolds DEF LastOf, Memory
<1>7. \/ history'[k] = <<>> /\ made' = made
      \/ /\ irregular'[k] = TRUE /\ made' = made + 1
         /\ \E m : history'[k] = <<m>> /\ m.role = "user" /\ m.id = made + 1
  <2>1. User(k, made + 1).role = "user" /\ User(k, made + 1).id = made + 1
    BY DEF User, Message
  <2>2. irregular \in [Keys -> BOOLEAN]
    BY <1>1 DEF Counts
  <2>. QED BY <1>1, <1>2, <2>1, <2>2 DEF Tables
<1> HIDE DEF v, z
<1>8. Replaced(v, z)
  BY <1>2, <1>4, <1>5, <1>6, <1>7 DEF Replaced
<1>9. ASSUME k \notin Blurred PROVE Good(View(k)')
  <2>1. Typed(v) /\ Led(v) /\ Whole(v) /\ Numbered(v)
    BY <1>9 DEF Contents, Sound, Good, v
  <2>2. Typed(z)
    <3>1. v.f <= v.all /\ v.last <= Len(v.w)
      BY <2>1 DEF Typed
    <3>2. z.f <= z.all /\ z.last <= Len(z.w)
      BY <1>2, <1>4, <1>5, <1>6, <3>1
    <3>3. Bounded(View(k)')
      BY <3>2 DEF Bounded, z
    <3>. QED BY <1>1, <1>3, <3>3, ViewTyped DEF z
  <2>3. Led(z) /\ Whole(z) /\ Numbered(z) /\ Clean(z)
    BY <1>8, <2>1, <2>2, ReplacedKeeps
  <2>. QED BY <2>2, <2>3 DEF Good, z
<1>13. \A j \in Keys \ {k} :
         /\ history'[j] = history[j] /\ appended'[j] = appended[j] /\ window'[j] = window[j]
         /\ incarnation'[j] = incarnation[j] /\ irregular'[j] = irregular[j]
  <2>1. irregular \in [Keys -> BOOLEAN] /\ DOMAIN history = Keys /\ DOMAIN incarnation = Keys
    BY <1>1 DEF Counts, Tables
  <2>2. DOMAIN irregular = Keys
    BY <2>1
  <2>3. \A j \in Keys \ {k} : history'[j] = history[j]
    BY <1>2, <2>1
  <2>4. \A j \in Keys \ {k} : incarnation'[j] = incarnation[j]
    BY <1>2, <2>1
  <2>5. \A j \in Keys \ {k} : irregular'[j] = irregular[j]
    BY <1>2, <2>2
  <2>. QED BY <1>2, <2>3, <2>4, <2>5
<1>14. irregular'[k] = FALSE => irregular[k] = FALSE
  BY <1>1, <1>2 DEF Counts
<1>. QED BY <1>1, <1>2, <1>3, <1>9, <1>13, <1>14, QuietContents

LEMMA RestartContents ==
    ASSUME Contents, Restart
    PROVE  Contents'
<1>1. Inv /\ Counts /\ Inv' /\ faults \in Nat /\ faults' = faults + 1
  BY RestartKeeps DEF Contents, Counts, Restart
<1>2. Counts'
  BY <1>1 DEF Counts, Restart
<1>3. ASSUME NEW k \in Keys, k \notin Blurred PROVE Good(View(k)') /\ Once(k)'
  <2> DEFINE v == View(k)
             z == View(k)'
  <2>1. Good(v)
    BY <1>3 DEF Contents, Sound
  <2>2. /\ v.c = confirmed[k] /\ v.p = pending[k] /\ v.s = sid[k] /\ v.h = history[k]
        /\ v.a = appended[k] /\ v.w = window[k] /\ v.f = failed[k] /\ v.all = faults
        /\ v.irr = irregular[k] /\ v.n = made /\ v.e = incarnation[k]
        /\ v.last = LastOf(Memory, k) /\ v.st = HeldFor(Memory, k)
    BY ViewIs
  <2>3. /\ z.c = confirmed'[k] /\ z.p = pending'[k] /\ z.s = sid'[k] /\ z.h = history'[k]
        /\ z.a = appended'[k] /\ z.w = window'[k] /\ z.f = failed'[k] /\ z.all = faults'
        /\ z.irr = irregular'[k] /\ z.n = made' /\ z.e = incarnation'[k]
        /\ z.last = LastOf(Memory', k) /\ z.st = HeldFor(Memory', k)
    BY ViewNext
  <2>4. HeldFor(Memory', k) = HeldFor(Memory, k)
    BY QuietHolds DEF Restart
  <2>5. LastOf(Memory', k) = 0
    BY DEF LastOf, Memory, Restart
  <2> HIDE DEF v, z
  <2>6. Restarted(v, z)
    BY <2>2, <2>3, <2>4, <2>5 DEF Restarted, Restart, Empty
  <2>7. Typed(v) /\ Led(v) /\ Whole(v) /\ Numbered(v)
    BY <2>1 DEF Good
  <2>8. Led(z) /\ Whole(z) /\ Numbered(z) /\ Clean(z)
    BY <2>6, <2>7, RestartedKeeps
  <2>9. Typed(z)
    <3>1. failed[k] <= faults /\ failed[k] \in Nat /\ failed'[k] = failed[k]
      BY <1>1, <2>2, <2>7 DEF Typed, Counts, Restart
    <3>2. failed[k] <= faults'
      BY <1>1, <3>1
    <3>3. z.w = <<>>
      BY <2>6 DEF Restarted
    <3>4. z.f <= z.all /\ z.last <= Len(z.w)
      BY <2>3, <2>5, <3>1, <3>2, <3>3
    <3>5. Bounded(View(k)')
      BY <3>4 DEF Bounded, z
    <3>. QED BY <1>1, <1>2, <3>5, ViewTyped DEF z
  <2>10. faults' # 0
    BY <1>1
  <2>. QED BY <2>8, <2>9, <2>10 DEF Good, Once, z
<1>4. Blurred' = Blurred
  BY DEF Blurred, Restart
<1>. QED BY <1>1, <1>2, <1>3, <1>4 DEF Contents, Sound

\* A pass of k: what a step of its view asks for.
Asks(k, midTurn) ==
    LET v == View(k)
        z == View(k)'
        al == Align(v.c, v.p, z.w, midTurn)
    IN  /\ Passed(v, z, al, NewConfirmed(Base(al, v.c), z.w, al, midTurn), NewPending(z.w, al, midTurn))
        /\ Adds(v, z) /\ Typed(v) /\ Typed(z)
        /\ faults' = 0 => /\ faults = 0 /\ z.s # NoSession
                          /\ OnceIn(Memory, k) /\ Apart(z.w) /\ News(Memory, k, z.w, al)
                             => OnceIn(Memory', k)

LEMMA PassContents ==
    ASSUME Contents, Inv', NEW k \in Keys, made' \in Nat, made <= made', NEW B, B = Blurred',
           Blurred \subseteq B,
           incarnation' = incarnation, NEW w, window' = [window EXCEPT ![k] = w], w # <<>>,
           NEW h, history' = [history EXCEPT ![k] = h], NEW a, appended' = [appended EXCEPT ![k] = a],
           NEW i \in BOOLEAN, irregular' = [irregular EXCEPT ![k] = i],
           window[k] = <<>> \/ Len(window[k]) <= Len(w), NEW midTurn \in BOOLEAN,
           NEW f, NEW g, HookCall(k, w, midTurn, f, g), NEW idle, NEW how,
           Moves(Memory, Memory', k, idle, how),
           \/ Fits(B, Memory, k, incarnation[k])
           \/ Align(confirmed[k], pending[k], w, midTurn).isNew
    PROVE  /\ k \notin B => Asks(k, midTurn)
           /\ (k \notin B => Good(View(k)') /\ Once(k)') => Contents'
<1> DEFINE v == View(k)
           z == View(k)'
           al == Align(confirmed[k], pending[k], w, midTurn)
<1>1. Inv /\ Counts /\ Tables
  BY DEF Contents, Inv
<1>2. /\ window'[k] = w /\ history'[k] = h /\ appended'[k] = a
      /\ \A j \in Keys \ {k} :
           /\ history'[j] = history[j] /\ appended'[j] = appended[j] /\ window'[j] = window[j]
           /\ incarnation'[j] = incarnation[j]
  BY <1>1 DEF Tables
<1>3. irregular' \in [Keys -> BOOLEAN] /\ \A j \in Keys \ {k} : irregular'[j] = irregular[j]
  BY <1>1 DEF Counts
<1>4. /\ v.c = confirmed[k] /\ v.p = pending[k] /\ v.s = sid[k] /\ v.h = history[k]
      /\ v.a = appended[k] /\ v.w = window[k] /\ v.f = failed[k] /\ v.all = faults
      /\ v.irr = irregular[k] /\ v.n = made /\ v.e = incarnation[k]
      /\ v.last = LastOf(Memory, k) /\ v.st = HeldFor(Memory, k)
  BY ViewIs
<1>5. /\ z.c = confirmed'[k] /\ z.p = pending'[k] /\ z.s = sid'[k] /\ z.h = history'[k]
      /\ z.a = appended'[k] /\ z.w = window'[k] /\ z.f = failed'[k] /\ z.all = faults'
      /\ z.irr = irregular'[k] /\ z.n = made' /\ z.e = incarnation'[k]
      /\ z.last = LastOf(Memory', k) /\ z.st = HeldFor(Memory', k)
  BY ViewNext
<1>6. /\ Passed(v, z, al, NewConfirmed(Base(al, confirmed[k]), w, al, midTurn),
                NewPending(w, al, midTurn))
      /\ Adds(v, z) /\ z.last \in {v.last, Len(w)} /\ (v.f <= v.all => z.f <= z.all)
      /\ failed' \in [Keys -> Nat] /\ faults' \in Nat /\ faults <= faults'
      /\ Others(Memory, Memory', k)
      /\ \A j \in Keys \ {k} :
           HeldFor(Memory', j) = HeldFor(Memory, j) /\ failed'[j] = failed[j]
      /\ lastPass' = lastPass \/ lastPass' = <<k, Len(w)>>
  <2>1. HookViewed(k, w, midTurn)
    BY <1>1, <1>2, HookView
  <2>. QED BY ONLY <2>1 DEF HookViewed, v, z, al
<1> HIDE DEF v, z, al
<1>7. Counts'
  BY <1>3, <1>6 DEF Counts
<1>8. ASSUME k \notin B PROVE Typed(v)
  BY <1>8 DEF Contents, Sound, Good, v
<1>9. ASSUME k \notin B PROVE Typed(z)
  <2>0. Typed(v)
    BY <1>8, <1>9
  <2>1. v.f <= v.all /\ v.last <= Len(v.w) /\ v.last \in Nat
    BY <2>0 DEF Typed
  <2>2. Len(w) \in Nat
    <3>1. Chats(k)'
      BY DEF Inv
    <3>2. w \in Seq(Entries(made', incarnation'[k]))
      BY <1>2, <3>1 DEF Chats, Chat
    <3>. QED BY <3>2
  <2>3. v.last <= Len(w)
    <3>1. CASE window[k] = <<>>
      <4>1. v.last = 0
        BY <1>4, <2>1, <3>1
      <4>. QED BY <2>2, <4>1
    <3>2. CASE Len(window[k]) <= Len(w)
      <4>1. Len(window[k]) \in Nat
        BY <1>4, <2>0 DEF Typed, Chat
      <4>. QED BY <1>4, <2>1, <2>2, <3>2, <4>1
    <3>. QED BY <3>1, <3>2
  <2>4. z.f <= z.all /\ z.last <= Len(z.w)
    BY <1>2, <1>5, <1>6, <2>1, <2>2, <2>3
  <2>5. Bounded(View(k)')
    BY <2>4 DEF Bounded, z
  <2>. QED BY <1>7, <2>5, ViewTyped DEF z
<1>10. ASSUME faults' = 0
       PROVE  /\ faults = 0 /\ sid'[k] # NoSession
              /\ OnceIn(Memory, k) /\ Apart(w) /\ News(Memory, k, w, al) => OnceIn(Memory', k)
              /\ \A j \in Keys \ {k} : OnceIn(Memory, j) => OnceIn(Memory', j)
  <2>1. HookedOnce(k, w, midTurn)
    BY <1>1, <1>2, <1>10, HookOnce
  <2>. QED BY ONLY <2>1 DEF HookedOnce, al
<1>11. ASSUME k \notin B PROVE Asks(k, midTurn)
  BY <1>2, <1>4, <1>5, <1>6, <1>8, <1>9, <1>10, <1>11 DEF Asks, v, z, al
<1>12. ASSUME k \notin B => Good(View(k)') /\ Once(k)' PROVE Contents'
  <2>1. made \in Nat /\ made' \in Nat /\ made <= made' /\ Sound(k)'
    BY <1>1, <1>12 DEF Tables, Sound
  <2>2. ASSUME NEW j \in Keys \ {k} PROVE Aside(View(j), View(j)')
    <3>1. lastPass' = lastPass \/ lastPass' = <<>> \/ (lastPass' # <<>> /\ lastPass'[1] # j)
      BY <1>6
    <3>. QED BY <1>1, <1>2, <1>3, <1>6, <2>1, <3>1, OthersAside
  <2>. QED BY <1>3, <1>6, <1>7, <1>10, <2>1, <2>2, OneSteps
<1>. QED BY <1>11, <1>12

\* What a pass stores besides its session's messages is apart from them and from each other.
Fresh(v, z, al) ==
    /\ Apart(z.w)
    /\ v.s # NoSession =>
         \A i \in al.start .. Len(z.w) : \A x \in z.w[i].srcs : x \notin v.st

LEMMA BeginGood ==
    ASSUME NEW v, Good(v), NEW z, Typed(z), NEW hist, NEW m, Begins(v, z, hist, m),
           FirstPassed(v, z), Adds(v, z)
    PROVE  /\ Good(z)
           /\ v.all = 0 /\ z.irr = FALSE => Fresh(v, z, FirstAlign(v.c, v.p, z.w))
<1>1. Typed(v) /\ Led(v) /\ Whole(v) /\ Numbered(v) /\ Clean(v)
  BY DEF Good
<1>2. Led(z)
  BY <1>1, BeginLed
<1>3. Whole(z)
  BY <1>1, BeginWhole
<1>4. Numbered(z)
  BY <1>1, BeginNumbered
<1>5. Clean(z)
  BY <1>1, BeginClean
<1>6. ASSUME v.all = 0, z.irr = FALSE PROVE Fresh(v, z, FirstAlign(v.c, v.p, z.w))
  <2>0. v.irr = FALSE /\ Steady(z)
    BY <1>6 DEF Begins, Steady
  <2>1. v.f \in Nat /\ v.f <= 0
    BY <1>1, <1>6 DEF Typed
  <2>2. v.f = v.all /\ v.all <= 1
    BY <1>6, <2>1
  <2>3. Regular(v)
    BY <2>0, <2>2 DEF Regular
  <2>4. CleanIdle(v)
    BY <1>1, <2>3 DEF Clean, Begins
  <2>5. Shape(z.h, z.a, z.w)
    BY <1>1, <2>4, BeginShape
  <2>6. Apart(z.w)
    BY <1>4, <2>5, ShapeApart
  <2>7. ASSUME v.s # NoSession
        PROVE  \A i \in FirstAlign(v.c, v.p, z.w).start .. Len(z.w) :
                   \A x \in z.w[i].srcs : x \notin v.st
    <3>1. AddsLast(v, z, FirstAlign(v.c, v.p, z.w).start)
      BY <1>1, <1>6, <2>0, <2>4, <2>7, BeginAdds
    <3>. QED BY <1>1, <3>1, LastIsNew
  <2>. QED BY <2>6, <2>7 DEF Fresh
<1>. QED BY <1>1, <1>2, <1>3, <1>4, <1>5, <1>6 DEF Good

LEMMA MidGood ==
    ASSUME NEW v, Good(v), NEW z, Typed(z), GoesOn(v, z), MidPassed(v, z), Adds(v, z)
    PROVE  /\ Good(z)
           /\ v.all = 0 /\ z.all = 0 /\ z.irr = FALSE /\ z.s # NoSession
                => Fresh(v, z, MidAlign(v.c, v.p, z.w))
<1>1. Typed(v) /\ Led(v) /\ Whole(v) /\ Numbered(v) /\ Clean(v)
  BY DEF Good
<1>2. Led(z)
  BY <1>1, MidLed
<1>3. Whole(z)
  BY <1>1, MidWhole
<1>4. Numbered(z)
  BY <1>1, MidNumbered
<1>5. Clean(z)
  BY <1>1, MidClean
<1>6. ASSUME v.all = 0, z.all = 0, z.irr = FALSE, z.s # NoSession
      PROVE  Fresh(v, z, MidAlign(v.c, v.p, z.w))
  <2>1. v.f \in Nat /\ v.f <= 0
    BY <1>1, <1>6 DEF Typed
  <2>2. v.f = v.all /\ v.all <= 1 /\ v.irr = FALSE /\ v.w # <<>> /\ v.s # NoSession
    BY <1>6, <2>1 DEF GoesOn
  <2>3. Regular(v)
    BY <2>2 DEF Regular
  <2>4. CleanTurn(v)
    BY <1>1, <2>2, <2>3 DEF Clean
  <2>5. Shape(z.h, z.a, z.w)
    <3>1. Goes(v, z)
      BY <1>1, GoesOnParts
    <3>2. Shape(v.h, v.a, v.w) /\ z.h = v.h
      BY <2>4 DEF CleanTurn, GoesOn
    <3>. QED BY <1>1, <3>1, <3>2, MidShape
  <2>6. Apart(z.w)
    BY <1>4, <2>5, ShapeApart
  <2>7. AddsLast(v, z, MidAlign(v.c, v.p, z.w).start)
    BY <1>1, <1>6, <2>2, <2>4, MidTracks
  <2>8. \A i \in MidAlign(v.c, v.p, z.w).start .. Len(z.w) :
            \A x \in z.w[i].srcs : x \notin v.st
    BY <1>1, <2>7, LastIsNew
  <2>. QED BY <2>6, <2>8 DEF Fresh
<1>. QED BY <1>1, <1>2, <1>3, <1>4, <1>5, <1>6 DEF Good

\* A pass that adds what is fresh leaves no message stored twice.
LEMMA PassOnce ==
    ASSUME NEW k, Once(k), NEW midTurn, Asks(k, midTurn), irregular'[k] = FALSE => irregular[k] = FALSE,
           faults' = 0 /\ irregular'[k] = FALSE =>
               Fresh(View(k), View(k)', Align(View(k).c, View(k).p, (View(k)').w, midTurn))
    PROVE  Once(k)'
<1> DEFINE v == View(k)
           z == View(k)'
           al == Align(v.c, v.p, z.w, midTurn)
<1>1. SUFFICES ASSUME faults' = 0, irregular'[k] = FALSE PROVE OnceIn(Memory', k)
  BY DEF Once
<1>2. /\ faults = 0 /\ irregular[k] = FALSE
      /\ OnceIn(Memory, k) /\ Apart(z.w) /\ News(Memory, k, z.w, al) => OnceIn(Memory', k)
  BY <1>1 DEF Asks
<1>3. OnceIn(Memory, k)
  BY <1>2 DEF Once
<1>4. Fresh(v, z, al)
  BY <1>1
<1>5. v.s = sid[k] /\ v.st = HeldFor(Memory, k)
  BY ViewIs
<1>6. sid[k] = Memory.sid[k]
  BY DEF Memory
<1> HIDE DEF v, z, al
<1>7. Apart(z.w) /\ News(Memory, k, z.w, al)
  BY <1>4, <1>5, <1>6 DEF Fresh, News
<1>. QED BY <1>2, <1>3, <1>7

\* A turn starts: its view begins, and its first pass is asked of it.
FirstAsks(k) == Asks(k, FALSE)

LEMMA StartTurnBegins ==
    ASSUME Contents, NEW k \in Keys, StartTurn(k)
    PROVE  /\ k \notin Blurred' =>
                FirstAsks(k) /\ \E hist, m : Begins(View(k), View(k)', hist, m)
           /\ (k \notin Blurred' => Good(View(k)') /\ Once(k)') => Contents'
           /\ irregular'[k] = FALSE => irregular[k] = FALSE
           /\ Blurred \subseteq Blurred'
<1> DEFINE v == View(k)
           z == View(k)'
           B == Blurred'
<1>1. PICK hist \in LegalTails(history[k]), body \in Said(k) \cup {made + 1},
           f \in Faults, g \in Faults :
          /\ blurred' = [blurred EXCEPT ![k] = blurred[k] \/ body # made + 1]
          /\ window' = [window EXCEPT ![k] = BuildWindow(hist, User(k, body))]
          /\ history' = [history EXCEPT ![k] = Append(hist, User(k, body))]
          /\ MarkSlid(k, hist)
          /\ HookCall(k, window'[k], FALSE, f, g)
  BY ZenonT(60) DEF StartTurn, Writes
<1> DEFINE u == User(k, body)
           w == BuildWindow(hist, u)
           mid == FALSE
           i == irregular'[k]
<1>2. Inv /\ Counts /\ Tables /\ made \in Nat
  BY DEF Contents, Inv, Tables
<1>3. /\ made' = made + 1 /\ incarnation' = incarnation /\ window[k] = <<>>
      /\ appended' = [appended EXCEPT ![k] = appended[k]] /\ window'[k] = w
      /\ history'[k] = Append(hist, u) /\ appended'[k] = appended[k]
      /\ made' \in Nat /\ made <= made'
  BY <1>1, <1>2 DEF StartTurn, Tables
<1>4. /\ u \in Messages(made + 1, incarnation[k]) /\ u.body = body /\ w # <<>>
      /\ hist \in Seq(Messages(made + 1, incarnation[k]))
      /\ Len(w) \in Nat /\ (history[k] = <<>> => w = <<Live(u)>>)
  <2>1. body \in 1 .. made + 1
    BY <1>2, SaidTyped
  <2>. QED BY <1>2, <2>1, StartTyped
<1>5. /\ irregular' = [irregular EXCEPT ![k] = i] /\ i \in BOOLEAN
      /\ i = FALSE => irregular[k] = FALSE /\ (hist = <<>> \/ \E j \in 1 .. Len(hist) : hist[j].opens)
  <2> DEFINE slid == hist # <<>> /\ \A j \in DOMAIN hist : ~hist[j].opens
             b == irregular[k] \/ slid
  <2>1. irregular' = [irregular EXCEPT ![k] = b] /\ DOMAIN irregular = Keys
    BY <1>1, <1>2 DEF MarkSlid, Counts
  <2>2. DOMAIN hist = 1 .. Len(hist)
    BY <1>4
  <2>3. irregular[k] \in BOOLEAN /\ slid \in BOOLEAN
    BY <1>2 DEF Counts
  <2>4. ~slid => hist = <<>> \/ \E j \in 1 .. Len(hist) : hist[j].opens
    BY <2>2
  <2> HIDE DEF slid
  <2>5. b \in BOOLEAN /\ (b = FALSE => irregular[k] = FALSE /\ ~slid)
    BY <2>3
  <2> HIDE DEF b
  <2>6. i = b
    BY <2>1
  <2>. QED BY <2>1, <2>4, <2>5, <2>6
<1>6. PICK idle, how : Inv' /\ Moves(Memory, Memory', k, idle, how)
  BY <1>2, StartTurnKeeps
<1>7. Blurred \subseteq B /\ (body # made + 1 => k \in B)
  <2> DEFINE p == body # made + 1
  <2>1. p \in BOOLEAN /\ blurred' = [blurred EXCEPT ![k] = blurred[k] \/ p]
    BY <1>1
  <2> HIDE DEF p
  <2>2. Blurred \subseteq B /\ (p => k \in B)
    BY <1>2, <2>1, Blurs
  <2>. QED BY <2>2 DEF p
<1>8. /\ v.h = history[k] /\ v.a = appended[k] /\ v.w = window[k]
      /\ v.irr = irregular[k] /\ v.n = made /\ v.e = incarnation[k] /\ v.all = faults
  BY ViewIs
<1>9. /\ z.h = history'[k] /\ z.a = appended'[k] /\ z.w = window'[k]
      /\ z.irr = irregular'[k] /\ z.n = made' /\ z.e = incarnation'[k]
  BY ViewNext
<1>10. u.role = "user" /\ u.id = made + 1 /\ u.opens
  BY DEF User, Message
<1>11. k \in Blurred' => k \in B
  OBVIOUS
<1> HIDE DEF v, z, w, i, B
<1>12. Fits(B, Memory, k, incarnation[k]) \/ Align(confirmed[k], pending[k], w, FALSE).isNew
  <2>1. CASE body = made + 1
    <3>1. Len(w) \in Nat /\ (history[k] = <<>> => w = <<Live(User(k, body))>>)
      BY <1>4
    <3> HIDE DEF u
    <3>. QED BY <1>2, <1>7, <2>1, <3>1, StartFits
  <2>2. CASE body # made + 1
    <3>1. ArchOK(B, Memory, made)
      BY <1>2, <1>7, ArchGrow DEF Inv
    <3>. QED BY <1>2, <1>7, <2>2, <3>1, BlurredFits
  <2>. QED BY <2>1, <2>2
<1> HIDE DEF u
<1>13. ASSUME k \notin B PROVE Begins(v, z, hist, u)
  <2>1. u.body = made + 1
    BY <1>4, <1>7, <1>13
  <2>2. z.irr = FALSE => v.irr = FALSE /\ (hist = <<>> \/ \E j \in 1 .. Len(hist) : hist[j].opens)
    BY <1>5, <1>8, <1>9 DEF i
  <2>3. hist \in LegalTails(v.h) /\ v.w = <<>>
    BY <1>1, <1>3, <1>8
  <2>4. z.h = Append(hist, u) /\ z.a = v.a /\ z.w = BuildWindow(hist, u) /\ z.n = v.n + 1 /\ z.e = v.e
    BY <1>3, <1>8, <1>9 DEF w
  <2>5. u \in Messages(v.n + 1, v.e) /\ u.id = v.n + 1 /\ u.body = v.n + 1
    BY <1>4, <1>8, <1>10, <2>1
  <2>. QED BY <1>10, <2>2, <2>3, <2>4, <2>5 DEF Begins
<1>14. /\ HookCall(k, w, mid, f, g) /\ mid \in BOOLEAN
       /\ window' = [window EXCEPT ![k] = w] /\ history' = [history EXCEPT ![k] = Append(hist, u)]
  BY <1>1, <1>3 DEF w, u
<1>15. /\ k \notin B => Asks(k, mid)
       /\ (k \notin B => Good(View(k)') /\ Once(k)') => Contents'
  <2> DEFINE h == Append(hist, u)
             a == appended[k]
  <2>1. history' = [history EXCEPT ![k] = h] /\ appended' = [appended EXCEPT ![k] = a]
    BY <1>3, <1>14
  <2>2. \/ Fits(B, Memory, k, incarnation[k])
        \/ Align(confirmed[k], pending[k], w, mid).isNew
    BY <1>12
  <2>3. B = Blurred' /\ Blurred \subseteq B
    BY <1>7 DEF B
  <2>4. /\ Inv' /\ made' \in Nat /\ made <= made' /\ incarnation' = incarnation
        /\ window[k] = <<>> /\ w # <<>> /\ i \in BOOLEAN
        /\ irregular' = [irregular EXCEPT ![k] = i] /\ Moves(Memory, Memory', k, idle, how)
        /\ HookCall(k, w, mid, f, g) /\ mid \in BOOLEAN /\ window' = [window EXCEPT ![k] = w]
    BY <1>3, <1>4, <1>5, <1>6, <1>14
  <2> HIDE DEF h, a, mid
  <2>. QED BY ONLY Contents, k \in Keys, <2>1, <2>2, <2>3, <2>4, PassContents
<1>. QED BY <1>5, <1>7, <1>13, <1>15 DEF FirstAsks, v, z, i, B

LEMMA StartTurnContents ==
    ASSUME Contents, NEW k \in Keys, StartTurn(k)
    PROVE  Contents'
<1> DEFINE v == View(k)
           z == View(k)'
           mid == FALSE
<1>1. SUFFICES ASSUME k \notin Blurred' PROVE Good(View(k)') /\ Once(k)'
  BY StartTurnBegins
<1>2. FirstAsks(k) /\ (irregular'[k] = FALSE => irregular[k] = FALSE)
  BY <1>1, StartTurnBegins
<1>3. PICK hist, m : Begins(v, z, hist, m)
  BY <1>1, StartTurnBegins
<1>4. Good(v) /\ Once(k) /\ v.irr = irregular[k] /\ v.all = faults
  <2>1. k \notin Blurred
    BY <1>1, StartTurnBegins
  <2>. QED BY <2>1, ViewIs DEF Contents, Sound
<1>0. z.irr = irregular'[k]
  BY ViewNext
<1> HIDE DEF v, z
<1>5. FirstPassed(v, z) /\ Adds(v, z) /\ Typed(z)
  BY <1>2 DEF FirstAsks, Asks, FirstPassed, FirstAlign, FirstFps, FirstItems, v, z
<1>6. /\ Good(z)
      /\ v.all = 0 /\ z.irr = FALSE => Fresh(v, z, FirstAlign(v.c, v.p, z.w))
  BY <1>3, <1>4, <1>5, BeginGood
<1>7. Once(k)'
  <2>1. ASSUME faults' = 0, irregular'[k] = FALSE PROVE Fresh(v, z, Align(v.c, v.p, z.w, mid))
    <3>1. v.all = 0 /\ z.irr = FALSE
      BY <1>0, <1>2, <1>4, <2>1 DEF FirstAsks, Asks
    <3>. QED BY <1>6, <3>1 DEF FirstAlign
  <2>2. Asks(k, mid)
    BY <1>2 DEF FirstAsks
  <2>3. irregular'[k] = FALSE => irregular[k] = FALSE
    BY <1>2
  <2> HIDE DEF mid
  <2>4. faults' = 0 /\ irregular'[k] = FALSE =>
          Fresh(View(k), View(k)', Align(View(k).c, View(k).p, (View(k)').w, mid))
    BY <2>1 DEF v, z
  <2>. QED BY <1>4, <2>2, <2>3, <2>4, PassOnce
<1>. QED BY <1>6, <1>7 DEF z

\* Of a turn that starts with a follow-up nothing is said but that it leaves the others be.
LEMMA StartTurnFollowedContents ==
    ASSUME Contents, NEW k \in Keys, StartTurnFollowed(k)
    PROVE  Contents'
<1> DEFINE u == User(k, made + 1)
           x == [FollowUp(k, made + 2) EXCEPT !.id = made + 2]
           B == Blurred'
<1>1. PICK hist \in LegalTails(history[k]), f \in Faults, g \in Faults :
          /\ window' = [window EXCEPT ![k] = Append(BuildWindow(hist, u), Raw(x))]
          /\ history' = [history EXCEPT ![k] = Append(hist, u)]
          /\ appended' = [appended EXCEPT ![k] = <<x>>]
          /\ MarkSlid(k, hist)
          /\ HookCall(k, window'[k], FALSE, f, g)
  BY DEF StartTurnFollowed
<1> DEFINE w == Append(BuildWindow(hist, u), Raw(x))
           h == Append(hist, u)
           a == <<x>>
           mid == FALSE
           slid == hist # <<>> /\ \A j \in DOMAIN hist : ~hist[j].opens
           i == irregular[k] \/ slid
<1>2. Inv /\ Counts /\ Tables /\ made \in Nat /\ Inv'
  BY StartTurnFollowedKeeps DEF Contents, Inv, Tables
<1>3. PICK idle, how : Moves(Memory, Memory', k, idle, how)
  BY <1>2, StartTurnFollowedKeeps
<1>4. /\ irregular' = [irregular EXCEPT ![k] = i] /\ i \in BOOLEAN
  BY <1>1, <1>2 DEF MarkSlid, Counts
<1> HIDE DEF i, slid, x, u, B
<1>5. /\ made' \in Nat /\ made <= made' /\ incarnation' = incarnation /\ window[k] = <<>>
      /\ blurred' = [blurred EXCEPT ![k] = TRUE]
  BY <1>2 DEF StartTurnFollowed
<1>6. Blurred \subseteq B /\ k \in B
  <2>1. blurred \in [Keys -> BOOLEAN]
    BY <1>2 DEF Tables
  <2>2. \A j \in Keys : blurred[j] => blurred'[j]
    BY ONLY <2>1, <1>5, k \in Keys
  <2>3. blurred'[k]
    BY ONLY <2>1, <1>5, k \in Keys
  <2>. QED BY ONLY <2>2, <2>3, k \in Keys DEF B, Blurred
<1>7. Fits(B, Memory, k, incarnation[k])
  <2>1. ArchOK(B, Memory, made)
    BY <1>2, <1>6, ArchGrow DEF Inv
  <2>. QED BY <1>2, <1>6, <2>1, BlurredFits
<1>8. w # <<>>
  <2>1. window'[k] = w
    BY <1>1, <1>2 DEF Tables
  <2>2. Chats(k)' /\ appended'[k] = <<x>>
    BY <1>1, <1>2 DEF Inv, Tables
  <2> HIDE DEF w
  <2>3. /\ Len(<<x>>) = 1 /\ Len(<<x>>) <= Len(w) /\ Len(<<>>) = 0
    BY <2>1, <2>2 DEF Chats, Chat
  <2>. QED BY ONLY <2>3
<1>9. /\ window' = [window EXCEPT ![k] = w] /\ history' = [history EXCEPT ![k] = h]
      /\ appended' = [appended EXCEPT ![k] = a] /\ HookCall(k, w, mid, f, g) /\ mid \in BOOLEAN
      /\ B = Blurred'
  BY <1>1, <1>2 DEF Tables, B
<1> HIDE DEF w, h, a, mid
<1>10. (k \notin B => Good(View(k)') /\ Once(k)') => Contents'
  BY <1>2, <1>3, <1>4, <1>5, <1>6, <1>7, <1>8, <1>9, PassContents
<1>. QED BY <1>6, <1>10

\* A later pass of a turn, over the same window or over one more message.
NextWindow(k, w, a) ==
    \/ w = window[k] /\ a = appended[k] /\ made' = made
    \/ \E m \in Messages(made + 1, incarnation[k]) :
          /\ ~m.opens /\ m.id = made + 1 /\ made' = made + 1
          /\ w = Append(window[k], Raw(m)) /\ a = Append(appended[k], m)

LEMMA GoesOnContents ==
    ASSUME Contents, Inv', NEW k \in Keys, window[k] # <<>>, history' = history,
           incarnation' = incarnation, Blurred \subseteq Blurred', MarkReopened(k), NEW w, NEW a, NextWindow(k, w, a),
           window' = [window EXCEPT ![k] = w], appended' = [appended EXCEPT ![k] = a],
           NEW mid, mid = TRUE, NEW f, NEW g, HookCall(k, w, mid, f, g),
           NEW idle, NEW how, Moves(Memory, Memory', k, idle, how)
    PROVE  Contents'
<1> DEFINE v == View(k)
           z == View(k)'
           i == irregular'[k]
           h == history[k]
<1>1. Inv /\ Counts /\ Tables /\ Chats(k)
  BY DEF Contents, Inv
<1> DEFINE B == Blurred'
<1>2. /\ window'[k] = w /\ appended'[k] = a /\ history'[k] = history[k]
      /\ history' = [history EXCEPT ![k] = h]
  BY <1>1 DEF Tables
<1>3. irregular[k] \in BOOLEAN /\ (sid'[k] # sid[k]) \in BOOLEAN
  BY <1>1 DEF Counts
<1>4. /\ irregular' = [irregular EXCEPT ![k] = i] /\ i \in BOOLEAN
      /\ i = FALSE => irregular[k] = FALSE /\ sid'[k] = sid[k]
  <2> DEFINE b == irregular[k] \/ sid'[k] # sid[k]
  <2>1. irregular' = [irregular EXCEPT ![k] = b] /\ DOMAIN irregular = Keys
    BY <1>1 DEF MarkReopened, Counts
  <2>2. b \in BOOLEAN /\ (b = FALSE => irregular[k] = FALSE /\ sid'[k] = sid[k])
    BY <1>3
  <2> HIDE DEF b
  <2>3. i = b
    BY <2>1
  <2>. QED BY <2>1, <2>2, <2>3
<1>5. /\ v.h = history[k] /\ v.a = appended[k] /\ v.w = window[k] /\ v.s = sid[k]
      /\ v.irr = irregular[k] /\ v.n = made /\ v.e = incarnation[k] /\ v.all = faults
  BY ViewIs
<1>6. /\ z.h = history'[k] /\ z.a = appended'[k] /\ z.w = window'[k] /\ z.s = sid'[k]
      /\ z.irr = irregular'[k] /\ z.n = made' /\ z.e = incarnation'[k] /\ z.all = faults'
  BY ViewNext
<1>7. Fits(B, Memory, k, incarnation[k]) /\ Blurred \subseteq B /\ B = Blurred'
  BY <1>1, FitsGrow DEF Chats
<1>8. window[k] \in Seq(Entries(made, incarnation[k])) /\ made \in Nat
  BY <1>1 DEF Chats, Chat, Tables
<1>9. made' \in Nat /\ made <= made' /\ (made' = made \/ made' = made + 1)
  BY <1>8 DEF NextWindow
<1>10. w # <<>> /\ Len(window[k]) <= Len(w)
  <2>1. CASE w = window[k]
    <3>1. Len(window[k]) \in Nat
      BY <1>8
    <3>. QED BY <2>1, <3>1
  <2>2. CASE \E x : w = Append(window[k], x)
    <3>1. PICK x : w = Append(window[k], x)
      BY <2>2
    <3>2. Len(window[k]) \in Nat /\ Len(w) = Len(window[k]) + 1
      BY <1>8, <3>1
    <3>3. Len(w) # 0
      BY <3>2
    <3>. QED BY <3>2, <3>3
  <2>. QED BY <2>1, <2>2 DEF NextWindow
<1>11. /\ k \notin B => Asks(k, mid)
       /\ (k \notin B => Good(View(k)') /\ Once(k)') => Contents'
  <2>1. mid \in BOOLEAN
    OBVIOUS
  <2> HIDE DEF v, z, i, h, B
  <2>. QED BY <1>1, <1>2, <1>4, <1>7, <1>9, <1>10, <2>1, PassContents
<1> HIDE DEF v, z, i, h, B
<1>17. SUFFICES ASSUME k \notin B PROVE Good(View(k)') /\ Once(k)'
  BY <1>11
<1>18. Good(v) /\ Once(k) /\ Asks(k, mid)
  BY <1>7, <1>11, <1>17 DEF Contents, Sound, v
<1>12. Repeats(v, z) \/ AddsMessage(v, z)
  <2>1. CASE w = window[k] /\ a = appended[k] /\ made' = made
    BY <1>2, <1>5, <1>6, <2>1 DEF Repeats
  <2>2. CASE \E m \in Messages(made + 1, incarnation[k]) :
                /\ ~m.opens /\ m.id = made + 1 /\ made' = made + 1
                /\ w = Append(window[k], Raw(m)) /\ a = Append(appended[k], m)
    BY <1>2, <1>5, <1>6, <2>2 DEF AddsMessage
  <2>. QED BY <2>1, <2>2 DEF NextWindow
<1>13. GoesOn(v, z)
  BY <1>2, <1>4, <1>5, <1>6, <1>12 DEF GoesOn, i
<1>14. MidPassed(v, z) /\ Adds(v, z) /\ Typed(z)
  BY <1>18 DEF Asks, MidPassed, MidAlign, MidFps, MidItems, v, z
<1>15. /\ Good(z)
       /\ v.all = 0 /\ z.all = 0 /\ z.irr = FALSE /\ z.s # NoSession
            => Fresh(v, z, MidAlign(v.c, v.p, z.w))
  BY <1>13, <1>14, <1>18, MidGood
<1>16. Once(k)'
  <2>1. ASSUME faults' = 0, irregular'[k] = FALSE PROVE Fresh(v, z, Align(v.c, v.p, z.w, mid))
    <3>1. z.s # NoSession /\ faults = 0
      BY <1>18, <2>1 DEF Asks, z
    <3>. QED BY <1>5, <1>6, <1>15, <2>1, <3>1 DEF MidAlign
  <2>2. irregular'[k] = FALSE => irregular[k] = FALSE
    BY <1>4 DEF i
  <2>3. Asks(k, mid)
    BY <1>18
  <2>4. faults' = 0 /\ irregular'[k] = FALSE =>
          Fresh(View(k), View(k)', Align(View(k).c, View(k).p, (View(k)').w, mid))
    BY <2>1 DEF v, z
  <2>. QED BY <1>18, <2>2, <2>3, <2>4, PassOnce
<1>. QED BY <1>15, <1>16 DEF z

\* What the runner appends within a turn opens none.
LEMMA AppendsContents ==
    ASSUME Contents, NEW k \in Keys, NEW m \in Messages(made + 1, incarnation[k]), Appends(k, m),
           window[k] # <<>>, m.id = made + 1, ~m.opens, Inv', Blurred \subseteq Blurred',
           NEW idle, NEW how, Moves(Memory, Memory', k, idle, how)
    PROVE  Contents'
<1>1. PICK f \in Faults, g \in Faults : HookCall(k, window'[k], TRUE, f, g)
  BY DEF Appends
<1> DEFINE w == Append(window[k], Raw(m))
           a == Append(appended[k], m)
           mid == TRUE
<1>2. Tables
  BY DEF Contents, Inv
<1>3. /\ made' = made + 1 /\ history' = history /\ incarnation' = incarnation
      /\ window' = [window EXCEPT ![k] = w] /\ appended' = [appended EXCEPT ![k] = a]
      /\ window'[k] = w /\ MarkReopened(k)
  BY <1>2 DEF Appends, Tables
<1>4. NextWindow(k, w, a)
  BY <1>3 DEF NextWindow
<1>5. HookCall(k, w, mid, f, g) /\ mid = TRUE
  BY <1>1, <1>3
<1> HIDE DEF w, a, mid
<1>. QED BY <1>3, <1>4, <1>5, GoesOnContents

LEMMA AppendReplyContents ==
    ASSUME Contents, NEW k \in Keys, AppendReply(k)
    PROVE  Contents'
<1>1. PICK r \in Replies : Appends(k, Reply(k, r))
  BY DEF AppendReply
<1>2. Inv /\ Tables /\ made \in Nat
  BY DEF Contents, Inv, Tables
<1> DEFINE m == Reply(k, r)
<1>3. m \in Messages(made + 1, incarnation[k]) /\ m.id = made + 1 /\ ~m.opens
  <2>1. r.role \in Roles /\ r.role # "user" /\ r.body \in Bodies
    BY RepliesAssumption DEF Roles, Bodies
  <2>2. incarnation[k] \in Nat
    BY <1>2 DEF Tables
  <2>. QED BY <1>2, <2>1, <2>2 DEF Reply, Message, Messages
<1>4. window[k] # <<>> /\ Blurred \subseteq Blurred'
  BY DEF AppendReply, Blurred
<1>5. PICK idle, how : Inv' /\ Moves(Memory, Memory', k, idle, how)
  BY <1>2, AppendReplyKeeps
<1> HIDE DEF m
<1>6. Appends(k, m)
  BY <1>1 DEF m
<1>. QED BY <1>3, <1>4, <1>5, <1>6, AppendsContents

LEMMA AppendFollowUpContents ==
    ASSUME Contents, NEW k \in Keys, AppendFollowUp(k)
    PROVE  Contents'
<1>1. PICK body \in Said(k) \cup {made + 1} :
          /\ blurred' = [blurred EXCEPT ![k] = blurred[k] \/ body # made + 1]
          /\ Appends(k, FollowUp(k, body))
  BY DEF AppendFollowUp, Writes
<1>2. Inv /\ made \in Nat /\ incarnation[k] \in Nat /\ window[k] # <<>>
  BY DEF Contents, Inv, Tables, AppendFollowUp
<1> DEFINE m == FollowUp(k, body)
<1>3. m \in Messages(made + 1, incarnation[k]) /\ m.id = made + 1 /\ ~m.opens
  <2>1. body \in 1 .. made + 1
    BY <1>2, SaidTyped
  <2>. QED BY <1>2, <2>1 DEF FollowUp, Message, Messages, Roles, Bodies
<1>4. Blurred \subseteq Blurred'
  <2> DEFINE p == body # made + 1
  <2>1. p \in BOOLEAN /\ blurred' = [blurred EXCEPT ![k] = blurred[k] \/ p]
    BY <1>1
  <2> HIDE DEF p
  <2>. QED BY <1>2, <2>1, Blurs
<1>5. PICK idle, how : Inv' /\ Moves(Memory, Memory', k, idle, how)
  BY <1>2, AppendFollowUpKeeps
<1> HIDE DEF m
<1>6. Appends(k, m)
  BY <1>1 DEF m
<1>. QED BY <1>2, <1>3, <1>4, <1>5, <1>6, AppendsContents

LEMMA PassAgainContents ==
    ASSUME Contents, NEW k \in Keys, PassAgain(k)
    PROVE  Contents'
<1>1. PICK f \in Faults, g \in Faults : HookCall(k, window[k], TRUE, f, g)
  BY DEF PassAgain
<1> DEFINE w == window[k]
           a == appended[k]
           mid == TRUE
<1>2. Inv /\ Tables
  BY DEF Contents, Inv
<1>3. /\ made' = made /\ history' = history /\ incarnation' = incarnation
      /\ window[k] # <<>> /\ MarkReopened(k) /\ Blurred \subseteq Blurred'
      /\ window' = [window EXCEPT ![k] = w] /\ appended' = [appended EXCEPT ![k] = a]
  BY <1>2 DEF PassAgain, Tables, Blurred
<1>4. NextWindow(k, w, a)
  BY <1>3 DEF NextWindow
<1>5. PICK idle, how : Inv' /\ Moves(Memory, Memory', k, idle, how)
  BY <1>2, PassAgainKeeps
<1>6. HookCall(k, w, mid, f, g) /\ mid = TRUE
  BY <1>1
<1> HIDE DEF w, a, mid
<1>. QED BY <1>3, <1>4, <1>5, <1>6, GoesOnContents

LEMMA InitContents == Init => Contents
<1> SUFFICES ASSUME Init PROVE Contents
  OBVIOUS
<1>1. Inv /\ Counts
  BY InitInv DEF Init, Counts
<1>2. ASSUME NEW k \in Keys PROVE Good(View(k)) /\ Once(k)
  <2> DEFINE v == View(k)
  <2>1. /\ history[k] = <<>> /\ appended[k] = <<>> /\ window[k] = <<>> /\ failed[k] = 0
        /\ confirmed[k] = <<>> /\ pending[k] = <<>> /\ sid[k] = NoSession
        /\ incarnation[k] = 0 /\ made = 0 /\ faults = 0 /\ lastPass = <<>> /\ sessions = <<>>
    BY DEF Init
  <2>2. LastOf(Memory, k) = 0 /\ (Memory).sessions = <<>>
    BY <2>1 DEF LastOf, Memory
  <2>3. Len(<<>>) = 0 /\ 1 .. 0 = {}
    OBVIOUS
  <2>4. HeldFor(Memory, k) = {} /\ OnceIn(Memory, k)
    BY <2>2, <2>3 DEF HeldFor, OnceIn
  <2>5. Typed(v)
    <3>1. ArchOK(Blurred, Memory, made) /\ Chat(made, incarnation[k], history[k], appended[k], window[k])
      BY <1>1 DEF Inv, Chats
    <3>2. Bounded(ViewOf(Memory, k, history[k], appended[k], window[k], failed[k], faults,
                         irregular[k], made, incarnation[k]))
      BY <2>1, <2>2, <2>3, ViewIs DEF Bounded, View
    <3>3. made \in Nat /\ incarnation[k] \in Nat /\ failed[k] \in Nat /\ faults \in Nat
      BY <2>1
    <3>. QED BY <3>1, <3>2, <3>3, ViewOfTyped DEF View
  <2>6. v.h = <<>> /\ v.a = <<>> /\ v.w = <<>> /\ v.s = NoSession /\ v.st = {} /\ v.all = 0
    BY <2>1, <2>4, ViewIs
  <2> HIDE DEF v
  <2>7. Numbered(v) /\ Led(v) /\ Whole(v) /\ Clean(v)
    BY <2>3, <2>6 DEF Numbered, Rising, Before, Led, Whole, WholeIdle, Clean, CleanIdle
  <2>. QED BY <2>4, <2>5, <2>7 DEF Good, Once, v
<1>. QED BY <1>1, <1>2 DEF Contents, Sound

LEMMA StepContents ==
    ASSUME Contents, [Next]_vars
    PROVE  Contents'
<1>1. ASSUME NEW k \in Keys, StartTurn(k) \/ StartTurnFollowed(k) PROVE Contents'
  BY <1>1, StartTurnContents, StartTurnFollowedContents
<1>6. ASSUME NEW k \in Keys, AppendReply(k) \/ AppendFollowUp(k) \/ PassAgain(k) PROVE Contents'
  BY <1>6, AppendReplyContents, AppendFollowUpContents, PassAgainContents
<1>2. ASSUME NEW k \in Keys, EndTurn(k) \/ InterruptTurn(k) \/ EndTurnDropping(k) PROVE Contents'
  BY <1>2, EndTurnContents
<1>3. ASSUME NEW k \in Keys, NewCommand(k) \/ Compact(k) PROVE Contents'
  BY <1>3, UpheavalContents
<1>4. CASE Restart
  BY <1>4, RestartContents
<1>5. CASE UNCHANGED vars
  <2>1. Inv'
    BY <1>5, StepMoves DEF Contents
  <2>2. /\ UNCHANGED <<order, confirmed, pending, sid, lastPass, sessions>>
        /\ UNCHANGED <<history, window, appended, incarnation, irregular, blurred, failed,
                       made, faults>>
    BY <1>5 DEF vars, archiver, nanobot
  <2>3. Memory' = Memory
    BY <2>2 DEF Memory
  <2>4. Counts'
    BY <2>2 DEF Contents, Counts
  <2>5. ASSUME NEW k \in Keys PROVE Sound(k)'
    <3>1. View(k)' = View(k) /\ (Once(k)' <=> Once(k)) /\ Blurred' = Blurred
      BY <2>2, <2>3 DEF View, Once, Blurred
    <3>2. Sound(k)
      BY DEF Contents
    <3>. QED BY <3>1, <3>2 DEF Sound
  <2>. QED BY <2>1, <2>4, <2>5 DEF Contents
<1>. QED BY <1>1, <1>2, <1>3, <1>4, <1>5, <1>6 DEF Next

-----------------------------------------------------------------------------
(* What the archiver must do, for every conversation and every step.       *)

\* What a conversation's sessions hold, in the words of the specification.
LEMMA StoredIs ==
    ASSUME Inv
    PROVE  /\ \A k \in Keys : HeldFor(Memory, k) \subseteq StoredFor(k)
           /\ \A s \in DOMAIN sessions :
                /\ s \in 1 .. Len((Memory).sessions) /\ sessions[s].key \in Keys
                /\ RowsAt(Memory, s) = sessions[s].rows
                /\ DOMAIN sessions[s].rows = 1 .. Len(sessions[s].rows)
<1>1. sessions \in Seq(Session) /\ (Memory).sessions = sessions
  BY MemoryIs DEF Memory
<1>2. DOMAIN sessions = 1 .. Len(sessions)
  BY <1>1
<1>3. ASSUME NEW s \in DOMAIN sessions
      PROVE  /\ s \in 1 .. Len(sessions) /\ sessions[s].key \in Keys
             /\ RowsAt(Memory, s) = sessions[s].rows
             /\ DOMAIN sessions[s].rows = 1 .. Len(sessions[s].rows)
  <2>1. sessions[s] \in Session
    BY <1>1
  <2>2. sessions[s].key \in Keys /\ sessions[s].rows \in Seq(Row)
    BY <2>1 DEF Session
  <2>. QED BY <1>1, <1>2, <2>2 DEF RowsAt
<1>4. ASSUME NEW k \in Keys, NEW x \in HeldFor(Memory, k) PROVE x \in StoredFor(k)
  <2>1. PICK s \in 1 .. Len(sessions) : sessions[s].key = k /\ Holds(Memory, s, x)
    BY <1>1 DEF HeldFor
  <2>2. PICK i \in DOMAIN sessions[s].rows : x \in sessions[s].rows[i].srcs
    BY <1>2, <1>3, <2>1 DEF Holds
  <2>3. x \in StoredIn(s)
    BY <2>2 DEF StoredIn
  <2>. QED BY <1>2, <2>1, <2>3 DEF StoredFor
<1>. QED BY <1>1, <1>3, <1>4

LEMMA ContentsStored == Contents => NothingLost
<1> SUFFICES ASSUME Contents, NEW k \in Keys,
                    window[k] # <<>>, lastPass = <<k, Len(window[k])>>, ~blurred[k],
                    failed[k] = 0 \/ (faults = 1 /\ ~irregular[k]),
                    NEW i \in DOMAIN window[k]
             PROVE  window[k][i].srcs \subseteq StoredFor(k)
  BY DEF NothingLost
<1> DEFINE v == View(k)
<1>1. /\ v.w = window[k] /\ v.f = failed[k] /\ v.all = faults /\ v.irr = irregular[k]
      /\ v.last = LastOf(Memory, k) /\ v.st = HeldFor(Memory, k)
  BY ViewIs
<1>2. Typed(v) /\ Whole(v) /\ Clean(v) /\ Inv
  BY DEF Contents, Sound, Good, Blurred
<1>3. v.last = Len(v.w)
  BY <1>1 DEF LastOf, Memory
<1>4. irregular[k] \in BOOLEAN
  BY DEF Contents, Counts
<1> HIDE DEF v
<1>5. Len(v.w) \in Nat /\ i \in 1 .. Len(v.w)
  <2>1. v.w \in Seq(Entries(v.n, v.e))
    BY <1>2 DEF Typed, Chat
  <2>. QED BY <1>1, <2>1
<1>6. Has(v, v.w[i])
  <2>1. CASE failed[k] = 0
    BY <1>1, <1>2, <1>5, <2>1 DEF Whole, WholeTurn
  <2>2. CASE failed[k] # 0
    <3>1. v.f \in Nat /\ v.f <= v.all /\ v.f # 0 /\ v.all = 1 /\ v.irr = FALSE
      BY <1>1, <1>2, <1>4, <2>2 DEF Typed
    <3>2. v.f = v.all /\ v.all <= 1
      BY <3>1
    <3>3. CleanTurn(v)
      BY <1>1, <1>2, <3>1, <3>2 DEF Clean, Regular
    <3>4. i \in 1 .. Len(v.w) - 1 \/ i = Len(v.w)
      BY <1>5
    <3>. QED BY <1>3, <3>1, <3>3, <3>4 DEF CleanTurn
  <2>. QED BY <2>1, <2>2
<1>. QED BY <1>1, <1>2, <1>6, StoredIs DEF Has

LEMMA ContentsOnce == Contents => StoredOnce
<1> SUFFICES ASSUME Contents, NEW s \in DOMAIN sessions,
                    faults = 0, ~irregular[sessions[s].key], ~blurred[sessions[s].key],
                    NEW i \in DOMAIN sessions[s].rows, NEW j \in DOMAIN sessions[s].rows, i # j
             PROVE  sessions[s].rows[i].srcs \cap sessions[s].rows[j].srcs = {}
  BY DEF StoredOnce
<1> DEFINE k == sessions[s].key
<1>1. /\ s \in 1 .. Len((Memory).sessions) /\ k \in Keys /\ RowsAt(Memory, s) = sessions[s].rows
      /\ DOMAIN sessions[s].rows = 1 .. Len(sessions[s].rows) /\ (Memory).sessions = sessions
  BY StoredIs DEF Contents, Memory
<1>2. irregular[k] = FALSE /\ Once(k)
  BY <1>1 DEF Contents, Sound, Counts, Blurred
<1>3. Distinct(RowsAt(Memory, s))
  BY <1>1, <1>2 DEF Once, OnceIn
<1>. QED BY <1>1, <1>3 DEF Distinct

\* Only the start of a turn gives an idle conversation a window.
LEMMA StepContinues ==
    ASSUME Contents, [Next]_vars, NEW k \in Keys, faults' = 0, ~blurred'[k], window[k] = <<>>,
           Len(window'[k]) > 1, sid[k] # NoSession
    PROVE  sid'[k] = sid[k]
<1>1. Tables /\ Len(<<>>) = 0
  BY DEF Contents, Inv
<1>2. window'[k] # <<>>
  BY <1>1
<1>3. StartTurn(k)
  <2>1. ASSUME NEW j \in Keys, StartTurn(j) PROVE StartTurn(k)
    <3>1. \/ j = k
          \/ window'[k] = window[k]
      BY <1>1, <2>1 DEF StartTurn, Tables
    <3>. QED BY <1>2, <2>1, <3>1
  <2>2. ASSUME NEW j \in Keys,
               AppendReply(j) \/ AppendFollowUp(j) \/ PassAgain(j) \/ EndTurn(j) \/ InterruptTurn(j)
               \/ EndTurnDropping(j) \/ NewCommand(j) \/ Compact(j)
        PROVE  FALSE
    <3>1. j # k \/ window'[k] = <<>> \/ window'[k] = window[k]
      BY <1>1, <2>2
         DEF AppendReply, AppendFollowUp, Appends, PassAgain, EndTurn, InterruptTurn, EndTurnDropping, NewCommand, Compact, Tables
    <3>2. j # k => window'[k] = window[k] \/ window'[k] = <<>>
      BY <1>1, <2>2
         DEF AppendReply, AppendFollowUp, Appends, PassAgain, EndTurn, InterruptTurn, EndTurnDropping, NewCommand, Compact, Tables
    <3>. QED BY <1>2, <3>1, <3>2
  <2>5. ASSUME NEW j \in Keys, StartTurnFollowed(j) PROVE FALSE
    <3>1. window' = [window EXCEPT ![j] = window'[j]] /\ blurred' = [blurred EXCEPT ![j] = TRUE]
      BY <1>1, <2>5 DEF StartTurnFollowed, Tables
    <3>2. j # k
      BY <1>1, <3>1 DEF Tables
    <3>. QED BY <1>1, <1>2, <3>1, <3>2 DEF Tables
  <2>3. ~Restart
    BY <1>2 DEF Restart
  <2>4. ~UNCHANGED vars
    BY <1>2 DEF vars, nanobot
  <2>. QED BY <2>1, <2>2, <2>3, <2>4, <2>5 DEF Next
<1> DEFINE v == View(k)
           z == View(k)'
<1>11. k \notin Blurred' /\ k \notin Blurred
  <2>1. k \notin Blurred'
    BY DEF Blurred
  <2>. QED BY <1>3, <2>1, StartTurnBegins
<1>4. PICK hist, m : Begins(v, z, hist, m)
  BY <1>3, <1>11, StartTurnBegins
<1>5. FirstAsks(k)
  BY <1>3, <1>11, StartTurnBegins
<1>6. v.s = sid[k]
  BY ViewIs
<1>7. z.s = sid'[k] /\ z.w = window'[k] /\ z.all = faults'
  BY ViewNext
<1>8. Typed(v) /\ Led(v)
  BY <1>11 DEF Contents, Sound, Good
<1> HIDE DEF v, z
<1>9. FirstPassed(v, z) /\ Typed(z)
  BY <1>5 DEF FirstAsks, Asks, FirstPassed, FirstAlign, FirstFps, FirstItems, v, z
<1>10. z.s = v.s
  BY <1>4, <1>6, <1>7, <1>8, <1>9, BeginContinues
<1>. QED BY <1>6, <1>7, <1>10

\* Whatever a completed pass was shown is in the transcript, for any number of chats,
\* replies and faults: no message is taken for one that was stored before.
THEOREM TranscriptComplete == Spec => []NothingLost
<1>1. Contents /\ [Next]_vars => Contents'
  BY StepContents
<1>. QED BY <1>1, InitContents, ContentsStored, PTL DEF Spec

\* No session holds a message twice, however windows slide, are rewritten or repeat.
THEOREM TranscriptOnce == Spec => []StoredOnce
<1>1. Contents /\ [Next]_vars => Contents'
  BY StepContents
<1>. QED BY <1>1, InitContents, ContentsOnce, PTL DEF Spec

\* A turn whose window starts with an earlier message goes on in the open session: without
\* a fault, only /new, a compaction or an eviction can split a conversation.
THEOREM ConversationsContinue == Spec => TurnContinues
<1>1. Contents /\ [Next]_vars => Contents'
  BY StepContents
<1>2. ASSUME Contents, [Next]_vars
      PROVE  [\A k \in Keys :
                /\ faults' = 0 /\ ~blurred'[k]
                /\ window[k] = <<>> /\ Len(window'[k]) > 1 /\ sid[k] # NoSession
                => sid'[k] = sid[k]]_vars
  BY <1>2, StepContinues
<1>. QED BY <1>1, <1>2, InitContents, PTL DEF Spec, TurnContinues
=============================================================================
