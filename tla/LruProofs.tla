------------------------------ MODULE LruProofs ------------------------------
(***************************************************************************)
(* What lru.py's `touch` keeps, for any keys and any cap.                  *)
(***************************************************************************)
EXTENDS Lru, SequenceTheorems, TLAPS

\* The keys of a dict, in order: none of them twice.
Recency(S) == {o \in Seq(S) : \A i, j \in 1 .. Len(o) : o[i] = o[j] => i = j}

Among(o) == {o[i] : i \in 1 .. Len(o)}

LEMMA RecencyDef ==
    ASSUME NEW S, NEW o \in Recency(S)
    PROVE  /\ o \in Seq(S) /\ Len(o) \in Nat /\ DOMAIN o = 1 .. Len(o) /\ Among(o) \subseteq S
           /\ \A i \in 1 .. Len(o) : o[i] \in S
           /\ \A i, j \in 1 .. Len(o) : o[i] = o[j] => i = j
BY DEF Recency, Among

\* A sequence without its i-th element.
LEMMA CutOut ==
    ASSUME NEW S, NEW o \in Seq(S), NEW i \in 1 .. Len(o)
    PROVE  LET w == SubSeq(o, 1, i - 1) \o SubSeq(o, i + 1, Len(o))
           IN  /\ w \in Seq(S) /\ Len(w) = Len(o) - 1
               /\ \A j \in 1 .. Len(w) : w[j] = IF j < i THEN o[j] ELSE o[j + 1]
<1> DEFINE a == SubSeq(o, 1, i - 1)
           b == SubSeq(o, i + 1, Len(o))
<1>1. /\ a \in Seq(S) /\ Len(a) = i - 1 /\ \A j \in 1 .. Len(a) : a[j] = o[j]
  OBVIOUS
<1>2. /\ b \in Seq(S) /\ Len(b) = Len(o) - i /\ \A j \in 1 .. Len(b) : b[j] = o[j + i]
  OBVIOUS
<1> HIDE DEF a, b
<1>3. /\ a \o b \in Seq(S) /\ Len(a \o b) = Len(a) + Len(b)
      /\ \A j \in 1 .. Len(a) + Len(b) :
            (a \o b)[j] = IF j <= Len(a) THEN a[j] ELSE b[j - Len(a)]
  BY <1>1, <1>2, ConcatProperties
<1>4. ASSUME NEW j \in 1 .. Len(a \o b) PROVE (a \o b)[j] = IF j < i THEN o[j] ELSE o[j + 1]
  <2>1. CASE j < i
    BY <1>1, <1>2, <1>3, <2>1
  <2>2. CASE j >= i
    <3>1. j - Len(a) \in 1 .. Len(b) /\ b[j - Len(a)] = o[j + 1]
      BY <1>1, <1>2, <1>3, <2>2
    <3>. QED BY <1>1, <1>2, <1>3, <2>2, <3>1
  <2>. QED BY <2>1, <2>2
<1>5. Len(a \o b) = Len(o) - 1
  BY <1>1, <1>2, <1>3
<1>. QED BY <1>3, <1>4, <1>5 DEF a, b

\* A popped key is gone, and the others keep their order.
LEMMA WithoutPops ==
    ASSUME NEW S, NEW o \in Recency(S), NEW key
    PROVE  /\ Without(o, key) \in Recency(S)
           /\ Among(Without(o, key)) = Among(o) \ {key}
           /\ Len(Without(o, key)) <= Len(o)
<1> DEFINE at == CHOOSE i \in DOMAIN o : o[i] = key
           w == SubSeq(o, 1, at - 1) \o SubSeq(o, at + 1, Len(o))
<1>1. /\ o \in Seq(S) /\ Len(o) \in Nat /\ DOMAIN o = 1 .. Len(o)
      /\ \A i \in 1 .. Len(o) : o[i] \in S
      /\ \A i, j \in 1 .. Len(o) : o[i] = o[j] => i = j
  BY RecencyDef
<1>2. CASE ~Held(o, key)
  BY <1>1, <1>2 DEF Held, Without, Among
<1>3. CASE Held(o, key)
  <2>1. Without(o, key) = w
    BY <1>3 DEF Without
  <2>2. at \in 1 .. Len(o) /\ o[at] = key
    BY <1>1, <1>3 DEF Held
  <2> HIDE DEF at
  <2>3. /\ w \in Seq(S) /\ Len(w) = Len(o) - 1
        /\ \A i \in 1 .. Len(w) : w[i] = IF i < at THEN o[i] ELSE o[i + 1]
    BY <1>1, <2>2, CutOut
  <2> HIDE DEF w
  <2>4. w \in Recency(S)
    BY <1>1, <2>2, <2>3 DEF Recency
  <2>5. Among(w) \subseteq Among(o) \ {key}
    BY <1>1, <2>2, <2>3 DEF Among
  <2>6. ASSUME NEW i \in 1 .. Len(o), o[i] # key PROVE o[i] \in Among(w)
    <3>1. CASE i < at
      BY <1>1, <2>2, <2>3, <3>1 DEF Among
    <3>2. CASE i > at
      <4>1. i - 1 \in 1 .. Len(w) /\ w[i - 1] = o[i]
        BY <1>1, <2>2, <2>3, <3>2
      <4>. QED BY <4>1 DEF Among
    <3>. QED BY <1>1, <2>2, <2>6, <3>1, <3>2
  <2>7. Among(w) = Among(o) \ {key}
    BY <2>5, <2>6 DEF Among
  <2>. QED BY <1>1, <2>1, <2>3, <2>4, <2>7
<1>. QED BY <1>2, <1>3

\* Touching creates or moves the key, keeps the dict within its cap, and pops
\* the oldest keys only, never the touched one.
LEMMA TouchKeeps ==
    ASSUME NEW S, NEW o \in Recency(S), NEW key \in S, NEW cap \in Nat \ {0}, Len(o) <= cap
    PROVE  /\ Touched(o, key, TRUE, cap) \in Recency(S)
           /\ Len(Touched(o, key, TRUE, cap)) <= cap
           /\ Evicted(o, key, TRUE, cap) \subseteq Among(o) \ {key}
           /\ Among(Touched(o, key, TRUE, cap)) =
                (Among(o) \cup {key}) \ Evicted(o, key, TRUE, cap)
<1> DEFINE w == Without(o, key)
           m == Moved(o, key, TRUE)
           over == IF Len(m) > cap THEN Len(m) - cap ELSE 0
           t == Touched(o, key, TRUE, cap)
<1>1. /\ w \in Recency(S) /\ Among(w) = Among(o) \ {key} /\ Len(w) <= Len(o)
      /\ Len(o) \in Nat /\ Len(w) \in Nat /\ w \in Seq(S)
      /\ \A i, j \in 1 .. Len(w) : w[i] = w[j] => i = j
  BY WithoutPops, RecencyDef
<1>2. m = Append(w, key)
  BY DEF Moved
<1> HIDE DEF w, m
<1>3. /\ m \in Seq(S) /\ Len(m) = Len(w) + 1 /\ m[Len(m)] = key
      /\ \A i \in 1 .. Len(w) : m[i] = w[i]
  BY <1>1, <1>2
<1>4. \A i \in 1 .. Len(w) : m[i] \in Among(w) /\ m[i] # key
  BY <1>1, <1>3 DEF Among
<1>5. ASSUME NEW i \in 1 .. Len(m), NEW j \in 1 .. Len(m), m[i] = m[j] PROVE i = j
  <2>1. i \in 1 .. Len(w) \/ i = Len(m)
    BY <1>1, <1>3
  <2>2. j \in 1 .. Len(w) \/ j = Len(m)
    BY <1>1, <1>3
  <2>. QED BY <1>1, <1>3, <1>4, <1>5, <2>1, <2>2
<1>6. over \in Nat /\ over <= Len(w) /\ Len(m) - over <= cap
  BY <1>1, <1>3
<1>7. /\ Evicted(o, key, TRUE, cap) = {m[i] : i \in 1 .. over}
      /\ t = IF Len(m) > cap THEN SubSeq(m, Len(m) - cap + 1, Len(m)) ELSE m
  BY DEF Evicted, Touched, m
<1> HIDE DEF t
<1>8. /\ t \in Seq(S) /\ Len(t) = Len(m) - over
      /\ \A i \in 1 .. Len(t) : t[i] = m[i + over]
  <2>1. CASE Len(m) > cap
    <3>1. /\ t = SubSeq(m, Len(m) - cap + 1, Len(m)) /\ over = Len(m) - cap
          /\ Len(m) - cap + 1 \in 1 .. Len(m)
      BY <1>1, <1>3, <1>7, <2>1
    <3>2. \A i \in Len(m) - cap + 1 .. Len(m) : m[i] \in S
      BY <1>1, <1>3, <3>1
    <3> DEFINE lo == Len(m) - cap + 1
               hi == Len(m)
    <3>3. lo \in Int /\ hi \in Int /\ lo <= hi /\ hi - lo + 1 = Len(m) - over
      <4>1. Len(m) \in Int /\ over = Len(m) - cap /\ Len(m) > cap
        BY <1>1, <1>3, <2>1, <3>1
      <4>. QED BY <4>1
    <3>4. \A i \in 1 .. hi - lo + 1 : i + over = lo + i - 1
      <4>1. lo = over + 1
        <5>1. Len(m) \in Int /\ over = Len(m) - cap
          BY <1>1, <1>3, <3>1
        <5>. QED BY <5>1
      <4>. QED BY <1>6, <3>3, <4>1
    <3> HIDE DEF lo, hi
    <3>5. /\ SubSeq(m, lo, hi) \in Seq(S)
          /\ Len(SubSeq(m, lo, hi)) = IF lo <= hi THEN hi - lo + 1 ELSE 0
          /\ \A i \in 1 .. hi - lo + 1 : SubSeq(m, lo, hi)[i] = m[lo + i - 1]
      BY <3>2, <3>3, SubSeqProperties DEF lo, hi
    <3>6. t = SubSeq(m, lo, hi)
      BY <3>1 DEF lo, hi
    <3>7. Len(t) = Len(m) - over
      BY <3>3, <3>5, <3>6
    <3>8. \A i \in 1 .. Len(t) : i \in 1 .. hi - lo + 1
      BY <3>3, <3>7
    <3>. QED BY <3>4, <3>5, <3>6, <3>7, <3>8
  <2>2. CASE ~(Len(m) > cap)
    BY <1>1, <1>3, <1>7, <2>2
  <2>. QED BY <2>1, <2>2
<1> HIDE DEF over
<1>9. t \in Recency(S) /\ Len(t) <= cap
  <2>1. ASSUME NEW i \in 1 .. Len(t), NEW j \in 1 .. Len(t), t[i] = t[j] PROVE i = j
    <3>1. i + over \in 1 .. Len(m) /\ j + over \in 1 .. Len(m)
      BY <1>1, <1>3, <1>6, <1>8
    <3>3. m[i + over] = m[j + over]
      BY <1>8, <2>1
    <3>2. i + over = j + over
      BY <3>1, <3>3, <1>5
    <3>. QED BY <3>2, <1>6
  <2>. QED BY <1>6, <1>8, <2>1 DEF Recency
<1>10. Evicted(o, key, TRUE, cap) \subseteq Among(o) \ {key}
  <2>1. \A i \in 1 .. over : i \in 1 .. Len(w)
    BY <1>1, <1>6
  <2>. QED BY <1>1, <1>4, <1>7, <2>1
<1>11. Among(t) = {m[i] : i \in 1 .. Len(m)} \ {m[i] : i \in 1 .. over}
  <2>1. ASSUME NEW i \in 1 .. Len(t) PROVE t[i] \in {m[j] : j \in 1 .. Len(m)} \ {m[j] : j \in 1 .. over}
    <3>1. i + over \in 1 .. Len(m) /\ i + over \notin 1 .. over /\ t[i] = m[i + over]
      BY <1>3, <1>6, <1>8
    <3>. QED BY <1>3, <1>5, <1>6, <3>1
  <2>2. ASSUME NEW j \in 1 .. Len(m), j \notin 1 .. over PROVE m[j] \in Among(t)
    <3>1. j - over \in 1 .. Len(t) /\ t[j - over] = m[j]
      BY <1>3, <1>6, <1>8, <2>2
    <3>. QED BY <3>1 DEF Among
  <2>. QED BY <2>1, <2>2 DEF Among
<1>12. {m[i] : i \in 1 .. Len(m)} = Among(o) \cup {key}
  <2>1. {m[i] : i \in 1 .. Len(m)} = Among(w) \cup {key}
    BY <1>1, <1>3 DEF Among
  <2>. QED BY <1>1, <2>1
<1>. QED BY <1>7, <1>9, <1>10, <1>11, <1>12 DEF t
=============================================================================
