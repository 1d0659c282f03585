----------------------------- MODULE SequenceFacts -----------------------------
(***************************************************************************)
(* Numbers and sequences: what the proofs about several modules need.      *)
(***************************************************************************)
EXTENDS Integers, SequencesExt, FiniteSetsExt, SequenceTheorems, FiniteSetTheorems, WellFoundedInduction, TLAPS

-----------------------------------------------------------------------------
(* Least and greatest numbers.                                             *)
LEMMA LeastNatural ==
    ASSUME NEW S \in SUBSET Nat, S # {}
    PROVE  \E m \in S : \A k \in S : m <= k
<1>1. \E m \in S : \A k \in S : ~(<<k, m>> \in OpToRel(<, Nat))
  BY NatLessThanWellFounded, WFMin
<1>2. PICK m \in S : \A k \in S : ~(<<k, m>> \in OpToRel(<, Nat))
  BY <1>1
<1>3. ASSUME NEW k \in S PROVE m <= k
  <2>1. <<k, m>> \in Nat \X Nat /\ ~(<<k, m>> \in OpToRel(<, Nat))
    BY <1>2
  <2>2. ~(k < m)
    BY <2>1 DEF OpToRel
  <2> QED
    BY <2>2
<1> QED
  BY <1>3

LEMMA MinNatural ==
    ASSUME NEW S \in SUBSET Nat, S # {}
    PROVE  Min(S) \in S /\ \A k \in S : Min(S) <= k
BY LeastNatural DEF Min

LEMMA MaxBounded ==
    ASSUME NEW n \in Nat, NEW S \in SUBSET (0 .. n), S # {}
    PROVE  Max(S) \in S /\ \A k \in S : k <= Max(S)
<1> DEFINE T == {m \in Nat : \A k \in S : k <= m}
<1>1. T \in SUBSET Nat /\ n \in T
  OBVIOUS
<1>2. PICK m \in T : \A k \in T : m <= k
  BY <1>1, LeastNatural
<1>3. m \in S
  <2> SUFFICES ASSUME m \notin S PROVE FALSE
    OBVIOUS
  <2>1. PICK s \in S : TRUE
    OBVIOUS
  <2>2. m > 0 /\ m - 1 \in Nat
    BY <2>1
  <2>3. m - 1 \in T
    BY <2>2
  <2> QED
    BY <1>2, <2>3
<1>4. m \in S /\ \A k \in S : m >= k
  BY <1>3
<1> QED
  BY <1>4 DEF Max

(* Finitely many integers have a greatest.                                 *)
LEMMA GreatestAmong ==
    ASSUME NEW n \in Nat, NEW P \in SUBSET (1 .. n), P # {}, NEW f, \A i \in P : f[i] \in Int
    PROVE  \E i \in P : \A j \in P : f[j] <= f[i]
<1> DEFINE Has(m) == P \cap (1 .. m) # {} =>
                         \E i \in P \cap (1 .. m) : \A j \in P \cap (1 .. m) : f[j] <= f[i]
           lacking == {m \in 0 .. n : ~Has(m)}
<1>1. Has(0)
  OBVIOUS
<1>2. ASSUME NEW m \in 1 .. n, Has(m - 1) PROVE Has(m)
  <2> DEFINE Q == P \cap (1 .. m - 1)
  <2>1. 1 .. m = (1 .. m - 1) \cup {m}
    OBVIOUS
  <2>2. CASE m \notin P
    <3>1. P \cap (1 .. m) = Q
      BY <2>1, <2>2
    <3> QED
      BY <1>2, <3>1
  <2>3. CASE m \in P
    <3>1. P \cap (1 .. m) = Q \cup {m}
      BY <2>1, <2>3
    <3>2. CASE Q = {}
      BY <2>3, <3>1, <3>2
    <3>3. CASE Q # {}
      <4>1. PICK i \in Q : \A j \in Q : f[j] <= f[i]
        BY <1>2, <3>3
      <4>2. f[i] \in Int /\ f[m] \in Int /\ \A j \in Q : f[j] \in Int
        BY <2>3
      <4> HIDE DEF Q
      <4>3. CASE f[m] <= f[i]
        BY <3>1, <4>1, <4>3
      <4>4. CASE f[i] <= f[m]
        <5>1. \A j \in Q : f[j] <= f[m]
          BY <4>1, <4>2, <4>4
        <5> QED
          BY <3>1, <4>2, <5>1
      <4> QED
        BY <4>2, <4>3, <4>4
    <3> QED
      BY <3>2, <3>3
  <2> QED
    BY <2>2, <2>3
<1> HIDE DEF Has
<1>3. lacking = {}
  <2> SUFFICES ASSUME lacking # {} PROVE FALSE
    OBVIOUS
  <2>1. lacking \in SUBSET Nat
    OBVIOUS
  <2>2. PICK m \in lacking : \A k \in lacking : m <= k
    BY <2>1, LeastNatural
  <2>3. m \in 1 .. n
    BY <1>1, <2>2
  <2>4. m - 1 \notin lacking /\ m - 1 \in 0 .. n
    BY <2>2, <2>3
  <2>5. Has(m - 1)
    BY <2>4
  <2> QED
    BY <1>2, <2>2, <2>3, <2>5
<1>4. Has(n)
  <2>1. n \in 0 .. n /\ n \notin lacking
    BY <1>3
  <2> QED
    BY <2>1
<1>5. P \cap (1 .. n) = P
  OBVIOUS
<1> QED
  BY <1>4, <1>5 DEF Has

(* Finitely many natural numbers have a bound.                             *)
LEMMA BoundedFcn ==
    ASSUME NEW n \in Nat, NEW f \in [1 .. n -> Nat]
    PROVE  \E b \in Nat : \A i \in 1 .. n : f[i] <= b
<1> DEFINE Bounded(l) == \E b \in Nat : \A i \in 1 .. l : f[i] <= b
           Unbounded  == {l \in 0 .. n : ~Bounded(l)}
<1>1. Bounded(0)
  <2>1. \A i \in 1 .. 0 : f[i] <= 0
    OBVIOUS
  <2> QED
    BY <2>1
<1>2. ASSUME NEW l \in 1 .. n, Bounded(l - 1) PROVE Bounded(l)
  <2>1. PICK b \in Nat : \A i \in 1 .. l - 1 : f[i] <= b
    BY <1>2
  <2>2. f[l] \in Nat
    OBVIOUS
  <2>3. CASE f[l] <= b
    <3>1. \A i \in 1 .. l : f[i] <= b
      BY <2>1, <2>3
    <3> QED
      BY <3>1
  <2>4. CASE b <= f[l]
    <3>1. \A i \in 1 .. l : f[i] <= f[l]
      BY <2>1, <2>4
    <3> QED
      BY <2>2, <3>1
  <2> QED
    BY <2>2, <2>3, <2>4
<1> HIDE DEF Bounded
<1>3. Unbounded = {}
  <2> SUFFICES ASSUME Unbounded # {} PROVE FALSE
    OBVIOUS
  <2>1. Unbounded \in SUBSET Nat
    OBVIOUS
  <2>2. PICK l \in Unbounded : \A k \in Unbounded : l <= k
    BY <2>1, LeastNatural
  <2>3. l \in 1 .. n
    BY <1>1, <2>2
  <2>4. l - 1 \notin Unbounded
    BY <2>2, <2>3
  <2>5. Bounded(l - 1)
    BY <2>3, <2>4
  <2> QED
    BY <1>2, <2>2, <2>3, <2>5
<1>4. Bounded(n)
  BY <1>3
<1> QED
  BY <1>4 DEF Bounded

-----------------------------------------------------------------------------
(* Sequences of anything, and their elements.                              *)
Listed(s) == s \in Seq(ToSet(s))

LEMMA SeqElements ==
    ASSUME NEW S, NEW s \in Seq(S)
    PROVE  /\ Listed(s) /\ ToSet(s) \subseteq S
           /\ Len(s) \in Nat /\ DOMAIN s = 1 .. Len(s)
           /\ ToSet(s) = {s[i] : i \in 1 .. Len(s)}
<1>1. Len(s) \in Nat /\ s \in [1 .. Len(s) -> S] /\ DOMAIN s = 1 .. Len(s)
  BY LenProperties
<1>2. ToSet(s) = {s[i] : i \in 1 .. Len(s)}
  BY <1>1 DEF ToSet
<1>3. s \in [1 .. Len(s) -> ToSet(s)]
  BY <1>1, <1>2
<1>4. s \in Seq(ToSet(s))
  BY <1>1, <1>3, SeqDef
<1> QED
  BY <1>1, <1>2, <1>4 DEF Listed

LEMMA FunctionSeq ==
    ASSUME NEW n \in Nat, NEW S, NEW f \in [1 .. n -> S]
    PROVE  f \in Seq(S) /\ Len(f) = n
OBVIOUS

LEMMA AppendElements ==
    ASSUME NEW s, Listed(s), NEW x
    PROVE  Listed(Append(s, x)) /\ ToSet(Append(s, x)) = ToSet(s) \cup {x}
<1> DEFINE S == ToSet(s) \cup {x}
<1>1. s \in Seq(S)
  BY SeqMonotonic DEF Listed
<1>2. Append(s, x) \in Seq(S)
  BY <1>1, AppendProperties
<1>3. Len(Append(s, x)) = Len(s) + 1 /\ Append(s, x)[Len(s) + 1] = x
      /\ \A i \in 1 .. Len(s) : Append(s, x)[i] = s[i]
  BY <1>1, AppendProperties
<1>4. ToSet(Append(s, x)) = {Append(s, x)[i] : i \in 1 .. Len(s) + 1} /\ Listed(Append(s, x))
  BY <1>2, <1>3, SeqElements
<1>5. ToSet(s) = {s[i] : i \in 1 .. Len(s)} /\ Len(s) \in Nat
  BY <1>1, SeqElements
<1> HIDE DEF S
<1> QED
  BY <1>3, <1>4, <1>5

LEMMA AppendedAlike ==
    ASSUME NEW s, NEW t, Listed(s), Listed(t), NEW x, NEW y, Append(s, x) = Append(t, y)
    PROVE  s = t /\ x = y
<1> DEFINE S == ToSet(s) \cup ToSet(t) \cup {x, y}
<1>1. s \in Seq(S) /\ t \in Seq(S) /\ x \in S /\ y \in S
  BY SeqMonotonic DEF Listed
<1> HIDE DEF S
<1>2. /\ Len(Append(s, x)) = Len(s) + 1 /\ Append(s, x)[Len(s) + 1] = x
      /\ \A i \in 1 .. Len(s) : Append(s, x)[i] = s[i]
      /\ Len(Append(t, y)) = Len(t) + 1 /\ Append(t, y)[Len(t) + 1] = y
      /\ \A i \in 1 .. Len(t) : Append(t, y)[i] = t[i]
      /\ Len(s) \in Nat /\ Len(t) \in Nat
  BY <1>1, AppendProperties, LenProperties
<1>3. Len(s) = Len(t)
  BY <1>2
<1>4. x = y /\ \A i \in 1 .. Len(s) : s[i] = t[i]
  BY <1>2, <1>3
<1> QED
  BY <1>1, <1>3, <1>4, SeqEqual

LEMMA ConcatElements ==
    ASSUME NEW S, NEW s \in Seq(S), NEW t \in Seq(S)
    PROVE  s \o t \in Seq(S) /\ ToSet(s \o t) = ToSet(s) \cup ToSet(t)
<1>1. /\ s \o t \in Seq(S) /\ Len(s \o t) = Len(s) + Len(t)
      /\ \A i \in 1 .. Len(s) + Len(t) : (s \o t)[i] = IF i <= Len(s) THEN s[i] ELSE t[i - Len(s)]
  BY ConcatProperties
<1>2. /\ ToSet(s) = {s[i] : i \in 1 .. Len(s)} /\ Len(s) \in Nat
      /\ ToSet(t) = {t[i] : i \in 1 .. Len(t)} /\ Len(t) \in Nat
      /\ ToSet(s \o t) = {(s \o t)[i] : i \in 1 .. Len(s) + Len(t)}
  BY <1>1, SeqElements
<1>3. ASSUME NEW i \in 1 .. Len(s) PROVE i \in 1 .. Len(s) + Len(t) /\ (s \o t)[i] = s[i]
  BY <1>1, <1>2
<1>4. ASSUME NEW i \in 1 .. Len(t) PROVE Len(s) + i \in 1 .. Len(s) + Len(t) /\ (s \o t)[Len(s) + i] = t[i]
  <2>1. Len(s) + i \in 1 .. Len(s) + Len(t) /\ ~(Len(s) + i <= Len(s)) /\ (Len(s) + i) - Len(s) = i
    BY <1>2
  <2> QED
    BY <1>1, <2>1
<1>5. ASSUME NEW i \in 1 .. Len(s) + Len(t)
      PROVE  (s \o t)[i] \in ToSet(s) \cup ToSet(t)
  <2>1. CASE i <= Len(s)
    BY <1>1, <1>2, <2>1
  <2>2. CASE ~(i <= Len(s))
    <3>1. i - Len(s) \in 1 .. Len(t) /\ (s \o t)[i] = t[i - Len(s)]
      BY <1>1, <1>2, <2>2
    <3> QED
      BY <1>2, <3>1
  <2> QED
    BY <2>1, <2>2
<1>6. ASSUME NEW x \in ToSet(s) PROVE x \in ToSet(s \o t)
  <2>1. PICK i \in 1 .. Len(s) : x = s[i]
    BY <1>2
  <2>2. i \in 1 .. Len(s) + Len(t) /\ (s \o t)[i] = x
    BY <1>3, <2>1
  <2> QED
    BY <1>2, <2>2
<1>7. ASSUME NEW x \in ToSet(t) PROVE x \in ToSet(s \o t)
  <2>1. PICK i \in 1 .. Len(t) : x = t[i]
    BY <1>2
  <2>2. Len(s) + i \in 1 .. Len(s) + Len(t) /\ (s \o t)[Len(s) + i] = x
    BY <1>4, <2>1
  <2> QED
    BY <1>2, <2>2
<1>8. ToSet(s \o t) \subseteq ToSet(s) \cup ToSet(t)
  BY <1>2, <1>5
<1> QED
  BY <1>1, <1>6, <1>7, <1>8

LEMMA ListsJoined ==
    ASSUME NEW s, NEW t, Listed(s), Listed(t)
    PROVE  /\ Listed(s \o t) /\ ToSet(s \o t) = ToSet(s) \cup ToSet(t)
           /\ Len(s) \in Nat /\ Len(t) \in Nat /\ Len(s \o t) = Len(s) + Len(t)
           /\ \A i \in 1 .. Len(s) : (s \o t)[i] = s[i] /\ s[i] \in ToSet(s)
           /\ \A i \in Len(s) + 1 .. Len(s) + Len(t) : (s \o t)[i] = t[i - Len(s)] /\ t[i - Len(s)] \in ToSet(t)
<1> DEFINE S == ToSet(s) \cup ToSet(t)
<1>1. s \in Seq(S) /\ t \in Seq(S)
  BY SeqMonotonic DEF Listed
<1> HIDE DEF S
<1>2. s \o t \in Seq(S) /\ ToSet(s \o t) = ToSet(s) \cup ToSet(t)
  BY <1>1, ConcatElements
<1>3. Listed(s \o t)
  BY <1>2, SeqElements
<1>4. /\ Len(s) \in Nat /\ Len(t) \in Nat
      /\ \A i \in 1 .. Len(s) : s[i] \in ToSet(s)
      /\ \A i \in 1 .. Len(t) : t[i] \in ToSet(t)
  BY <1>1, SeqElements
<1>5. /\ Len(s \o t) = Len(s) + Len(t)
      /\ \A i \in 1 .. Len(s) + Len(t) : (s \o t)[i] = IF i <= Len(s) THEN s[i] ELSE t[i - Len(s)]
  BY <1>1, ConcatProperties
<1> QED
  BY <1>2, <1>3, <1>4, <1>5

LEMMA ReverseElements ==
    ASSUME NEW S, NEW s \in Seq(S)
    PROVE  Reverse(s) \in Seq(S) /\ ToSet(Reverse(s)) = ToSet(s)
<1>1. /\ Len(s) \in Nat /\ ToSet(s) = {s[i] : i \in 1 .. Len(s)}
      /\ \A i \in 1 .. Len(s) : s[i] \in S
  BY SeqElements, ElementOfSeq
<1>2. \A i \in 1 .. Len(s) : (Len(s) - i) + 1 \in 1 .. Len(s) /\ (Len(s) - ((Len(s) - i) + 1)) + 1 = i
  BY <1>1
<1>3. Reverse(s) \in [1 .. Len(s) -> S]
  BY <1>1, <1>2 DEF Reverse
<1>4. Reverse(s) \in Seq(S) /\ Len(Reverse(s)) = Len(s)
  BY <1>1, <1>3, FunctionSeq
<1>5. ToSet(Reverse(s)) = {Reverse(s)[i] : i \in 1 .. Len(s)}
  BY <1>4, SeqElements
<1>6. \A i \in 1 .. Len(s) : Reverse(s)[i] = s[(Len(s) - i) + 1]
  BY DEF Reverse
<1>7. ASSUME NEW i \in 1 .. Len(s) PROVE s[i] \in ToSet(Reverse(s)) /\ Reverse(s)[i] \in ToSet(s)
  <2> DEFINE j == (Len(s) - i) + 1
  <2>1. j \in 1 .. Len(s) /\ (Len(s) - j) + 1 = i
    BY <1>2
  <2> HIDE DEF j
  <2>2. Reverse(s)[j] = s[i] /\ Reverse(s)[i] = s[j]
    BY <1>6, <2>1 DEF j
  <2> QED
    BY <1>1, <1>5, <2>1, <2>2
<1> QED
  BY <1>1, <1>4, <1>5, <1>7

LEMMA OneElement ==
    ASSUME NEW x
    PROVE  ToSet(<<x>>) = {x} /\ Listed(<<x>>)
<1>1. ToSet(<<x>>) = {x} /\ <<x>> \in Seq({x})
  BY DEF ToSet
<1> QED
  BY <1>1 DEF Listed

LEMMA NoElements == ToSet(<<>>) = {} /\ Listed(<<>>)
BY DEF ToSet, Listed

LEMMA TwoElements ==
    ASSUME NEW x, NEW y
    PROVE  ToSet(<<x, y>>) = {x, y} /\ Listed(<<x, y>>)
<1>1. ToSet(<<x, y>>) = {x, y} /\ <<x, y>> \in Seq({x, y})
  BY DEF ToSet
<1> QED
  BY <1>1 DEF Listed

-----------------------------------------------------------------------------
(* Sequences put one after another.                                        *)
Flattened(seqs, n, f) == f = [i \in 1 .. n |-> IF i = 1 THEN seqs[i] ELSE f[i - 1] \o seqs[i]]

LEMMA FlattenedExists ==
    ASSUME NEW seqs, NEW n \in Nat \ {0}
    PROVE  \E f : Flattened(seqs, n, f)
<1> DEFINE lacking == {k \in Nat \ {0} : ~ \E f : Flattened(seqs, k, f)}
<1>1. \E f : Flattened(seqs, 1, f)
  <2>1. Flattened(seqs, 1, [i \in 1 .. 1 |-> seqs[i]])
    BY DEF Flattened
  <2> QED
    BY <2>1
<1>2. ASSUME NEW k \in Nat \ {0}, NEW f, Flattened(seqs, k, f) PROVE \E g : Flattened(seqs, k + 1, g)
  <2> DEFINE g == [i \in 1 .. k + 1 |-> IF i = k + 1 THEN f[k] \o seqs[k + 1] ELSE f[i]]
  <2>1. ASSUME NEW i \in 1 .. k + 1 PROVE g[i] = IF i = 1 THEN seqs[i] ELSE g[i - 1] \o seqs[i]
    <3>1. CASE i = k + 1
      <4>1. g[k] = f[k] /\ i # 1 /\ i - 1 = k
        BY <3>1
      <4> QED
        BY <3>1, <4>1
    <3>2. CASE i # k + 1
      <4>1. i \in 1 .. k
        BY <3>2
      <4>2. f[i] = IF i = 1 THEN seqs[i] ELSE f[i - 1] \o seqs[i]
        BY <1>2, <4>1 DEF Flattened
      <4>3. g[i] = f[i]
        BY <3>2
      <4>4. i # 1 => g[i - 1] = f[i - 1]
        <5>1. i # 1 => i - 1 \in 1 .. k + 1 /\ i - 1 # k + 1
          BY <4>1
        <5> QED
          BY <5>1
      <4> QED
        BY <4>2, <4>3, <4>4
    <3> QED
      BY <3>1, <3>2
  <2>2. Flattened(seqs, k + 1, g)
    BY <2>1 DEF Flattened
  <2> QED
    BY <2>2
<1>3. lacking = {}
  <2> SUFFICES ASSUME lacking # {} PROVE FALSE
    OBVIOUS
  <2>1. lacking \in SUBSET Nat
    OBVIOUS
  <2>2. PICK k \in lacking : \A l \in lacking : k <= l
    BY <2>1, LeastNatural
  <2>3. k # 1 /\ k \in Nat \ {0}
    BY <1>1, <2>2
  <2>4. k - 1 \in Nat \ {0} /\ ~(k <= k - 1) /\ (k - 1) + 1 = k
    BY <2>3
  <2>5. k - 1 \notin lacking
    BY <2>2, <2>4
  <2>6. PICK f : Flattened(seqs, k - 1, f)
    BY <2>4, <2>5
  <2>7. \E g : Flattened(seqs, k, g)
    BY <1>2, <2>4, <2>6
  <2> QED
    BY <2>2, <2>7
<1> QED
  BY <1>3

LEMMA FlattenElements ==
    ASSUME NEW S, NEW seqs \in Seq(Seq(S))
    PROVE  /\ FlattenSeq(seqs) \in Seq(S)
           /\ ToSet(FlattenSeq(seqs)) = UNION {ToSet(seqs[i]) : i \in 1 .. Len(seqs)}
<1> DEFINE n      == Len(seqs)
           upTo(k) == UNION {ToSet(seqs[i]) : i \in 1 .. k}
<1>1. n \in Nat /\ \A i \in 1 .. n : seqs[i] \in Seq(S)
  BY ElementOfSeq, SeqElements
<1>2. CASE n = 0
  <2>1. seqs = <<>>
    BY <1>2
  <2>2. FlattenSeq(seqs) = <<>>
    BY <1>2, <2>1 DEF FlattenSeq
  <2>3. ToSet(<<>>) = {}
    BY DEF ToSet
  <2> QED
    BY <1>2, <2>2, <2>3
<1>3. CASE n # 0
  <2> DEFINE f     == CHOOSE g : Flattened(seqs, n, g)
             Right(k) == f[k] \in Seq(S) /\ ToSet(f[k]) = upTo(k)
             wrong == {k \in 1 .. n : ~Right(k)}
  <2>1. Flattened(seqs, n, f)
    BY <1>1, <1>3, FlattenedExists
  <2>2. FlattenSeq(seqs) = f[n]
    BY <1>3 DEF FlattenSeq, Flattened
  <2> HIDE DEF f
  <2>3. \A k \in 1 .. n : f[k] = IF k = 1 THEN seqs[k] ELSE f[k - 1] \o seqs[k]
    BY <2>1 DEF Flattened
  <2>4. Right(1)
    <3>1. 1 \in 1 .. n /\ 1 .. 1 = {1}
      BY <1>1, <1>3
    <3>2. f[1] = seqs[1] /\ seqs[1] \in Seq(S)
      BY <1>1, <2>3, <3>1
    <3>3. upTo(1) = ToSet(seqs[1])
      BY <3>1
    <3> QED
      BY <3>2, <3>3
  <2>5. ASSUME NEW k \in 2 .. n, Right(k - 1) PROVE Right(k)
    <3>1. k \in 1 .. n /\ k # 1 /\ 1 .. k = (1 .. k - 1) \cup {k}
      BY <1>1
    <3>2. f[k] = f[k - 1] \o seqs[k] /\ seqs[k] \in Seq(S)
      BY <1>1, <2>3, <3>1
    <3>3. f[k] \in Seq(S) /\ ToSet(f[k]) = ToSet(f[k - 1]) \cup ToSet(seqs[k])
      BY <2>5, <3>2, ConcatElements
    <3>4. upTo(k) = upTo(k - 1) \cup ToSet(seqs[k])
      BY <3>1
    <3> QED
      BY <2>5, <3>3, <3>4
  <2> HIDE DEF Right
  <2>6. wrong = {}
    <3> SUFFICES ASSUME wrong # {} PROVE FALSE
      OBVIOUS
    <3>1. wrong \in SUBSET Nat
      OBVIOUS
    <3>2. PICK k \in wrong : \A l \in wrong : k <= l
      BY <3>1, LeastNatural
    <3>3. k \in 1 .. n /\ k # 1 /\ ~Right(k)
      BY <2>4, <3>2
    <3>4. k \in 2 .. n /\ k - 1 \in 1 .. n /\ ~(k <= k - 1)
      BY <1>1, <3>3
    <3>5. Right(k - 1)
      BY <3>2, <3>4
    <3> QED
      BY <2>5, <3>3, <3>4, <3>5
  <2>7. n \in 1 .. n
    BY <1>1, <1>3
  <2>8. Right(n)
    BY <2>6, <2>7
  <2> QED
    BY <2>2, <2>8 DEF Right
<1> QED
  BY <1>2, <1>3

(* A sequence cut into its elements, put together again.                   *)
LEMMA FlattenOnes ==
    ASSUME NEW s, Listed(s), NEW ones, ones = [i \in 1 .. Len(s) |-> <<s[i]>>]
    PROVE  FlattenSeq(ones) = s
<1> DEFINE n == Len(s)
<1>1. n \in Nat /\ DOMAIN s = 1 .. n /\ s = [i \in 1 .. n |-> s[i]] /\ s \in Seq(ToSet(s))
  BY SeqElements, LenProperties DEF Listed
<1>2. Len(ones) = n /\ \A i \in 1 .. n : ones[i] = <<s[i]>>
  BY <1>1
<1>3. CASE n = 0
  <2>1. s = <<>> /\ ones = <<>>
    BY <1>1, <1>3
  <2> QED
    BY <2>1 DEF FlattenSeq
<1>4. CASE n # 0
  <2> DEFINE f     == CHOOSE g : Flattened(ones, n, g)
             Right(k) == f[k] = SubSeq(s, 1, k)
             wrong == {k \in 1 .. n : ~Right(k)}
  <2>1. Flattened(ones, n, f)
    BY <1>1, <1>4, FlattenedExists
  <2>2. FlattenSeq(ones) = f[n]
    BY <1>2, <1>4 DEF FlattenSeq, Flattened
  <2> HIDE DEF f
  <2>3. \A k \in 1 .. n : f[k] = IF k = 1 THEN ones[k] ELSE f[k - 1] \o ones[k]
    BY <2>1 DEF Flattened
  <2>4. Right(1)
    <3>1. f[1] = <<s[1]>> /\ 1 \in 1 .. n
      BY <1>1, <1>2, <1>4, <2>3
    <3> DEFINE t == SubSeq(s, 1, 1)
               u == <<s[1]>>
    <3>2. Len(t) = 1 /\ t[1] = s[1] /\ t \in Seq(ToSet(s))
      BY <1>1, <3>1
    <3>3. Len(u) = 1 /\ u[1] = s[1] /\ u \in Seq(ToSet(s))
      BY <1>1, <3>1, ElementOfSeq
    <3> HIDE DEF t, u
    <3>4. t = u
      BY <3>2, <3>3, SeqEqual
    <3> QED
      BY <3>1, <3>4 DEF t, u
  <2>5. ASSUME NEW k \in 2 .. n, Right(k - 1) PROVE Right(k)
    <3>1. k \in 1 .. n /\ k # 1
      BY <1>1
    <3>2. f[k] = SubSeq(s, 1, k - 1) \o <<s[k]>>
      BY <1>2, <2>3, <2>5, <3>1
    <3>3. SubSeq(s, 1, k - 1) \o <<s[k]>> = SubSeq(s, 1, k)
      BY <1>1, <3>1
    <3> QED
      BY <3>2, <3>3
  <2> HIDE DEF Right
  <2>6. wrong = {}
    <3> SUFFICES ASSUME wrong # {} PROVE FALSE
      OBVIOUS
    <3>1. wrong \in SUBSET Nat
      OBVIOUS
    <3>2. PICK k \in wrong : \A l \in wrong : k <= l
      BY <3>1, LeastNatural
    <3>3. k \in 1 .. n /\ k # 1 /\ ~Right(k)
      BY <2>4, <3>2
    <3>4. k \in 2 .. n /\ k - 1 \in 1 .. n /\ ~(k <= k - 1)
      BY <1>1, <3>3
    <3>5. Right(k - 1)
      BY <3>2, <3>4
    <3> QED
      BY <2>5, <3>3, <3>4, <3>5
  <2>7. Right(n)
    BY <1>1, <1>4, <2>6
  <2>8. SubSeq(s, 1, n) = s
    BY <1>1
  <2> QED
    BY <2>2, <2>7, <2>8 DEF Right
<1> QED
  BY <1>1, <1>3, <1>4

(* A sequence put together of parts that are sequences has their elements. *)
LEMMA Collected ==
    ASSUME NEW n \in Nat, NEW parts, \A i \in 1 .. n : Listed(parts[i]), parts = [i \in 1 .. n |-> parts[i]]
    PROVE  /\ Listed(FlattenSeq(parts))
           /\ ToSet(FlattenSeq(parts)) = UNION {ToSet(parts[i]) : i \in 1 .. n}
<1> DEFINE S == UNION {ToSet(parts[i]) : i \in 1 .. n}
<1>1. \A i \in 1 .. n : parts[i] \in Seq(S)
  <2> SUFFICES ASSUME NEW i \in 1 .. n PROVE parts[i] \in Seq(S)
    OBVIOUS
  <2>1. ToSet(parts[i]) \subseteq S /\ parts[i] \in Seq(ToSet(parts[i]))
    BY DEF Listed
  <2> QED
    BY <2>1, SeqMonotonic
<1> HIDE DEF S
<1>2. parts \in [1 .. n -> Seq(S)]
  BY <1>1
<1>3. parts \in Seq(Seq(S)) /\ Len(parts) = n
  BY <1>2, FunctionSeq
<1>4. /\ FlattenSeq(parts) \in Seq(S)
      /\ ToSet(FlattenSeq(parts)) = UNION {ToSet(parts[i]) : i \in 1 .. Len(parts)}
  BY <1>3, FlattenElements
<1>5. Listed(FlattenSeq(parts))
  BY <1>4, SeqElements DEF Listed
<1> QED
  BY <1>3, <1>4, <1>5

LEMMA ListIs ==
    ASSUME NEW s, Listed(s)
    PROVE  Len(s) \in Nat /\ DOMAIN s = 1 .. Len(s) /\ ToSet(s) = {s[i] : i \in 1 .. Len(s)} /\ s = [i \in 1 .. Len(s) |-> s[i]]
<1>1. Len(s) \in Nat /\ DOMAIN s = 1 .. Len(s) /\ ToSet(s) = {s[i] : i \in 1 .. Len(s)}
  BY SeqElements DEF Listed
<1>2. s \in [1 .. Len(s) -> ToSet(s)]
  BY LenProperties DEF Listed
<1> QED
  BY <1>1, <1>2

(* The elements of a sequence that are in a set.                           *)
LEMMA Chosen ==
    ASSUME NEW s, Listed(s), NEW A
    PROVE  LET those == FlattenSeq([i \in DOMAIN s |-> IF s[i] \in A THEN <<s[i]>> ELSE <<>>])
           IN Listed(those) /\ ToSet(those) = ToSet(s) \cap A
<1> DEFINE parts == [i \in DOMAIN s |-> IF s[i] \in A THEN <<s[i]>> ELSE <<>>]
           n     == Len(s)
<1>1. n \in Nat /\ DOMAIN s = 1 .. n /\ ToSet(s) = {s[i] : i \in 1 .. n}
  BY ListIs
<1>2. ASSUME NEW i \in 1 .. n
      PROVE  Listed(parts[i]) /\ ToSet(parts[i]) = IF s[i] \in A THEN {s[i]} ELSE {}
  <2>1. CASE s[i] \in A
    <3>1. parts[i] = <<s[i]>>
      BY <1>1, <2>1
    <3>2. <<s[i]>> \in Seq({s[i]})
      OBVIOUS
    <3>3. ToSet(<<s[i]>>) = {s[i]}
      BY DEF ToSet
    <3> QED
      BY <2>1, <3>1, <3>2, <3>3 DEF Listed
  <2>2. CASE s[i] \notin A
    <3>1. parts[i] = <<>>
      BY <1>1, <2>2
    <3>2. ToSet(<<>>) = {} /\ <<>> \in Seq({})
      BY DEF ToSet
    <3> QED
      BY <2>2, <3>1, <3>2 DEF Listed
  <2> QED
    BY <2>1, <2>2
<1>3. parts = [i \in 1 .. n |-> parts[i]]
  BY <1>1
<1> HIDE DEF parts
<1>4. Listed(FlattenSeq(parts)) /\ ToSet(FlattenSeq(parts)) = UNION {ToSet(parts[i]) : i \in 1 .. n}
  BY <1>1, <1>2, <1>3, Collected
<1>5. UNION {ToSet(parts[i]) : i \in 1 .. n} = ToSet(s) \cap A
  BY <1>1, <1>2
<1> QED
  BY <1>4, <1>5 DEF parts

(* At most one element of each place.                                      *)
ValuesAt(n, P, f) == {f[i] : i \in (1 .. n) \cap P}

LEMMA Gathered ==
    ASSUME NEW n \in Nat, NEW P, NEW f, NEW parts, parts = [i \in 1 .. n |-> parts[i]],
           \A i \in 1 .. n : parts[i] = IF i \in P THEN <<f[i]>> ELSE <<>>
    PROVE  Listed(FlattenSeq(parts)) /\ ToSet(FlattenSeq(parts)) = ValuesAt(n, P, f)
<1>1. \A x : ToSet(<<x>>) = {x} /\ Listed(<<x>>)
  BY OneElement
<1>2. \A i \in 1 .. n : Listed(parts[i]) /\ ToSet(parts[i]) = IF i \in P THEN {f[i]} ELSE {}
  BY <1>1, NoElements
<1>3. Listed(FlattenSeq(parts)) /\ ToSet(FlattenSeq(parts)) = UNION {ToSet(parts[i]) : i \in 1 .. n}
  BY <1>2, Collected
<1>4. UNION {ToSet(parts[i]) : i \in 1 .. n} = ValuesAt(n, P, f)
  BY <1>2 DEF ValuesAt
<1> QED
  BY <1>3, <1>4

(* A sequence made element by element.                                     *)
LEMMA Indexed ==
    ASSUME NEW n \in Nat, NEW s, s = [i \in 1 .. n |-> s[i]]
    PROVE  Listed(s) /\ Len(s) = n /\ DOMAIN s = 1 .. n /\ ToSet(s) = {s[i] : i \in 1 .. n}
<1> DEFINE S == {s[i] : i \in 1 .. n}
<1>1. s \in [1 .. n -> S]
  OBVIOUS
<1> HIDE DEF S
<1>2. s \in Seq(S) /\ Len(s) = n
  BY <1>1, FunctionSeq
<1> QED
  BY <1>2, SeqElements

LEMMA OnlyElement ==
    ASSUME NEW s, Listed(s), Len(s) = 1
    PROVE  s = <<s[1]>> /\ ToSet(s) = {s[1]}
<1>1. s \in Seq(ToSet(s)) /\ DOMAIN s = 1 .. 1
  BY ListIs DEF Listed
<1>2. <<s[1]>> \in Seq(ToSet(s))
  BY <1>1
<1>3. s = <<s[1]>>
  <2> DEFINE u == <<s[1]>>
  <2>1. Len(u) = 1 /\ u[1] = s[1]
    OBVIOUS
  <2>2. \A i \in 1 .. Len(s) : s[i] = u[i]
    BY <2>1
  <2> HIDE DEF u
  <2>3. s = u
    BY <1>1, <1>2, <2>1, <2>2, SeqEqual DEF u
  <2> QED
    BY <2>3 DEF u
<1> QED
  BY <1>3, OneElement

LEMMA HeadAndTail ==
    ASSUME NEW s, Listed(s), s # <<>>
    PROVE  Head(s) \in ToSet(s) /\ Listed(Tail(s)) /\ ToSet(Tail(s)) \subseteq ToSet(s)
<1>1. s \in Seq(ToSet(s))
  BY DEF Listed
<1>2. Tail(s) \in Seq(ToSet(s)) /\ Head(s) \in ToSet(s)
  BY <1>1
<1> QED
  BY <1>2, SeqElements

(* A finite set in some order.                                             *)
LEMMA SetListed ==
    ASSUME NEW S, IsFiniteSet(S)
    PROVE  Listed(SetToSeq(S)) /\ ToSet(SetToSeq(S)) = S
<1> DEFINE n == Cardinality(S)
<1>1. n \in Nat /\ \E f : f \in Bijection(1 .. n, S)
  BY FS_CardinalityType DEF ExistsBijection
<1>2. PICK f : f \in Bijection(1 .. n, S)
  BY <1>1
<1>3. f \in [1 .. n -> S] /\ IsInjective(f)
  BY <1>2 DEF Bijection, Injection
<1>4. SetToSeq(S) \in [1 .. n -> S]
  BY <1>1, <1>3 DEF SetToSeq
<1>5. SetToSeq(S) \in Seq(S)
  BY <1>1, <1>4, FunctionSeq
<1>6. IsInjective(SetToSeq(S))
  BY <1>3 DEF SetToSeq
<1> DEFINE l == SetToSeq(S)
<1> HIDE DEF l
<1>7. l \in Injection(1 .. n, S)
  BY <1>4, <1>6 DEF l, Injection
<1>8. IsFiniteSet(1 .. n) /\ Cardinality(1 .. n) = n
  BY <1>1, FS_Interval
<1>9. l \in Surjection(1 .. n, S)
  BY <1>7, <1>8, FS_Injection
<1>10. \A x \in S : \E i \in 1 .. n : l[i] = x
  BY <1>9 DEF Surjection
<1>11. l \in [1 .. n -> S]
  BY <1>4 DEF l
<1>12. ToSet(l) = S
  BY <1>10, <1>11 DEF ToSet
<1> QED
  BY <1>5, <1>12, SeqElements DEF l

-----------------------------------------------------------------------------
(* What holds at first and from one number to the next holds of all.       *)
LEMMA StepByStep ==
    ASSUME NEW n \in Nat, NEW S, 0 \in S, \A i \in 1 .. n : i - 1 \in S => i \in S
    PROVE  \A i \in 0 .. n : i \in S
<1> DEFINE wrong == {i \in 0 .. n : i \notin S}
<1>1. wrong = {}
  <2> SUFFICES ASSUME wrong # {} PROVE FALSE
    OBVIOUS
  <2>1. wrong \in SUBSET Nat
    OBVIOUS
  <2>2. PICK i \in wrong : \A j \in wrong : i <= j
    BY <2>1, LeastNatural
  <2>3. i \in 1 .. n /\ i - 1 \in 0 .. n /\ i - 1 \notin wrong
    BY <2>2
  <2> QED
    BY <2>2, <2>3
<1> QED
  BY <1>1

(* One step after another: there is a function that says what comes of it. *)
Iterates(f, D, b, step, n) ==
    f \in [0 .. n -> D] /\ f[0] = b /\ \A i \in 1 .. n : f[i] = step[i][f[i - 1]]
Iterated(D, b, step, n) == \E f : Iterates(f, D, b, step, n)

LEMMA IteratedOnce ==
    ASSUME NEW n \in Nat, NEW D, NEW b, NEW step, NEW f, Iterates(f, D, b, step, n),
           step[n + 1] \in [D -> D]
    PROVE  Iterated(D, b, step, n + 1)
<1> DEFINE g == [i \in 0 .. n + 1 |-> IF i = n + 1 THEN step[n + 1][f[n]] ELSE f[i]]
<1>1. f \in [0 .. n -> D] /\ f[0] = b /\ \A i \in 1 .. n : f[i] = step[i][f[i - 1]]
  BY DEF Iterates
<1>2. step[n + 1][f[n]] \in D
  BY <1>1
<1>3. g \in [0 .. n + 1 -> D]
  BY <1>1, <1>2
<1>4. g[0] = b
  BY <1>1
<1>5. ASSUME NEW i \in 1 .. n + 1 PROVE g[i] = step[i][g[i - 1]]
  <2>1. i - 1 \in 0 .. n /\ i - 1 # n + 1 /\ i - 1 \in 0 .. n + 1
    OBVIOUS
  <2>2. g[i - 1] = f[i - 1]
    BY <2>1
  <2>3. CASE i = n + 1
    BY <2>2, <2>3
  <2>4. CASE i # n + 1
    <3>1. i \in 1 .. n /\ g[i] = f[i]
      BY <2>4
    <3> QED
      BY <1>1, <2>2, <3>1
  <2> QED
    BY <2>3, <2>4
<1> QED
  BY <1>3, <1>4, <1>5 DEF Iterated, Iterates

LEMMA IterationExists ==
    ASSUME NEW n \in Nat, NEW D, NEW b \in D, NEW step, \A i \in 1 .. n : step[i] \in [D -> D]
    PROVE  Iterated(D, b, step, n)
<1> DEFINE S == {i \in 0 .. n : Iterated(D, b, step, i)}
<1>1. 0 \in S
  <2>1. Iterates([i \in 0 .. 0 |-> b], D, b, step, 0)
    BY DEF Iterates
  <2> QED
    BY <2>1 DEF Iterated
<1>2. ASSUME NEW i \in 1 .. n, i - 1 \in S PROVE i \in S
  <2>1. PICK f : Iterates(f, D, b, step, i - 1)
    BY <1>2 DEF Iterated
  <2>2. i - 1 \in Nat /\ (i - 1) + 1 = i
    OBVIOUS
  <2>3. step[(i - 1) + 1] \in [D -> D]
    BY <2>2
  <2>4. Iterated(D, b, step, (i - 1) + 1)
    BY <2>1, <2>2, <2>3, IteratedOnce
  <2> QED
    BY <2>2, <2>4
<1> HIDE DEF S
<1>3. n \in S
  BY <1>1, <1>2, StepByStep
<1> QED
  BY <1>3 DEF S
=============================================================================
