----------------------------- MODULE ListProofs -----------------------------
(***************************************************************************)
(* Lemmas about numbers and sequences that the proofs about threads use:   *)
(* the ends of sequences, and the chains of records and lists of threads   *)
(* of the collector, with an element linked or unlinked (RemoveFirst).     *)
(***************************************************************************)
EXTENDS Integers, Sequences, FiniteSets, SequencesExt, FiniteSetTheorems,
        WellFoundedInduction, TLAPS

-----------------------------------------------------------------------------
(* Numbers and sequences. *)

\* A set of natural numbers has a least element.
LEMMA LeastExists ==
  ASSUME NEW S \in SUBSET Nat, NEW x \in S
  PROVE  \E m \in S : \A n \in S : m <= n
<1> DEFINE below(n) == 1..n
           T == {below(n) : n \in S}
<1>1. \A n \in Nat : IsFiniteSet(1..n)
  BY FS_Interval
<1>2. T \subseteq FiniteSubsetsOf(Nat) /\ T # {}
  BY <1>1 DEF FiniteSubsetsOf
<1>3. PICK b \in T : \A y \in T : ~(<<y, b>> \in StrictSubsetOrdering(Nat))
  BY <1>2, FS_StrictSubsetOrderingWellFounded, WFMin
<1>4. PICK m \in S : b = 1..m
  BY <1>3
<1>5. ASSUME NEW n \in S, n < m PROVE FALSE
  <2>1. 1..n \in T
    OBVIOUS
  <2>2. 1..n \subseteq 1..m /\ m \in 1..m /\ m \notin 1..n
    BY <1>5
  <2>3. <<1..n, 1..m>> \in StrictSubsetOrdering(Nat)
    BY <2>2 DEF StrictSubsetOrdering
  <2> QED
    BY <2>1, <2>3, <1>3, <1>4
<1> QED
  BY <1>5

\* What Front, Append, Tail and putting in front give.
LEMMA FrontIs ==
  ASSUME NEW S, NEW s \in Seq(S), Len(s) > 0
  PROVE  /\ Front(s) \in Seq(S) /\ Len(Front(s)) = Len(s) - 1
         /\ \A j \in 1..Len(s) - 1 : Front(s)[j] = s[j]
<1>1. PICK n \in Nat : n = Len(s) - 1
  OBVIOUS
<1>2. Front(s) = [i \in 1..n |-> s[i]]
  BY <1>1 DEF Front
<1>3. \A i \in 1..n : s[i] \in S
  BY <1>1
<1>4. [i \in 1..n |-> s[i]] \in Seq(S)
  BY <1>3
<1>5. Len([i \in 1..n |-> s[i]]) = n
  BY <1>4
<1> QED
  BY <1>1, <1>2, <1>4, <1>5

LEMMA AppendIs ==
  ASSUME NEW S, NEW s \in Seq(S), NEW x \in S
  PROVE  /\ Append(s, x) \in Seq(S) /\ Len(Append(s, x)) = Len(s) + 1
         /\ Append(s, x)[Len(s) + 1] = x
         /\ \A j \in 1..Len(s) : Append(s, x)[j] = s[j]
OBVIOUS

LEMMA TailIs ==
  ASSUME NEW S, NEW s \in Seq(S), s # <<>>
  PROVE  /\ Tail(s) \in Seq(S) /\ Len(Tail(s)) = Len(s) - 1 /\ Len(s) >= 1
         /\ \A j \in 1..Len(s) - 1 : Tail(s)[j] = s[j + 1]
         /\ Head(s) = s[1]
OBVIOUS

LEMMA ConsIs ==
  ASSUME NEW S, NEW s \in Seq(S), NEW x \in S
  PROVE  /\ <<x>> \o s \in Seq(S) /\ Len(<<x>> \o s) = Len(s) + 1
         /\ (<<x>> \o s)[1] = x
         /\ \A j \in 1..Len(s) : (<<x>> \o s)[j + 1] = s[j]
         /\ \A j \in 2..Len(s) + 1 : (<<x>> \o s)[j] = s[j - 1]
OBVIOUS

(* Chains of records. *)

\* The elements of a chain.
LEMMA RangeIs ==
  ASSUME NEW S, NEW s \in Seq(S)
  PROVE  /\ \A x : x \in Range(s) <=> \E i \in 1..Len(s) : s[i] = x
         /\ Range(s) \subseteq S
         /\ IsInjective(s) <=> \A i, j \in 1..Len(s) : s[i] = s[j] => i = j
<1>1. DOMAIN s = 1..Len(s) /\ \A i \in 1..Len(s) : s[i] \in S
  OBVIOUS
<1> QED
  BY <1>1 DEF Range, IsInjective

\* A new element in front of a chain.
LEMMA LinkedIs ==
  ASSUME NEW S, NEW s \in Seq(S), NEW x \in S, x \notin Range(s), IsInjective(s)
  PROVE  /\ <<x>> \o s \in Seq(S) /\ IsInjective(<<x>> \o s)
         /\ Range(<<x>> \o s) = Range(s) \cup {x}
<1> DEFINE z == <<x>> \o s
<1>1. /\ z \in Seq(S) /\ Len(z) = Len(s) + 1 /\ z[1] = x /\ Len(s) \in Nat
      /\ \A j \in 1..Len(s) : z[j + 1] = s[j]
      /\ \A j \in 2..Len(s) + 1 : z[j] = s[j - 1]
  BY ConsIs
<1>2. \A i \in 1..Len(s) : s[i] # x
  BY RangeIs
<1>3. \A i, j \in 1..Len(s) : s[i] = s[j] => i = j
  BY RangeIs
<1> HIDE DEF z
<1>4. \A i \in 1..Len(z) : i = 1 \/ (i - 1 \in 1..Len(s) /\ z[i] = s[i - 1])
  BY <1>1
<1>5. IsInjective(z)
  <2>1. ASSUME NEW i \in 1..Len(z), NEW j \in 1..Len(z), z[i] = z[j] PROVE i = j
    <3>1. CASE i = 1 \/ j = 1
      BY <3>1, <2>1, <1>1, <1>2, <1>4
    <3>2. CASE i # 1 /\ j # 1
      <4>1. i - 1 \in 1..Len(s) /\ j - 1 \in 1..Len(s) /\ s[i - 1] = s[j - 1]
        BY <3>2, <2>1, <1>4
      <4>2. i - 1 = j - 1
        BY <4>1, <1>3
      <4> QED
        BY <4>2, <1>1
    <3> QED
      BY <3>1, <3>2
  <2> QED
    BY <2>1, <1>1, RangeIs
<1>6. ASSUME NEW y PROVE y \in Range(z) <=> y \in Range(s) \/ y = x
  <2>1. y \in Range(z) <=> \E i \in 1..Len(z) : z[i] = y
    BY <1>1, RangeIs
  <2>2. y \in Range(s) <=> \E i \in 1..Len(s) : s[i] = y
    BY RangeIs
  <2>3. ASSUME NEW i \in 1..Len(z), z[i] = y PROVE (\E k \in 1..Len(s) : s[k] = y) \/ y = x
    BY <2>3, <1>1, <1>4
  <2>4. ASSUME NEW i \in 1..Len(s), s[i] = y PROVE i + 1 \in 1..Len(z) /\ z[i + 1] = y
    BY <2>4, <1>1
  <2>5. 1 \in 1..Len(z) /\ z[1] = x
    BY <1>1
  <2> QED
    BY <2>1, <2>2, <2>3, <2>4, <2>5
<1> QED
  BY <1>1, <1>5, <1>6 DEF z

\* An element is taken out of a chain.
LEMMA RemovedIs ==
  ASSUME NEW S, NEW s \in Seq(S), NEW i \in 1..Len(s)
  PROVE  /\ RemoveAt(s, i) \in Seq(S) /\ Len(RemoveAt(s, i)) = Len(s) - 1
         /\ \A j \in 1..Len(s) - 1 : RemoveAt(s, i)[j] = IF j < i THEN s[j] ELSE s[j + 1]
<1> DEFINE a == SubSeq(s, 1, i - 1)
           b == SubSeq(s, i + 1, Len(s))
<1>1. a \in Seq(S) /\ Len(a) = i - 1 /\ \A j \in 1..i - 1 : a[j] = s[j]
  OBVIOUS
<1>2. b \in Seq(S) /\ Len(b) = Len(s) - i /\ \A j \in 1..Len(s) - i : b[j] = s[i + j]
  OBVIOUS
<1>3. RemoveAt(s, i) = a \o b
  BY DEF RemoveAt
<1>n. Len(s) \in Nat /\ i \in Nat /\ i >= 1 /\ i <= Len(s)
  OBVIOUS
<1> HIDE DEF a, b
<1>4. a \o b \in Seq(S) /\ Len(a \o b) = Len(s) - 1
  <2>0. a \in Seq(S) /\ b \in Seq(S)
    BY <1>1, <1>2
  <2>1. a \o b \in Seq(S) /\ Len(a \o b) = Len(a) + Len(b)
    BY <2>0
  <2>2. (i - 1) + (Len(s) - i) = Len(s) - 1
    BY <1>n
  <2> QED
    BY <2>1, <2>2, <1>1, <1>2
<1>5. ASSUME NEW j \in 1..Len(s) - 1
      PROVE  (a \o b)[j] = IF j < i THEN s[j] ELSE s[j + 1]
  <2>1. CASE j < i
    <3>1. j \in 1..i - 1
      BY <2>1, <1>n
    <3>2. (a \o b)[j] = a[j]
      BY <3>1, <1>1, <1>2
    <3> QED
      BY <3>1, <3>2, <1>1, <2>1
  <2>2. CASE ~(j < i)
    <3>1. j - (i - 1) \in 1..Len(s) - i /\ i + (j - (i - 1)) = j + 1
      BY <2>2, <1>n
    <3>2. (a \o b)[j] = b[j - (i - 1)]
      BY <3>1, <1>1, <1>2, <2>2, <1>n
    <3> QED
      BY <3>1, <3>2, <1>2, <2>2
  <2> QED
    BY <2>1, <2>2
<1> QED
  BY <1>3, <1>4, <1>5

LEMMA UnlinkedIs ==
  ASSUME NEW S, NEW s \in Seq(S), NEW x, IsInjective(s)
  PROVE  /\ RemoveFirst(s, x) \in Seq(S) /\ IsInjective(RemoveFirst(s, x))
         /\ Range(RemoveFirst(s, x)) = Range(s) \ {x}
<1>n. /\ Len(s) \in Nat
      /\ \A i, j \in 1..Len(s) : s[i] = s[j] => i = j
      /\ \A y : y \in Range(s) <=> \E i \in 1..Len(s) : s[i] = y
  BY RangeIs
<1>1. CASE ~\E i \in 1..Len(s) : s[i] = x
  <2>1. RemoveFirst(s, x) = s
    BY <1>1 DEF RemoveFirst
  <2> QED
    BY <2>1, <1>1, <1>n
<1>2. CASE \E i \in 1..Len(s) : s[i] = x
  <2> DEFINE I == {i \in 1..Len(s) : s[i] = x}
  <2>1. PICK i \in I : \A k \in I : i <= k
    BY <1>2, <1>n, LeastExists
  <2>2. Min(I) \in I
    BY <2>1 DEF Min
  <2>3. RemoveFirst(s, x) = RemoveAt(s, Min(I))
    BY <1>2, <2>1 DEF RemoveFirst, SelectInSeq
  <2>4. PICK h \in 1..Len(s) : h = Min(I) /\ s[h] = x
    BY <2>2
  <2> DEFINE z == RemoveAt(s, h)
  <2>5. /\ z \in Seq(S) /\ Len(z) = Len(s) - 1
        /\ \A j \in 1..Len(s) - 1 : z[j] = IF j < h THEN s[j] ELSE s[j + 1]
    BY RemovedIs
  <2> HIDE DEF z
  <2>6. \A j \in 1..Len(z) : /\ j \in 1..Len(s) /\ j + 1 \in 1..Len(s)
                             /\ z[j] = IF j < h THEN s[j] ELSE s[j + 1]
    BY <2>5, <1>n
  <2>7. IsInjective(z)
    <3>1. ASSUME NEW j \in 1..Len(z), NEW k \in 1..Len(z), z[j] = z[k] PROVE j = k
      BY <2>6, <1>n, <3>1
    <3> QED
      BY <3>1, <2>5, RangeIs
  <2>8. ASSUME NEW y PROVE y \in Range(z) <=> y \in Range(s) /\ y # x
    <3>1. y \in Range(z) <=> \E j \in 1..Len(z) : z[j] = y
      BY <2>5, RangeIs
    <3>2. ASSUME NEW j \in 1..Len(z), z[j] = y PROVE y # x /\ \E k \in 1..Len(s) : s[k] = y
      <4>1. CASE j < h
        <5>1. j # h /\ z[j] = s[j] /\ j \in 1..Len(s)
          BY <4>1, <2>6
        <5> QED
          BY <5>1, <3>2, <2>4, <1>n
      <4>2. CASE ~(j < h)
        <5>1. j + 1 # h /\ z[j] = s[j + 1] /\ j + 1 \in 1..Len(s)
          BY <4>2, <2>6
        <5> QED
          BY <5>1, <3>2, <2>4, <1>n
      <4> QED
        BY <4>1, <4>2
    <3>3. ASSUME NEW k \in 1..Len(s), s[k] = y, y # x PROVE \E j \in 1..Len(z) : z[j] = y
      <4>1. k # h
        BY <3>3, <2>4
      <4>2. CASE k < h
        <5>1. k \in 1..Len(z)
          BY <4>2, <2>5, <1>n
        <5> QED
          BY <5>1, <4>2, <2>6, <3>3
      <4>3. CASE h < k
        <5>1. k - 1 \in 1..Len(z) /\ ~(k - 1 < h) /\ (k - 1) + 1 = k
          BY <4>3, <2>5, <1>n
        <5>2. z[k - 1] = s[k]
          BY <5>1, <2>6
        <5> QED
          BY <5>1, <5>2, <3>3
      <4> QED
        BY <4>1, <4>2, <4>3, <1>n
    <3> QED
      BY <3>1, <3>2, <3>3, <1>n
  <2>9. Range(z) = Range(s) \ {x}
    BY <2>8
  <2>10. RemoveFirst(s, x) = z
    <3> HIDE DEF I
    <3> QED
      BY <2>3, <2>4 DEF z
  <2> QED
    BY <2>10, <2>5, <2>7, <2>9
<1> QED
  BY <1>1, <1>2

\* An element taken out.
LEMMA UnlinkedOrder ==
  ASSUME NEW S, NEW s \in Seq(S), NEW x
  PROVE  \E f \in [1..Len(RemoveFirst(s, x)) -> 1..Len(s)] :
           /\ \A k \in 1..Len(RemoveFirst(s, x)) : RemoveFirst(s, x)[k] = s[f[k]]
           /\ \A k, l \in 1..Len(RemoveFirst(s, x)) : k < l => f[k] < f[l]
<1>n. Len(s) \in Nat
  OBVIOUS
<1>1. CASE ~\E i \in 1..Len(s) : s[i] = x
  <2>1. RemoveFirst(s, x) = s
    BY <1>1 DEF RemoveFirst
  <2> DEFINE f == [k \in 1..Len(s) |-> k]
  <2>2. /\ f \in [1..Len(s) -> 1..Len(s)]
        /\ \A k \in 1..Len(s) : s[k] = s[f[k]]
        /\ \A k, l \in 1..Len(s) : k < l => f[k] < f[l]
    OBVIOUS
  <2> QED
    BY <2>1, <2>2
<1>2. CASE \E i \in 1..Len(s) : s[i] = x
  <2> DEFINE I == {i \in 1..Len(s) : s[i] = x}
  <2>0. I \in SUBSET Nat
    OBVIOUS
  <2>1. PICK i \in I : \A k \in I : i <= k
    <3>1. PICK i \in 1..Len(s) : s[i] = x
      BY <1>2
    <3>2. i \in I
      BY <3>1
    <3> HIDE DEF I
    <3> QED
      BY <2>0, <3>2, LeastExists
  <2>2. Min(I) \in I
    BY <2>1 DEF Min
  <2>3. RemoveFirst(s, x) = RemoveAt(s, Min(I))
    BY <1>2, <2>1 DEF RemoveFirst, SelectInSeq
  <2>4. PICK h \in 1..Len(s) : h = Min(I)
    BY <2>2
  <2> DEFINE z == RemoveAt(s, h)
  <2>5. /\ z \in Seq(S) /\ Len(z) = Len(s) - 1
        /\ \A j \in 1..Len(s) - 1 : z[j] = IF j < h THEN s[j] ELSE s[j + 1]
    BY RemovedIs
  <2>6. RemoveFirst(s, x) = z
    <3> HIDE DEF I
    <3> QED
      BY <2>3, <2>4 DEF z
  <2> HIDE DEF z
  <2> DEFINE f == [k \in 1..Len(z) |-> IF k < h THEN k ELSE k + 1]
  <2>7. f \in [1..Len(z) -> 1..Len(s)]
    BY <2>5, <1>n
  <2>8. \A k \in 1..Len(z) : f[k] = IF k < h THEN k ELSE k + 1
    OBVIOUS
  <2> HIDE DEF f
  <2>9. \A k \in 1..Len(z) : z[k] = s[f[k]]
    BY <2>5, <2>8, <1>n
  <2>10. \A k, l \in 1..Len(z) : k < l => f[k] < f[l]
    BY <2>8, <2>5, <1>n
  <2> QED
    BY <2>6, <2>7, <2>9, <2>10
<1> QED
  BY <1>1, <1>2
=============================================================================
