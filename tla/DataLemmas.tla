----------------------------- MODULE DataLemmas -----------------------------
(***************************************************************************)
(* Facts about natural numbers, finite sets, sequences and sums that the   *)
(* proofs of several components need and the library does not state.       *)
(* Induction is stated for a set of numbers, not for a predicate.          *)
(***************************************************************************)
EXTENDS Integers, Sequences, SequencesExt, FiniteSets, FiniteSetTheorems,
        SequenceTheorems, NaturalsInduction, WellFoundedInduction, TLAPS

-----------------------------------------------------------------------------
(* Natural numbers *)

(* Induction over Nat for a set.                                           *)
LEMMA SetInduction ==
  ASSUME NEW S, 0 \in S, \A n \in Nat : n \in S => n + 1 \in S
  PROVE  Nat \subseteq S
<1> DEFINE T == Nat \ S
<1> SUFFICES ASSUME T # {} PROVE FALSE
  OBVIOUS
<1>1. PICK x \in T : \A y \in T : ~ (<<y, x>> \in OpToRel(<, Nat))
  BY NatLessThanWellFounded, WFMin, T \subseteq Nat
<1>2. x # 0 /\ x \in Nat
  OBVIOUS
<1>3. x - 1 \in Nat /\ x - 1 < x /\ x - 1 + 1 = x
  BY <1>2
<1>4. <<x - 1, x>> \in OpToRel(<, Nat)
  BY <1>2, <1>3 DEF OpToRel
<1> QED
  BY <1>1, <1>3, <1>4

(* A set of natural numbers that is not empty has a least element.         *)
LEMMA LeastElement ==
  ASSUME NEW S \in SUBSET Nat, S # {}
  PROVE  \E i \in S : \A j \in S : i <= j
<1>1. PICK x \in S : \A y \in S : ~ (<<y, x>> \in OpToRel(<, Nat))
  BY NatLessThanWellFounded, WFMin
<1>2. ASSUME NEW y \in S PROVE x <= y
  <2>1. x \in Nat /\ y \in Nat
    OBVIOUS
  <2>2. y < x => <<y, x>> \in OpToRel(<, Nat)
    BY <2>1 DEF OpToRel
  <2>3. ~ (y < x)
    BY <1>1, <2>2
  <2> QED
    BY <2>1, <2>3
<1> QED
  BY <1>2

(* Every place of a concatenation is a place of its left part, or one of  *)
(* its right part shifted by the length of the left.                       *)
LEMMA ConcatPlaces ==
  ASSUME NEW T, NEW s \in Seq(T), NEW u \in Seq(T)
  PROVE  /\ s \o u \in Seq(T) /\ Len(s \o u) = Len(s) + Len(u)
         /\ \A i \in 1..Len(s) : i \in 1..Len(s \o u) /\ (s \o u)[i] = s[i]
         /\ \A i \in 1..Len(s \o u) :
              \/ i \in 1..Len(s)
              \/ /\ i > Len(s) /\ i - Len(s) \in 1..Len(u)
                 /\ (s \o u)[i] = u[i - Len(s)]
<1>1. /\ s \o u \in Seq(T) /\ Len(s \o u) = Len(s) + Len(u)
      /\ \A i \in 1..(Len(s) + Len(u)) : (s \o u)[i] = IF i <= Len(s) THEN s[i] ELSE u[i - Len(s)]
      /\ Len(s) \in Nat /\ Len(u) \in Nat
  BY ConcatProperties, LenProperties
<1>2. \A i \in 1..Len(s) : i \in 1..(Len(s) + Len(u)) /\ i <= Len(s)
  BY ONLY <1>1
<1>3. \A i \in 1..(Len(s) + Len(u)) :
        i \in 1..Len(s) \/ (~ (i <= Len(s)) /\ i > Len(s) /\ i - Len(s) \in 1..Len(u))
  BY ONLY <1>1
<1> QED  BY ONLY <1>1, <1>2, <1>3

Increasing(s) == \A i, j \in 1..Len(s) : i < j => s[i] < s[j]

(* A strictly increasing sequence spans at least its length.               *)
LEMMA IncreasingSpan ==
  ASSUME NEW s \in Seq(Nat), Increasing(s), Len(s) > 0
  PROVE  s[Len(s)] >= s[1] + Len(s) - 1
<1> DEFINE S == {n \in Nat : n + 1 \in 1..Len(s) => s[n + 1] >= s[1] + n}
<1>0. Len(s) \in Nat /\ \A i \in 1..Len(s) : s[i] \in Nat
  BY LenProperties, ElementOfSeq
<1>1. 0 \in S
  BY <1>0
<1>2. ASSUME NEW n \in Nat, n \in S PROVE n + 1 \in S
  <2> SUFFICES ASSUME (n + 1) + 1 \in 1..Len(s) PROVE s[(n + 1) + 1] >= s[1] + (n + 1)
    OBVIOUS
  <2>1. n + 1 \in 1..Len(s) /\ n + 1 < (n + 1) + 1 /\ 1 \in 1..Len(s)
    BY <1>0
  <2>2. s[n + 1] < s[(n + 1) + 1] /\ s[n + 1] >= s[1] + n
    <3>1. s[n + 1] < s[(n + 1) + 1]  BY <2>1 DEF Increasing
    <3> QED  BY <1>2, <2>1, <3>1
  <2>3. s[n + 1] \in Nat /\ s[(n + 1) + 1] \in Nat /\ s[1] \in Nat
    BY ONLY <1>0, <2>1, (n + 1) + 1 \in 1..Len(s)
  <2> QED
    BY ONLY <2>2, <2>3, n \in Nat
<1> HIDE DEF S
<1>3. Nat \subseteq S
  BY <1>1, <1>2, SetInduction
<1>4. Len(s) - 1 \in S
  BY <1>0, <1>3
<1>5. (Len(s) - 1) + 1 \in 1..Len(s) /\ (Len(s) - 1) + 1 = Len(s)
  BY <1>0
<1>6. s[1] \in Nat
  BY <1>0
<1> QED
  BY <1>0, <1>4, <1>5, <1>6 DEF S

(* A finite set of natural numbers has an ascending enumeration.           *)
LEMMA AscendingExists ==
  ASSUME NEW T \in SUBSET Nat, IsFiniteSet(T)
  PROVE  \E s \in [1..Cardinality(T) -> T] :
           \A i, j \in DOMAIN s : i < j => s[i] < s[j]
<1> DEFINE Enumerates(s, U) == \A i, j \in DOMAIN s : i < j => s[i] < s[j]
           S == {n \in Nat : \A U \in SUBSET Nat :
                   IsFiniteSet(U) /\ Cardinality(U) = n => \E s \in [1..n -> U] : Enumerates(s, U)}
<1>1. 0 \in S
  <2> SUFFICES ASSUME NEW U \in SUBSET Nat PROVE \E s \in [1..0 -> U] : Enumerates(s, U)
    OBVIOUS
  <2>1. <<>> \in [1..0 -> U] /\ Enumerates(<<>>, U)
    BY EmptySeq
  <2> QED  BY <2>1
<1>2. ASSUME NEW n \in Nat, n \in S PROVE n + 1 \in S
  <2> SUFFICES ASSUME NEW U \in SUBSET Nat, IsFiniteSet(U), Cardinality(U) = n + 1
               PROVE  \E s \in [1..(n + 1) -> U] : Enumerates(s, U)
    OBVIOUS
  <2>1. U # {}  BY FS_EmptySet
  <2>2. PICK m \in U : \A u \in U : m <= u  BY <2>1, LeastElement
  <2>3. IsFiniteSet(U \ {m}) /\ Cardinality(U \ {m}) = n
    <3>1. IsFiniteSet(U \ {m}) /\ Cardinality(U \ {m}) = Cardinality(U) - 1
      BY <2>2, FS_RemoveElement
    <3>2. n + 1 - 1 = n  OBVIOUS
    <3> QED  BY <3>1, <3>2
  <2>4. PICK r \in [1..n -> U \ {m}] : Enumerates(r, U \ {m})
    <3>1. U \ {m} \in SUBSET Nat  OBVIOUS
    <3> QED  BY <1>2, <2>3, <3>1
  <2> DEFINE s == [i \in 1..(n + 1) |-> IF i = 1 THEN m ELSE r[i - 1]]
  <2>5. \A i \in 1..(n + 1) : i # 1 => i - 1 \in 1..n
    OBVIOUS
  <2>6. s \in [1..(n + 1) -> U]  BY <2>2, <2>4, <2>5
  <2>7. ASSUME NEW i \in 1..(n + 1), NEW j \in 1..(n + 1), i < j PROVE s[i] < s[j]
    <3>1. j # 1 /\ j - 1 \in 1..n /\ s[j] = r[j - 1] /\ s[j] \in U \ {m}
      BY <2>4, <2>5, <2>7
    <3>2. CASE i = 1
      <4>1. s[i] = m  BY <3>2
      <4>2. s[j] \in Nat /\ m \in Nat /\ m <= s[j] /\ m # s[j]  BY <2>2, <3>1
      <4> QED  BY <4>1, <4>2
    <3>3. CASE i # 1
      <4>1. i - 1 \in 1..n /\ s[i] = r[i - 1] /\ i - 1 < j - 1  BY <2>5, <2>7, <3>3
      <4>2. DOMAIN r = 1..n  BY <2>4
      <4>3. r[i - 1] < r[j - 1]  BY <2>4, <3>1, <4>1, <4>2
      <4> QED  BY <3>1, <4>1, <4>3
    <3> QED  BY <3>2, <3>3
  <2>8. Enumerates(s, U)  BY <2>6, <2>7
  <2> QED  BY <2>6, <2>8
<1> HIDE DEF S
<1>3. Cardinality(T) \in S  BY <1>1, <1>2, SetInduction, FS_CardinalityType
<1> QED  BY <1>3 DEF S

(* Such an enumeration reaches every element.                              *)
LEMMA AscendingOnto ==
  ASSUME NEW T \in SUBSET Nat, IsFiniteSet(T), NEW s \in [1..Cardinality(T) -> T],
         \A i, j \in DOMAIN s : i < j => s[i] < s[j]
  PROVE  /\ s \in Seq(T) /\ Len(s) = Cardinality(T) /\ ToSet(s) = T
         /\ \A i, j \in 1..Len(s) : s[i] = s[j] => i = j
         /\ \A i, j \in 1..Len(s) : s[i] < s[j] => i < j
<1> DEFINE n == Cardinality(T)
<1>1. n \in Nat  BY FS_CardinalityType
<1>2. s \in Seq(T) /\ Len(s) = n /\ DOMAIN s = 1..n  BY <1>1, IsASeq
<1>3. ASSUME NEW i \in 1..n, NEW j \in 1..n
      PROVE  (s[i] = s[j] => i = j) /\ (s[i] < s[j] => i < j)
  <2>1. s[i] \in Nat /\ s[j] \in Nat /\ i \in Nat /\ j \in Nat
    <3>1. s[i] \in T /\ s[j] \in T  OBVIOUS
    <3>2. s[i] \in Nat /\ s[j] \in Nat  BY <3>1
    <3> HIDE DEF n
    <3>3. i \in Nat /\ j \in Nat  BY <1>1
    <3> QED  BY <3>2, <3>3
  <2>2. (i < j => s[i] < s[j]) /\ (j < i => s[j] < s[i])  BY <1>2
  <2> QED  BY <2>1, <2>2
<1>4. IsFiniteSet(1..n) /\ Cardinality(1..n) = n  BY <1>1, FS_Interval
<1>5. s \in Injection(1..n, T)  BY <1>3 DEF Injection, IsInjective
<1>6. s \in Surjection(1..n, T)  BY <1>4, <1>5, FS_Injection
<1>7. ToSet(s) = T  BY <1>2, <1>6 DEF Surjection, ToSet
<1> QED  BY <1>2, <1>3, <1>7

-----------------------------------------------------------------------------
(* Sequences *)

Suffix(s, k) == SubSeq(s, k + 1, Len(s))

(* What is left of a sequence without its first k elements.                *)
LEMMA SuffixProperties ==
  ASSUME NEW S, NEW s \in Seq(S), NEW k \in 0..Len(s)
  PROVE  /\ Suffix(s, k) \in Seq(S)
         /\ Len(Suffix(s, k)) = Len(s) - k
         /\ \A i \in 1..(Len(s) - k) : Suffix(s, k)[i] = s[i + k]
<1>0. Len(s) \in Nat  BY LenProperties
<1>1. CASE k = Len(s)
  <2>1. Suffix(s, k) = <<>>
    BY <1>0, <1>1, SubSeqEmpty DEF Suffix
  <2> QED
    BY <1>0, <1>1, <2>1, EmptySeq
<1>2. CASE k # Len(s)
  <2>1. k + 1 \in 1..Len(s) + 1 /\ Len(s) \in k + 1 - 1 .. Len(s) /\ k + 1 <= Len(s)
    BY <1>0, <1>2
  <2>2. \A i \in 1..Len(s) : s[i] \in S  BY ElementOfSeq
  <2>3. Suffix(s, k) = [i \in 1..(Len(s) - k) |-> s[i + k]]
    BY <1>0, <2>1 DEF Suffix
  <2>4. Suffix(s, k) \in Seq(S) /\ Len(Suffix(s, k)) = Len(s) - k
    <3>1. Len(s) - k \in Nat /\ \A i \in 1..(Len(s) - k) : i + k \in 1..Len(s)
      BY <1>0
    <3> QED  BY <2>2, <2>3, <3>1
  <2> QED  BY <2>3, <2>4
<1> QED  BY <1>1, <1>2

(* RemoveAt takes out one position; RemoveFirst takes out one occurrence,  *)
(* which is all there is of an element of a sequence without repetition.   *)
LEMMA RemoveAtProperties ==
  ASSUME NEW S, NEW s \in Seq(S), NEW k \in 1..Len(s)
  PROVE  /\ RemoveAt(s, k) \in Seq(S) /\ Len(RemoveAt(s, k)) = Len(s) - 1
         /\ \A i \in 1..(Len(s) - 1) :
              RemoveAt(s, k)[i] = IF i < k THEN s[i] ELSE s[i + 1]
<1>0. Len(s) \in Nat  BY LenProperties
<1> DEFINE a == SubSeq(s, 1, k - 1)
           b == SubSeq(s, k + 1, Len(s))
<1>1. a \in Seq(S) /\ Len(a) = k - 1 /\ \A i \in 1..(k - 1) : a[i] = s[i]
  <2>1. CASE k = 1
    <3>1. a = <<>>  BY <2>1, SubSeqEmpty
    <3> QED  BY <2>1, <3>1, EmptySeq
  <2>2. CASE k # 1
    <3>1. 1 \in 1..Len(s) + 1 /\ k - 1 \in 1 - 1..Len(s) /\ k - 1 \in Nat  BY <1>0
    <3>2. \A i \in 1..Len(s) : s[i] \in S  BY ElementOfSeq
    <3>3. a = [i \in 1..(k - 1) |-> s[i]]  BY <1>0, <2>2, <3>1
    <3>4. \A i \in 1..(k - 1) : i \in 1..Len(s)  BY <1>0
    <3> QED  BY <3>1, <3>2, <3>3, <3>4
  <2> QED  BY <2>1, <2>2
<1>2. b = Suffix(s, k) /\ k \in 0..Len(s)  BY <1>0 DEF Suffix
<1>3. b \in Seq(S) /\ Len(b) = Len(s) - k /\ \A i \in 1..(Len(s) - k) : b[i] = s[i + k]
  BY <1>2, SuffixProperties
<1>4. RemoveAt(s, k) = a \o b  BY DEF RemoveAt
<1> HIDE DEF a, b
<1>5. /\ a \o b \in Seq(S) /\ Len(a \o b) = Len(a) + Len(b)
      /\ \A i \in 1..(Len(a) + Len(b)) : (a \o b)[i] = IF i <= Len(a) THEN a[i] ELSE b[i - Len(a)]
  BY <1>1, <1>3, ConcatProperties
<1>6. Len(a) + Len(b) = Len(s) - 1  BY <1>0, <1>1, <1>3
<1>7. ASSUME NEW i \in 1..(Len(s) - 1) PROVE (a \o b)[i] = IF i < k THEN s[i] ELSE s[i + 1]
  <2>1. CASE i < k
    <3>1. i <= Len(a) /\ i \in 1..(k - 1)  BY <1>0, <1>1, <2>1
    <3> QED  BY <1>1, <1>5, <1>6, <2>1, <3>1
  <2>2. CASE ~ (i < k)
    <3>1. ~ (i <= Len(a)) /\ i - (k - 1) \in 1..(Len(s) - k) /\ i - (k - 1) + k = i + 1
      BY <1>0, <1>1, <2>2
    <3> QED  BY <1>1, <1>3, <1>5, <1>6, <2>2, <3>1
  <2> QED  BY <2>1, <2>2
<1> QED  BY <1>4, <1>5, <1>6, <1>7

LEMMA RemoveFirstIsRemoveAt ==
  ASSUME NEW s, NEW e, Len(s) \in Nat, \E i \in 1..Len(s) : s[i] = e
  PROVE  \E k \in 1..Len(s) : s[k] = e /\ RemoveFirst(s, e) = RemoveAt(s, k)
<1> DEFINE I == {i \in 1..Len(s) : s[i] = e}
<1>1. I # {} /\ I \in SUBSET Nat  OBVIOUS
<1>2. Min(I) \in I
  <2>1. PICK m \in I : \A i \in I : m <= i  BY <1>1, LeastElement
  <2> HIDE DEF I
  <2> QED  BY <2>1 DEF Min
<1>3. RemoveFirst(s, e) = RemoveAt(s, Min(I))
  BY <1>1 DEF RemoveFirst, SelectInSeq
<1> QED  BY <1>2, <1>3

(* What is left when an element of a sequence without repetition is taken  *)
(* out by its first occurrence.                                            *)
LEMMA RemoveFirstProperties ==
  ASSUME NEW S, NEW s \in Seq(S), NEW e
  PROVE  /\ RemoveFirst(s, e) \in Seq(S)
         /\ ToSet(s) \ {e} \subseteq ToSet(RemoveFirst(s, e))
         /\ ToSet(RemoveFirst(s, e)) \subseteq ToSet(s)
         /\ IsInjective(s) => /\ IsInjective(RemoveFirst(s, e))
                             /\ ToSet(RemoveFirst(s, e)) = ToSet(s) \ {e}
<1>0. Len(s) \in Nat /\ DOMAIN s = 1..Len(s)  BY LenProperties
<1>1. CASE e \notin ToSet(s)
  <2>1. RemoveFirst(s, e) = s  BY <1>0, <1>1 DEF RemoveFirst, ToSet
  <2> QED  BY <1>1, <2>1
<1>2. CASE e \in ToSet(s)
  <2> DEFINE r == RemoveFirst(s, e)
  <2>1. PICK k \in 1..Len(s) : s[k] = e /\ r = RemoveAt(s, k)
    BY <1>0, <1>2, RemoveFirstIsRemoveAt DEF ToSet
  <2>2. /\ r \in Seq(S) /\ Len(r) = Len(s) - 1
        /\ \A i \in 1..(Len(s) - 1) : r[i] = IF i < k THEN s[i] ELSE s[i + 1]
    BY <2>1, RemoveAtProperties
  <2> HIDE DEF r
  <2>3. DOMAIN r = 1..(Len(s) - 1)  BY <2>2, LenProperties
  <2>4. ASSUME NEW i \in 1..(Len(s) - 1)
        PROVE  \E j \in 1..Len(s) : j # k /\ r[i] = s[j] /\ j = IF i < k THEN i ELSE i + 1
    <3>1. i \in 1..Len(s) /\ i + 1 \in 1..Len(s)  BY ONLY <1>0, <2>4
    <3>2. (i < k => i # k) /\ (~ (i < k) => i + 1 # k)
      BY ONLY <1>0, <2>4, k \in 1..Len(s)
    <3> QED  BY ONLY <2>2, <2>4, <3>1, <3>2
  <2>5. ToSet(r) \subseteq ToSet(s)
    BY <1>0, <2>3, <2>4 DEF ToSet
  <2>6. ASSUME NEW j \in 1..Len(s), j # k PROVE s[j] \in ToSet(r)
    <3>1. CASE j < k
      <4>1. j \in 1..(Len(s) - 1)  BY <1>0, <3>1
      <4> QED  BY <2>2, <2>3, <3>1, <4>1 DEF ToSet
    <3>2. CASE k < j
      <4>1. j - 1 \in 1..(Len(s) - 1) /\ ~ (j - 1 < k) /\ j - 1 + 1 = j  BY <1>0, <3>2
      <4>2. r[j - 1] = s[j]  BY <2>2, <4>1
      <4> QED  BY <2>3, <4>1, <4>2 DEF ToSet
    <3> QED  BY <1>0, <2>6, <3>1, <3>2
  <2>7. ToSet(s) \ {e} \subseteq ToSet(r)
    BY <1>0, <2>1, <2>6 DEF ToSet
  <2>8. ASSUME IsInjective(s) PROVE IsInjective(r) /\ ToSet(r) = ToSet(s) \ {e}
    <3>0. \A i, j \in 1..Len(s) : s[i] = s[j] => i = j  BY <1>0, <2>8 DEF IsInjective
    <3>1. ASSUME NEW i \in 1..(Len(s) - 1), NEW j \in 1..(Len(s) - 1), r[i] = r[j] PROVE i = j
      <4>1. PICK x \in 1..Len(s) : r[i] = s[x] /\ x = IF i < k THEN i ELSE i + 1  BY <2>4
      <4>2. PICK y \in 1..Len(s) : r[j] = s[y] /\ y = IF j < k THEN j ELSE j + 1  BY <2>4
      <4>3. x = y  BY <3>0, <3>1, <4>1, <4>2
      <4> QED  BY <1>0, <4>1, <4>2, <4>3
    <3>2. e \notin ToSet(r)
      <4> SUFFICES ASSUME NEW i \in 1..(Len(s) - 1), r[i] = e PROVE FALSE
        BY <2>3 DEF ToSet
      <4>1. PICK j \in 1..Len(s) : j # k /\ r[i] = s[j]  BY <2>4
      <4> QED  BY <2>1, <3>0, <4>1
    <3>3. IsInjective(r)  BY <2>3, <3>1 DEF IsInjective
    <3> QED  BY <2>5, <2>7, <3>2, <3>3
  <2> QED  BY <2>2, <2>5, <2>7, <2>8 DEF r
<1> QED  BY <1>1, <1>2
(* The elements of a sequence and of what is built from it.                *)
LEMMA ToSetMembers ==
  ASSUME NEW S, NEW s \in Seq(S)
  PROVE  /\ ToSet(s) \subseteq S
         /\ \A x : x \in ToSet(s) <=> \E i \in 1..Len(s) : s[i] = x
<1>1. DOMAIN s = 1..Len(s) /\ \A i \in 1..Len(s) : s[i] \in S  BY LenProperties, ElementOfSeq
<1> QED  BY <1>1 DEF ToSet

LEMMA ToSetAppend ==
  ASSUME NEW S, NEW s \in Seq(S), NEW e \in S
  PROVE  /\ Append(s, e) \in Seq(S) /\ ToSet(Append(s, e)) = ToSet(s) \cup {e}
         /\ IsInjective(s) /\ e \notin ToSet(s) => IsInjective(Append(s, e))
<1>1. Len(s) \in Nat /\ DOMAIN s = 1..Len(s)  BY LenProperties
<1>2. /\ Append(s, e) \in Seq(S) /\ DOMAIN Append(s, e) = 1..(Len(s) + 1)
      /\ \A i \in 1..Len(s) : Append(s, e)[i] = s[i]
      /\ Append(s, e)[Len(s) + 1] = e
  BY AppendProperties, LenProperties
<1>3. 1..(Len(s) + 1) = 1..Len(s) \cup {Len(s) + 1}  BY <1>1
<1>4. ToSet(Append(s, e)) = ToSet(s) \cup {e}  BY <1>1, <1>2, <1>3 DEF ToSet
<1>5. IsInjective(s) /\ e \notin ToSet(s) => IsInjective(Append(s, e))
  BY <1>1, <1>2, <1>3 DEF IsInjective, ToSet
<1> QED  BY <1>2, <1>4, <1>5

LEMMA ToSetConcat ==
  ASSUME NEW S, NEW s \in Seq(S), NEW u \in Seq(S)
  PROVE  s \o u \in Seq(S) /\ ToSet(s \o u) = ToSet(s) \cup ToSet(u)
<1>1. /\ Len(s) \in Nat /\ DOMAIN s = 1..Len(s) /\ Len(u) \in Nat /\ DOMAIN u = 1..Len(u)
  BY LenProperties
<1>2. /\ s \o u \in Seq(S) /\ DOMAIN (s \o u) = 1..(Len(s) + Len(u))
      /\ \A i \in 1..(Len(s) + Len(u)) : (s \o u)[i] = IF i <= Len(s) THEN s[i] ELSE u[i - Len(s)]
  BY ConcatProperties, LenProperties
<1>3. ASSUME NEW i \in 1..(Len(s) + Len(u)) PROVE (s \o u)[i] \in ToSet(s) \cup ToSet(u)
  <2>1. CASE i <= Len(s)
    <3>1. i \in 1..Len(s)  BY <1>1, <2>1
    <3> QED  BY <1>1, <1>2, <2>1, <3>1 DEF ToSet
  <2>2. CASE ~ (i <= Len(s))
    <3>1. i - Len(s) \in 1..Len(u)  BY <1>1, <2>2
    <3> QED  BY <1>1, <1>2, <2>2, <3>1 DEF ToSet
  <2> QED  BY <2>1, <2>2
<1>4. ASSUME NEW i \in 1..Len(s) PROVE s[i] \in ToSet(s \o u)
  <2>1. i \in 1..(Len(s) + Len(u)) /\ i <= Len(s)  BY <1>1
  <2> QED  BY <1>2, <2>1 DEF ToSet
<1>5. ASSUME NEW i \in 1..Len(u) PROVE u[i] \in ToSet(s \o u)
  <2>1. i + Len(s) \in 1..(Len(s) + Len(u)) /\ ~ (i + Len(s) <= Len(s)) /\ i + Len(s) - Len(s) = i
    BY <1>1
  <2>2. (s \o u)[i + Len(s)] = u[i]  BY <1>2, <2>1
  <2> QED  BY <1>2, <2>1, <2>2 DEF ToSet
<1> QED  BY <1>1, <1>2, <1>3, <1>4, <1>5 DEF ToSet

LEMMA ToSetHeadTail ==
  ASSUME NEW S, NEW s \in Seq(S), s # <<>>
  PROVE  /\ Head(s) \in ToSet(s) /\ Tail(s) \in Seq(S)
         /\ Len(Tail(s)) = Len(s) - 1 /\ ToSet(Tail(s)) \subseteq ToSet(s)
<1>1. Len(s) \in Nat /\ DOMAIN s = 1..Len(s)  BY LenProperties
<1>2. Len(s) # 0  BY EmptySeq
<1>3. Head(s) = s[1] /\ 1 \in 1..Len(s)  BY <1>1, <1>2
<1>4. /\ Tail(s) \in Seq(S) /\ Len(Tail(s)) = Len(s) - 1
      /\ \A i \in 1..Len(Tail(s)) : Tail(s)[i] = s[i + 1]
  BY HeadTailProperties
<1>5. DOMAIN Tail(s) = 1..Len(Tail(s))  BY <1>4, LenProperties
<1>6. \A i \in 1..Len(Tail(s)) : i + 1 \in 1..Len(s)  BY <1>1, <1>4
<1> QED  BY <1>1, <1>3, <1>4, <1>5, <1>6 DEF ToSet

-----------------------------------------------------------------------------
(* Sums over finite sets, as the community modules compute them: by a fold *)
(* that takes the elements in the order CHOOSE gives.  What follows holds  *)
(* for every order.                                                        *)

Chosen(s) == CHOOSE x \in s : TRUE

Adds(it, f, S) ==
  it = [s \in SUBSET S |->
          IF s = {} THEN 0 ELSE f[Chosen(s)] + it[s \ {Chosen(s)}]]

Small(S, n) == {s \in SUBSET S : Cardinality(s) <= n}

(* Taking the chosen element away leaves a smaller set.                    *)
LEMMA ChosenAway ==
  ASSUME NEW s, IsFiniteSet(s), s # {}
  PROVE  /\ Chosen(s) \in s /\ IsFiniteSet(s \ {Chosen(s)})
         /\ Cardinality(s \ {Chosen(s)}) = Cardinality(s) - 1
         /\ Cardinality(s) \in Nat \ {0}
<1>1. Chosen(s) \in s  BY DEF Chosen
<1>2. Cardinality(s) \in Nat /\ Cardinality(s) # 0
  BY FS_CardinalityType, FS_EmptySet
<1> QED  BY <1>1, <1>2, FS_RemoveElement

(* The recursion of the fold has a solution.                               *)
LEMMA AddsExists ==
  ASSUME NEW S, IsFiniteSet(S), NEW f
  PROVE  \E it : Adds(it, f, S)
<1> DEFINE Step(g, s) == IF s = {} THEN 0 ELSE f[Chosen(s)] + g[s \ {Chosen(s)}]
           Solves(g, n) == g = [s \in Small(S, n) |-> Step(g, s)]
           N == {n \in Nat : \E g : Solves(g, n)}
<1>0. \A s \in SUBSET S : IsFiniteSet(s) /\ Cardinality(s) \in Nat
  BY FS_Subset, FS_CardinalityType
<1>1. 0 \in N
  <2>1. \A s \in Small(S, 0) : s = {}
    BY <1>0, FS_EmptySet DEF Small
  <2>2. Solves([s \in Small(S, 0) |-> 0], 0)
    BY <2>1
  <2> QED  BY <2>2
<1>2. ASSUME NEW n \in Nat, n \in N PROVE n + 1 \in N
  <2>1. PICK g : Solves(g, n)
    BY <1>2
  <2> DEFINE h == [s \in Small(S, n + 1) |-> Step(g, s)]
  <2> HIDE DEF N
  <2>2. Small(S, n) \subseteq Small(S, n + 1)
    BY <1>0 DEF Small
  <2>3. \A s \in Small(S, n) : h[s] = g[s]
    BY <2>1, <2>2
  <2>4. \A s \in Small(S, n + 1) : s # {} => s \ {Chosen(s)} \in Small(S, n)
    BY <1>0, ChosenAway DEF Small
  <2>5. \A s \in Small(S, n + 1) : Step(g, s) = Step(h, s)
    BY <2>3, <2>4
  <2>6. h = [s \in Small(S, n + 1) |-> Step(h, s)]
    BY <2>5
  <2>7. Solves(h, n + 1)
    BY <2>6
  <2> HIDE DEF h, Solves
  <2> QED  BY <2>7 DEF N
<1>3. Cardinality(S) \in N
  <2> HIDE DEF N
  <2> QED  BY <1>0, <1>1, <1>2, SetInduction
<1>4. PICK g : Solves(g, Cardinality(S))
  BY <1>3
<1>5. Small(S, Cardinality(S)) = SUBSET S
  BY FS_Subset DEF Small
<1> QED  BY <1>4, <1>5 DEF Adds

(* Solutions for functions that agree on a set agree on its sum.           *)
LEMMA AddsAgree ==
  ASSUME NEW S, NEW T, NEW f, NEW g, NEW it, NEW jt, Adds(it, f, S), Adds(jt, g, T),
         IsFiniteSet(S)
  PROVE  \A W \in SUBSET (S \cap T) : (\A x \in W : f[x] = g[x]) => it[W] = jt[W]
<1> SUFFICES ASSUME NEW W \in SUBSET (S \cap T), \A x \in W : f[x] = g[x]
             PROVE  it[W] = jt[W]
  OBVIOUS
<1> DEFINE N == {n \in Nat : \A s \in Small(W, n) : it[s] = jt[s]}
<1>0. \A s \in SUBSET W : IsFiniteSet(s) /\ Cardinality(s) \in Nat
  <2>1. \A s \in SUBSET W : s \in SUBSET S
    OBVIOUS
  <2> QED  BY <2>1, FS_Subset, FS_CardinalityType
<1>1. \A s \in SUBSET W :
        /\ it[s] = IF s = {} THEN 0 ELSE f[Chosen(s)] + it[s \ {Chosen(s)}]
        /\ jt[s] = IF s = {} THEN 0 ELSE g[Chosen(s)] + jt[s \ {Chosen(s)}]
  BY DEF Adds
<1>2. 0 \in N
  <2>1. \A s \in Small(W, 0) : s \in SUBSET W /\ s = {}
    BY <1>0, FS_EmptySet DEF Small
  <2> QED  BY <1>1, <2>1
<1>3. ASSUME NEW n \in Nat, n \in N PROVE n + 1 \in N
  <2> SUFFICES ASSUME NEW s \in Small(W, n + 1) PROVE it[s] = jt[s]
    OBVIOUS
  <2>1. s # {} => Chosen(s) \in W /\ s \ {Chosen(s)} \in Small(W, n)
    BY <1>0, ChosenAway DEF Small
  <2>2. s # {} => it[s \ {Chosen(s)}] = jt[s \ {Chosen(s)}]
    BY <2>1, <1>3
  <2>3. s \in SUBSET W
    BY DEF Small
  <2> QED  BY <1>1, <2>1, <2>2, <2>3
<1>4. Cardinality(W) \in N
  <2> HIDE DEF N
  <2> QED  BY <1>0, <1>2, <1>3, SetInduction
<1> QED  BY <1>0, <1>4 DEF Small

LEMMA SumUnfolds ==
  ASSUME NEW S, IsFiniteSet(S), NEW f
  PROVE  /\ S = {} => SumFunctionOnSet(f, S) = 0
         /\ S # {} => SumFunctionOnSet(f, S)
                        = f[Chosen(S)] + SumFunctionOnSet(f, S \ {Chosen(S)})
<1> DEFINE Fold(T) == CHOOSE it : Adds(it, f, T)
<1>1. \A T : SumFunctionOnSet(f, T) = Fold(T)[T]
  BY DEF SumFunctionOnSet, FoldFunctionOnSet, MapThenFoldSet, Adds, Chosen
<1>2. Adds(Fold(S), f, S)
  BY AddsExists
<1>3. S # {} => Adds(Fold(S \ {Chosen(S)}), f, S \ {Chosen(S)})
  BY AddsExists, ChosenAway
<1> HIDE DEF Fold
<1>4. ASSUME S # {}
      PROVE  Fold(S \ {Chosen(S)})[S \ {Chosen(S)}] = Fold(S)[S \ {Chosen(S)}]
  <2>1. IsFiniteSet(S \ {Chosen(S)})
    BY <1>4, ChosenAway
  <2>2. Adds(Fold(S \ {Chosen(S)}), f, S \ {Chosen(S)})
    BY <1>3, <1>4
  <2>3. S \ {Chosen(S)} \in SUBSET ((S \ {Chosen(S)}) \cap S)
    OBVIOUS
  <2>4. \A W \in SUBSET ((S \ {Chosen(S)}) \cap S) : Fold(S \ {Chosen(S)})[W] = Fold(S)[W]
    BY ONLY <1>2, <2>1, <2>2, AddsAgree
  <2> QED  BY <2>3, <2>4
<1>5. S \in SUBSET S
  OBVIOUS
<1> QED  BY <1>1, <1>2, <1>4, <1>5 DEF Adds

(* Functions that agree on a set have the same sum over it.                *)
LEMMA SumAgrees ==
  ASSUME NEW S, IsFiniteSet(S), NEW f, NEW g, \A x \in S : f[x] = g[x]
  PROVE  SumFunctionOnSet(f, S) = SumFunctionOnSet(g, S)
<1> DEFINE Fold(h) == CHOOSE it : Adds(it, h, S)
<1>1. \A h : SumFunctionOnSet(h, S) = Fold(h)[S]
  BY DEF SumFunctionOnSet, FoldFunctionOnSet, MapThenFoldSet, Adds, Chosen
<1>2. Adds(Fold(f), f, S) /\ Adds(Fold(g), g, S)
  BY AddsExists
<1> HIDE DEF Fold
<1>3. Fold(f)[S] = Fold(g)[S]
  <2> DEFINE it == Fold(f)
             jt == Fold(g)
  <2>1. Adds(it, f, S) /\ Adds(jt, g, S)
    BY <1>2
  <2> HIDE DEF it, jt
  <2>2. it[S] = jt[S]
    <3>1. \A W \in SUBSET (S \cap S) : (\A x \in W : f[x] = g[x]) => it[W] = jt[W]
      BY <2>1, AddsAgree
    <3>2. S \in SUBSET (S \cap S)
      OBVIOUS
    <3> QED  BY <3>1, <3>2
  <2> QED  BY <2>2 DEF it, jt
<1> QED  BY <1>1, <1>3

(* A sum of natural numbers is one.                                        *)
LEMMA SumNatural ==
  ASSUME NEW S, IsFiniteSet(S), NEW f, \A x \in S : f[x] \in Nat
  PROVE  SumFunctionOnSet(f, S) \in Nat
<1> DEFINE N == {n \in Nat : \A s \in Small(S, n) : SumFunctionOnSet(f, s) \in Nat}
<1>0. \A s \in SUBSET S : IsFiniteSet(s) /\ Cardinality(s) \in Nat
  BY FS_Subset, FS_CardinalityType
<1>1. 0 \in N
  BY <1>0, SumUnfolds, FS_EmptySet DEF Small
<1>2. ASSUME NEW n \in Nat, n \in N PROVE n + 1 \in N
  <2> SUFFICES ASSUME NEW s \in Small(S, n + 1) PROVE SumFunctionOnSet(f, s) \in Nat
    OBVIOUS
  <2>0. IsFiniteSet(s) /\ s \in SUBSET S
    BY <1>0 DEF Small
  <2>1. s # {} => Chosen(s) \in S /\ s \ {Chosen(s)} \in Small(S, n)
    BY <1>0, <2>0, ChosenAway DEF Small
  <2>2. s # {} => SumFunctionOnSet(f, s \ {Chosen(s)}) \in Nat
    BY <2>1, <1>2
  <2>3. s = {} => SumFunctionOnSet(f, s) = 0
    BY <2>0, SumUnfolds
  <2>4. s # {} => SumFunctionOnSet(f, s)
                    = f[Chosen(s)] + SumFunctionOnSet(f, s \ {Chosen(s)})
    BY <2>0, SumUnfolds
  <2> QED  BY <2>1, <2>2, <2>3, <2>4
<1>3. Cardinality(S) \in N
  <2> HIDE DEF N
  <2> QED  BY <1>0, <1>1, <1>2, SetInduction
<1> QED  BY <1>0, <1>3 DEF Small

(* One more element adds its value, whatever order the fold takes.         *)
LEMMA SumInsert ==
  ASSUME NEW S, IsFiniteSet(S), NEW x, x \notin S, NEW f,
         f[x] \in Nat, \A y \in S : f[y] \in Nat
  PROVE  SumFunctionOnSet(f, S \cup {x}) = f[x] + SumFunctionOnSet(f, S)
<1> DEFINE U == S \cup {x}
           T(s) == SumFunctionOnSet(f, s)
           N == {n \in Nat : \A s \in Small(U, n) : \A z \in U \ s :
                                T(s \cup {z}) = f[z] + T(s)}
<1>0. IsFiniteSet(U) /\ \A s \in SUBSET U : IsFiniteSet(s) /\ Cardinality(s) \in Nat
  BY FS_Subset, FS_CardinalityType, FS_AddElement
<1>1. \A s \in SUBSET U : T(s) \in Nat
  BY <1>0, SumNatural
<1>2. ASSUME NEW n \in Nat, NEW s \in Small(U, n), NEW z \in U \ s,
             n # 0 => n - 1 \in N
      PROVE  T(s \cup {z}) = f[z] + T(s)
  <2> DEFINE y == Chosen(s \cup {z})
  <2>0. s \in SUBSET U /\ IsFiniteSet(s) /\ IsFiniteSet(s \cup {z})
    BY <1>0, FS_AddElement DEF Small
  <2>1. y \in s \cup {z}
    BY DEF Chosen
  <2>2. T(s \cup {z}) = f[y] + T((s \cup {z}) \ {y})
    BY <2>0, SumUnfolds
  <2> HIDE DEF y
  <2>3. CASE y = z
    <3>1. (s \cup {z}) \ {y} = s
      BY <2>0, <2>3
    <3> QED  BY <2>2, <2>3, <3>1
  <2>4. CASE y \in s
    <3> DEFINE r == s \ {y}
    <3>1. (s \cup {z}) \ {y} = r \cup {z} /\ r \cup {y} = s
      BY <2>0, <2>4
    <3>2. r \in Small(U, n - 1) /\ n # 0
      <4>1. Cardinality(r) = Cardinality(s) - 1 /\ Cardinality(s) # 0
        BY <2>0, <2>4, FS_RemoveElement, FS_EmptySet
      <4>2. Cardinality(s) \in Nat /\ Cardinality(s) <= n
        BY <2>0, <1>0 DEF Small
      <4> QED  BY <2>0, <4>1, <4>2 DEF Small
    <3>3. n - 1 \in N /\ y \in U \ r /\ z \in U \ r
      BY <1>2, <2>0, <2>4, <3>2
    <3> HIDE DEF r, T
    <3>4. T(r \cup {z}) = f[z] + T(r) /\ T(r \cup {y}) = f[y] + T(r)
      BY <3>2, <3>3
    <3>5. T(r) \in Nat /\ f[y] \in Nat /\ f[z] \in Nat
      BY <1>1, <2>0, <2>4 DEF r
    <3> QED  BY <2>2, <3>1, <3>4, <3>5
  <2> QED  BY <2>1, <2>3, <2>4
<1>3. 0 \in N
  BY <1>2
<1>4. ASSUME NEW n \in Nat, n \in N PROVE n + 1 \in N
  <2>1. n + 1 \in Nat /\ (n + 1) - 1 = n
    OBVIOUS
  <2>2. \A s \in Small(U, n + 1) : \A z \in U \ s : T(s \cup {z}) = f[z] + T(s)
    <3> SUFFICES ASSUME NEW s \in Small(U, n + 1), NEW z \in U \ s
                 PROVE  T(s \cup {z}) = f[z] + T(s)
      OBVIOUS
    <3> HIDE DEF U, T, N
    <3> QED  BY <1>2, <1>4, <2>1
  <2> QED  BY <2>1, <2>2
<1>5. Cardinality(S) \in N
  <2> HIDE DEF N
  <2> QED  BY <1>0, <1>3, <1>4, SetInduction
<1> QED  BY <1>0, <1>5 DEF Small
=============================================================================
