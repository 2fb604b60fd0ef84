----------------------------- MODULE ListFacts -----------------------------
(***************************************************************************)
(* What the operations on lists that the pools are built from return, and   *)
(* what proofs about folds over lists need of numbers.                     *)
(***************************************************************************)
EXTENDS Integers, Sequences, SequencesExt, SequenceTheorems, WellFoundedInduction, TLAPS

\* What appending an element makes of a list.
LEMMA AppendFacts ==
  ASSUME NEW S, NEW s \in Seq(S), NEW x \in S
  PROVE  /\ Append(s, x) \in Seq(S)
         /\ Len(Append(s, x)) = Len(s) + 1
         /\ \A j \in 1 .. Len(s) + 1 : Append(s, x)[j] = IF j <= Len(s) THEN s[j] ELSE x
         /\ \A e : Contains(Append(s, x), e) <=> Contains(s, e) \/ e = x
<1>1. /\ Append(s, x) \in Seq(S) /\ Len(s) \in Nat
      /\ Len(Append(s, x)) = Len(s) + 1
      /\ \A j \in 1 .. Len(s) + 1 : Append(s, x)[j] = IF j <= Len(s) THEN s[j] ELSE x
  OBVIOUS
<1>2. ASSUME NEW e, Contains(s, e) PROVE Contains(Append(s, x), e)
  <2>1. PICK j \in 1 .. Len(s) : s[j] = e
    BY <1>2 DEF Contains
  <2>2. j \in 1 .. Len(Append(s, x)) /\ Append(s, x)[j] = e
    BY <1>1, <2>1
  <2> QED
    BY <2>2 DEF Contains
<1>3. Contains(Append(s, x), x)
  <2>1. /\ Len(s) + 1 \in 1 .. Len(Append(s, x))
        /\ Append(s, x)[Len(s) + 1] = x
    BY <1>1
  <2> QED
    BY <2>1 DEF Contains
<1>4. ASSUME NEW e, Contains(Append(s, x), e) PROVE Contains(s, e) \/ e = x
  BY <1>1, <1>4 DEF Contains
<1> QED
  BY <1>1, <1>2, <1>3, <1>4

\* What is left of a list that takes an element and drops its eldest.
LEMMA TailAppendFacts ==
  ASSUME NEW S, NEW s \in Seq(S), NEW x \in S
  PROVE  /\ Tail(Append(s, x)) \in Seq(S)
         /\ Len(Tail(Append(s, x))) = Len(s)
         /\ Head(Append(s, x)) \in S
         /\ \A e : Contains(Tail(Append(s, x)), e) => Contains(s, e) \/ e = x
BY DEF Contains

\* Removing one entry shortens a list by one, shifts what follows, and adds nothing.
LEMMA RemoveAtFacts ==
  ASSUME NEW S, NEW s \in Seq(S), NEW k \in 1 .. Len(s)
  PROVE  /\ RemoveAt(s, k) \in Seq(S)
         /\ Len(RemoveAt(s, k)) = Len(s) - 1
         /\ \A j \in 1 .. Len(s) - 1 : RemoveAt(s, k)[j] = IF j < k THEN s[j] ELSE s[j + 1]
         /\ \A e : Contains(RemoveAt(s, k), e) => Contains(s, e)
<1> DEFINE a == SubSeq(s, 1, k - 1)
           b == SubSeq(s, k + 1, Len(s))
<1>0. k \in Int /\ Len(s) \in Nat /\ \A i \in 1 .. Len(s) : s[i] \in S
  BY ElementOfSeq, LenProperties
<1>1. /\ a \in Seq(S) /\ Len(a) = k - 1
      /\ \A i \in 1 .. k - 1 : a[i] = s[i]
  <2>1. \A i \in 1 .. k - 1 : s[i] \in S
    BY <1>0
  <2>2. /\ a \in Seq(S)
        /\ Len(a) = IF 1 <= k - 1 THEN k - 1 - 1 + 1 ELSE 0
        /\ \A i \in 1 .. k - 1 - 1 + 1 : a[i] = s[1 + i - 1]
    BY <1>0, <2>1, SubSeqProperties
  <2> QED
    BY <1>0, <2>2
<1>2. /\ b \in Seq(S) /\ Len(b) = Len(s) - k
      /\ \A i \in 1 .. Len(s) - k : b[i] = s[k + i]
  <2>1. \A i \in k + 1 .. Len(s) : s[i] \in S
    BY <1>0
  <2>2. /\ b \in Seq(S)
        /\ Len(b) = IF k + 1 <= Len(s) THEN Len(s) - (k + 1) + 1 ELSE 0
        /\ \A i \in 1 .. Len(s) - (k + 1) + 1 : b[i] = s[k + 1 + i - 1]
    BY <1>0, <2>1, SubSeqProperties
  <2> QED
    BY <1>0, <2>2
<1>3. /\ a \o b \in Seq(S)
      /\ Len(a \o b) = Len(a) + Len(b)
      /\ \A i \in 1 .. Len(a) + Len(b) :
           (a \o b)[i] = IF i <= Len(a) THEN a[i] ELSE b[i - Len(a)]
  BY <1>1, <1>2, ConcatProperties
<1>4. RemoveAt(s, k) = a \o b
  BY DEF RemoveAt
<1> HIDE DEF a, b
<1>5. Len(a \o b) = Len(s) - 1
  BY <1>0, <1>1, <1>2, <1>3
<1>6. \A i \in 1 .. Len(a \o b) : \E j \in 1 .. Len(s) : (a \o b)[i] = s[j]
  <2> SUFFICES ASSUME NEW i \in 1 .. Len(a \o b)
               PROVE  \E j \in 1 .. Len(s) : (a \o b)[i] = s[j]
    OBVIOUS
  <2>1. CASE i <= k - 1
    <3>1. (a \o b)[i] = s[i] /\ i \in 1 .. Len(s)
      BY <2>1, <1>0, <1>1, <1>2, <1>3, <1>5
    <3> QED
      BY <3>1
  <2>2. CASE i > k - 1
    <3>1. /\ (a \o b)[i] = b[i - (k - 1)]
          /\ i - (k - 1) \in 1 .. Len(s) - k
      BY <2>2, <1>0, <1>1, <1>2, <1>3, <1>5
    <3>2. /\ b[i - (k - 1)] = s[k + (i - (k - 1))]
          /\ k + (i - (k - 1)) \in 1 .. Len(s)
      BY <3>1, <1>0, <1>2
    <3> QED
      BY <3>1, <3>2
  <2> QED
    BY <2>1, <2>2, <1>0
<1>7. \A j \in 1 .. Len(s) - 1 : (a \o b)[j] = IF j < k THEN s[j] ELSE s[j + 1]
  <2> SUFFICES ASSUME NEW j \in 1 .. Len(s) - 1
               PROVE  (a \o b)[j] = IF j < k THEN s[j] ELSE s[j + 1]
    OBVIOUS
  <2>1. (a \o b)[j] = IF j <= k - 1 THEN a[j] ELSE b[j - (k - 1)]
    BY <1>0, <1>1, <1>2, <1>3
  <2>2. ASSUME j < k PROVE (a \o b)[j] = s[j]
    BY <1>0, <1>1, <2>1, <2>2
  <2>3. ASSUME j >= k PROVE (a \o b)[j] = s[j + 1]
    <3>1. (a \o b)[j] = b[j - (k - 1)] /\ j - (k - 1) \in 1 .. Len(s) - k
      BY <1>0, <2>1, <2>3
    <3>2. b[j - (k - 1)] = s[k + (j - (k - 1))] /\ k + (j - (k - 1)) = j + 1
      BY <1>0, <1>2, <3>1
    <3> QED
      BY <3>1, <3>2
  <2>4. j < k \/ j >= k
    BY <1>0
  <2>5. j < k => (a \o b)[j] = s[j]
    BY <2>2
  <2>6. j >= k => (a \o b)[j] = s[j + 1]
    BY <2>3, <1>0
  <2> QED
    BY <2>4, <2>5, <2>6
<1>8. \A e : Contains(a \o b, e) => Contains(s, e)
  BY <1>6 DEF Contains
<1> QED
  BY <1>3, <1>5, <1>4, <1>8, <1>7

\* Removing one entry of a list without repetitions removes that element alone.
LEMMA RemoveAtDistinct ==
  ASSUME NEW S, NEW s \in Seq(S), NEW k \in 1 .. Len(s),
         \A i, j \in DOMAIN s : s[i] = s[j] => i = j
  PROVE  /\ \A e : Contains(RemoveAt(s, k), e) <=> Contains(s, e) /\ e # s[k]
         /\ \A i, j \in DOMAIN RemoveAt(s, k) : RemoveAt(s, k)[i] = RemoveAt(s, k)[j] => i = j
<1> DEFINE r == RemoveAt(s, k)
<1>1. /\ r \in Seq(S) /\ Len(r) = Len(s) - 1 /\ Len(s) \in Nat /\ k \in Int
      /\ \A j \in 1 .. Len(s) - 1 : r[j] = IF j < k THEN s[j] ELSE s[j + 1]
  BY RemoveAtFacts, LenProperties
<1>2. DOMAIN r = 1 .. Len(s) - 1 /\ DOMAIN s = 1 .. Len(s)
  BY <1>1, LenProperties
<1> HIDE DEF r
<1>3. ASSUME NEW e, Contains(s, e), e # s[k]
      PROVE  Contains(r, e)
  <2>1. PICK j \in 1 .. Len(s) : s[j] = e
    BY <1>3 DEF Contains
  <2>2. CASE j < k
    BY <1>1, <2>1, <2>2 DEF Contains
  <2>3. CASE j > k
    <3>1. j - 1 \in 1 .. Len(s) - 1 /\ ~(j - 1 < k) /\ j - 1 + 1 = j
      BY <1>1, <2>1, <2>3
    <3>2. r[j - 1] = e
      BY <1>1, <2>1, <3>1
    <3> QED
      BY <1>1, <3>1, <3>2 DEF Contains
  <2> QED
    BY <1>1, <1>3, <2>1, <2>2, <2>3
<1>4. ASSUME NEW e, Contains(r, e)
      PROVE  Contains(s, e) /\ e # s[k]
  <2>1. PICK j \in 1 .. Len(s) - 1 : r[j] = e
    BY <1>1, <1>4 DEF Contains
  <2>2. CASE j < k
    <3>1. e = s[j] /\ j \in 1 .. Len(s) /\ j # k
      BY <1>1, <2>1, <2>2
    <3> QED
      BY <1>2, <3>1 DEF Contains
  <2>3. CASE ~(j < k)
    <3>1. e = s[j + 1] /\ j + 1 \in 1 .. Len(s) /\ j + 1 # k
      BY <1>1, <2>1, <2>3
    <3> QED
      BY <1>2, <3>1 DEF Contains
  <2> QED
    BY <2>2, <2>3
<1>5. ASSUME NEW i \in DOMAIN r, NEW j \in DOMAIN r, r[i] = r[j]
      PROVE  i = j
  <2>1. i \in 1 .. Len(s) - 1 /\ j \in 1 .. Len(s) - 1
    BY <1>2
  <2> DEFINE u == IF i < k THEN i ELSE i + 1
             v == IF j < k THEN j ELSE j + 1
  <2>2. u \in DOMAIN s /\ v \in DOMAIN s
    BY <1>1, <1>2, <2>1
  <2>3. r[i] = s[u] /\ r[j] = s[v]
    BY <1>1, <2>1
  <2>4. u = v
    BY <1>5, <2>2, <2>3
  <2> QED
    BY <1>1, <2>1, <2>4
<1> QED
  BY <1>3, <1>4, <1>5 DEF r
\* Removing one entry loses no other.
LEMMA RemoveAtKeeps ==
  ASSUME NEW S, NEW s \in Seq(S), NEW k \in 1 .. Len(s),
         NEW e, Contains(s, e), e # s[k]
  PROVE  Contains(RemoveAt(s, k), e)
<1> DEFINE r == RemoveAt(s, k)
<1>1. /\ r \in Seq(S) /\ Len(r) = Len(s) - 1 /\ Len(s) \in Nat /\ k \in Int
      /\ \A j \in 1 .. Len(s) - 1 : r[j] = IF j < k THEN s[j] ELSE s[j + 1]
  BY RemoveAtFacts, LenProperties
<1> HIDE DEF r
<1>2. PICK j \in 1 .. Len(s) : s[j] = e
  BY DEF Contains
<1>3. j # k /\ j \in Int
  BY <1>2
<1>4. CASE j < k
  <2>1. j \in 1 .. Len(s) - 1 /\ r[j] = e
    BY <1>1, <1>2, <1>3, <1>4
  <2> QED
    BY <1>1, <2>1 DEF Contains, r
<1>5. CASE j > k
  <2>1. j - 1 \in 1 .. Len(s) - 1 /\ ~(j - 1 < k) /\ (j - 1) + 1 = j
    BY <1>1, <1>2, <1>3, <1>5
  <2>2. r[j - 1] = e
    BY <1>1, <1>2, <2>1
  <2> QED
    BY <1>1, <2>1, <2>2 DEF Contains, r
<1> QED
  BY <1>1, <1>3, <1>4, <1>5

\* Nor does pushing the eldest out at one end while another joins at the other.
LEMMA TailAppendKeeps ==
  ASSUME NEW S, NEW s \in Seq(S), NEW x \in S,
         NEW e, Contains(s, e) \/ e = x, e # Head(Append(s, x))
  PROVE  Contains(Tail(Append(s, x)), e)
<1> DEFINE a == Append(s, x)
<1>1. a \in Seq(S) /\ Len(a) = Len(s) + 1 /\ Len(s) \in Nat /\ Contains(a, e)
  BY AppendFacts, LenProperties
<1>2. Head(a) = a[1]
  BY <1>1
<1> HIDE DEF a
<1>3. PICK j \in 1 .. Len(a) : a[j] = e
  BY <1>1 DEF Contains
<1>4. j # 1 /\ j \in Int
  BY <1>2, <1>3 DEF a
<1>5. /\ Len(Tail(a)) = Len(a) - 1 /\ j - 1 \in 1 .. Len(a) - 1
      /\ Tail(a)[j - 1] = a[(j - 1) + 1]
  BY <1>1, <1>3, <1>4
<1>6. (j - 1) + 1 = j
  BY <1>4
<1> QED
  BY <1>3, <1>5, <1>6 DEF Contains, a

-----------------------------------------------------------------------------
\* A set of numbers that is not empty has a least one.
LEMMA NatMin ==
  ASSUME NEW T \in SUBSET Nat, T # {}
  PROVE  \E x \in T : \A y \in T : x <= y
<1> DEFINE R == OpToRel(<, Nat)
<1>1. IsWellFoundedOn(R, Nat)
  BY NatLessThanWellFounded
<1>2. \A y, x \in Nat : y < x => <<y, x>> \in R
  BY Zenon DEF OpToRel
<1> HIDE DEF R
<1>3. PICK x \in T : \A y \in T : ~(<<y, x>> \in R)
  BY <1>1, WFMin
<1>4. \A y \in T : ~(y < x)
  BY <1>2, <1>3
<1>5. x \in Nat /\ \A y \in T : y \in Nat
  OBVIOUS
<1> QED
  BY <1>3, <1>4, <1>5

\* Induction over the numbers, stated of a set of them instead of a predicate.
LEMMA NatSetInduction ==
  ASSUME NEW T, 0 \in T, \A m \in Nat : m \in T => m + 1 \in T
  PROVE  \A n \in Nat : n \in T
<1> SUFFICES ASSUME Nat \ T # {} PROVE FALSE
  OBVIOUS
<1>1. Nat \ T \in SUBSET Nat
  OBVIOUS
<1>2. PICK x \in Nat \ T : \A y \in Nat \ T : x <= y
  BY <1>1, NatMin
<1>3. x - 1 \in Nat /\ (x - 1) + 1 = x
  BY <1>2
<1>4. x - 1 \in T
  <2>1. ~(x <= x - 1)
    BY <1>2
  <2> QED
    BY <1>2, <1>3, <2>1
<1> QED
  BY <1>2, <1>3, <1>4

\* The greatest number of a set of indices.
LEMMA MaxOfIndices ==
  ASSUME NEW n \in Nat, NEW s \in SUBSET (1 .. n), s # {}
  PROVE  Max(s) \in s /\ \A y \in s : y <= Max(s)
<1> DEFINE Above == {k \in Nat : \A y \in s : y <= k}
<1>1. Above \in SUBSET Nat /\ Above # {}
  <2>1. n \in Above
    OBVIOUS
  <2> QED
    BY <2>1
<1> HIDE DEF Above
<1>2. PICK k \in Above : \A j \in Above : k <= j
  BY <1>1, NatMin
<1>3. k \in Nat /\ \A y \in s : y <= k
  BY <1>2 DEF Above
<1>4. k \in s
  <2> SUFFICES ASSUME k \notin s PROVE FALSE
    OBVIOUS
  <2>1. PICK z \in s : TRUE
    OBVIOUS
  <2>2. \A y \in s : y \in Nat /\ y >= 1
    OBVIOUS
  <2>3. k - 1 \in Nat /\ \A y \in s : y <= k - 1
    BY <1>3, <2>1, <2>2
  <2>4. k - 1 \in Above
    BY <2>3 DEF Above
  <2> QED
    BY <1>2, <1>3, <2>4
<1>5. k \in s /\ \A y \in s : k >= y
  BY <1>3, <1>4
<1>6. Max(s) \in s /\ \A y \in s : Max(s) >= y
  BY <1>5 DEF Max
<1> QED
  <2>1. \A y \in s : y \in Nat
    OBVIOUS
  <2> QED
    BY <1>6, <2>1
=============================================================================
