------------------------------ MODULE ListLemmas ------------------------------
(***************************************************************************)
(* Lemmas about lists and about sorting, for the proofs about the two      *)
(* synchronisations and their readers.                                     *)
(***************************************************************************)
EXTENDS Naturals, FiniteSets, SequencesExt, SortedLists, SequenceTheorems,
        FiniteSetTheorems, WellFoundedInduction, TLAPS

(* Taking an element out of a list leaves a list of the same kind ... *)
LEMMA RemoveAtType ==
    ASSUME NEW S, NEW s \in Seq(S), NEW i \in DOMAIN s
    PROVE  RemoveAt(s, i) \in Seq(S)
<1>1. i \in 1..Len(s)
  OBVIOUS
<1>2. SubSeq(s, 1, i - 1) \in Seq(S)
  BY <1>1, SubSeqProperties
<1>3. SubSeq(s, i + 1, Len(s)) \in Seq(S)
  BY <1>1, SubSeqProperties
<1> QED
  BY <1>2, <1>3, ConcatProperties DEF RemoveAt

(* ... one shorter, with the elements after it moved up by one. *)
LEMMA RemoveAtProperties ==
    ASSUME NEW S, NEW s \in Seq(S), NEW i \in DOMAIN s
    PROVE  /\ RemoveAt(s, i) \in Seq(S)
           /\ Len(RemoveAt(s, i)) = Len(s) - 1
           /\ \A k \in 1 .. Len(s) - 1 :
                 RemoveAt(s, i)[k] = IF k < i THEN s[k] ELSE s[k + 1]
<1> DEFINE front == SubSeq(s, 1, i - 1)
           back  == SubSeq(s, i + 1, Len(s))
<1>1. i \in 1..Len(s) /\ Len(s) \in Nat
  OBVIOUS
<1>2. /\ front \in Seq(S) /\ Len(front) = i - 1
      /\ \A k \in 1 .. i - 1 : front[k] = s[k]
  BY <1>1, SubSeqProperties
<1>3. /\ back \in Seq(S) /\ Len(back) = Len(s) - i
      /\ \A k \in 1 .. Len(s) - i : back[k] = s[i + k]
  BY <1>1, SubSeqProperties
<1>4. RemoveAt(s, i) = front \o back
  BY DEF RemoveAt
<1> HIDE DEF front, back
<1>5. Len(front \o back) = Len(s) - 1
  BY <1>1, <1>2, <1>3, ConcatProperties
<1>6. ASSUME NEW k \in 1 .. Len(s) - 1
      PROVE  (front \o back)[k] = IF k < i THEN s[k] ELSE s[k + 1]
  <2>1. CASE k < i
    <3>1. k \in 1 .. Len(front)
      BY <1>1, <1>2, <2>1
    <3>2. (front \o back)[k] = front[k]
      BY <1>2, <1>3, <3>1, ConcatProperties
    <3> QED
      BY <1>1, <1>2, <2>1, <3>1, <3>2
  <2>2. CASE ~(k < i)
    <3>1. k \in Len(front) + 1 .. Len(front) + Len(back) /\ k - Len(front) \in 1 .. Len(s) - i
      BY <1>1, <1>2, <1>3, <2>2
    <3>2. k \in 1 .. Len(front) + Len(back) /\ ~(k <= Len(front))
      BY <1>1, <1>2, <1>3, <3>1
    <3>4. (front \o back)[k] = back[k - Len(front)]
      BY <1>2, <1>3, <3>2, ConcatProperties
    <3>3. i + (k - Len(front)) = k + 1
      BY <1>1, <1>2
    <3> QED
      BY <1>3, <2>2, <3>1, <3>3, <3>4
  <2> QED
    BY <2>1, <2>2
<1>7. front \o back \in Seq(S)
  BY <1>2, <1>3, ConcatProperties
<1> QED
  BY <1>4, <1>5, <1>6, <1>7

(* No repetitions. *)
Distinct(s) == \A i, j \in 1..Len(s) : s[i] = s[j] => i = j

(* Membership. *)
Has(s, e) == \E i \in 1..Len(s) : s[i] = e

(* Out of a list without repetitions it takes that element and no other. *)
LEMMA RemoveAtElements ==
    ASSUME NEW S, NEW s \in Seq(S), NEW k \in 1..Len(s), NEW rest,
           Distinct(s), rest = RemoveAt(s, k)
    PROVE  /\ rest \in Seq(S)
           /\ Distinct(rest)
           /\ ~Has(rest, s[k])
           /\ \A e \in S : e # s[k] => (Has(rest, e) <=> Has(s, e))
<1>1. k \in DOMAIN s /\ Len(s) \in Nat
  OBVIOUS
<1>2. /\ rest \in Seq(S) /\ Len(rest) = Len(s) - 1
      /\ \A i \in 1 .. Len(s) - 1 : rest[i] = IF i < k THEN s[i] ELSE s[i + 1]
  BY <1>1, RemoveAtProperties
<1>3. ASSUME NEW i \in 1..Len(rest)
      PROVE  \E n \in 1..Len(s) : /\ n = IF i < k THEN i ELSE i + 1
                                  /\ rest[i] = s[n]
  BY <1>1, <1>2
<1>4. ASSUME NEW i \in 1..Len(rest), NEW j \in 1..Len(rest), rest[i] = rest[j]
      PROVE  i = j
  BY <1>1, <1>2, <1>3, <1>4 DEF Distinct
<1>5. \A i \in 1..Len(rest) : rest[i] # s[k]
  BY <1>1, <1>2, <1>3 DEF Distinct
<1>6. ASSUME NEW i \in 1..Len(s), i # k
      PROVE  \E n \in 1..Len(rest) : rest[n] = s[i]
  <2>1. CASE i < k
    <3>1. i \in 1..Len(rest) /\ rest[i] = s[i]
      BY <1>1, <1>2, <2>1
    <3> QED BY <3>1
  <2>2. CASE i > k
    <3>1. i - 1 \in 1..Len(rest) /\ rest[i - 1] = s[i]
      BY <1>1, <1>2, <2>2
    <3> QED BY <3>1
  <2> QED BY <1>1, <1>6, <2>1, <2>2
<1>7. ASSUME NEW e \in S, e # s[k] PROVE Has(rest, e) <=> Has(s, e)
  <2>1. ASSUME NEW i \in 1..Len(rest), rest[i] = e PROVE \E n \in 1..Len(s) : s[n] = e
    BY <1>3, <2>1
  <2>2. ASSUME NEW i \in 1..Len(s), s[i] = e PROVE \E n \in 1..Len(rest) : rest[n] = e
    <3>1. i # k
      BY <1>7, <2>2
    <3> QED BY <1>6, <2>2, <3>1
  <2> QED BY <2>1, <2>2 DEF Has
<1> QED
  BY <1>2, <1>4, <1>5, <1>7 DEF Distinct, Has

(* Those others stay in their order.                                       *)
LEMMA RemoveAtOrder ==
    ASSUME NEW S, NEW s \in Seq(S), NEW k \in 1..Len(s),
           NEW i \in 1..Len(RemoveAt(s, k)), NEW j \in 1..Len(RemoveAt(s, k)), i < j
    PROVE  \E m, n \in 1..Len(s) :
              m < n /\ s[m] = RemoveAt(s, k)[i] /\ s[n] = RemoveAt(s, k)[j]
<1>1. k \in DOMAIN s /\ Len(s) \in Nat
  OBVIOUS
<1>2. PICK rest : rest = RemoveAt(s, k)
  OBVIOUS
<1>3. /\ Len(rest) = Len(s) - 1
      /\ \A l \in 1 .. Len(s) - 1 : rest[l] = IF l < k THEN s[l] ELSE s[l + 1]
  BY <1>1, <1>2, RemoveAtProperties
<1>4. i \in 1 .. Len(s) - 1 /\ j \in 1 .. Len(s) - 1
  BY <1>2, <1>3
<1>5. ASSUME NEW l \in 1 .. Len(s) - 1
      PROVE  \E n \in 1..Len(s) : n = (IF l < k THEN l ELSE l + 1) /\ rest[l] = s[n]
  BY <1>1, <1>3
<1>6. PICK m \in 1..Len(s) : m = (IF i < k THEN i ELSE i + 1) /\ rest[i] = s[m]
  BY <1>4, <1>5
<1>7. PICK n \in 1..Len(s) : n = (IF j < k THEN j ELSE j + 1) /\ rest[j] = s[n]
  BY <1>4, <1>5
<1>8. m < n
  BY <1>1, <1>4, <1>6, <1>7
<1> QED BY <1>2, <1>6, <1>7, <1>8

(* A set of places of a list has a largest one. *)
LEMMA LargestIn ==
    ASSUME NEW n \in Nat, NEW S, S \subseteq 1..n, S # {}
    PROVE  \E m \in S : \A i \in S : i <= m
<1> DEFINE T == {n - i : i \in S}
           R == OpToRel(<, Nat)
<1>1. T \subseteq Nat /\ T # {}
  <2>1. \A i \in S : n - i \in Nat
    OBVIOUS
  <2>2. PICK i \in S : TRUE
    OBVIOUS
  <2>3. n - i \in T
    OBVIOUS
  <2> QED BY <2>1, <2>3
<1>2. IsWellFoundedOn(R, Nat)
  BY NatLessThanWellFounded
<1> HIDE DEF T
<1>3. PICK x \in T : \A y \in T : <<y, x>> \notin R
  <2> HIDE DEF R
  <2> QED BY <1>1, <1>2, WFMin
<1>4. \A y \in T : ~ (y < x)
  BY <1>1, <1>3 DEF OpToRel
<1>5. PICK m \in S : x = n - m
  BY DEF T
<1>6. \A i \in S : ~ (n - i < n - m)
  BY <1>4, <1>5 DEF T
<1> QED
  BY <1>5, <1>6

(* A list without repetitions has as many elements as it is long. *)
LEMMA RangeSize ==
    ASSUME NEW S, NEW s \in Seq(S), \A i, j \in DOMAIN s : s[i] = s[j] => i = j
    PROVE  IsFiniteSet(Range(s)) /\ Cardinality(Range(s)) = Len(s)
<1>1. DOMAIN s = 1..Len(s) /\ Len(s) \in Nat
  OBVIOUS
<1>2. IsFiniteSet(1..Len(s)) /\ Cardinality(1..Len(s)) = Len(s)
  BY <1>1, FS_Interval
<1>3. s \in Bijection(1..Len(s), Range(s))
  <2>1. s \in [1..Len(s) -> Range(s)]
    BY <1>1 DEF Range
  <2>2. s \in Injection(1..Len(s), Range(s))
    BY <1>1, <2>1 DEF Injection, IsInjective
  <2>3. s \in Surjection(1..Len(s), Range(s))
    BY <1>1, <2>1 DEF Range, Surjection
  <2> QED
    BY <2>2, <2>3 DEF Bijection
<1> QED
  BY <1>2, <1>3, FS_Bijection DEF ExistsBijection

-----------------------------------------------------------------------------
(* What SortedBy answers.  That a set has as many elements as places is    *)
(* all the counting it takes: no induction is needed.                      *)

(* R puts any two elements of S in one order. *)
Orders(R, S) ==
    /\ \A x \in S : <<x, x>> \notin R
    /\ \A x, y, z \in S : <<x, y>> \in R /\ <<y, z>> \in R => <<x, z>> \in R
    /\ \A x, y \in S : x = y \/ <<x, y>> \in R \/ <<y, x>> \in R

(* The elements of S before x. *)
Preceding(x, S, R) == {y \in S : <<y, x>> \in R}

LEMMA PlaceCounts ==
    ASSUME NEW S, NEW R, IsFiniteSet(S), Orders(R, S), NEW x \in S
    PROVE  /\ IsFiniteSet(Preceding(x, S, R))
           /\ Place(x, S, R) = Cardinality(Preceding(x, S, R))
           /\ Place(x, S, R) \in 0 .. Cardinality(S) - 1
<1>1. Preceding(x, S, R) \subseteq S \ {x}
  BY DEF Preceding, Orders
<1>2. /\ IsFiniteSet(S \ {x}) /\ Cardinality(S \ {x}) = Cardinality(S) - 1
      /\ Cardinality(S) \in Nat
  BY FS_RemoveElement, FS_CardinalityType
<1>3. IsFiniteSet(Preceding(x, S, R))
      /\ Cardinality(Preceding(x, S, R)) <= Cardinality(S) - 1
  BY <1>1, <1>2, FS_Subset
<1>4. Cardinality(Preceding(x, S, R)) \in Nat
  BY <1>3, FS_CardinalityType
<1>5. Place(x, S, R) = Cardinality(Preceding(x, S, R))
  BY DEF Place, Preceding
<1>6. Cardinality(Preceding(x, S, R)) \in 0 .. Cardinality(S) - 1
  BY <1>2, <1>3, <1>4
<1> QED
  BY <1>3, <1>5, <1>6

(* An element that comes later has more elements before it. *)
LEMMA PlaceGrows ==
    ASSUME NEW S, NEW R, IsFiniteSet(S), Orders(R, S),
           NEW x \in S, NEW y \in S, <<x, y>> \in R
    PROVE  Place(x, S, R) < Place(y, S, R)
<1> DEFINE P == Preceding(x, S, R)
           Q == Preceding(y, S, R)
<1>1. /\ IsFiniteSet(P) /\ Place(x, S, R) = Cardinality(P)
      /\ IsFiniteSet(Q) /\ Place(y, S, R) = Cardinality(Q)
  BY PlaceCounts
<1>2. P \cup {x} \subseteq Q /\ x \notin P
  BY DEF Preceding, Orders
<1> HIDE DEF P, Q
<1>3. IsFiniteSet(P \cup {x}) /\ Cardinality(P \cup {x}) = Cardinality(P) + 1
  BY <1>1, <1>2, FS_AddElement
<1>4. Cardinality(P \cup {x}) <= Cardinality(Q)
  BY <1>1, <1>2, FS_Subset
<1>5. Cardinality(P) \in Nat /\ Cardinality(Q) \in Nat
  BY <1>1, FS_CardinalityType
<1> QED
  BY <1>1, <1>3, <1>4, <1>5

(* So no two elements have one place, and every place is taken. *)
LEMMA PlaceTaken ==
    ASSUME NEW S, NEW R, IsFiniteSet(S), Orders(R, S)
    PROVE  /\ \A x, y \in S : Place(x, S, R) = Place(y, S, R) => x = y
           /\ \A i \in 0 .. Cardinality(S) - 1 : \E x \in S : Place(x, S, R) = i
<1> DEFINE n == Cardinality(S)
           f == [x \in S |-> Place(x, S, R)]
<1>0. n \in Nat
  BY FS_CardinalityType
<1>1. \A x \in S : Place(x, S, R) \in 0 .. n - 1
  BY PlaceCounts
<1>2. ASSUME NEW x \in S, NEW y \in S, Place(x, S, R) = Place(y, S, R) PROVE x = y
  <2>1. \A a, b \in S : <<a, b>> \in R => Place(a, S, R) < Place(b, S, R)
    BY PlaceGrows
  <2>2. <<x, y>> \notin R /\ <<y, x>> \notin R
    <3>1. Place(x, S, R) \in Int
      BY <1>0, <1>1
    <3> QED BY <1>2, <2>1, <3>1
  <2> QED
    BY <2>2 DEF Orders
<1>3. IsFiniteSet(0 .. n - 1) /\ Cardinality(0 .. n - 1) = n
  BY <1>0, FS_Interval
<1>4. f \in Injection(S, 0 .. n - 1)
  BY <1>1, <1>2 DEF Injection, IsInjective
<1>5. f \in Surjection(S, 0 .. n - 1)
  BY <1>3, <1>4, FS_Injection
<1>6. ASSUME NEW i \in 0 .. n - 1 PROVE \E x \in S : Place(x, S, R) = i
  <2>1. \E x \in S : f[x] = i
    BY <1>5 DEF Surjection
  <2> QED BY <2>1
<1> QED
  BY <1>2, <1>6

(* SortedBy(S, R) lists each element of S once, in the order R. *)
LEMMA SortedProperties ==
    ASSUME NEW S, NEW R, IsFiniteSet(S), Orders(R, S)
    PROVE  LET s == SortedBy(S, R)
           IN  /\ s \in Seq(S)
               /\ Len(s) = Cardinality(S)
               /\ \A i \in 1 .. Cardinality(S) : s[i] \in S /\ Place(s[i], S, R) = i - 1
               /\ \A x \in S : /\ Place(x, S, R) + 1 \in 1 .. Cardinality(S)
                               /\ s[Place(x, S, R) + 1] = x
               /\ Range(s) = S
<1> DEFINE n == Cardinality(S)
           s == SortedBy(S, R)
<1>0. n \in Nat
  BY FS_CardinalityType
<1>1. s = [i \in 1 .. n |-> CHOOSE x \in S : Place(x, S, R) = i - 1]
  BY DEF SortedBy
<1>2. ASSUME NEW i \in 1 .. n PROVE s[i] \in S /\ Place(s[i], S, R) = i - 1
  <2>1. i - 1 \in 0 .. n - 1
    BY <1>0
  <2>2. \E x \in S : Place(x, S, R) = i - 1
    BY <2>1, PlaceTaken
  <2>3. s[i] = CHOOSE x \in S : Place(x, S, R) = i - 1
    BY <1>1
  <2> QED BY <2>2, <2>3
<1> HIDE DEF s
<1>3. s \in [1 .. n -> S]
  BY <1>1, <1>2
<1>4. s \in Seq(S) /\ Len(s) = n /\ DOMAIN s = 1 .. n
  BY <1>0, <1>3
<1>5. ASSUME NEW x \in S
      PROVE  Place(x, S, R) + 1 \in 1 .. n /\ s[Place(x, S, R) + 1] = x
  <2>1. PICK p \in 0 .. n - 1 : p = Place(x, S, R)
    BY PlaceCounts
  <2>2. p + 1 \in 1 .. n /\ (p + 1) - 1 = p
    BY <1>0
  <2>3. s[p + 1] \in S /\ Place(s[p + 1], S, R) = p
    BY <1>2, <2>2
  <2>4. s[p + 1] = x
    BY <2>1, <2>3, PlaceTaken
  <2> QED BY <2>1, <2>2, <2>4
<1>6. Range(s) = S
  <2>1. Range(s) \subseteq S
    BY <1>2, <1>4 DEF Range
  <2>2. ASSUME NEW x \in S PROVE x \in Range(s)
    BY <1>4, <1>5 DEF Range
  <2> QED BY <2>1, <2>2
<1> QED
  BY <1>2, <1>4, <1>5, <1>6 DEF s

(* What comes after the k-th element, in the same order, is the rest of    *)
(* the list: a query with that element as its cursor answers it.           *)
LEMMA SortedRest ==
    ASSUME NEW S, NEW R, IsFiniteSet(S), Orders(R, S),
           NEW k \in 1 .. Cardinality(S), NEW x \in S, SortedBy(S, R)[k] = x
    PROVE  /\ Cardinality({y \in S : <<x, y>> \in R}) = Cardinality(S) - k
           /\ SortedBy({y \in S : <<x, y>> \in R}, R)
                 = SubSeq(SortedBy(S, R), k + 1, Cardinality(S))
<1> DEFINE n == Cardinality(S)
           s == SortedBy(S, R)
           T == {y \in S : <<x, y>> \in R}
           t == SortedBy(T, R)
           F == Preceding(x, S, R) \cup {x}
<1>0. n \in Nat /\ k \in Nat /\ k <= n /\ 1 <= k
  BY FS_CardinalityType
<1>1. /\ s \in Seq(S) /\ Len(s) = n
      /\ \A i \in 1 .. n : s[i] \in S /\ Place(s[i], S, R) = i - 1
  BY SortedProperties
<1>2. Place(x, S, R) = k - 1
  BY <1>1
<1>3. IsFiniteSet(F) /\ Cardinality(F) = k
  <2>1. /\ IsFiniteSet(Preceding(x, S, R))
        /\ Cardinality(Preceding(x, S, R)) = k - 1
    BY <1>2, PlaceCounts
  <2>2. x \notin Preceding(x, S, R)
    BY DEF Preceding, Orders
  <2> QED
    BY <1>0, <2>1, <2>2, FS_AddElement
<1>4. S \ T = F /\ F \subseteq S /\ T \subseteq S
  <2>1. F \subseteq S /\ T \subseteq S
    BY DEF Preceding
  <2>2. ASSUME NEW y \in S PROVE y \in F <=> y \notin T
    <3>1. (y \in F <=> y = x \/ <<y, x>> \in R) /\ (y \in T <=> <<x, y>> \in R)
      BY DEF Preceding
    <3>2. y = x \/ <<x, y>> \in R \/ <<y, x>> \in R
      BY DEF Orders
    <3>3. <<x, x>> \notin R /\ ~(<<x, y>> \in R /\ <<y, x>> \in R)
      BY DEF Orders
    <3> QED BY <3>1, <3>2, <3>3
  <2> HIDE DEF T, F
  <2> QED BY <2>1, <2>2
<1>5. IsFiniteSet(T) /\ Cardinality(T) = n - k
  <2>1. T = S \ F /\ S \cap F = F
    BY <1>4
  <2> HIDE DEF T, F
  <2>2. IsFiniteSet(S \ F) /\ Cardinality(S \ F) = n - Cardinality(S \cap F)
    BY FS_Difference
  <2> QED
    BY <1>3, <2>1, <2>2
<1>6. Orders(R, T)
  <2>1. T \subseteq S
    BY <1>4
  <2> HIDE DEF T
  <2> QED
    BY <2>1 DEF Orders
<1>7. /\ t \in Seq(T) /\ Len(t) = n - k
      /\ \A i \in 1 .. n - k : t[i] \in T /\ Place(t[i], T, R) = i - 1
  BY <1>5, <1>6, SortedProperties
<1>8. ASSUME NEW y \in T PROVE Place(y, S, R) = Place(y, T, R) + k
  <2>1. Preceding(y, S, R) = Preceding(y, T, R) \cup F
    <3>1. \A z \in F : <<z, y>> \in R
      BY <1>4 DEF Preceding, Orders
    <3> HIDE DEF F, T
    <3> QED
      BY <1>4, <3>1 DEF Preceding
  <2>2. Preceding(y, T, R) \cap F = {}
    <3>1. Preceding(y, T, R) \subseteq T
      BY DEF Preceding
    <3> QED BY <1>4, <3>1
  <2>3. /\ IsFiniteSet(Preceding(y, T, R))
        /\ Place(y, T, R) = Cardinality(Preceding(y, T, R))
    <3> HIDE DEF T
    <3> QED BY <1>5, <1>6, PlaceCounts
  <2>4. Place(y, S, R) = Cardinality(Preceding(y, S, R))
    BY <1>4, PlaceCounts
  <2>5. Cardinality(Preceding(y, T, R) \cup F)
           = Cardinality(Preceding(y, T, R)) + k - Cardinality({})
    BY <1>3, <2>2, <2>3, FS_Union
  <2>6. Cardinality(Preceding(y, T, R)) \in Nat /\ Cardinality({}) = 0
    BY <2>3, FS_CardinalityType, FS_EmptySet
  <2> QED
    BY <1>0, <2>1, <2>3, <2>4, <2>5, <2>6
<1> HIDE DEF s, t, T, F
<1>9. ASSUME NEW i \in 1 .. n - k PROVE t[i] = s[k + i]
  <2>1. k + i \in 1 .. n
    BY <1>0
  <2>2. t[i] \in S /\ s[k + i] \in S
    BY <1>1, <1>4, <1>7, <2>1
  <2>3. Place(t[i], S, R) = (i - 1) + k
    BY <1>7, <1>8
  <2>4. Place(s[k + i], S, R) = (k + i) - 1
    BY <1>1, <2>1
  <2>5. (i - 1) + k = (k + i) - 1
    BY <1>0
  <2> QED
    BY <2>2, <2>3, <2>4, <2>5, PlaceTaken
<1>10. /\ SubSeq(s, k + 1, n) \in Seq(S)
       /\ Len(SubSeq(s, k + 1, n)) = n - k
       /\ \A i \in 1 .. n - k : SubSeq(s, k + 1, n)[i] = s[k + i]
  <2>1. \A i \in k + 1 .. n : s[i] \in S
    BY <1>0, <1>1
  <2>2. /\ SubSeq(s, k + 1, n) \in Seq(S)
        /\ Len(SubSeq(s, k + 1, n)) = IF k + 1 <= n THEN n - (k + 1) + 1 ELSE 0
        /\ \A i \in 1 .. n - (k + 1) + 1 : SubSeq(s, k + 1, n)[i] = s[(k + 1) + i - 1]
    BY <1>0, <2>1, SubSeqProperties
  <2>3. n - (k + 1) + 1 = n - k
    BY <1>0
  <2>4. ASSUME NEW i \in 1 .. n - k PROVE (k + 1) + i - 1 = k + i
    BY <1>0
  <2>5. (IF k + 1 <= n THEN n - (k + 1) + 1 ELSE 0) = n - k
    BY <1>0
  <2> QED BY <2>2, <2>3, <2>4, <2>5
<1>11. t = SubSeq(s, k + 1, n)
  <2>1. t \in Seq(S)
    BY <1>4, <1>7
  <2> QED
    BY <1>7, <1>9, <1>10, <2>1, SeqEqual
<1> QED
  BY <1>5, <1>11 DEF T, s, t

-----------------------------------------------------------------------------
(* Pages of a list. *)

(* The elements of a list behind the first n of them, at most max. *)
PageOf(rows, n, max) ==
    SubSeq(rows, n + 1, IF n + max < Len(rows) THEN n + max ELSE Len(rows))

(* What follows n rows of a list, and that both make n + k rows of it. *)
LEMMA PageFollows ==
    ASSUME NEW S, NEW max \in Nat \ {0}, NEW rows \in Seq(S), NEW n \in 0 .. Len(rows)
    PROVE  /\ PageOf(rows, n, max) \in Seq(S)
           /\ n + Len(PageOf(rows, n, max)) \in n .. Len(rows)
           /\ SubSeq(rows, 1, n) \o PageOf(rows, n, max)
                 = SubSeq(rows, 1, n + Len(PageOf(rows, n, max)))
           /\ Len(PageOf(rows, n, max)) # max => n + Len(PageOf(rows, n, max)) = Len(rows)
           /\ Len(rows) <= n + max => n + Len(PageOf(rows, n, max)) = Len(rows)
           /\ n < Len(rows) => PageOf(rows, n, max) # <<>>
           /\ PageOf(rows, n, max) # <<>> =>
                 Last(PageOf(rows, n, max)) = rows[n + Len(PageOf(rows, n, max))]
<1> DEFINE end == IF n + max < Len(rows) THEN n + max ELSE Len(rows)
           p == PageOf(rows, n, max)
<1>0. max \in Nat /\ max # 0 /\ Len(rows) \in Nat /\ n \in Nat /\ n <= Len(rows)
  OBVIOUS
<1>1. end \in n .. Len(rows) /\ end \in Nat
  BY <1>0
<1>2. p = SubSeq(rows, n + 1, end)
  BY DEF PageOf
<1>3. end - n # max => end = Len(rows)
  BY <1>0
<1>4. n < Len(rows) => end # n
  BY <1>0
<1>13. Len(rows) <= n + max => end = Len(rows)
  BY <1>0
<1> HIDE DEF end, p
<1>5. \A i \in n + 1 .. end : rows[i] \in S
  BY <1>0, <1>1
<1>6. /\ p \in Seq(S)
      /\ Len(p) = IF n + 1 <= end THEN end - (n + 1) + 1 ELSE 0
      /\ \A i \in 1 .. end - (n + 1) + 1 : p[i] = rows[(n + 1) + i - 1]
  BY <1>0, <1>1, <1>2, <1>5, SubSeqProperties
<1>7. Len(p) = end - n /\ n + Len(p) = end
  <2>1. PICK e \in Nat : e = end /\ n <= e
    BY <1>0, <1>1
  <2>2. (IF n + 1 <= e THEN e - (n + 1) + 1 ELSE 0) = e - n
    BY <1>0, <2>1
  <2>3. n + (e - n) = e
    BY <1>0, <2>1
  <2> QED
    BY <1>6, <2>1, <2>2, <2>3
<1>8. SubSeq(rows, 1, n) \o p = SubSeq(rows, 1, end)
  <2>1. 1 \in 1 .. Len(rows) + 1 /\ n \in 1 - 1 .. Len(rows) /\ end \in n .. Len(rows)
    BY <1>0, <1>1
  <2> QED
    BY <1>2, <2>1, ConcatAdjacentSubSeq
<1>9. ASSUME p # <<>> PROVE Last(p) = rows[end]
  <2>1. Len(p) # 0
    BY <1>6, <1>9
  <2>2. Len(p) \in 1 .. end - (n + 1) + 1 /\ (n + 1) + Len(p) - 1 = end
    BY <1>0, <1>1, <1>7, <2>1
  <2> QED
    BY <1>6, <2>2 DEF Last
<1>10. n < Len(rows) => p # <<>>
  <2>1. p = <<>> => Len(p) = 0
    OBVIOUS
  <2> QED BY <1>0, <1>1, <1>4, <1>7, <2>1
<1>11. n + Len(p) \in n .. Len(rows)
  BY <1>1, <1>7
<1>12. Len(p) # max => end = Len(rows)
  BY <1>3, <1>7
<1> QED
  BY <1>6, <1>7, <1>8, <1>9, <1>10, <1>11, <1>12, <1>13 DEF p

(* The front of the rest of a list is a part of the list. *)
LEMMA FrontOfRest ==
    ASSUME NEW S, NEW s \in Seq(S), NEW k \in 0 .. Len(s), NEW e \in 0 .. Len(s) - k
    PROVE  SubSeq(SubSeq(s, k + 1, Len(s)), 1, e) = SubSeq(s, k + 1, k + e)
<1> DEFINE n == Len(s)
           t == SubSeq(s, k + 1, n)
<1>0. n \in Nat /\ k \in Nat /\ e \in Nat /\ k <= n /\ k + e <= n
  OBVIOUS
<1> HIDE DEF n
<1>1. \A i \in 1 .. n : s[i] \in S
  BY DEF n
<1>2. \A i \in 1 .. n - k : t[i] = s[k + i]
  <2>1. \A i \in k + 1 .. n : s[i] \in S
    BY <1>0, <1>1
  <2>2. \A i \in 1 .. n - (k + 1) + 1 : t[i] = s[(k + 1) + i - 1]
    BY <1>0, <2>1, SubSeqProperties
  <2> HIDE DEF t
  <2>3. ASSUME NEW i \in 1 .. n - k PROVE t[i] = s[k + i]
    <3>1. i \in 1 .. n - (k + 1) + 1 /\ (k + 1) + i - 1 = k + i
      BY <1>0
    <3> QED BY <2>2, <3>1
  <2> QED BY <2>3
<1> HIDE DEF t
<1>3. \A i \in 1 .. e : t[i] = s[k + i] /\ s[k + i] \in S
  <2>1. ASSUME NEW i \in 1 .. e PROVE i \in 1 .. n - k /\ k + i \in 1 .. n
    BY <1>0
  <2> QED BY <1>1, <1>2, <2>1
<1>4. /\ SubSeq(t, 1, e) \in Seq(S)
      /\ Len(SubSeq(t, 1, e)) = IF 1 <= e THEN e - 1 + 1 ELSE 0
      /\ \A i \in 1 .. e - 1 + 1 : SubSeq(t, 1, e)[i] = t[1 + i - 1]
  BY <1>0, <1>3, SubSeqProperties
<1>5. /\ SubSeq(s, k + 1, k + e) \in Seq(S)
      /\ Len(SubSeq(s, k + 1, k + e)) = IF k + 1 <= k + e THEN (k + e) - (k + 1) + 1 ELSE 0
      /\ \A i \in 1 .. (k + e) - (k + 1) + 1 :
            SubSeq(s, k + 1, k + e)[i] = s[(k + 1) + i - 1]
  <2>1. \A i \in k + 1 .. k + e : s[i] \in S
    BY <1>0, <1>1
  <2> QED BY <1>0, <2>1, SubSeqProperties
<1>6. /\ (IF 1 <= e THEN e - 1 + 1 ELSE 0) = e
      /\ (IF k + 1 <= k + e THEN (k + e) - (k + 1) + 1 ELSE 0) = e
  BY <1>0
<1>7. ASSUME NEW i \in 1 .. e PROVE SubSeq(t, 1, e)[i] = SubSeq(s, k + 1, k + e)[i]
  <2>1. /\ i \in 1 .. e - 1 + 1 /\ 1 + i - 1 = i
        /\ i \in 1 .. (k + e) - (k + 1) + 1 /\ (k + 1) + i - 1 = k + i
    BY <1>0
  <2>2. SubSeq(t, 1, e)[i] = t[i]
    BY <1>4, <2>1
  <2>3. SubSeq(s, k + 1, k + e)[i] = s[k + i]
    BY <1>5, <2>1
  <2> QED BY <1>3, <2>2, <2>3
<1>8. SubSeq(t, 1, e) = SubSeq(s, k + 1, k + e)
  <2>1. Len(SubSeq(t, 1, e)) = e /\ Len(SubSeq(s, k + 1, k + e)) = e
    BY <1>4, <1>5, <1>6
  <2>2. SubSeq(t, 1, e) \in Seq(S) /\ SubSeq(s, k + 1, k + e) \in Seq(S)
    BY <1>4, <1>5
  <2>3. \A i \in 1 .. Len(SubSeq(t, 1, e)) :
           SubSeq(t, 1, e)[i] = SubSeq(s, k + 1, k + e)[i]
    BY <1>7, <2>1
  <2> QED
    BY <2>1, <2>2, <2>3, SeqEqual
<1> QED
  BY <1>8 DEF t, n

===============================================================================
