--------------------------- MODULE Sorting_proofs ---------------------------
(***************************************************************************)
(* What sorted() and a filtering list comprehension return, for every      *)
(* finite set of numbers and every sequence.                               *)
(***************************************************************************)
EXTENDS Sorting, Sequences, FiniteSetTheorems, WellFoundedInduction, TLAPS

(* Every nonempty set of naturals has a least element.  The library states *)
(* this for an operator; here it comes from the finite subsets of Nat      *)
(* being well founded, through p |-> 0 .. p.                               *)
LEMMA LeastNumber ==
  ASSUME NEW P \in SUBSET Nat, P # {}
  PROVE  \E m \in P : \A q \in P : m =< q
<1> DEFINE Segments == {0 .. p : p \in P}
           R == StrictSubsetOrdering(Nat)
<1>1. Segments \subseteq FiniteSubsetsOf(Nat)
  <2> SUFFICES ASSUME NEW p \in P
               PROVE  0 .. p \in FiniteSubsetsOf(Nat)
    OBVIOUS
  <2>1. 0 \in Int /\ p \in Int /\ p \in Nat
    OBVIOUS
  <2>2. IsFiniteSet(0 .. p)
    BY <2>1, FS_Interval
  <2>3. 0 .. p \subseteq Nat
    BY <2>1
  <2>4. QED
    BY <2>2, <2>3 DEF FiniteSubsetsOf
<1>2. Segments # {}
  OBVIOUS
<1>3. IsWellFoundedOn(R, FiniteSubsetsOf(Nat))
  BY FS_StrictSubsetOrderingWellFounded
<1>4. \E s \in Segments : \A t \in Segments : ~ (<<t, s>> \in R)
  <2> HIDE DEF Segments, R
  <2>1. QED
    BY <1>1, <1>2, <1>3, WFMin
<1>5. PICK p \in P : \A q \in P : ~ (<<0 .. q, 0 .. p>> \in R)
  BY <1>4
<1>6. ASSUME NEW q \in P, ~(p =< q)
      PROVE  FALSE
  <2>1. p \in Nat /\ q \in Nat /\ q < p
    BY <1>6
  <2>2. 0 .. q \subseteq 0 .. p /\ p \in 0 .. p /\ p \notin 0 .. q
    BY <2>1
  <2>3. <<0 .. q, 0 .. p>> \in R
    BY <2>1, <2>2 DEF StrictSubsetOrdering
  <2>4. QED
    BY <1>5, <2>3
<1>7. QED
  BY <1>6

(* In a finite order, how many elements are below one is a different       *)
(* number below Cardinality(S) for each, so each such number belongs to    *)
(* one.                                                                    *)
LEMMA RanksInOrder ==
  ASSUME NEW S, IsFiniteSet(S), NEW below \in [S -> SUBSET S],
         \A p \in S : p \notin below[p],
         \A p, r \in S : p # r => p \in below[r] \/ r \in below[p],
         \A p, r \in S : p \in below[r] => below[p] \subseteq below[r]
  PROVE  /\ Cardinality(S) \in Nat
         /\ \A p \in S : Cardinality(below[p]) \in 0 .. Cardinality(S) - 1
         /\ \A p, r \in S : p \in below[r] => Cardinality(below[p]) < Cardinality(below[r])
         /\ \A i \in 0 .. Cardinality(S) - 1 : \E p \in S : Cardinality(below[p]) = i
<1> DEFINE n == Cardinality(S)
           rank == [p \in S |-> Cardinality(below[p])]
<1>1. n \in Nat
  BY FS_CardinalityType
<1>2. ASSUME NEW p \in S
      PROVE  /\ IsFiniteSet(below[p])
             /\ Cardinality(below[p]) \in 0 .. n - 1
  <2>1. below[p] \in SUBSET S /\ below[p] # S
    OBVIOUS
  <2>2. IsFiniteSet(below[p]) /\ Cardinality(below[p]) =< n /\ Cardinality(below[p]) # n
    BY <2>1, FS_Subset
  <2>3. Cardinality(below[p]) \in Nat
    BY <2>2, FS_CardinalityType
  <2>4. QED
    BY <1>1, <2>2, <2>3
<1>3. ASSUME NEW p \in S, NEW r \in S, p \in below[r]
      PROVE  Cardinality(below[p]) < Cardinality(below[r])
  <2>1. below[p] \in SUBSET below[r] /\ below[p] # below[r]
    BY <1>3
  <2>2. Cardinality(below[p]) =< Cardinality(below[r])
        /\ Cardinality(below[p]) # Cardinality(below[r])
    BY <1>2, <2>1, FS_Subset
  <2>3. QED
    BY <1>1, <1>2, <2>2
<1>4. rank \in Injection(S, 0 .. n - 1)
  <2>1. rank \in [S -> 0 .. n - 1]
    BY <1>2
  <2>2. ASSUME NEW p \in S, NEW r \in S, rank[p] = rank[r]
        PROVE  p = r
    <3>1. rank[p] = Cardinality(below[p]) /\ rank[r] = Cardinality(below[r])
      OBVIOUS
    <3>2. Cardinality(below[p]) \in Nat /\ Cardinality(below[r]) \in Nat
      BY <1>1, <1>2
    <3>3. ~(p \in below[r]) /\ ~(r \in below[p])
      BY <1>3, <2>2, <3>1, <3>2
    <3>4. QED
      BY <3>3
  <2> HIDE DEF rank
  <2>3. QED
    BY <2>1, <2>2 DEF Injection, IsInjective
<1>5. rank \in Surjection(S, 0 .. n - 1)
  <2>1. IsFiniteSet(0 .. n - 1) /\ Cardinality(0 .. n - 1) = n
    BY <1>1, FS_Interval
  <2> HIDE DEF rank
  <2>2. QED
    BY <1>4, <2>1, FS_Injection
<1>6. ASSUME NEW i \in 0 .. n - 1
      PROVE  \E p \in S : Cardinality(below[p]) = i
  <2>1. \E p \in S : rank[p] = i
    <3> HIDE DEF rank
    <3>1. QED
      BY <1>5 DEF Surjection
  <2>2. QED
    BY <2>1
<1>7. QED
  BY <1>1, <1>2, <1>3, <1>6

(* The rank of an element is a bijection onto 0 .. Cardinality(S) - 1.     *)
LEMMA RankIsBijective ==
  ASSUME NEW S \in SUBSET Int, IsFiniteSet(S)
  PROVE  /\ Cardinality(S) \in Nat
         /\ \A p \in S : Cardinality({q \in S : q < p}) \in 0 .. Cardinality(S) - 1
         /\ \A p, r \in S :
              p < r => Cardinality({q \in S : q < p}) < Cardinality({q \in S : q < r})
         /\ \A i \in 0 .. Cardinality(S) - 1 :
              \E p \in S : Cardinality({q \in S : q < p}) = i
<1> DEFINE below == [p \in S |-> {q \in S : q < p}]
<1>1. below \in [S -> SUBSET S]
  OBVIOUS
<1>2. \A p, r \in S : p \in below[r] <=> p < r
  OBVIOUS
<1>3. \A p \in S : p \in Int
  OBVIOUS
<1>4. \A p \in S : below[p] = {q \in S : q < p}
  OBVIOUS
<1> HIDE DEF below
<1>5. \A p \in S : p \notin below[p]
  BY <1>2, <1>3
<1>6. ASSUME NEW p \in S, NEW r \in S, p # r
      PROVE  p \in below[r] \/ r \in below[p]
  <2>1. p < r \/ r < p
    <3>1. p \in Int /\ r \in Int
      BY <1>3
    <3>2. QED
      BY <1>6, <3>1
  <2>2. QED
    BY <1>2, <2>1
<1>7. ASSUME NEW p \in S, NEW r \in S, p \in below[r]
      PROVE  below[p] \subseteq below[r]
  <2> SUFFICES ASSUME NEW q \in S, q \in below[p]
               PROVE  q \in below[r]
    BY <1>1
  <2>1. q < p /\ p < r
    BY <1>2, <1>7
  <2>2. q < r
    <3>1. q \in Int /\ p \in Int /\ r \in Int
      BY <1>3
    <3>2. QED
      BY <2>1, <3>1
  <2>3. QED
    BY <1>2, <2>2
<1>8. /\ Cardinality(S) \in Nat
      /\ \A p \in S : Cardinality(below[p]) \in 0 .. Cardinality(S) - 1
      /\ \A p, r \in S : p \in below[r] => Cardinality(below[p]) < Cardinality(below[r])
      /\ \A i \in 0 .. Cardinality(S) - 1 : \E p \in S : Cardinality(below[p]) = i
  BY ZenonT(30), <1>1, <1>5, <1>6, <1>7, RanksInOrder
<1>9. QED
  BY <1>2, <1>4, <1>8

(* sorted() returns every element once, in increasing order                *)
(* (hash_ring.py:45).                                                      *)
THEOREM SortedProperties ==
  ASSUME NEW S \in SUBSET Int, IsFiniteSet(S)
  PROVE  /\ Cardinality(S) \in Nat
         /\ Sorted(S) \in [1 .. Cardinality(S) -> S]
         /\ \A i, j \in 1 .. Cardinality(S) : i < j => Sorted(S)[i] < Sorted(S)[j]
         /\ \A p \in S : \E i \in 1 .. Cardinality(S) : Sorted(S)[i] = p
<1> DEFINE n == Cardinality(S)
           rank(p) == Cardinality({q \in S : q < p})
<1>1. /\ n \in Nat
      /\ \A p \in S : rank(p) \in 0 .. n - 1
      /\ \A p, r \in S : p < r => rank(p) < rank(r)
      /\ \A i \in 0 .. n - 1 : \E p \in S : rank(p) = i
  BY RankIsBijective
<1>2. ASSUME NEW i \in 1 .. n
      PROVE  Sorted(S)[i] \in S /\ rank(Sorted(S)[i]) = i - 1
  <2>1. i - 1 \in 0 .. n - 1
    BY <1>1
  <2>2. \E p \in S : rank(p) = i - 1
    BY <1>1, <2>1
  <2>3. Sorted(S)[i] = CHOOSE p \in S : rank(p) = i - 1
    BY DEF Sorted
  <2>4. QED
    BY <2>2, <2>3
<1>3. Sorted(S) \in [1 .. n -> S]
  BY <1>2 DEF Sorted
<1> HIDE DEF rank
<1>4. ASSUME NEW i \in 1 .. n, NEW j \in 1 .. n, i < j
      PROVE  Sorted(S)[i] < Sorted(S)[j]
  <2> DEFINE x == Sorted(S)[i]
             y == Sorted(S)[j]
  <2>1. x \in S /\ y \in S /\ rank(x) = i - 1 /\ rank(y) = j - 1
    BY <1>2
  <2>2. x \in Int /\ y \in Int
    BY <2>1
  <2> HIDE DEF x, y
  <2>3. ~(y < x) /\ x # y
    BY <1>1, <1>4, <2>1
  <2>4. x < y
    BY <2>2, <2>3
  <2>5. QED
    BY <2>4 DEF x, y
<1>5. ASSUME NEW p \in S
      PROVE  \E i \in 1 .. n : Sorted(S)[i] = p
  <2> DEFINE i == rank(p) + 1
             x == Sorted(S)[i]
  <2>1. i \in 1 .. n /\ i - 1 = rank(p)
    BY <1>1
  <2>2. x \in S /\ rank(x) = rank(p)
    BY <1>2, <2>1
  <2> HIDE DEF x
  <2>3. x \in Int /\ p \in Int
    BY <2>2
  <2>4. x = p
    BY <1>1, <2>2, <2>3
  <2>5. QED
    BY <2>1, <2>4 DEF x
<1>6. QED
  BY <1>1, <1>3, <1>4, <1>5

(* The comprehension takes the elements at the given places, each place    *)
(* once and in their order.                                                *)
LEMMA KeptProperties ==
  ASSUME NEW T, NEW s \in Seq(T), NEW places \in SUBSET DOMAIN s
  PROVE  /\ Kept(s, places) \in Seq(T)
         /\ \E place \in [DOMAIN Kept(s, places) -> places] :
              /\ \A i \in DOMAIN Kept(s, places) : Kept(s, places)[i] = s[place[i]]
              /\ \A i, j \in DOMAIN Kept(s, places) : i < j => place[i] < place[j]
              /\ \A m \in places : \E i \in DOMAIN Kept(s, places) : place[i] = m
<1> DEFINE n == Cardinality(places)
           place == Sorted(places)
<1>1. DOMAIN s = 1 .. Len(s) /\ Len(s) \in Nat
  OBVIOUS
<1>2. places \in SUBSET Int /\ IsFiniteSet(places)
  <2>1. IsFiniteSet(1 .. Len(s))
    BY <1>1, FS_Interval
  <2>2. QED
    BY <1>1, <2>1, FS_Subset
<1>3. /\ n \in Nat
      /\ place \in [1 .. n -> places]
      /\ \A i, j \in 1 .. n : i < j => place[i] < place[j]
      /\ \A m \in places : \E i \in 1 .. n : place[i] = m
  BY <1>2, SortedProperties
<1>4. Kept(s, places) = [i \in 1 .. n |-> s[place[i]]]
  BY DEF Kept
<1> HIDE DEF n, place
<1>5. \A i \in 1 .. n : s[place[i]] \in T
  BY <1>1, <1>3
<1>6. Kept(s, places) \in Seq(T) /\ DOMAIN Kept(s, places) = 1 .. n
  BY <1>3, <1>4, <1>5
<1>7. QED
  BY <1>3, <1>4, <1>6

=============================================================================
