--------------------------- MODULE HashRing_proofs ---------------------------
(***************************************************************************)
(* For every set of workers and keys, every hash without collisions and    *)
(* every sequence of joins, leaves and rebuilds: the object holds the ring *)
(* of its members, and the search of get_worker finds the worker that the  *)
(* placement rule names.                                                   *)
(***************************************************************************)
EXTENDS HashRing, Ring_proofs, SequenceTheorems

(* The positions of finitely many workers are finitely many. *)
LEMMA PositionsFinite ==
  ASSUME NEW S \in SUBSET Workers, IsFiniteSet(S)
  PROVE  IsFiniteSet(Positions(S))
<1> DEFINE f == [p \in S \X Replicas |-> VNodeHash[p]]
<1>1. IsFiniteSet(Replicas)
  <2>1. 0 \in Int /\ VirtualNodes - 1 \in Int
    BY RingConstants
  <2>2. QED
    BY <2>1, FS_Interval DEF Replicas
<1>2. IsFiniteSet(S \X Replicas)
  BY <1>1, FS_Product
<1>3. f \in Surjection(S \X Replicas, Positions(S))
  <2>1. ASSUME NEW p \in S \X Replicas
        PROVE  f[p] \in Positions(S)
    <3>1. PICK w \in S, i \in Replicas : p = <<w, i>>
      OBVIOUS
    <3>2. f[p] \in VNodes(w)
      BY <3>1 DEF VNodes
    <3>3. QED
      BY <3>2 DEF Positions
  <2>2. ASSUME NEW h \in Positions(S)
        PROVE  \E p \in S \X Replicas : f[p] = h
    <3>1. PICK w \in S : h \in VNodes(w)
      BY DEF Positions
    <3>2. PICK i \in Replicas : h = VNodeHash[w, i]
      BY <3>1 DEF VNodes
    <3>3. <<w, i>> \in S \X Replicas /\ f[<<w, i>>] = h
      BY <3>2
    <3>4. QED
      BY <3>3
  <2>3. QED
    BY <2>1, <2>2 DEF Surjection
<1>4. QED
  BY <1>2, <1>3, FS_Surjection

(* Two rings agree that have the same positions and no position of another *)
(* worker than its own.                                                    *)
LEMMA BuildUnique ==
  ASSUME NEW S \in SUBSET Workers, NEW d,
         d = [h \in DOMAIN d |-> d[h]], DOMAIN d = Positions(S),
         \A h \in Positions(S) : d[h] \in Workers /\ h \in VNodes(d[h])
  PROVE  d = Build(S)
<1>1. ASSUME NEW h \in Positions(S)
      PROVE  d[h] = Build(S)[h]
  BY BuildProperties
<1>2. Build(S) = [h \in Positions(S) |-> Build(S)[h]]
  BY DEF Build
<1>3. d = [h \in Positions(S) |-> d[h]]
  OBVIOUS
<1>4. QED
  BY <1>1, <1>2, <1>3

(* Assigning the workers of T over a ring of S leaves the ring of both.    *)
LEMMA AssignBuilds ==
  ASSUME NEW S \in SUBSET Workers, NEW T \in SUBSET Workers
  PROVE  Assign(Build(S), T) = Build(S \cup T)
<1> DEFINE d == Assign(Build(S), T)
<1>1. Positions(S \cup T) = Positions(S) \cup Positions(T)
  BY DEF Positions
<1>2. DOMAIN Build(S) = Positions(S)
  BY DEF Build
<1>3. /\ DOMAIN d = Positions(S \cup T)
      /\ d = [h \in DOMAIN d |-> d[h]]
  BY <1>1, <1>2 DEF Assign
<1>4. ASSUME NEW h \in Positions(S \cup T)
      PROVE  d[h] \in Workers /\ h \in VNodes(d[h])
  <2>1. CASE h \in Positions(T)
    <3>1. \E w \in T : h \in VNodes(w)
      BY <2>1 DEF Positions
    <3>2. d[h] = CHOOSE w \in T : h \in VNodes(w)
      BY <2>1, <1>3, <1>1, <1>2 DEF Assign
    <3>3. QED
      BY <3>1, <3>2
  <2>2. CASE h \notin Positions(T)
    <3>1. h \in Positions(S) /\ d[h] = Build(S)[h]
      BY <2>2, <1>1, <1>2 DEF Assign
    <3>2. QED
      BY <3>1, BuildProperties
  <2>3. QED
    BY <2>1, <2>2
<1> HIDE DEF d
<1>5. d = Build(S \cup T)
  BY <1>3, <1>4, BuildUnique
<1>6. QED
  BY <1>5 DEF d

(* Dropping the positions of w leaves the ring of the other workers. *)
LEMMA RestrictBuilds ==
  ASSUME NEW S \in SUBSET Workers, NEW w \in Workers
  PROVE  Restrict(Build(S), DOMAIN Build(S) \ VNodes(w)) = Build(S \ {w})
<1> DEFINE d == Restrict(Build(S), DOMAIN Build(S) \ VNodes(w))
<1>1. DOMAIN Build(S) = Positions(S)
  BY DEF Build
<1>2. Positions(S) \ VNodes(w) = Positions(S \ {w})
  <2>1. ASSUME NEW h \in Positions(S \ {w})
        PROVE  h \in Positions(S) /\ h \notin VNodes(w)
    BY VNodesDisjoint DEF Positions
  <2>2. QED
    BY <2>1 DEF Positions
<1>3. /\ DOMAIN d = Positions(S \ {w})
      /\ d = [h \in DOMAIN d |-> d[h]]
      /\ \A h \in DOMAIN d : d[h] = Build(S)[h]
  BY <1>1, <1>2 DEF Restrict
<1>4. \A h \in Positions(S \ {w}) : d[h] \in Workers /\ h \in VNodes(d[h])
  BY <1>2, <1>3, BuildProperties
<1> HIDE DEF d
<1>5. d = Build(S \ {w})
  BY <1>3, <1>4, BuildUnique
<1>6. QED
  BY <1>5 DEF d

-----------------------------------------------------------------------------

(* bisect_right on the sorted positions, with the wrap-around, finds the   *)
(* clockwise successor.                                                    *)
LEMMA BisectFindsClockwise ==
  ASSUME NEW P \in SUBSET Nat, IsFiniteSet(P), P # {}, NEW h \in Nat
  PROVE  LET s   == Sorted(P)
             idx == BisectRight(s, h)
         IN  /\ Len(s) \in Nat \ {0}
             /\ s[(IF idx = Len(s) THEN 0 ELSE idx) + 1] = Clockwise(P, h)
<1> DEFINE s == Sorted(P)
           n == Cardinality(P)
           below == {i \in 1 .. n : s[i] =< h}
           above == {i \in 1 .. n : ~(s[i] =< h)}
           c == Clockwise(P, h)
<1>1. /\ n \in Nat \ {0} /\ s \in [1 .. n -> P]
      /\ \A i, j \in 1 .. n : i < j => s[i] < s[j]
      /\ \A p \in P : \E i \in 1 .. n : s[i] = p
  <2>1. P \in SUBSET Int
    OBVIOUS
  <2>2. n \in Nat /\ n # 0
    BY FS_CardinalityType, FS_EmptySet
  <2>3. QED
    BY <2>1, <2>2, SortedProperties
<1>2. c \in P /\ \/ c > h /\ \A q \in P : q > h => c =< q
                 \/ (\A q \in P : ~(q > h)) /\ \A q \in P : c =< q
  BY ClockwiseProperties
<1>3. BisectRight(s, h) = Cardinality(below) /\ DOMAIN s = 1 .. n
  BY <1>1 DEF BisectRight
<1> HIDE DEF s, n, c
<1>4. Len(s) = n
  <2>1. s \in Seq(P)
    BY <1>1, SeqDef
  <2>2. QED
    BY <1>1, <1>3, <2>1, LenProperties
<1>5. ASSUME NEW m \in 0 .. n, below = 1 .. m
      PROVE  Cardinality(below) = m
  <2>1. 1 \in Int /\ m \in Int /\ m \in Nat
    BY <1>1
  <2>2. Cardinality(1 .. m) = IF 1 > m THEN 0 ELSE m - 1 + 1
    BY <2>1, FS_Interval
  <2> HIDE DEF below
  <2>3. QED
    BY <1>5, <2>1, <2>2
<1>6. CASE above = {}
  <2>1. below = 1 .. n
    BY <1>6
  <2>2. Cardinality(below) = n
    BY <1>1, <1>5, <2>1
  <2>3. \A q \in P : q =< h /\ s[1] =< q
    <3>1. ASSUME NEW i \in 1 .. n
          PROVE  s[i] =< h /\ s[1] =< s[i]
      <4>0. s[i] =< h
        BY <1>6
      <4>1. 1 \in 1 .. n /\ s[1] \in Nat /\ s[i] \in Nat /\ s[i] =< h
        <5>1. 1 \in 1 .. n
          BY <1>1
        <5>2. s[1] \in P /\ s[i] \in P
          BY <1>1, <5>1
        <5>3. QED
          BY <4>0, <5>1, <5>2
      <4>2. CASE i = 1
        BY <4>1, <4>2
      <4>3. CASE i # 1
        BY <1>1, <4>1, <4>3
      <4>4. QED
        BY <4>1, <4>2, <4>3
    <3>2. QED
      BY <1>1, <3>1
  <2>4. s[1] \in P
    BY <1>1
  <2>5. c = s[1]
    <3>1. c \in Nat /\ s[1] \in Nat /\ c =< h /\ s[1] =< c
      BY <1>2, <2>3, <2>4
    <3>2. c =< s[1]
      BY <1>2, <2>4, <3>1
    <3>3. QED
      BY <3>1, <3>2
  <2> HIDE DEF below, above
  <2>6. QED
    BY <1>1, <1>3, <1>4, <2>2, <2>5 DEF s, n, c
<1>7. CASE above # {}
  <2>1. above \in SUBSET Nat
    BY <1>1
  <2>2. PICK m \in above : \A q \in above : m =< q
    BY <1>7, <2>1, LeastNumber
  <2>3. m \in 1 .. n /\ s[m] \in Nat /\ s[m] > h /\ s[m] \in P
    <3>1. m \in 1 .. n /\ ~(s[m] =< h)
      OBVIOUS
    <3>2. s[m] \in P
      BY <1>1, <3>1
    <3>3. s[m] \in Nat
      BY <3>2
    <3>4. s[m] > h
      BY <3>1, <3>3
    <3>5. QED
      BY <3>1, <3>2, <3>3, <3>4
  <2>4. \A i \in 1 .. n : i < m <=> s[i] =< h
    <3>1. ASSUME NEW i \in 1 .. n
          PROVE  i < m <=> s[i] =< h
      <4>1. i < m => s[i] =< h
        BY <2>2, <2>3
      <4>2. i > m => s[i] > s[m] /\ s[i] \in Nat
        BY <1>1, <2>3
      <4>3. QED
        BY <2>3, <4>1, <4>2
    <3>2. QED
      BY <3>1
  <2>5. below = 1 .. m - 1 /\ m - 1 \in 0 .. n
    BY <1>1, <2>3, <2>4
  <2>6. Cardinality(below) = m - 1
    BY <1>5, <2>5
  <2>7. \A q \in P : q > h => s[m] =< q
    <3>1. ASSUME NEW q \in P, q > h
          PROVE  s[m] =< q
      <4>1. PICK i \in 1 .. n : s[i] = q
        BY <1>1
      <4>2. ~(i < m)
        BY <2>4, <3>1, <4>1
      <4>3. CASE i = m
        BY <2>3, <4>1, <4>3
      <4>4. CASE i > m
        BY <1>1, <2>3, <4>1, <4>4
      <4>5. QED
        BY <2>3, <4>2, <4>3, <4>4
    <3>2. QED
      BY <3>1
  <2>8. c = s[m]
    <3>1. c > h /\ c =< s[m] /\ s[m] =< c
      BY <1>2, <2>3, <2>7
    <3>2. QED
      BY <1>2, <2>3, <3>1
  <2> HIDE DEF below, above
  <2>9. QED
    BY <1>1, <1>3, <1>4, <2>3, <2>6, <2>8 DEF s, n, c
<1>8. QED
  BY <1>6, <1>7

-----------------------------------------------------------------------------

(* The dict is the ring of the members, of which there are finitely many,  *)
(* and the list that get_worker bisects is the dict's keys.                *)
HashRingInv ==
  /\ members \in SUBSET Workers /\ IsFiniteSet(members)
  /\ ring = Build(members)
  /\ sortedHashes = Sorted(DOMAIN ring)

LEMMA HashRingInvariant == Spec => []HashRingInv
<1>1. Init => HashRingInv
  <2> SUFFICES ASSUME Init PROVE HashRingInv
    OBVIOUS
  <2>1. DOMAIN ring = {}
    BY DEF Init, Build, Positions
  <2>2. Sorted({}) = <<>>
    BY FS_EmptySet DEF Sorted
  <2>3. QED
    BY <2>1, <2>2, FS_EmptySet DEF Init, HashRingInv
<1>2. HashRingInv /\ [Next]_vars => HashRingInv'
  <2> SUFFICES ASSUME HashRingInv, [Next]_vars PROVE HashRingInv'
    OBVIOUS
  <2> USE DEF HashRingInv
  <2>1. ASSUME NEW w \in Workers, add_worker(w)
        PROVE  HashRingInv'
    BY <2>1, AssignBuilds, FS_AddElement DEF add_worker
  <2>2. ASSUME NEW w \in Workers, remove_worker(w)
        PROVE  HashRingInv'
    BY <2>2, RestrictBuilds, FS_RemoveElement DEF remove_worker
  <2>3. ASSUME NEW S \in SUBSET Workers, IsFiniteSet(S), replace_workers(S)
        PROVE  HashRingInv'
    <3>1. Assign(Build({}), S) = Build({} \cup S)
      BY AssignBuilds
    <3>2. QED
      BY <2>3, <3>1 DEF replace_workers
  <2>4. CASE UNCHANGED vars
    BY <2>4 DEF vars
  <2>5. QED
    BY <2>1, <2>2, <2>3, <2>4 DEF Next
<1>3. QED
  BY <1>1, <1>2, PTL DEF Spec

(* The object's variables keep their types. *)
THEOREM HashRingTypes == Spec => []TypeOK
<1>1. HashRingInv => TypeOK
  <2> SUFFICES ASSUME HashRingInv PROVE TypeOK
    OBVIOUS
  <2>1. /\ members \in SUBSET Workers /\ IsFiniteSet(members)
        /\ ring = Build(members) /\ sortedHashes = Sorted(DOMAIN ring)
    BY DEF HashRingInv
  <2>2. DOMAIN ring = Positions(members) /\ ring = [h \in DOMAIN ring |-> ring[h]]
    BY <2>1 DEF Build
  <2>3. \A h \in DOMAIN ring : ring[h] \in Workers
    BY <2>1, <2>2, BuildProperties
  <2>4. Positions(members) \subseteq Positions(Workers)
    BY <2>1 DEF Positions
  <2>5. Positions(members) \in SUBSET Nat /\ IsFiniteSet(Positions(members))
    BY <2>1, PositionsProperties, PositionsFinite
  <2>6. sortedHashes \in Seq(Nat)
    <3>1. PICK n \in Nat : sortedHashes \in [1 .. n -> Positions(members)]
      BY <2>1, <2>2, <2>5, SortedProperties
    <3>2. sortedHashes \in [1 .. n -> Nat]
      BY <2>5, <3>1
    <3>3. QED
      BY <3>2, SeqDef
  <2>7. QED
    BY <2>1, <2>2, <2>3, <2>4, <2>6 DEF TypeOK
<1>2. QED
  BY <1>1, HashRingInvariant, PTL

(* Processes whose rings have the same members have the same ring, however *)
(* they came by it (hash_ring.py:10).                                      *)
THEOREM RingIsReplicated == Spec => []HistoryIndependent
<1>1. HashRingInv => HistoryIndependent
  <2> SUFFICES ASSUME HashRingInv PROVE HistoryIndependent
    OBVIOUS
  <2>1. members \in SUBSET Workers /\ ring = Build(members)
    BY DEF HashRingInv
  <2>2. DOMAIN ring = Positions(members)
    BY <2>1 DEF Build
  <2>3. ASSUME NEW w \in members
        PROVE  \E h \in DOMAIN ring : ring[h] = w
    <3>1. 0 \in Replicas
      BY RingConstants DEF Replicas
    <3>2. PICK h : h \in VNodes(w)
      BY <3>1 DEF VNodes
    <3>3. h \in Positions(members)
      BY <3>2 DEF Positions
    <3>4. ring[h] = w
      BY <2>1, <3>2, <3>3, BuildProperties
    <3>5. QED
      BY <2>2, <3>3, <3>4
  <2>4. \A h \in DOMAIN ring : ring[h] \in members
    BY <2>1, <2>2, BuildProperties
  <2>5. workers = members
    BY <2>3, <2>4 DEF workers, Range
  <2>6. QED
    BY <2>1, <2>5 DEF HistoryIndependent
<1>2. QED
  BY <1>1, HashRingInvariant, PTL

(* get_worker's search finds the owner that the placement rule names, and  *)
(* None on the empty ring alone (test_empty_ring_returns_none).            *)
LEMMA GetWorkerIsOwner == HashRingInv => LookupIsPlacement
<1> SUFFICES ASSUME HashRingInv, NEW k \in Keys
             PROVE  get_worker(k) = IF members = {} THEN None ELSE Owner(members, k)
  BY DEF LookupIsPlacement
<1> DEFINE P == Positions(members)
           s == Sorted(P)
           idx == BisectRight(s, KeyHash[k])
<1>1. /\ members \in SUBSET Workers /\ IsFiniteSet(members)
      /\ ring = Build(members) /\ DOMAIN ring = P /\ sortedHashes = s
  BY DEF HashRingInv, Build
<1>2. KeyHash[k] \in Nat
  BY RingConstants
<1>3. CASE members = {}
  <2>1. P = {}
    BY <1>3 DEF Positions
  <2>2. Sorted({}) = <<>>
    BY FS_EmptySet DEF Sorted
  <2>3. QED
    BY <1>1, <1>3, <2>1, <2>2 DEF get_worker
<1>4. CASE members # {}
  <2>1. P \in SUBSET Nat /\ IsFiniteSet(P) /\ P # {}
    BY <1>1, <1>4, PositionsProperties, PositionsFinite
  <2>2. /\ Len(s) \in Nat \ {0}
        /\ s[(IF idx = Len(s) THEN 0 ELSE idx) + 1] = Clockwise(P, KeyHash[k])
    <3> HIDE DEF P
    <3>1. QED
      BY <1>2, <2>1, BisectFindsClockwise
  <2> HIDE DEF P, s
  <2>3. s # <<>>
    <3>1. Len(<<>>) = 0
      BY EmptySeq
    <3>2. QED
      BY <2>2, <3>1
  <2>4. get_worker(k) = ring[s[(IF idx = Len(s) THEN 0 ELSE idx) + 1]]
    BY <1>1, <2>3 DEF get_worker
  <2>5. QED
    BY <1>1, <1>4, <2>2, <2>4 DEF Owner, P
<1>5. QED
  BY <1>3, <1>4

(* get_worker answers by the placement rule, and None only on an empty     *)
(* ring (hash_ring.py:64).                                                 *)
THEOREM LookupFollowsPlacement == Spec => []LookupIsPlacement
BY GetWorkerIsOwner, HashRingInvariant, PTL

(* A change of membership moves a key only to a worker that joins or away  *)
(* from one that leaves.                                                   *)
THEOREM KeysMoveOnlyWithMembers == Spec => MovesOnlyWithMembers
<1>1. ASSUME HashRingInv, HashRingInv', LookupIsPlacement, LookupIsPlacement',
             NEW k \in Keys, get_worker(k)' # get_worker(k),
             get_worker(k) \in members', get_worker(k)' \in members
      PROVE  FALSE
  <2>1. members \in SUBSET Workers /\ members' \in SUBSET Workers
    BY <1>1 DEF HashRingInv
  <2>2. members # {} /\ members' # {}
    BY <1>1
  <2>3. get_worker(k) = Owner(members, k) /\ get_worker(k)' = Owner(members', k)
    BY <1>1, <2>2 DEF LookupIsPlacement
  <2>4. QED
    BY <1>1, <2>1, <2>2, <2>3, OwnersDisagreeOnlyAcrossChurn
<1>2. /\ HashRingInv /\ HashRingInv' /\ LookupIsPlacement /\ LookupIsPlacement'
      => [\A k \in Keys :
            get_worker(k)' # get_worker(k) =>
              \/ get_worker(k) \notin members'
              \/ get_worker(k)' \notin members]_vars
  BY <1>1
<1>3. QED
  BY <1>2, HashRingInvariant, GetWorkerIsOwner, PTL DEF MovesOnlyWithMembers

=============================================================================
