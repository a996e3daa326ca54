---------------------------- MODULE Ring_proofs ----------------------------
(***************************************************************************)
(* What the placement rule guarantees for every hash, every number of      *)
(* virtual nodes and every two memberships.                                *)
(***************************************************************************)
EXTENDS Ring, Sorting_proofs, TLAPS

(* Least is well defined on every nonempty set of positions. *)
LEMMA LeastExists ==
  ASSUME NEW P \in SUBSET Nat, P # {}
  PROVE  Least(P) \in P /\ \A q \in P : Least(P) =< q
BY LeastNumber DEF Least

(* The clockwise successor is a position of the set, strictly after h      *)
(* and the nearest such if there is one, the smallest of all otherwise.    *)
LEMMA ClockwiseProperties ==
  ASSUME NEW P \in SUBSET Nat, P # {}, NEW h \in Nat
  PROVE  LET c == Clockwise(P, h)
         IN  /\ c \in P
             /\ \/ c > h /\ \A q \in P : q > h => c =< q
                \/ (\A q \in P : ~(q > h)) /\ \A q \in P : c =< q
<1> DEFINE after == {p \in P : p > h}
<1>1. CASE after # {}
  <2>1. Least(after) \in after /\ \A q \in after : Least(after) =< q
    BY <1>1, LeastExists
  <2>2. QED
    BY <1>1, <2>1 DEF Clockwise
<1>2. CASE after = {}
  <2>1. Least(P) \in P /\ \A q \in P : Least(P) =< q
    BY LeastExists
  <2>2. QED
    BY <1>2, <2>1 DEF Clockwise
<1>3. QED
  BY <1>1, <1>2

(* Two sets of positions whose clockwise successors of h each belong to    *)
(* the other set have the same successor.                                  *)
LEMMA ClockwiseAgree ==
  ASSUME NEW P \in SUBSET Nat, P # {},
         NEW Q \in SUBSET Nat, Q # {},
         NEW h \in Nat,
         Clockwise(P, h) \in Q, Clockwise(Q, h) \in P
  PROVE  Clockwise(P, h) = Clockwise(Q, h)
<1> DEFINE c == Clockwise(P, h)
           d == Clockwise(Q, h)
<1>1. /\ c \in P
      /\ \/ c > h /\ \A q \in P : q > h => c =< q
         \/ (\A q \in P : ~(q > h)) /\ \A q \in P : c =< q
  BY ClockwiseProperties
<1>2. /\ d \in Q
      /\ \/ d > h /\ \A q \in Q : q > h => d =< q
         \/ (\A q \in Q : ~(q > h)) /\ \A q \in Q : d =< q
  BY ClockwiseProperties
<1>3. c \in Nat /\ d \in Nat /\ c \in Q /\ d \in P
  BY <1>1, <1>2
<1> HIDE DEF c, d
<1>4. c =< d /\ d =< c
  BY <1>1, <1>2, <1>3
<1>5. c = d
  BY <1>3, <1>4
<1>6. QED
  BY <1>5 DEF c, d

-----------------------------------------------------------------------------

(* The positions of a nonempty set of workers. *)
LEMMA PositionsProperties ==
  ASSUME NEW S \in SUBSET Workers
  PROVE  /\ Positions(S) \in SUBSET Nat
         /\ S # {} => Positions(S) # {}
<1>1. ASSUME NEW w \in Workers
      PROVE  /\ VNodes(w) \subseteq Nat
             /\ VNodes(w) # {}
  <2>1. 0 \in Replicas
    BY RingConstants DEF Replicas
  <2>2. VNodeHash[w, 0] \in VNodes(w)
    BY <2>1 DEF VNodes
  <2>3. VNodes(w) \subseteq Nat
    BY RingConstants DEF VNodes
  <2>4. QED
    BY <2>2, <2>3
<1>2. QED
  BY <1>1 DEF Positions

(* A virtual node belongs to one worker. *)
LEMMA VNodesDisjoint ==
  ASSUME NEW v \in Workers, NEW w \in Workers,
         NEW h, h \in VNodes(v), h \in VNodes(w)
  PROVE  v = w
<1>1. PICK i \in Replicas : h = VNodeHash[v, i]
  BY DEF VNodes
<1>2. PICK j \in Replicas : h = VNodeHash[w, j]
  BY DEF VNodes
<1>3. <<v, i>> = <<w, j>>
  <2>1. <<v, i>> \in Workers \X Replicas /\ <<w, j>> \in Workers \X Replicas
    OBVIOUS
  <2>2. VNodeHash[<<v, i>>] = VNodeHash[<<w, j>>]
    BY <1>1, <1>2
  <2>3. QED
    BY <2>1, <2>2, NoCollisions
<1>4. QED
  BY <1>3

(* Every position of the ring maps to the one member that put it there. *)
LEMMA BuildProperties ==
  ASSUME NEW S \in SUBSET Workers, NEW h \in Positions(S)
  PROVE  /\ Build(S)[h] \in S
         /\ h \in VNodes(Build(S)[h])
         /\ \A w \in Workers : h \in VNodes(w) => w = Build(S)[h]
<1>1. \E w \in S : h \in VNodes(w)
  BY DEF Positions
<1>2. Build(S)[h] = CHOOSE w \in S : h \in VNodes(w)
  BY DEF Build
<1>3. Build(S)[h] \in S /\ h \in VNodes(Build(S)[h])
  BY <1>1, <1>2
<1>4. QED
  BY <1>3, VNodesDisjoint

(* A key belongs to a member of the ring, and to the one worker whose      *)
(* virtual node is the key's clockwise successor.                          *)
THEOREM OwnerIsMember ==
  ASSUME NEW S \in SUBSET Workers, S # {}, NEW k \in Keys
  PROVE  /\ Owner(S, k) \in S
         /\ Clockwise(Positions(S), KeyHash[k]) \in VNodes(Owner(S, k))
<1>1. KeyHash[k] \in Nat
  BY RingConstants
<1>2. Clockwise(Positions(S), KeyHash[k]) \in Positions(S)
  BY <1>1, PositionsProperties, ClockwiseProperties
<1>3. QED
  BY <1>2, BuildProperties DEF Owner

(* Minimal reshuffling: if a key belongs to different workers under two    *)
(* memberships, then one of them is missing from the other's membership.   *)
(* This is what test_remove_worker_minimally_reshuffles samples, for every *)
(* change of membership and not only a removal.                            *)
THEOREM OwnersDisagreeOnlyAcrossChurn ==
  ASSUME NEW S \in SUBSET Workers, S # {},
         NEW T \in SUBSET Workers, T # {},
         NEW k \in Keys,
         Owner(S, k) \in T, Owner(T, k) \in S
  PROVE  Owner(S, k) = Owner(T, k)
<1> DEFINE h == KeyHash[k]
           c == Clockwise(Positions(S), h)
           d == Clockwise(Positions(T), h)
<1>1. h \in Nat
  BY RingConstants
<1>2. c \in VNodes(Owner(S, k)) /\ d \in VNodes(Owner(T, k))
  BY OwnerIsMember
<1>3. c \in Positions(T) /\ d \in Positions(S)
  BY <1>2 DEF Positions
<1>4. c = d
  BY <1>1, <1>3, PositionsProperties, ClockwiseAgree
<1>5. Owner(S, k) \in Workers /\ Owner(T, k) \in Workers
  OBVIOUS
<1>6. QED
  BY <1>2, <1>4, <1>5, VNodesDisjoint

=============================================================================
