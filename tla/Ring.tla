-------------------------------- MODULE Ring --------------------------------
(***************************************************************************)
(* The placement rule of src/legallens/workers/hash_ring.py as pure        *)
(* operators on ring values: which worker a key belongs to once a given    *)
(* set of workers is on the ring.  HashRing is the mutable object built on *)
(* it; Cluster uses it to route tasks.                                     *)
(*                                                                         *)
(* The hash is a parameter.  VNodeHash[w, i] stands for the MD5 of         *)
(* "<w>#<i>" and KeyHash[k] for the MD5 of a routing key; both are natural *)
(* numbers, of any size.                                                   *)
(***************************************************************************)
EXTENDS WorkerIds, Integers

CONSTANTS
  Keys,           \* routing keys (contract ids)
  VirtualNodes,   \* ConsistentHashRing.virtual_nodes (150 in the code)
  VNodeHash,      \* position of each virtual node
  KeyHash         \* position of each key

Replicas == 0 .. VirtualNodes - 1

ASSUME RingConstants ==
  /\ VirtualNodes \in Nat \ {0}
  /\ VNodeHash \in [Workers \X Replicas -> Nat]
  /\ KeyHash \in [Keys -> Nat]

(* Distinct virtual nodes have distinct positions: MD5 of distinct strings *)
(* over 128 bits.  A key may share a position with a virtual node.         *)
ASSUME NoCollisions ==
  \A a, b \in Workers \X Replicas : VNodeHash[a] = VNodeHash[b] => a = b

-----------------------------------------------------------------------------

(* The positions a worker occupies. *)
VNodes(w) == {VNodeHash[w, i] : i \in Replicas}

Positions(S) == UNION {VNodes(w) : w \in S}

(* The dict position -> worker that holds exactly the workers of S. *)
Build(S) == [h \in Positions(S) |-> CHOOSE w \in S : h \in VNodes(w)]

(* The first position of P clockwise of h, strictly after it, wrapping     *)
(* around to the smallest one.                                             *)
Least(P) == CHOOSE p \in P : \A q \in P : p =< q
Clockwise(P, h) ==
  LET after == {p \in P : p > h}
  IN  Least(IF after # {} THEN after ELSE P)

(* The worker that owns key k when the (nonempty) set S is on the ring. *)
Owner(S, k) == Build(S)[Clockwise(Positions(S), KeyHash[k])]

=============================================================================
