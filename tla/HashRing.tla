------------------------------ MODULE HashRing ------------------------------
(***************************************************************************)
(* The ConsistentHashRing object of src/legallens/workers/hash_ring.py:    *)
(* the dict _ring, the sorted list _sorted_hashes that get_worker bisects, *)
(* and the three operations that rebuild them.  Nothing in the object      *)
(* awaits, so in the single-threaded processes that hold one every         *)
(* operation is one step.                                                  *)
(*                                                                         *)
(* members is a history variable: the workers the callers have put on the  *)
(* ring and not taken off since.  The object does not store it.            *)
(***************************************************************************)
EXTENDS Ring, Sorting, Sequences, FiniteSets, Functions

CONSTANT None     \* what get_worker returns on an empty ring

VARIABLES
  ring,           \* self._ring
  sortedHashes,   \* self._sorted_hashes
  members

vars == <<ring, sortedHashes, members>>

Init ==
  /\ ring = Build({})
  /\ sortedHashes = <<>>
  /\ members = {}

(* The loops that assign every virtual node of every worker of S, over     *)
(* whatever is there already.  A position that two workers share would     *)
(* keep the one assigned last; NoCollisions leaves no such choice.         *)
Assign(d, S) ==
  [h \in DOMAIN d \cup Positions(S) |->
     IF h \in Positions(S) THEN CHOOSE w \in S : h \in VNodes(w) ELSE d[h]]

add_worker(w) ==
  /\ ring' = Assign(ring, {w})
  /\ sortedHashes' = Sorted(DOMAIN ring')
  /\ members' = members \cup {w}

(* Mutant: the positions of a removed worker are kept, without a worker. *)
remove_leaves_holes(w) ==
  /\ ring' = [h \in DOMAIN ring |-> IF h \in VNodes(w) THEN None ELSE ring[h]]
  /\ sortedHashes' = Sorted(DOMAIN ring')
  /\ members' = members \ {w}

(* pop(h, None): removing a worker that is not there changes nothing. *)
remove_worker(w) ==
  /\ ring' = Restrict(ring, DOMAIN ring \ VNodes(w))
  /\ sortedHashes' = Sorted(DOMAIN ring')
  /\ members' = members \ {w}

(* Mutant: replace_workers forgets to clear. *)
replace_without_clear(worker_ids) ==
  /\ ring' = Assign(ring, worker_ids)
  /\ sortedHashes' = Sorted(DOMAIN ring')
  /\ members' = worker_ids

(* clear(), then the assignments. *)
replace_workers(worker_ids) ==
  /\ ring' = Assign(Build({}), worker_ids)
  /\ sortedHashes' = Sorted(DOMAIN ring')
  /\ members' = worker_ids

Next ==
  \/ \E w \in Workers : add_worker(w) \/ remove_worker(w)
  \/ \E S \in SUBSET Workers : IsFiniteSet(S) /\ replace_workers(S)

Spec == Init /\ [][Next]_vars

-----------------------------------------------------------------------------

(* Mutant: bisect_left. *)
BisectLeft(s, h) == Cardinality({i \in DOMAIN s : s[i] < h})

(* bisect_right: on a sorted list, the number of entries that are =< h. *)
BisectRight(s, h) == Cardinality({i \in DOMAIN s : s[i] =< h})

(* Mutant: the key's hash modulo the number of virtual nodes. *)
get_worker_modulo(k) ==
  IF sortedHashes = <<>> THEN None
  ELSE ring[sortedHashes[(KeyHash[k] % Len(sortedHashes)) + 1]]

(* Python's lists start at 0, TLA+'s sequences at 1. *)
get_worker(k) ==
  LET idx == BisectRight(sortedHashes, KeyHash[k])
  IN  IF sortedHashes = <<>> THEN None
      ELSE ring[sortedHashes[(IF idx = Len(sortedHashes) THEN 0 ELSE idx) + 1]]

workers == Range(ring)

-----------------------------------------------------------------------------

TypeOK ==
  /\ members \subseteq Workers
  /\ ring \in [DOMAIN ring -> Workers]
  /\ DOMAIN ring \subseteq Positions(Workers)
  /\ sortedHashes \in Seq(Nat)

(* "The ring is replicated in every process" (hash_ring.py:10): the object *)
(* depends on the membership alone, not on the joins, leaves and rebuilds  *)
(* that led to it, so processes that agree on the members route alike.     *)
HistoryIndependent ==
  /\ ring = Build(members)
  /\ workers = members

(* The lookup through the bisected list is the placement rule: never a     *)
(* stale position, never a worker that is off the ring, None only when no  *)
(* worker is on it (test_empty_ring_returns_none).                         *)
LookupIsPlacement ==
  \A k \in Keys :
    get_worker(k) = IF members = {} THEN None ELSE Owner(members, k)

(* A membership change moves a key only to a worker that joins or away     *)
(* from a worker that leaves, whichever of the three operations makes it   *)
(* (test_add_worker_minimally_reshuffles asks for a rough fraction, and    *)
(* test_remove_worker_minimally_reshuffles for this on one removal).       *)
MovesOnlyWithMembers ==
  [][\A k \in Keys :
       get_worker(k)' # get_worker(k) =>
         \/ get_worker(k) \notin members'
         \/ get_worker(k)' \notin members]_vars

=============================================================================
