---------------------------- MODULE TaskDelivery ----------------------------
(***************************************************************************)
(* What the pipeline promises its callers as long as Redis does not fail   *)
(* over, with processes, heartbeats and rings left out: a batch of tasks   *)
(* gets its owners and is queued as a whole, or lost as a whole; a task    *)
(* has one owner, for good, which handles one task at a time and each at   *)
(* most once; a task may be lost at any later stage, too, and is then      *)
(* never heard of again.                                                   *)
(***************************************************************************)
EXTENDS WorkerIds

CONSTANT Tasks

VARIABLES
  stage,    \* how far each task got
  owner,    \* {} or {the worker that has it, or had it last}
  batch     \* while it is routed, the tasks that are pushed with it

dvars == <<stage, owner, batch>>

Stages == {"new", "routed", "queued", "running", "ended", "lost"}

DeliveryInit ==
  /\ stage = [t \in Tasks |-> "new"]
  /\ owner = [t \in Tasks |-> {}]
  /\ batch = [t \in Tasks |-> {}]

(* The tasks of T move on together, and no other task moves. *)
Advance(T, from, to) ==
  /\ \A t \in T : stage[t] = from
  /\ stage' = [t \in Tasks |-> IF t \in T THEN to ELSE stage[t]]

Route(T) ==
  /\ Advance(T, "new", "routed")
  /\ \E f \in [T -> Workers] :
       owner' = [t \in Tasks |-> IF t \in T THEN {f[t]} ELSE owner[t]]
  /\ batch' = [t \in Tasks |-> IF t \in T THEN T ELSE batch[t]]

(* The push of T is over: every task of it is queued, or every one lost. *)
Push(T) ==
  /\ \A t \in T : batch[t] = T
  /\ \E to \in {"queued", "lost"} : Advance(T, "routed", to)
  /\ batch' = [t \in Tasks |-> IF t \in T THEN {} ELSE batch[t]]
  /\ UNCHANGED owner

Begin(t) ==
  /\ Advance({t}, "queued", "running")
  /\ \A u \in Tasks : owner[u] = owner[t] => stage[u] # "running"
  /\ UNCHANGED <<owner, batch>>

End(t) == Advance({t}, "running", "ended") /\ UNCHANGED <<owner, batch>>

Lose(t) ==
  /\ \E from \in {"queued", "running"} : Advance({t}, from, "lost")
  /\ UNCHANGED <<owner, batch>>

(* A step moves at least one task on. *)
DeliveryNext ==
  /\ stage' # stage
  /\ \/ \E T \in SUBSET Tasks : Route(T) \/ Push(T)
     \/ \E t \in Tasks : Begin(t) \/ End(t) \/ Lose(t)

Delivery == DeliveryInit /\ [][DeliveryNext]_dvars

=============================================================================
