------------------------------- MODULE Cluster -------------------------------
(***************************************************************************)
(* The ingest pipeline: TaskDispatcher (src/legallens/orchestration/       *)
(* dispatcher.py) routes each task by the ring its process believes in and *)
(* pushes it to that worker's Redis list; WorkerTaskQueue (workers/        *)
(* task_queue.py) pops it; Worker._handle (workers/worker.py) runs it.     *)
(* Membership says who is alive and what the rings hold.                   *)
(*                                                                         *)
(* A task stands for one Task object; two tasks of the same contract are   *)
(* two dispatches of it (a re-run, a retry after an error).                *)
(***************************************************************************)
EXTENDS Membership, Ring, FiniteSets

CONSTANTS
  Tasks,
  RoutingKey,     \* Task.routing_key of each task
  MaxBatch,       \* dispatch_many: size of the largest batch
  MaxFailovers    \* bound on the number of failovers

ASSUME ClusterConstants ==
  /\ RoutingKey \in [Tasks -> Keys]
  /\ MaxBatch \in Nat \ {0}
  /\ MaxFailovers \in Nat

VARIABLES
  sending,    \* per registry: by_worker, the tasks of the push under way
  queue,      \* queue:<worker_id> on the master
  rqueue,     \* what the replica has of it
  hand,       \* the task each worker holds between BLPOP and _handle's return
  route,      \* history: {} or {[worker, view]}, the decision for each task
  begun,      \* history: how often each task was handed to a worker
  ended,      \* history: the tasks whose handling has returned
  failovers   \* history: how many there were

historyVars == <<route, begun, ended, failovers>>
pipeVars == <<sending, queue, rqueue, hand, historyVars>>
cvars == <<mvars, pipeVars>>

Nothing == [w \in Workers |-> <<>>]

InitCluster ==
  /\ Init
  /\ sending = [r \in Registries |-> Nothing]
  /\ queue = [w \in Workers |-> <<>>]
  /\ rqueue = [w \in Workers |-> <<>>]
  /\ hand = [w \in Workers |-> {}]
  /\ route = [t \in Tasks |-> {}]
  /\ begun = [t \in Tasks |-> 0]
  /\ ended = {}
  /\ failovers = 0

-----------------------------------------------------------------------------
(* The dispatching process.                                                *)

Orderings(S) ==
  {s \in [1 .. Cardinality(S) -> S] : \A i, j \in DOMAIN s : s[i] = s[j] => i = j}

(* The tasks of T, each with an owner, sent as one batch. *)
Send(r, T, owner) ==
  /\ sending[r] = Nothing
  /\ \A t \in T : route[t] = {}
  /\ \E by_worker \in [Workers -> UNION {Orderings(S) : S \in SUBSET T}] :
       /\ \A w \in Workers :
            by_worker[w] \in Orderings({t \in T : owner[t] = w})
       /\ sending' = [sending EXCEPT ![r] = by_worker]
  /\ route' = [t \in Tasks |->
        IF t \in T THEN {[worker |-> owner[t], view |-> ring[r]]}
        ELSE route[t]]
  /\ UNCHANGED <<mvars, queue, rqueue, hand, begun, ended, failovers>>

(* Mutant: a task goes to any worker of the ring, whatever its key. *)
DispatchAnywhere(r, T) == \E owner \in [T -> ring[r]] : Send(r, T, owner)

(* Mutant: a contract stays with the worker it was routed to first. *)
DispatchSticky(r, T) ==
  LET before(t) == {d \in UNION {route[s] : s \in Tasks} :
                      \E s \in Tasks : d \in route[s] /\ RoutingKey[s] = RoutingKey[t]}
  IN  ring[r] # {} /\
      Send(r, T, [t \in T |->
        IF before(t) # {} THEN (CHOOSE d \in before(t) : TRUE).worker
        ELSE Owner(ring[r], RoutingKey[t])])

(* dispatch (a batch of one) and dispatch_many, up to their await: get_    *)
(* worker of every task, on one and the same ring since nothing awaits in  *)
(* between.  The order within a worker's share is the caller's.  On an     *)
(* empty ring they raise NoWorkersAvailable and nothing is sent.  A        *)
(* process awaits one dispatch before it starts the next.                  *)
Dispatch(r, T) ==
  /\ ring[r] # {}
  /\ Send(r, T, [t \in T |-> Owner(ring[r], RoutingKey[t])])

(* Mutant: the batch is pushed with a command for each worker. *)
PushByShare(r) ==
  \E w \in Workers :
    /\ sending[r][w] # <<>>
    /\ queue' = [queue EXCEPT ![w] = @ \o sending[r][w]]
    /\ sending' = [sending EXCEPT ![r][w] = <<>>]
    /\ UNCHANGED <<mvars, rqueue, hand, historyVars>>

(* RPUSH, or the pipeline's MULTI/EXEC: every queue gets its share of the  *)
(* batch at once.                                                          *)
Push(r) ==
  /\ sending[r] # Nothing
  /\ queue' = [w \in Workers |-> queue[w] \o sending[r][w]]
  /\ sending' = [sending EXCEPT ![r] = Nothing]
  /\ UNCHANGED <<mvars, rqueue, hand, historyVars>>

(* The push never reaches Redis: it raises, or the process dies.           *)
PushLost(r) ==
  /\ Faults \cap {"redis", "crash"} # {}
  /\ sending[r] # Nothing
  /\ sending' = [sending EXCEPT ![r] = Nothing]
  /\ UNCHANGED <<mvars, queue, rqueue, hand, historyVars>>

-----------------------------------------------------------------------------
(* The worker.                                                             *)

(* Mutant: workers share their lists. *)
PopShared(w) ==
  \E v \in Workers :
    /\ queue[v] # <<>>
    /\ BeginTask(w)
    /\ hand' = [hand EXCEPT ![w] = {Head(queue[v])}]
    /\ queue' = [queue EXCEPT ![v] = Tail(@)]
    /\ begun' = [begun EXCEPT ![Head(queue[v])] = @ + 1]
    /\ UNCHANGED <<sending, rqueue, route, ended, failovers>>

(* Mutant: LINDEX instead of BLPOP. *)
Peek(w) ==
  /\ queue[w] # <<>>
  /\ BeginTask(w)
  /\ hand' = [hand EXCEPT ![w] = {Head(queue[w])}]
  /\ begun' = [begun EXCEPT ![Head(queue[w])] = @ + 1]
  /\ UNCHANGED <<sending, queue, rqueue, route, ended, failovers>>

(* Mutant: the pair (list, task) that BLPOP returns is taken for the task. *)
PopPair(w) ==
  /\ queue[w] # <<>>
  /\ BeginTask(w)
  /\ hand' = [hand EXCEPT ![w] = {<<w, Head(queue[w])>>}]
  /\ queue' = [queue EXCEPT ![w] = Tail(@)]
  /\ begun' = [begun EXCEPT ![Head(queue[w])] = @ + 1]
  /\ UNCHANGED <<sending, rqueue, route, ended, failovers>>

(* Mutant: the last task of a list is left on it. *)
PopUnlessLast(w) ==
  /\ Len(queue[w]) > 1
  /\ BeginTask(w)
  /\ hand' = [hand EXCEPT ![w] = {Head(queue[w])}]
  /\ queue' = [queue EXCEPT ![w] = Tail(@)]
  /\ begun' = [begun EXCEPT ![Head(queue[w])] = @ + 1]
  /\ UNCHANGED <<sending, rqueue, route, ended, failovers>>

(* BLPOP's reply: the head of the worker's own list. *)
Pop(w) ==
  /\ queue[w] # <<>>
  /\ BeginTask(w)
  /\ hand' = [hand EXCEPT ![w] = {Head(queue[w])}]
  /\ queue' = [queue EXCEPT ![w] = Tail(@)]
  /\ begun' = [begun EXCEPT ![Head(queue[w])] = @ + 1]
  /\ UNCHANGED <<sending, rqueue, route, ended, failovers>>

(* BLPOP is carried out, its reply is lost and pop raises. *)
PopLosesTask(w) ==
  /\ queue[w] # <<>>
  /\ PopFails(w)
  /\ queue' = [queue EXCEPT ![w] = Tail(@)]
  /\ UNCHANGED <<sending, rqueue, hand, historyVars>>

(* Mutant: a task whose handler failed is put back on the list. *)
HandleRequeues(w) ==
  /\ EndTask(w)
  /\ \E t \in hand[w] : queue' = [queue EXCEPT ![w] = Append(@, t)]
  /\ hand' = [hand EXCEPT ![w] = {}]
  /\ UNCHANGED <<sending, rqueue, historyVars>>

(* _handle returns, whether its handler succeeded, raised or was missing:  *)
(* nothing is retried.                                                     *)
HandleReturns(w) ==
  /\ EndTask(w)
  /\ ended' = ended \cup hand[w]
  /\ hand' = [hand EXCEPT ![w] = {}]
  /\ UNCHANGED <<sending, queue, rqueue, route, begun, failovers>>

Killed(w) ==
  /\ Crash(w)
  /\ hand' = [hand EXCEPT ![w] = {}]
  /\ UNCHANGED <<sending, queue, rqueue, historyVars>>

(* The steps of Membership that do not touch the queues. *)
WorkerStep(w) ==
  /\ \/ Register(w) \/ RegisterFails(w) \/ Announce(w)
     \/ Heartbeat(w) \/ HeartbeatFails(w) \/ Signal(w)
     \/ PopTimeout(w) \/ PopFails(w)
     \/ DeleteKey(w) \/ PublishLeave(w) \/ DeregisterFails(w)
     \/ LateSet(w) \/ Expire(w) \/ CatchUp(w)
  /\ UNCHANGED pipeVars

RegistryStep(r, t) == RegistryNext(r, t) /\ UNCHANGED pipeVars

-----------------------------------------------------------------------------
(* Redis.                                                                  *)

Replicate(w) ==
  /\ rqueue[w] # queue[w]
  /\ rqueue' = [rqueue EXCEPT ![w] = queue[w]]
  /\ UNCHANGED <<mvars, sending, queue, hand, historyVars>>

(* The replica's lists and keys become the master's: pushes it has not     *)
(* seen are lost, pops it has not seen are undone.                         *)
Promote ==
  /\ failovers < MaxFailovers
  /\ Failover
  /\ queue' = rqueue
  /\ failovers' = failovers + 1
  /\ UNCHANGED <<sending, rqueue, hand, route, begun, ended>>

-----------------------------------------------------------------------------

Batches ==
  {T \in SUBSET Tasks : IsFiniteSet(T) /\ Cardinality(T) \in 1 .. MaxBatch}

ClusterNext ==
  \/ \E r \in Registries :
       \/ \E T \in Batches : Dispatch(r, T)
       \/ Push(r) \/ PushLost(r)
       \/ \E t \in Refreshers : RegistryStep(r, t)
  \/ \E w \in Workers :
       \/ Pop(w) \/ PopLosesTask(w) \/ HandleReturns(w) \/ Killed(w)
       \/ WorkerStep(w) \/ Replicate(w)
  \/ Promote

ClusterSpec == InitCluster /\ [][ClusterNext]_cvars

(* Membership's fairness, with the pipeline's own turns: Redis answers a   *)
(* push, BLPOP returns when there is something to pop, handlers return.    *)
ClusterFairness ==
  /\ \A w \in Workers :
       /\ WF_cvars(Announce(w) /\ UNCHANGED pipeVars)
       /\ WF_cvars(Pop(w) \/ HandleReturns(w))
       /\ WF_cvars(Heartbeat(w) /\ UNCHANGED pipeVars)
       /\ WF_cvars(Expire(w) /\ UNCHANGED pipeVars)
       /\ WF_cvars(CatchUp(w) /\ UNCHANGED pipeVars)
  /\ \A r \in Registries :
       /\ WF_cvars(Push(r))
       /\ \A t \in Refreshers : WF_cvars(RegistryStep(r, t))

FairClusterSpec == ClusterSpec /\ ClusterFairness

-----------------------------------------------------------------------------
(* Properties.                                                             *)

Routes == [worker : Workers, view : SUBSET Workers]

PipelineTypes ==
  /\ sending \in [Registries -> [Workers -> Seq(Tasks)]]
  /\ queue \in [Workers -> Seq(Tasks)]
  /\ rqueue \in [Workers -> Seq(Tasks)]
  /\ hand \in [Workers -> SUBSET Tasks]
  /\ route \in [Tasks -> SUBSET Routes]
  /\ begun \in [Tasks -> Nat]
  /\ ended \subseteq Tasks
  /\ failovers \in Nat

ClusterTypeOK == TypeOK /\ PipelineTypes

Elements(s) == {s[i] : i \in DOMAIN s}

(* The tasks w has in its queue, on either Redis, or is handling. *)
Assigned(w) == Elements(queue[w]) \cup Elements(rqueue[w]) \cup hand[w]

(* w was the owner of t on the dispatcher's ring when it routed t. *)
RoutedTo(t, w) == \E d \in route[t] : d.worker = w /\ w \in d.view

(* "No 'two workers stealing the same task' race" (task_queue.py:7): once  *)
(* a task is routed, no worker but the one it was routed to, which was on  *)
(* the dispatcher's ring, ever has it, through churn, lost replies and     *)
(* failovers; and nothing is queued that was not routed.                   *)
NoStealing == \A w \in Workers : \A t \in Assigned(w) : RoutedTo(t, w)

(* BLPOP is destructive and nothing re-dispatches: a task is handed out a  *)
(* second time only when a failover undid the pop, and at most once per    *)
(* failover.                                                               *)
RepeatsNeedFailover == \A t \in Tasks : begun[t] =< 1 + failovers

(* What is left of "two workers never contend on the same contract's rows" *)
(* (scripts/init_db.sql:6-7): two workers have tasks of one contract only  *)
(* if the dispatcher's ring lacked one of them when it routed the other's. *)
ContentionNeedsChurn ==
  \A v, w \in Workers : \A s \in Assigned(v), t \in Assigned(w) :
    v # w /\ RoutingKey[s] = RoutingKey[t] =>
      \E d \in route[s], e \in route[t] : w \notin d.view \/ v \notin e.view

(* Nothing can reach w any more: it is forgotten and no push to it is      *)
(* under way.                                                              *)
Unroutable(w) ==
  /\ Forgotten(w)
  /\ \A r \in Registries : sending[r][w] = <<>>

(* A worker that is gone from every ring is routed nothing again: the      *)
(* tasks stranded on its list are those routed before the rings forgot it. *)
StaysUnroutable ==
  [][\A w \in Workers : Unroutable(w) => Unroutable(w)']_cvars

(* A pushed task waits only for its own worker: it is handled unless that  *)
(* worker stops serving (or a failover loses it).                          *)
QueuedIsTaken ==
  \A w \in Workers, t \in Tasks :
    t \in Elements(queue[w]) ~> t \notin Elements(queue[w]) \/ pc[w] \notin Serving

(* The pipeline as its callers see it, for TaskDelivery.                   *)

(* Where it has t: the places of t in the pushes under way, on the lists   *)
(* and in the workers' hands, each with its stage and its worker.          *)
Places(t) ==
  LET At(s) == {i \in DOMAIN s : s[i] = t}
      sent(w) == UNION {{<<"routed", w, r, i>> : i \in At(sending[r][w])} : r \in Registries}
      queued(w) == {<<"queued", w, i>> : i \in At(queue[w])}
      running(w) == {<<"running", w>> : u \in hand[w] \cap {t}}
  IN  UNION {sent(w) \cup queued(w) \cup running(w) : w \in Workers}

(* The stage of a task is that of its place.  With two places it has none  *)
(* that TaskDelivery knows.                                                *)
Stage(t) ==
  LET places == Places(t)
  IN  IF places = {}
      THEN IF t \in ended THEN "ended" ELSE IF route[t] = {} THEN "new" ELSE "lost"
      ELSE IF \E p \in places : places = {p} THEN (CHOOSE p \in places : TRUE)[1]
      ELSE "twice"

(* Whoever has t; once nobody does, the worker that it was routed to. *)
Holders(t) ==
  LET places == Places(t)
  IN  IF places = {} THEN {d.worker : d \in route[t]} ELSE {p[2] : p \in places}

(* The tasks of a push under way, for whichever worker; those pushed with t. *)
InPush(r) == UNION {Elements(sending[r][w]) : w \in Workers}
Batch(t) == UNION {InPush(r) : r \in {r \in Registries : t \in InPush(r)}}

Abstract == INSTANCE TaskDelivery WITH
  stage <- [t \in Tasks |-> Stage(t)],
  owner <- [t \in Tasks |-> Holders(t)],
  batch <- [t \in Tasks |-> Batch(t)]

(* Without failovers the pipeline delivers as TaskDelivery promises: a     *)
(* batch is queued as a whole, once, or lost as a whole; no task is ever   *)
(* in two places or twice on one list, with another worker than the one it *)
(* was routed to, handled twice or beside another task, or found again     *)
(* once it is lost.                                                        *)
Delivers == Abstract!Delivery

(* "two workers never contend on the same contract's rows"                 *)
(* (scripts/init_db.sql:6-7): at no time do two workers handle tasks of    *)
(* one contract.                                                           *)
NoContention ==
  \A v, w \in Workers : \A s \in hand[v], t \in hand[w] :
    RoutingKey[s] = RoutingKey[t] => v = w

=============================================================================
