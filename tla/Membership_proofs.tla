-------------------------- MODULE Membership_proofs --------------------------
(***************************************************************************)
(* For every set of workers and registries, whichever failures may happen: *)
(* the variables keep their types, and a worker that is gone and forgotten *)
(* stays forgotten.                                                        *)
(***************************************************************************)
EXTENDS Membership, TLAPS

(* The steps of one worker process and its key keep the types. *)
LEMMA WorkerTypes ==
  ASSUME TypeOK, NEW w \in Workers, WorkerNext(w)
  PROVE  TypeOK'
<1> USE DEF TypeOK, Points, workerVars, registryVars
<1>1. ASSUME NEW type \in {"join", "leave"}, Publish(type, w)
      PROVE  inbox' \in [Registries -> Seq(Events)]
  <2>1. PICK R \in SUBSET {r \in Registries : "watcher" \in up[r]} :
          inbox' = [r \in Registries |->
                      IF r \in R
                      THEN Append(inbox[r], [type |-> type, worker |-> w])
                      ELSE inbox[r]]
    BY <1>1 DEF Publish
  <2>2. [type |-> type, worker |-> w] \in Events
    BY DEF Events
  <2>3. \A r \in Registries :
          Append(inbox[r], [type |-> type, worker |-> w]) \in Seq(Events)
    BY <2>2
  <2>4. QED
    BY <2>1, <2>3
<1>2. CASE Register(w)
  BY <1>2 DEF Register
<1>3. CASE RegisterFails(w)
  BY <1>3 DEF RegisterFails, AbandonSet
<1>4. CASE Announce(w)
  BY <1>4, <1>1 DEF Announce
<1>5. CASE Heartbeat(w)
  BY <1>5 DEF Heartbeat
<1>6. CASE HeartbeatFails(w)
  BY <1>6 DEF HeartbeatFails, AbandonSet
<1>7. CASE Signal(w)
  BY <1>7 DEF Signal
<1>8. CASE PopTimeout(w)
  BY ZenonT(30), <1>8 DEF PopTimeout, LoopTop, Finally, AbandonSet
<1>9. CASE PopFails(w)
  BY <1>9 DEF PopFails, Finally, AbandonSet
<1>10. CASE BeginTask(w)
  BY <1>10 DEF BeginTask
<1>11. CASE EndTask(w)
  BY ZenonT(30), <1>11 DEF EndTask, LoopTop, Finally, AbandonSet
<1>12. CASE DeleteKey(w)
  BY <1>12 DEF DeleteKey
<1>13. CASE PublishLeave(w)
  BY <1>13, <1>1 DEF PublishLeave
<1>14. CASE DeregisterFails(w)
  BY <1>14 DEF DeregisterFails
<1>15. CASE Crash(w)
  BY <1>15 DEF Crash, AbandonSet
<1>16. CASE LateSet(w)
  BY <1>16 DEF LateSet
<1>17. CASE Expire(w)
  BY <1>17 DEF Expire
<1>18. CASE CatchUp(w)
  BY <1>18 DEF CatchUp
<1>19. QED
  BY <1>2, <1>3, <1>4, <1>5, <1>6, <1>7, <1>8, <1>9, <1>10, <1>11, <1>12,
     <1>13, <1>14, <1>15, <1>16, <1>17, <1>18 DEF WorkerNext

(* So do the steps of a registry. *)
LEMMA RegistryTypes ==
  ASSUME TypeOK, NEW r \in Registries, NEW t \in Refreshers, RegistryNext(r, t)
  PROVE  TypeOK'
<1> USE DEF TypeOK, workerVars, registryVars
<1>1. CASE StartRefresh(r, t)
  <2>1. scan' \in [Registries -> [Refreshers -> SUBSET SUBSET Workers]]
    BY <1>1 DEF StartRefresh
  <2>2. inbox' \in [Registries -> Seq(Events)]
    <3>1. CASE UNCHANGED inbox
      BY <3>1
    <3>2. CASE inbox[r] # <<>> /\ inbox' = [inbox EXCEPT ![r] = Tail(@)]
      <4>1. Tail(inbox[r]) \in Seq(Events)
        BY <3>2
      <4>2. QED
        BY <3>2, <4>1
    <3>3. QED
      BY <1>1, <3>1, <3>2 DEF StartRefresh
  <2>3. QED
    BY <1>1, <2>1, <2>2 DEF StartRefresh
<1>2. CASE FinishRefresh(r, t)
  BY <1>2 DEF FinishRefresh
<1>3. CASE RefreshFails(r, t)
  BY <1>3 DEF RefreshFails
<1>4. QED
  BY <1>1, <1>2, <1>3 DEF RegistryNext

(* Every step keeps the types. *)
LEMMA TypeInductive ==
  ASSUME TypeOK, [Next]_mvars
  PROVE  TypeOK'
<1>1. CASE \E w \in Workers : WorkerNext(w)
  BY <1>1, WorkerTypes
<1>2. CASE \E r \in Registries, t \in Refreshers : RegistryNext(r, t)
  BY <1>2, RegistryTypes
<1>3. CASE Failover
  BY <1>3 DEF Failover, TypeOK, workerVars, registryVars
<1>4. CASE UNCHANGED mvars
  BY <1>4 DEF mvars, TypeOK
<1>5. QED
  BY <1>1, <1>2, <1>3, <1>4 DEF Next

LEMMA InitTypes == Init => TypeOK
<1> SUFFICES ASSUME Init PROVE TypeOK
  OBVIOUS
<1>1. Background \in SUBSET Refreshers
  BY MembershipConstants
<1>2. QED
  BY <1>1 DEF Init, TypeOK, Points

(* The variables of the workers, of Redis and of the registries keep their *)
(* types (worker.py:72-90, worker_registry.py:48-115).                     *)
THEOREM MembershipTypes == Spec => []TypeOK
<1>1. TypeOK /\ [Next]_mvars => TypeOK'
  BY TypeInductive
<1>2. QED
  BY InitTypes, <1>1, PTL DEF Spec

-----------------------------------------------------------------------------

(* Only a worker that serves has a heartbeat task running: run starts the  *)
(* task after register and its finally ends it before run does.            *)
HeartbeatServes == \A w \in Workers : hb[w] = "alive" => pc[w] \in Serving

LEMMA HeartbeatServesInductive ==
  ASSUME TypeOK, HeartbeatServes, [Next]_mvars
  PROVE  HeartbeatServes'
<1> SUFFICES ASSUME NEW v \in Workers, hb'[v] = "alive"
             PROVE  pc'[v] \in Serving
  BY DEF HeartbeatServes
<1> USE DEF TypeOK, HeartbeatServes, Serving
<1>1. CASE \E w \in Workers : WorkerNext(w)
  <2>1. PICK w \in Workers : WorkerNext(w)
    BY <1>1
  <2>2. CASE Register(w) \/ RegisterFails(w) \/ Announce(w)
    BY <2>2 DEF Register, RegisterFails, Announce
  <2>3. CASE UNCHANGED <<pc, hb>>
    BY <2>3
  <2>4. CASE HeartbeatFails(w)
    BY <2>4 DEF HeartbeatFails
  <2>5. CASE PopTimeout(w) \/ PopFails(w) \/ EndTask(w)
    BY <2>5 DEF PopTimeout, PopFails, EndTask, LoopTop, Finally
  <2>6. CASE BeginTask(w) \/ Crash(w)
    BY <2>6 DEF BeginTask, Crash
  <2>7. CASE DeleteKey(w) \/ PublishLeave(w) \/ DeregisterFails(w)
    BY <2>7 DEF DeleteKey, PublishLeave, DeregisterFails
  <2>8. ASSUME Heartbeat(w) \/ Signal(w) \/ LateSet(w) \/ Expire(w) \/ CatchUp(w)
        PROVE  UNCHANGED <<pc, hb>>
    BY <2>8 DEF Heartbeat, Signal, LateSet, Expire, CatchUp, workerVars
  <2>9. QED
    BY <2>1, <2>2, <2>3, <2>4, <2>5, <2>6, <2>7, <2>8 DEF WorkerNext
<1>2. ASSUME \/ \E r \in Registries, t \in Refreshers : RegistryNext(r, t)
             \/ Failover
             \/ UNCHANGED mvars
      PROVE  UNCHANGED <<pc, hb>>
  BY <1>2 DEF RegistryNext, StartRefresh, FinishRefresh, RefreshFails,
              Failover, workerVars, mvars
<1>3. QED
  BY <1>1, <1>2 DEF Next

MembershipInv == TypeOK /\ HeartbeatServes

LEMMA MembershipInvariant == Spec => []MembershipInv
<1>1. Init => MembershipInv
  BY InitTypes DEF MembershipInv, HeartbeatServes, Init
<1>2. MembershipInv /\ [Next]_mvars => MembershipInv'
  BY TypeInductive, HeartbeatServesInductive DEF MembershipInv
<1>3. QED
  BY <1>1, <1>2, PTL DEF Spec

(* A step of a worker process v, of its key or of its replica entry does   *)
(* not bring back a forgotten worker w: if v is w, no code of it runs any  *)
(* more and Redis has nothing of it to restore; if not, it is none of v's  *)
(* business.                                                               *)
LEMMA WorkersStayForgotten ==
  ASSUME MembershipInv, NEW v \in Workers, NEW w \in Workers,
         Forgotten(w), WorkerNext(v)
  PROVE  Forgotten(w)'
<1> USE DEF MembershipInv, TypeOK, Forgotten, workerVars, registryVars
<1>1. hb[w] # "alive"
  BY DEF HeartbeatServes, Serving
<1>2. UNCHANGED <<ring, scan>>
  BY DEF WorkerNext, Register, RegisterFails, Announce, Heartbeat,
         HeartbeatFails, Signal, PopTimeout, PopFails, BeginTask, EndTask,
         DeleteKey, PublishLeave, DeregisterFails, Crash, LateSet, Expire,
         CatchUp
<1>3. pc'[w] \in {"exited", "dead"}
  BY DEF WorkerNext, Register, RegisterFails, Announce, Heartbeat,
         HeartbeatFails, Signal, PopTimeout, PopFails, BeginTask, EndTask,
         DeleteKey, PublishLeave, DeregisterFails, Crash, LateSet, Expire,
         CatchUp, LoopTop, Finally, Live
<1>4. w \notin late'
  BY <1>1 DEF WorkerNext, Register, RegisterFails, Announce, Heartbeat,
         HeartbeatFails, Signal, PopTimeout, PopFails, BeginTask, EndTask,
         DeleteKey, PublishLeave, DeregisterFails, Crash, LateSet, Expire,
         CatchUp, LoopTop, Finally, AbandonSet, Live
<1>5. w \notin keys'
  BY <1>1 DEF WorkerNext, Register, RegisterFails, Announce, Heartbeat,
         HeartbeatFails, Signal, PopTimeout, PopFails, BeginTask, EndTask,
         DeleteKey, PublishLeave, DeregisterFails, Crash, LateSet, Expire,
         CatchUp, LoopTop, Finally
<1>6. w \notin rkeys'
  BY DEF WorkerNext, Register, RegisterFails, Announce, Heartbeat,
         HeartbeatFails, Signal, PopTimeout, PopFails, BeginTask, EndTask,
         DeleteKey, PublishLeave, DeregisterFails, Crash, LateSet, Expire,
         CatchUp
<1>7. QED
  BY <1>2, <1>3, <1>4, <1>5, <1>6

(* Neither does a refresh: it reads a replica, and writes a scan result,   *)
(* in which w does not occur.                                              *)
LEMMA RefreshKeepsForgotten ==
  ASSUME MembershipInv, NEW r \in Registries, NEW t \in Refreshers,
         NEW w \in Workers, Forgotten(w), RegistryNext(r, t)
  PROVE  Forgotten(w)'
<1> USE DEF MembershipInv, TypeOK, Forgotten, workerVars
<1>1. CASE StartRefresh(r, t)
  BY <1>1 DEF StartRefresh
<1>2. CASE FinishRefresh(r, t)
  BY <1>2 DEF FinishRefresh
<1>3. CASE RefreshFails(r, t)
  BY <1>3 DEF RefreshFails
<1>4. QED
  BY <1>1, <1>2, <1>3 DEF RegistryNext

LEMMA ForgottenStable ==
  ASSUME MembershipInv, [Next]_mvars, NEW w \in Workers, Forgotten(w)
  PROVE  Forgotten(w)'
<1>1. CASE \E v \in Workers : WorkerNext(v)
  BY <1>1, WorkersStayForgotten
<1>2. CASE \E r \in Registries, t \in Refreshers : RegistryNext(r, t)
  BY <1>2, RefreshKeepsForgotten
<1>3. CASE Failover
  BY <1>3 DEF Failover, Forgotten, workerVars, registryVars
<1>4. CASE UNCHANGED mvars
  BY <1>4 DEF mvars, Forgotten
<1>5. QED
  BY <1>1, <1>2, <1>3, <1>4 DEF Next

(* Once a worker has ended and its key, its late heartbeats, its replica   *)
(* entry, the scans under way and the rings are rid of it, no interleaving *)
(* of heartbeats, stale scans and failovers routes to it again.            *)
THEOREM ForgottenForever == Spec => StaysForgotten
<1>1. MembershipInv /\ [Next]_mvars
        => [\A w \in Workers : Forgotten(w) => Forgotten(w)']_mvars
  BY ForgottenStable
<1>2. QED
  BY <1>1, MembershipInvariant, PTL DEF Spec, StaysForgotten

=============================================================================
