----------------------------- MODULE Membership -----------------------------
(***************************************************************************)
(* Which workers the dispatching processes believe to be alive.            *)
(*                                                                         *)
(* A worker process (src/legallens/workers/worker.py) registers a          *)
(* heartbeat key with a time to live, announces itself on worker:events,   *)
(* runs heartbeat_loop beside its task loop and deregisters when it stops. *)
(* A dispatching process holds a WorkerRegistry (coordination/             *)
(* worker_registry.py) whose ring two background tasks rebuild from a scan *)
(* of the keys: watch_events on every event, HeartbeatMonitor.run          *)
(* (orchestration/heartbeat.py) on an interval.  Writes go to the Redis    *)
(* master, scans to the replica (coordination/sentinel_client.py).         *)
(*                                                                         *)
(* Time is abstracted: Expire says when a key may run out.  An await is a  *)
(* point where other tasks and processes may step in.                      *)
(***************************************************************************)
EXTENDS WorkerIds, Naturals, Sequences

CONSTANTS
  Registries,   \* dispatching processes
  Background,   \* the background tasks they run, from Refreshers
  Faults        \* the failures the environment may inject, from FaultKinds

Refreshers == {"watcher", "monitor"}

FaultKinds ==
  {"crash",      \* kill -9, at any point of a worker, or of a dispatcher's push
   "signal",     \* SIGINT or SIGTERM
   "redis",      \* a worker's Redis call raises
   "scan",       \* a registry's scan raises
   "failover"}   \* Sentinel promotes the replica

ASSUME MembershipConstants ==
  /\ Background \subseteq Refreshers
  /\ Faults \subseteq FaultKinds

VARIABLES
  pc,      \* where each worker process is in Worker.run
  stop,    \* Worker._stop
  hb,      \* the heartbeat_loop task: "none", "alive" or "ended"
  late,    \* heartbeat SETs on the wire whose caller no longer waits for them
  keys,    \* the worker:hb:* keys on the master
  rkeys,   \* the keys a scan of the replica returns
  inbox,   \* worker:events messages delivered to a registry's watch_events
  up,      \* which of a registry's background tasks are running
  scan,    \* per background task: {} or {result of the scan under way}
  ring,    \* the workers on a registry's ring
  last     \* HeartbeatMonitor.run's last_workers

workerVars == <<pc, stop, hb, late>>
registryVars == <<inbox, up, scan, ring, last>>
mvars == <<pc, stop, hb, late, keys, rkeys, inbox, up, scan, ring, last>>

Points ==
  {"off",         \* not started
   "announcing",  \* in register: the key is set, the join not yet published
   "idle",        \* awaiting BLPOP
   "busy",        \* awaiting the task's handler
   "cleanup",     \* in run's finally: heartbeat cancelled, key not deleted
   "leaving",     \* in deregister: key deleted, the leave not yet published
   "exited",      \* run returned or raised
   "dead"}        \* killed

Live == {"announcing", "idle", "busy", "cleanup", "leaving"}
Serving == {"idle", "busy"}

Events == [type : {"join", "leave"}, worker : Workers]

Init ==
  /\ pc = [w \in Workers |-> "off"]
  /\ stop = [w \in Workers |-> FALSE]
  /\ hb = [w \in Workers |-> "none"]
  /\ late = {}
  /\ keys = {}
  /\ rkeys = {}
  /\ inbox = [r \in Registries |-> <<>>]
  /\ up = [r \in Registries |-> Background]
  /\ scan = [r \in Registries |-> [t \in Refreshers |-> {}]]
  /\ ring = [r \in Registries |-> {}]
  /\ last = [r \in Registries |-> {}]

-----------------------------------------------------------------------------
(* The worker process.                                                     *)

(* Pub/sub reaches the subscribers connected at that moment. *)
Publish(type, w) ==
  \E R \in SUBSET {r \in Registries : "watcher" \in up[r]} :
    inbox' = [r \in Registries |->
                IF r \in R THEN Append(inbox[r], [type |-> type, worker |-> w])
                ELSE inbox[r]]

(* A SET given up before its reply (an error, a cancellation, a crash) may *)
(* have been carried out, may still be on its way, or may be lost.         *)
AbandonSet(w) == late' \in {late, late \cup {w}}

LateSet(w) ==
  /\ w \in late
  /\ late' = late \ {w}
  /\ keys' = keys \cup {w}
  /\ UNCHANGED <<pc, stop, hb, rkeys, registryVars>>

(* Mutant: a worker id that is not unique to its process is used again. *)
RegisterAgain(w) ==
  /\ pc[w] \in {"off", "exited", "dead"}
  /\ pc' = [pc EXCEPT ![w] = "announcing"]
  /\ keys' = keys \cup {w}
  /\ UNCHANGED <<stop, hb, late, rkeys, registryVars>>

(* register, up to the reply to SET. *)
Register(w) ==
  /\ pc[w] = "off"
  /\ pc' = [pc EXCEPT ![w] = "announcing"]
  /\ keys' = keys \cup {w}
  /\ UNCHANGED <<stop, hb, late, rkeys, registryVars>>

(* The SET or the PUBLISH raises before run's try: the process ends.       *)
RegisterFails(w) ==
  /\ "redis" \in Faults
  /\ \/ pc[w] = "off" /\ AbandonSet(w)
     \/ pc[w] = "announcing" /\ UNCHANGED late
  /\ pc' = [pc EXCEPT ![w] = "exited"]
  /\ UNCHANGED <<stop, hb, keys, rkeys, registryVars>>

(* The PUBLISH, create_task and the first test of _stop.  If a signal came *)
(* in during register, the finally cancels a heartbeat task that has not   *)
(* run yet, so its except clause, and with it deregister, never runs.      *)
Announce(w) ==
  /\ pc[w] = "announcing"
  /\ Publish("join", w)
  /\ pc' = [pc EXCEPT ![w] = IF stop[w] THEN "exited" ELSE "idle"]
  /\ hb' = [hb EXCEPT ![w] = IF stop[w] THEN "ended" ELSE "alive"]
  /\ UNCHANGED <<stop, late, keys, rkeys, up, scan, ring, last>>

(* Mutant: EXPIRE instead of SET, which does not bring a lost key back. *)
HeartbeatExtends(w) ==
  /\ hb[w] = "alive"
  /\ UNCHANGED mvars

Heartbeat(w) ==
  /\ hb[w] = "alive"
  /\ keys' = keys \cup {w}
  /\ UNCHANGED <<workerVars, rkeys, registryVars>>

(* Only CancelledError is caught: any error of the SET ends the loop while *)
(* run, which awaits the task only in its finally, goes on.                *)
HeartbeatFails(w) ==
  /\ "redis" \in Faults
  /\ hb[w] = "alive"
  /\ hb' = [hb EXCEPT ![w] = "ended"]
  /\ AbandonSet(w)
  /\ UNCHANGED <<pc, stop, keys, rkeys, registryVars>>

(* add_signal_handler(sig, self._stop.set), installed before register. *)
Signal(w) ==
  /\ "signal" \in Faults
  /\ pc[w] \in Live /\ ~stop[w]
  /\ stop' = [stop EXCEPT ![w] = TRUE]
  /\ UNCHANGED <<pc, hb, late, keys, rkeys, registryVars>>

(* run's finally: cancel() and await.  Cancelling the running loop, asleep *)
(* or in the middle of its SET, makes it deregister; a loop that has       *)
(* already failed re-raises and run is over.                               *)
Finally(w) ==
  /\ hb' = [hb EXCEPT ![w] = "ended"]
  /\ \/ /\ hb[w] = "alive"
        /\ pc' = [pc EXCEPT ![w] = "cleanup"]
        /\ AbandonSet(w)
     \/ /\ hb[w] # "alive"
        /\ pc' = [pc EXCEPT ![w] = "exited"]
        /\ UNCHANGED late

(* The top of the loop: test _stop, then BLPOP again. *)
LoopTop(w) ==
  IF stop[w] THEN Finally(w)
  ELSE pc' = [pc EXCEPT ![w] = "idle"] /\ UNCHANGED <<hb, late>>

(* pop returned None after its timeout. *)
PopTimeout(w) ==
  /\ pc[w] = "idle" /\ stop[w]
  /\ LoopTop(w)
  /\ UNCHANGED <<stop, keys, rkeys, registryVars>>

(* pop raised; run has no except clause. *)
PopFails(w) ==
  /\ "redis" \in Faults
  /\ pc[w] = "idle"
  /\ Finally(w)
  /\ UNCHANGED <<stop, keys, rkeys, registryVars>>

(* pop returned a task: _handle awaits its handler. *)
BeginTask(w) ==
  /\ pc[w] = "idle"
  /\ pc' = [pc EXCEPT ![w] = "busy"]
  /\ UNCHANGED <<stop, hb, late, keys, rkeys, registryVars>>

(* _handle returned; it catches the handler's exceptions. *)
EndTask(w) ==
  /\ pc[w] = "busy"
  /\ LoopTop(w)
  /\ UNCHANGED <<stop, keys, rkeys, registryVars>>

(* deregister, up to the reply to DEL. *)
DeleteKey(w) ==
  /\ pc[w] = "cleanup"
  /\ pc' = [pc EXCEPT ![w] = "leaving"]
  /\ keys' = keys \ {w}
  /\ UNCHANGED <<stop, hb, late, rkeys, registryVars>>

PublishLeave(w) ==
  /\ pc[w] = "leaving"
  /\ Publish("leave", w)
  /\ pc' = [pc EXCEPT ![w] = "exited"]
  /\ UNCHANGED <<stop, hb, late, keys, rkeys, up, scan, ring, last>>

(* The DEL or the PUBLISH of deregister raises; a DEL whose reply was lost *)
(* has taken effect.                                                       *)
DeregisterFails(w) ==
  /\ "redis" \in Faults
  /\ \/ pc[w] = "cleanup" /\ keys' \in {keys, keys \ {w}}
     \/ pc[w] = "leaving" /\ UNCHANGED keys
  /\ pc' = [pc EXCEPT ![w] = "exited"]
  /\ UNCHANGED <<stop, hb, late, rkeys, registryVars>>

Crash(w) ==
  /\ "crash" \in Faults
  /\ pc[w] \in Live
  /\ pc' = [pc EXCEPT ![w] = "dead"]
  /\ hb' = [hb EXCEPT ![w] = "ended"]
  /\ IF hb[w] = "alive" THEN AbandonSet(w) ELSE UNCHANGED late
  /\ UNCHANGED <<stop, keys, rkeys, registryVars>>

-----------------------------------------------------------------------------
(* Redis.                                                                  *)

(* Nothing refreshes the key within its time to live: the loop is over or  *)
(* not running, or a handler that computes without awaiting (the local     *)
(* embedder, the synchronous vector stores) keeps it from its turn.        *)
Unrefreshed(w) ==
  \/ hb[w] # "alive" /\ pc[w] # "announcing"
  \/ pc[w] = "busy"

Expire(w) ==
  /\ w \in keys /\ Unrefreshed(w)
  /\ keys' = keys \ {w}
  /\ UNCHANGED <<workerVars, rkeys, registryVars>>

(* Replication is asynchronous and SCAN takes several calls: what a scan   *)
(* returns about one worker catches up on its own.                         *)
CatchUp(w) ==
  /\ (w \in keys) # (w \in rkeys)
  /\ rkeys' = IF w \in keys THEN rkeys \cup {w} ELSE rkeys \ {w}
  /\ UNCHANGED <<workerVars, keys, registryVars>>

(* The master is lost with what the replica has not received. *)
Failover ==
  /\ "failover" \in Faults
  /\ keys' = rkeys
  /\ UNCHANGED <<workerVars, rkeys, registryVars>>

-----------------------------------------------------------------------------
(* The registry of a dispatching process.  refresh_ring may run in two     *)
(* tasks of one event loop: between a scan and the replace_workers that    *)
(* uses it, the other task may run.                                        *)

(* watch_events takes the next message, whatever it says, and scans;       *)
(* HeartbeatMonitor.run scans after each sleep.                            *)
StartRefresh(r, t) ==
  /\ t \in up[r] /\ scan[r][t] = {}
  /\ scan' = [scan EXCEPT ![r][t] = {rkeys}]
  /\ \/ t = "monitor" /\ UNCHANGED inbox
     \/ /\ t = "watcher" /\ inbox[r] # <<>>
        /\ inbox' = [inbox EXCEPT ![r] = Tail(@)]
  /\ UNCHANGED <<workerVars, keys, rkeys, up, ring, last>>

(* Mutant: the ring gets the list of workers as one worker. *)
FinishRefreshWrapped(r, t) ==
  \E workers \in scan[r][t] :
    /\ ring' = [ring EXCEPT ![r] = {workers}]
    /\ scan' = [scan EXCEPT ![r][t] = {}]
    /\ last' = IF t = "monitor" THEN [last EXCEPT ![r] = workers] ELSE last
    /\ UNCHANGED <<workerVars, keys, rkeys, inbox, up>>

(* Mutant: the monitor leaves the ring alone if its own list is unchanged. *)
FinishRefreshIfChanged(r, t) ==
  \E workers \in scan[r][t] :
    /\ ring' = IF t = "monitor" /\ workers = last[r] THEN ring
                ELSE [ring EXCEPT ![r] = workers]
    /\ scan' = [scan EXCEPT ![r][t] = {}]
    /\ last' = IF t = "monitor" THEN [last EXCEPT ![r] = workers] ELSE last
    /\ UNCHANGED <<workerVars, keys, rkeys, inbox, up>>

(* Mutant: the workers found are added, those missing not removed. *)
FinishRefreshAdds(r, t) ==
  \E workers \in scan[r][t] :
    /\ ring' = [ring EXCEPT ![r] = @ \cup workers]
    /\ scan' = [scan EXCEPT ![r][t] = {}]
    /\ last' = IF t = "monitor" THEN [last EXCEPT ![r] = workers] ELSE last
    /\ UNCHANGED <<workerVars, keys, rkeys, inbox, up>>

(* list_workers returned: replace_workers, and for the monitor the         *)
(* comparison with the last list it saw.                                   *)
FinishRefresh(r, t) ==
  \E workers \in scan[r][t] :
    /\ ring' = [ring EXCEPT ![r] = workers]
    /\ scan' = [scan EXCEPT ![r][t] = {}]
    /\ last' = IF t = "monitor" THEN [last EXCEPT ![r] = workers] ELSE last
    /\ UNCHANGED <<workerVars, keys, rkeys, inbox, up>>

(* The scan, or the watcher's subscription, raises: neither loop catches   *)
(* it, so the task is over.                                                *)
RefreshFails(r, t) ==
  /\ "scan" \in Faults
  /\ t \in up[r]
  /\ scan[r][t] # {} \/ t = "watcher"
  /\ scan' = [scan EXCEPT ![r][t] = {}]
  /\ up' = [up EXCEPT ![r] = @ \ {t}]
  /\ UNCHANGED <<workerVars, keys, rkeys, inbox, ring, last>>

-----------------------------------------------------------------------------

WorkerNext(w) ==
  \/ Register(w) \/ RegisterFails(w) \/ Announce(w)
  \/ Heartbeat(w) \/ HeartbeatFails(w) \/ Signal(w)
  \/ PopTimeout(w) \/ PopFails(w) \/ BeginTask(w) \/ EndTask(w)
  \/ DeleteKey(w) \/ PublishLeave(w) \/ DeregisterFails(w) \/ Crash(w)
  \/ LateSet(w) \/ Expire(w) \/ CatchUp(w)

RegistryNext(r, t) ==
  StartRefresh(r, t) \/ FinishRefresh(r, t) \/ RefreshFails(r, t)

Next ==
  \/ \E w \in Workers : WorkerNext(w)
  \/ \E r \in Registries, t \in Refreshers : RegistryNext(r, t)
  \/ Failover

Spec == Init /\ [][Next]_mvars

(* What the scheduler, the clock and a healthy network provide: a started  *)
(* coroutine gets its next turn, handlers return, time passes, replication *)
(* catches up and the monitor's sleep ends.  Nothing forces a worker to    *)
(* start, a failure to happen or an event to be delivered.                 *)
Fairness ==
  /\ \A w \in Workers :
       /\ WF_mvars(Announce(w) \/ EndTask(w) \/ PopTimeout(w))
       /\ WF_mvars(DeleteKey(w) \/ PublishLeave(w))
       /\ WF_mvars(Heartbeat(w))
       /\ WF_mvars(LateSet(w))
       /\ WF_mvars(Expire(w))
       /\ WF_mvars(CatchUp(w))
  /\ \A r \in Registries, t \in Refreshers :
       /\ WF_mvars(StartRefresh(r, t))
       /\ WF_mvars(FinishRefresh(r, t))

FairSpec == Spec /\ Fairness

-----------------------------------------------------------------------------
(* Properties.                                                             *)

TypeOK ==
  /\ pc \in [Workers -> Points]
  /\ stop \in [Workers -> BOOLEAN]
  /\ hb \in [Workers -> {"none", "alive", "ended"}]
  /\ late \subseteq Workers
  /\ keys \subseteq Workers
  /\ rkeys \subseteq Workers
  /\ inbox \in [Registries -> Seq(Events)]
  /\ up \in [Registries -> SUBSET Refreshers]
  /\ scan \in [Registries -> [Refreshers -> SUBSET SUBSET Workers]]
  /\ ring \in [Registries -> SUBSET Workers]
  /\ last \in [Registries -> SUBSET Workers]

(* No trace of w is left: neither process, SET on the wire, key, replica   *)
(* entry, scan under way nor ring.                                         *)
Forgotten(w) ==
  /\ pc[w] \in {"exited", "dead"}
  /\ w \notin late \cup keys \cup rkeys
  /\ \A r \in Registries :
       /\ w \notin ring[r]
       /\ \A t \in Refreshers : \A S \in scan[r][t] : w \notin S

(* A worker that is gone and forgotten never comes back on a ring, however *)
(* stale the scans, late the heartbeats and unlucky the failovers.         *)
StaysForgotten ==
  [][\A w \in Workers : Forgotten(w) => Forgotten(w)']_mvars

(* If the set of heartbeat keys settles, every ring settles on it, and the *)
(* monitor's idea of the membership with it: "the scan catches missed      *)
(* events and expired keys" (worker_registry.py:40-41), although a slow    *)
(* scan of one task may overwrite a newer one of the other, and although   *)
(* the watcher may have ended: as long as the ring's monitor has not.      *)
Converges ==
  \A S \in SUBSET Workers, r \in Registries :
    <>[](keys = S /\ "monitor" \in up[r]) => <>[](ring[r] = S /\ last[r] = S)

(* "If the worker dies, the TTL expires, and the next registry scan        *)
(* removes it from the ring" (worker_registry.py:7-8), for good; likewise  *)
(* a worker that stopped, also when its deregistration failed or never ran *)
(* or a heartbeat overtook it.  It takes the ring's monitor, and an end to *)
(* the failovers, each of which may bring a key back.                      *)
DeadLeavesRing ==
  <>[][~Failover]_mvars =>
    \A w \in Workers, r \in Registries :
      pc[w] \in {"dead", "exited"} ~>
        [](w \notin ring[r]) \/ "monitor" \notin up[r]

(* A worker that serves its queue and has lost its key, to a busy event    *)
(* loop or to a failover, gets it back or stops serving, whatever else     *)
(* fails, unless its own heartbeat_loop has ended (worker_registry.py:66). *)
KeyIsRestored ==
  \A w \in Workers :
    (pc[w] \in Serving /\ w \notin keys)
      ~> (w \in keys \/ pc[w] \notin Serving \/ hb[w] = "ended")

(* "Run forever; refreshes the heartbeat key ... let it die with the       *)
(* process" (worker_registry.py:66-67): a worker that serves its queue and *)
(* has lost its key gets it back, or stops serving.                        *)
ServingIsRegistered ==
  \A w \in Workers :
    (pc[w] \in Serving /\ w \notin keys)
      ~> (w \in keys \/ pc[w] \notin Serving)

=============================================================================
