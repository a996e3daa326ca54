------------------------------- MODULE Driver -------------------------------
(***************************************************************************)
(* main of scripts/ingest.py: one task per contract of the CUAD file, up   *)
(* to --limit, pushed through the dispatcher one after the other.  Which   *)
(* worker's list a task lands on is Cluster's; here it is in flight until  *)
(* a worker takes it or the pipeline loses it.  An operator starts the     *)
(* script again whenever it is over, perhaps with a newer file.            *)
(***************************************************************************)
EXTENDS Parsing

CONSTANTS
  Limits,     \* values of --limit; 0 is no limit, as is leaving it out
  MaxRuns     \* bound on how often the script is started

ASSUME DriverConstants == Limits \subseteq Nat /\ MaxRuns \in Nat

VARIABLES
  script,     \* what the script reads, its --limit and how many tasks it pushed
  inflight,   \* tasks pushed and not popped: [run, n, payload]
  runs,       \* history: how often it was started
  promised    \* history: what all runs were asked for, less what failures cost

dvars == <<script, inflight, runs, promised>>

NotRunning == [file |-> 0, limit |-> 0, enqueued |-> 0]

DriverInit ==
  /\ script = NotRunning
  /\ inflight = {}
  /\ runs = 0
  /\ promised = {}

(* "one task per contract", from the n-th on and up to the limit. *)
Asked(file, limit, n) ==
  {Parsed[file][m] : m \in {m \in DOMAIN Parsed[file] : m >= n /\ (limit = 0 \/ m =< limit)}}

(* Redis answers the ping and the scan finds a worker; otherwise the       *)
(* script exits having done nothing.                                       *)
StartScript(file, limit) ==
  /\ script = NotRunning /\ runs < MaxRuns
  /\ script' = [file |-> file, limit |-> limit, enqueued |-> 0]
  /\ runs' = runs + 1
  /\ promised' = promised \cup Asked(file, limit, 1)
  /\ UNCHANGED inflight

(* Mutant: the last contract of the file is left out. *)
MoreButOne ==
  /\ script.enqueued + 1 < Len(Files[script.file])
  /\ script.limit = 0 \/ script.enqueued < script.limit

(* Another entry, and no limit reached. *)
More ==
  /\ script.enqueued < Len(Files[script.file])
  /\ script.limit = 0 \/ script.enqueued < script.limit

Pushed ==
  LET n == script.enqueued + 1
  IN  [run |-> runs, n |-> n, payload |-> Parsed[script.file][n]]

Enqueue ==
  /\ script # NotRunning /\ More
  /\ script' = [script EXCEPT !.enqueued = @ + 1]
  /\ inflight' = inflight \cup {Pushed}
  /\ UNCHANGED <<runs, promised>>

(* dispatch raises, perhaps after its push was carried out; main does not  *)
(* catch it, which costs this contract and all those behind it.  (Its      *)
(* NoWorkersAvailable cannot come: the script scans once.)                 *)
EnqueueFails ==
  /\ script # NotRunning /\ More
  /\ inflight' \in {inflight, inflight \cup {Pushed}}
  /\ script' = NotRunning
  /\ promised' = promised \ Asked(script.file, script.limit, script.enqueued + 1)
  /\ UNCHANGED runs

Finish ==
  /\ script # NotRunning /\ ~More
  /\ script' = NotRunning
  /\ UNCHANGED <<inflight, runs, promised>>

(* What Cluster's faults may do to a queued task. *)
LoseTask(t) ==
  /\ inflight' = inflight \ {t}
  /\ promised' = promised \ {t.payload}
  /\ UNCHANGED <<script, runs>>

Script == Enqueue \/ Finish

DriverNext ==
  \/ \E f \in DOMAIN Files, l \in Limits : StartScript(f, l)
  \/ Script \/ EnqueueFails
  \/ \E t \in inflight : LoseTask(t)

=============================================================================
