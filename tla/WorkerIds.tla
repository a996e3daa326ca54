------------------------------ MODULE WorkerIds ------------------------------
(* The worker ids that may ever exist.  default_worker_id (src/legallens/  *)
(* workers/worker.py) makes one from the host name, the pid and a random   *)
(* suffix: every process has its own, and none is used twice.              *)
CONSTANT Workers

=============================================================================
