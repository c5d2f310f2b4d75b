---------------------------- MODULE MCWorkerLoop ----------------------------
(* WorkerLoop on small instances: a few restarts of one worker.             *)
EXTENDS WorkerLoop
=============================================================================
