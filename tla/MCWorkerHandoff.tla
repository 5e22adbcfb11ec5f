-------------------------- MODULE MCWorkerHandoff --------------------------
(* The handover of workers on small instances (WorkerHandoff.cfg).        *)
EXTENDS WorkerHandoff
=============================================================================
