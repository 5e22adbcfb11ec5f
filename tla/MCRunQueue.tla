----------------------------- MODULE MCRunQueue -----------------------------
(* One conversation (RunQueue.cfg, RunQueueLive.cfg, RunQueueResent.cfg).  *)
EXTENDS RunQueue
CONSTANT s1
OneSession == {s1}
=============================================================================
