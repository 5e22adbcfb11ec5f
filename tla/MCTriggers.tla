----------------------------- MODULE MCTriggers -----------------------------
(* Definitions of a trigger that differ in what the engine does with them  *)
(* (Triggers.cfg).                                                         *)
EXTENDS Triggers
Policy(source, once, catchUp, overlap, target) ==
  [source |-> source, once |-> once, catchUp |-> catchUp, overlap |-> overlap, target |-> target]
MCPolicies == {Policy("schedule", FALSE, "skip", "queue", "session"),
               Policy("schedule", TRUE, "skip", "skip", "session"),
               Policy("http", FALSE, "latest", "parallel", "folder")}
=============================================================================
