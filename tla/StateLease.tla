---------------------------- MODULE StateLease ----------------------------
(* What the lock of a state directory promises (instance/state-lock.ts):   *)
(* at most one process at a time uses the directory. It is given up by its *)
(* user or lost with the end of that process.                              *)
CONSTANT Procs

VARIABLE users

Init == users = {}
Take(p) == users = {} /\ users' = {p}
Leave(p) == users = {p} /\ users' = {}

Next == \E p \in Procs : Take(p) \/ Leave(p)
Spec == Init /\ [][Next]_users
=============================================================================
