------------------------ MODULE MCPermissionRequests ------------------------
(* Two requests of one conversation (PermissionRequests.cfg).              *)
EXTENDS PermissionRequests
MCRequests == 1 .. 2
MCKinds == <<{"run"}, {"run", "rule"}>>
=============================================================================
