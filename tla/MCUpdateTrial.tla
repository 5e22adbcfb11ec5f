--------------------------- MODULE MCUpdateTrial ---------------------------
(* Updates on small instances (UpdateTrial.cfg).                           *)
EXTENDS UpdateTrial
=============================================================================
