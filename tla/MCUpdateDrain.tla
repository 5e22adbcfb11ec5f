--------------------------- MODULE MCUpdateDrain ---------------------------
(* The update drain on small instances (UpdateDrain.cfg).                 *)
EXTENDS UpdateDrain
=============================================================================
