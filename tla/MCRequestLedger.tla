--------------------------- MODULE MCRequestLedger ---------------------------
(* One page with one instruction (RequestLedger.cfg).                      *)
EXTENDS RequestLedger
CONSTANT p
MCOnePage == {p}
=============================================================================
