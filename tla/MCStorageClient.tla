--------------------------- MODULE MCStorageClient ---------------------------
(* A prepare p1 and its retry p2 after a reopen, a write w1 and its retry   *)
(* w2: the same command IDs, so that every lost answer can be asked again.  *)
EXTENDS StorageClient
MCCalls == {"p1", "p2", "w1", "w2"}
MCKind == [c \in MCCalls |-> IF c \in {"p1", "p2"} THEN "prepare" ELSE "write"]
MCCommand == [c \in MCCalls |-> IF c \in {"p1", "p2"} THEN "P" ELSE "W"]
MCPayload == [c \in MCCalls |-> 1]
=============================================================================
