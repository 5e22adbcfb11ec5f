--------------------------- MODULE CommandLedger ---------------------------
(* What the storage promises its callers about their commands              *)
(* (storage/client.ts, storage/thread/runtime.ts): a command commits once, *)
(* while a call of it has no answer; an answer is final and true; and of a *)
(* command that committed, not every call is told that it did not.         *)
CONSTANTS Calls, Command

VARIABLES committed,  \* the commands that committed
          said        \* what each call was told: nothing yet, or yes or no

Init == committed = {} /\ said = [c \in Calls |-> "idle"]

Of(k) == {c \in Calls : Command[c] = k}

Commit(k) ==
  /\ k \notin committed /\ \E c \in Of(k) : said[c] = "open"
  /\ committed' = committed \cup {k} /\ UNCHANGED said

(* What a call may come to be told; several are told at once when the      *)
(* thread that had them fails.                                             *)
MayTell(c, word) ==
  \/ word = said[c]
  \/ said[c] = "idle" /\ word \in {"open", "no"}
  \/ said[c] = "open" /\ (word = "no" \/ (word = "yes" /\ Command[c] \in committed))

Tell ==
  /\ said' = [c \in Calls |-> said'[c]] /\ \A c \in Calls : MayTell(c, said'[c])
  /\ \A k \in committed : \E c \in Of(k) : said'[c] \in {"open", "yes"}
  /\ UNCHANGED committed

Next == Tell \/ \E c \in Calls : Commit(Command[c])
Spec == Init /\ [][Next]_<<committed, said>>
=============================================================================
