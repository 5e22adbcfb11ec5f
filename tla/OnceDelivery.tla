---------------------------- MODULE OnceDelivery ----------------------------
(* What the request ledger and the page promise together about the requests *)
(* of a joined computer (remote/request-ledger.ts, remote/scope.ts): an     *)
(* instruction runs there at most once however often it is sent, and the    *)
(* page counts it as sent only after it ran. An instruction may be released *)
(* from that for good; the promise to the others stays.                     *)
CONSTANT Instructions

VARIABLES run,   \* how often each instruction ran that was not released
          told   \* those of them that count as sent

Init == run = [p \in Instructions |-> 0] /\ told = {}
Run(p) == run[p] = 0 /\ run' = [run EXCEPT ![p] = 1] /\ UNCHANGED told
Tell(p) == run[p] = 1 /\ p \notin told /\ told' = told \cup {p} /\ UNCHANGED run
Release(kept) == run' = [p \in kept |-> run[p]] /\ told' = told \cap kept

Next ==
  \/ \E p \in DOMAIN run : Run(p) \/ Tell(p)
  \/ \E kept \in SUBSET DOMAIN run : Release(kept)
Spec == Init /\ [][Next]_<<run, told>>
=============================================================================
