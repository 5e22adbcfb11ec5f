---------------------------- MODULE UpdateDrain ----------------------------
(***************************************************************************)
(* The owner switches to a new version at once (runs/update-drain.ts): no  *)
(* new turn starts, each running turn is asked to wrap up, and the ones    *)
(* that still run at the deadline are stopped. A turn the update           *)
(* interrupted is carried on by one continuation, queued in the step that  *)
(* shows the turn ended.                                                   *)
(*                                                                         *)
(* One running turn, since the drain keeps one target for each and they    *)
(* share nothing else: its provider, the requests to wrap up (each a run   *)
(* inserted by RunManager.steer), the continuations queued for it (the     *)
(* agent's own wakeup, an approved permission request, the update's), the  *)
(* owner who stops it and gives permission, and the updates that begin,    *)
(* reach their deadline and are given up. A step is the code between two   *)
(* awaits; runs/manager.ts calls changed() in each.                        *)
(*                                                                         *)
(* Abstracted: prompts, times (a retry after 30 seconds and a deadline     *)
(* come at any time), Codex app submissions, the notices of permission     *)
(* decisions and other instructions of the conversation.                   *)
(***************************************************************************)
EXTENDS Naturals, FiniteSets

CONSTANTS MaxWraps,      \* bound: requests to wrap up
          MaxUpdates,    \* bound: updates that begin
          MaxFaults      \* bound: saves that fail or have an unknown result

ASSUME UpdateDrainAssumption == MaxWraps \in Nat /\ MaxUpdates \in Nat /\ MaxFaults \in Nat

Wraps == 1 .. MaxWraps
Finished == {"completed", "error", "cancelled"}
Conts == {"wakeup", "permission", "update"}

(* What the drain keeps of a turn it follows (UpdateTarget).               *)
Targets == [on : BOOLEAN, sending : BOOLEAN, reached : BOOLEAN, stopping : BOOLEAN, stopSent : Nat]
NoTarget == [on |-> FALSE, sending |-> FALSE, reached |-> FALSE, stopping |-> FALSE, stopSent |-> 0]
NewTarget == [NoTarget EXCEPT !.on = TRUE]

(* The runs and the drain, as changed() finds and leaves them.             *)
States == [turn : {"running"} \cup Finished,
           owner : BOOLEAN,                     \* ownerStopped
           drain : {"off", "active", "ended"}, seq : Nat,
           target : Targets,
           cont : [Conts -> {"none", "queued", "cancelled", "removed", "started"}],
           merged : BOOLEAN,                    \* the permission continuation became the update's
           receipt : BOOLEAN,                   \* the update's continuation answers a permission request
           wrap : [Wraps -> {"none", "queued", "removed", "inserting", "delivered", "done", "error", "turn"}]]

VARIABLES
  s,
  codex,       \* the provider is Codex, else Claude
  delegated,   \* the turn is delegated work of a workflow
  provider,    \* the provider of the turn is alive
  cancelling,  \* Codex was asked to stop the turn
  late,        \* the deadline has passed
  at,          \* where the insertion of each wrap-up is
  request,     \* the turn's permission request
  unknown,     \* a save has an unknown result
  begun, faults,
  taken,       \* wrap-ups the provider has or may have
  deadline,    \* the turn was stopped by a deadline
  resumed      \* continuations made for the update

fixed == <<codex, delegated>>
bounds == <<begun, faults>>
vars == <<s, fixed, provider, cancelling, late, at, request, unknown, bounds, taken, deadline, resumed>>

Init ==
  /\ s = [turn |-> "running", owner |-> FALSE, drain |-> "off", seq |-> 0, target |-> NoTarget,
          cont |-> [k \in Conts |-> "none"], merged |-> FALSE, receipt |-> FALSE, wrap |-> [w \in Wraps |-> "none"]]
  /\ codex \in BOOLEAN /\ delegated \in BOOLEAN
  /\ provider = TRUE /\ cancelling = FALSE /\ late = FALSE
  /\ at = [w \in Wraps |-> "idle"] /\ request = "none" /\ unknown = FALSE
  /\ begun = 0 /\ faults = 0 /\ taken = {} /\ deadline = FALSE /\ resumed = 0

(***************************************************************************)
(* changed(): what ends with the turn, the drain's settlement, the sweep.  *)
(***************************************************************************)
Ended(m) == m.turn \in Finished
Mirrored(m) == [m EXCEPT !.wrap = [w \in Wraps |-> IF m.wrap[w] = "delivered" /\ Ended(m) THEN "done" ELSE m.wrap[w]]]

(* Variant: a turn the owner stopped is carried on like any other. *)
InterruptedAnyway(m) ==
  /\ ~delegated
  /\ (m.target.stopping /\ m.turn = "cancelled") \/ (m.target.reached /\ m.turn = "completed")

(* settle: only work the update itself interrupted is carried on.          *)
Interrupted(m) ==
  /\ ~delegated /\ ~m.owner
  /\ (m.target.stopping /\ m.turn = "cancelled") \/ (m.target.reached /\ m.turn = "completed")

(* Variant: the agent's own wakeup stays next to the update's continuation. *)
CarriedBesides(m) ==
  IF m.cont["permission"] = "queued" /\ ~m.merged THEN [m EXCEPT !.merged = TRUE]
  ELSE [m EXCEPT !.cont["update"] = "queued"]

(* A permission continuation that waits for the turn becomes the update's; *)
(* otherwise a new one replaces the agent's own wakeup.                    *)
Carried(m) ==
  IF m.cont["permission"] = "queued" /\ ~m.merged THEN [m EXCEPT !.merged = TRUE]
  ELSE [m EXCEPT !.cont = [k \in Conts |-> CASE k = "update" -> "queued"
                                            [] k = "wakeup" /\ m.cont[k] = "queued" -> "removed"
                                            [] OTHER -> m.cont[k]]]

Registered(m) ==
  IF m.drain = "active" /\ m.turn = "running" /\ ~m.target.on THEN [m EXCEPT !.target = NewTarget] ELSE m
Settles(m) == m.target.on /\ Ended(m)

Tracked(m) ==
  LET r == Registered(m)
      t == IF ~Settles(r) THEN r
           ELSE [(IF Interrupted(r) THEN Carried(r) ELSE r) EXCEPT !.target = NoTarget]
  IN  IF t.drain = "ended" /\ ~t.target.on THEN [t EXCEPT !.drain = "off", !.seq = 0] ELSE t

(* A continuation that answers permission requests is not started when the *)
(* owner stopped the turn, it failed, or it was stopped otherwise.         *)
Sweeps(m, k) ==
  /\ m.cont[k] = "queued"
  /\ \/ k = "permission" /\ (m.owner \/ m.turn = "error" \/ (m.turn = "cancelled" /\ ~m.merged))
     \/ k = "update" /\ m.receipt /\ (m.owner \/ m.turn = "error")
Swept(m) == [m EXCEPT !.cont = [k \in Conts |-> IF Sweeps(m, k) THEN "cancelled" ELSE m.cont[k]]]

Changed(m) ==
  LET n == Tracked(Mirrored(m)) IN
  /\ s' = Swept(n)
  /\ resumed' = IF (n.merged /\ ~m.merged) \/ (n.cont["update"] = "queued" /\ m.cont["update"] # "queued")
                THEN resumed + 1 ELSE resumed
Unchanged == UNCHANGED <<s, resumed>>

(***************************************************************************)
(* The update.                                                             *)
(***************************************************************************)
Updating == UNCHANGED <<fixed, provider, at, request, unknown, faults, taken>>

(* Turns of an update that was given up are followed until they end.       *)
Begin ==
  /\ s.drain # "active" /\ begun < MaxUpdates /\ begun' = begun + 1 /\ late' = FALSE
  /\ Changed([s EXCEPT !.drain = "active", !.seq = @ + 1])
  /\ UNCHANGED <<cancelling, deadline>> /\ Updating

(* The worker gives up an update some time after its deadline.             *)
End ==
  /\ s.drain = "active" /\ late
  /\ Changed([s EXCEPT !.drain = "ended"])
  /\ UNCHANGED <<cancelling, late, begun, deadline>> /\ Updating

DeadlinePasses ==
  /\ s.drain = "active" /\ ~late /\ late' = TRUE
  /\ UNCHANGED <<cancelling, begun, deadline>> /\ Unchanged /\ Updating

Driven == s.drain = "active" /\ s.turn = "running" /\ s.target.on

(* cancel: Codex is asked and ends the turn, Claude's turn ends at once.   *)
Cancels(m) ==
  IF codex THEN cancelling' = TRUE /\ Changed(m)
  ELSE UNCHANGED cancelling /\ Changed([m EXCEPT !.turn = "cancelled"])

DriveStop ==
  /\ Driven /\ late /\ s.target.stopSent # s.seq
  /\ Cancels([s EXCEPT !.target.stopSent = s.seq, !.target.stopping = TRUE])
  /\ deadline' = TRUE /\ UNCHANGED <<late, begun>> /\ Updating

OwnerStops ==
  /\ s.turn = "running" /\ ~s.owner
  /\ Cancels([s EXCEPT !.owner = TRUE])
  /\ UNCHANGED <<late, begun, deadline>> /\ Updating

(***************************************************************************)
(* A request to wrap up: a run of its own, inserted into the turn.         *)
(***************************************************************************)
FlushOk == ~unknown /\ UNCHANGED <<unknown, faults>>
FlushRefused == ~unknown /\ faults < MaxFaults /\ faults' = faults + 1 /\ UNCHANGED unknown
FlushUncertain ==
  \/ unknown /\ UNCHANGED <<unknown, faults>>
  \/ ~unknown /\ faults < MaxFaults /\ faults' = faults + 1 /\ unknown' = TRUE

Inserting == UNCHANGED <<fixed, provider, cancelling, late, request, begun, deadline>>
Go(w, place) == at' = [at EXCEPT ![w] = place]
Steady == UNCHANGED <<unknown, faults>>

(* Variant: a turn is asked again although a request may have reached it. *)
MayAskAgain == Driven /\ ~late /\ ~delegated /\ ~s.target.stopping /\ ~s.target.sending

MayAsk == Driven /\ ~late /\ ~delegated /\ ~s.target.stopping /\ ~s.target.reached /\ ~s.target.sending

SendWrapUp ==
  /\ MayAsk
  /\ \E w \in Wraps :
       /\ s.wrap[w] = "none" /\ \A v \in Wraps : v < w => s.wrap[v] # "none"
       /\ Changed([s EXCEPT !.wrap[w] = "queued", !.target.sending = TRUE])
       /\ Go(w, "flush")
  /\ UNCHANGED taken /\ Inserting /\ Steady

Sending(m, is) == IF m.target.on THEN [m EXCEPT !.target.sending = is] ELSE m
Reached(m, is) == IF m.target.on THEN [m EXCEPT !.target.reached = is] ELSE m

(* The queued continuations that go on after the update.                   *)
Resumes(m, k) == m.cont[k] = "queued" /\ (k = "update" \/ (k = "permission" /\ m.merged))

(* A request put back in the queue was not handed over. It is removed, and *)
(* a turn that ended meanwhile, counted as asked, is not carried on.       *)
RemovedUnsent(m, w) ==
  IF m.wrap[w] # "queued" THEN Sending(m, FALSE)
  ELSE LET n == Reached(Sending([m EXCEPT !.wrap[w] = "removed"], FALSE), FALSE) IN
       IF m.turn # "completed" THEN n
       ELSE [n EXCEPT !.cont = [k \in Conts |-> IF Resumes(m, k) THEN "removed" ELSE m.cont[k]]]

Steerable == s.turn = "running" /\ provider /\ ~cancelling
GivesUp(w) == Changed(RemovedUnsent(s, w)) /\ Go(w, "idle") /\ UNCHANGED taken
PutBack(w, place) == Changed([s EXCEPT !.wrap[w] = "queued"]) /\ Go(w, place)

(* A save with an unknown result leaves a request that was not handed over *)
(* to its receipt, which ends it.                                          *)
Unsent(w) == FlushUncertain /\ Go(w, "unsent") /\ Unchanged /\ UNCHANGED taken

WrapFlushed(w) ==
  /\ at[w] = "flush"
  /\ \/ Unsent(w)
     \/ (FlushOk \/ FlushRefused) /\ GivesUp(w)          \* also when the turn takes no instruction now
     \/ FlushOk /\ Steerable /\ s.wrap[w] = "queued" /\ Go(w, "files") /\ Unchanged /\ UNCHANGED taken
  /\ Inserting

WrapMarks(w) ==
  /\ at[w] = "files"
  /\ \/ GivesUp(w)
     \/ /\ Steerable /\ s.wrap[w] = "queued"
        /\ Changed([s EXCEPT !.wrap[w] = "inserting"]) /\ Go(w, "marking") /\ UNCHANGED taken
  /\ Inserting /\ Steady

(* Variant: the turn counts as asked only when its provider has answered. *)
WrapHandedUncounted(w) ==
  /\ at[w] = "marking"
  /\ \/ Unsent(w)
     \/ (FlushRefused \/ FlushOk) /\ PutBack(w, "putback") /\ UNCHANGED taken
     \/ /\ FlushOk /\ Steerable /\ Go(w, "sent") /\ taken' = taken \cup {w}
        /\ s' = IF codex THEN s ELSE Sending(s, FALSE)
        /\ UNCHANGED resumed
  /\ Inserting

(* The request is handed over once its mark is saved. Claude's answer may  *)
(* take minutes, so the insertion ends there for it.                       *)
WrapHanded(w) ==
  /\ at[w] = "marking"
  /\ \/ Unsent(w)
     \/ (FlushRefused \/ FlushOk) /\ PutBack(w, "putback") /\ UNCHANGED taken
     \/ /\ FlushOk /\ Steerable /\ Go(w, "sent") /\ taken' = taken \cup {w}
        /\ s' = IF codex THEN Reached(s, TRUE) ELSE Sending(Reached(s, TRUE), FALSE)
        /\ UNCHANGED resumed
  /\ Inserting

(* The provider took it, may have taken it, or (Codex) refused it.         *)
WrapAnswered(w) ==
  /\ at[w] = "sent"
  /\ \/ /\ s.turn = "running" /\ Changed([s EXCEPT !.wrap[w] = "delivered"])
        /\ Go(w, IF codex THEN "delivered" ELSE "idle") /\ UNCHANGED taken
     \/ /\ Changed(IF codex THEN Sending([s EXCEPT !.wrap[w] = "error"], FALSE) ELSE [s EXCEPT !.wrap[w] = "error"])
        /\ Go(w, "idle") /\ UNCHANGED taken
     \/ codex /\ s.turn = "running" /\ PutBack(w, "refused") /\ taken' = taken \ {w}
  /\ Inserting /\ Steady

(* A delivery whose save fails is recorded as one that may have failed.    *)
WrapDelivered(w) ==
  /\ at[w] = "delivered" /\ Go(w, "idle") /\ UNCHANGED taken
  /\ \/ FlushOk /\ s' = Sending(s, FALSE) /\ UNCHANGED resumed
     \/ FlushRefused /\ Changed(Sending([s EXCEPT !.wrap[w] = "error"], FALSE))
     \/ FlushUncertain /\ Changed([s EXCEPT !.wrap[w] = "error"])
  /\ Inserting

(* The put back request is saved. One the provider refused has no receipt  *)
(* to end it when that save has an unknown result.                         *)
WrapPutBack(w) ==
  /\ at[w] \in {"putback", "refused"}
  /\ \/ (FlushOk \/ FlushRefused) /\ GivesUp(w)
     \/ at[w] = "putback" /\ Unsent(w)
     \/ at[w] = "refused" /\ FlushUncertain /\ Go(w, "idle") /\ Unchanged /\ UNCHANGED taken
  /\ Inserting

Resolve ==
  /\ unknown /\ unknown' = FALSE /\ UNCHANGED faults
  /\ LET unsent == {w \in Wraps : at[w] = "unsent"} IN
     /\ Changed([s EXCEPT !.wrap = [w \in Wraps |-> IF w \in unsent THEN "error" ELSE s.wrap[w]]])
     /\ at' = [w \in Wraps |-> IF w \in unsent THEN "idle" ELSE at[w]]
  /\ UNCHANGED taken /\ Inserting

(***************************************************************************)
(* The turn ends; the owner decides; the pump starts what waits.           *)
(***************************************************************************)
Ending == UNCHANGED <<fixed, cancelling, late, at, unknown, bounds, taken, deadline>>

(* scheduleContinuation: not while the conversation has other work, and a  *)
(* wrap-up that is not being inserted yet is other work.                   *)
Plannable(m) ==
  /\ \A k \in Conts : m.cont[k] # "queued"
  /\ \A w \in Wraps : m.wrap[w] # "queued"
Planned(m) == IF Plannable(m) THEN [m EXCEPT !.cont["wakeup"] = "queued"] ELSE m

(* exited: Claude's turn may have planned a wakeup, or lost background     *)
(* work that a later turn takes up.                                        *)
Exited ==
  /\ provider /\ provider' = FALSE
  /\ IF s.turn # "running" THEN Changed(s)
     ELSE \E outcome \in Finished, wakes \in BOOLEAN :
       LET m == [s EXCEPT !.turn = outcome] IN
       /\ outcome = "cancelled" => codex
       /\ wakes => /\ ~codex
                   /\ outcome = "error" => \A w \in Wraps : at[w] # "sent"
       /\ Changed(IF wakes THEN Planned(IF outcome = "error" THEN Swept(m) ELSE m) ELSE m)
  /\ UNCHANGED <<request>> /\ Ending

AsksPermission ==
  /\ s.turn = "running" /\ request = "none" /\ request' = "pending"
  /\ UNCHANGED <<provider>> /\ Unchanged /\ Ending

(* record: an approval goes on in a turn after this one, once, or with the *)
(* update's continuation; it is only recorded when the work is stopped.    *)
Approve ==
  /\ request = "pending" /\ request' = "approved"
  /\ \E goalFinished \in BOOLEAN :
       LET stopped == \/ goalFinished \/ s.owner \/ s.turn = "error"
                      \/ s.turn = "cancelled" /\ s.cont["update"] # "queued"
       IN
       /\ goalFinished => s.turn = "completed"
       /\ Changed(IF stopped THEN [s EXCEPT !.cont["permission"] = "cancelled"]
                  ELSE IF s.cont["update"] = "queued" THEN [s EXCEPT !.receipt = TRUE]
                  ELSE [s EXCEPT !.cont["permission"] = "queued"])
  /\ UNCHANGED <<provider>> /\ Ending

(* checkUserMessage: a newer instruction of the owner replaces it.         *)
Supersede ==
  /\ \E k \in {"permission"} \cup (IF s.receipt THEN {"update"} ELSE {}) :
       s.cont[k] = "queued" /\ Changed([s EXCEPT !.cont[k] = "cancelled"])
  /\ UNCHANGED <<provider, request>> /\ Ending

SessionFree ==
  /\ ~provider /\ \A k \in Conts : s.cont[k] # "started" /\ \A w \in Wraps : s.wrap[w] # "turn"
MayLaunch == s.drain # "active" /\ ~unknown /\ SessionFree

(* The pump waits for the saves before its pass, so a request put back     *)
(* before the turn ended is settled first.                                 *)
ContinuationStarts ==
  /\ MayLaunch /\ \A w \in Wraps : at[w] \notin {"putback", "refused"}
  /\ \E k \in Conts :
       /\ s.cont[k] = "queued" /\ (k = "permission" /\ ~s.merged => s.turn = "completed")
       /\ Changed([s EXCEPT !.cont[k] = "started"])
  /\ UNCHANGED <<provider, request>> /\ Ending

(* A request left in the queue is due like any other instruction.          *)
WrapUpStarts ==
  /\ MayLaunch
  /\ \E w \in Wraps :
       /\ s.wrap[w] = "queued" /\ at[w] = "idle"
       /\ Changed([s EXCEPT !.wrap[w] = "turn"])
  /\ UNCHANGED <<provider, request>> /\ Ending

Insertion(w) == WrapFlushed(w) \/ WrapMarks(w) \/ WrapHanded(w) \/ WrapAnswered(w) \/ WrapDelivered(w) \/ WrapPutBack(w)
Next ==
  \/ Begin \/ End \/ DeadlinePasses \/ DriveStop \/ OwnerStops \/ SendWrapUp
  \/ \E w \in Wraps : Insertion(w)
  \/ Resolve \/ Exited \/ AsksPermission \/ Approve \/ Supersede
  \/ ContinuationStarts \/ WrapUpStarts

Spec == Init /\ [][Next]_vars

(***************************************************************************)
(* Properties.                                                             *)
(***************************************************************************)
(* Types; and a turn is followed exactly as long as it runs: it is settled *)
(* in the step that shows it ended (track), whatever ended it.             *)
TypeOK ==
  /\ s \in States /\ codex \in BOOLEAN /\ delegated \in BOOLEAN /\ {provider, cancelling, late, unknown, deadline} \subseteq BOOLEAN
  /\ at \in [Wraps -> {"idle", "flush", "files", "marking", "unsent", "sent", "delivered", "putback", "refused"}]
  /\ taken \subseteq Wraps /\ request \in {"none", "pending", "approved"}
  /\ begun \in 0 .. MaxUpdates /\ faults \in 0 .. MaxFaults /\ resumed \in Nat
  /\ s.target.on => s.turn = "running"
  /\ (s.drain = "active" /\ s.turn = "running") => s.target.on

(* The update carries a turn on once, whatever else waits for it: its own  *)
(* wakeup, a permission, a second update. While that continuation waits,   *)
(* no other one does.                                                      *)
CarriedOnOnce ==
  /\ resumed <= 1
  /\ (s.cont["update"] = "queued") => \A k \in Conts \ {"update"} : s.cont[k] # "queued"
  /\ (s.merged /\ s.cont["permission"] = "queued") => s.cont["wakeup"] # "queued"

(* No turn gets a second request to wrap up when one may have reached it,  *)
(* whatever is refused, retried or unknown, and over several updates.      *)
AskedOnce == Cardinality(taken) <= 1

(* Nothing brings back a turn the owner stopped.                           *)
OwnerStopIsFinal == (s.owner /\ Ended(s)) => \A k \in Conts : s.cont[k] \notin {"queued", "started"}

(* A turn stopped by a deadline, or ended after a request to wrap up that  *)
(* it has or may have, is carried on in the step that shows it ended, also *)
(* after the update was given up.                                          *)
InterruptedIsCarried ==
  (~delegated /\ ~s.owner /\ ((s.turn = "cancelled" /\ deadline) \/ (s.turn = "completed" /\ taken # {})))
    => resumed = 1 /\ (s.cont["update"] # "removed") /\ (s.merged => s.cont["permission"] # "removed")

=============================================================================
