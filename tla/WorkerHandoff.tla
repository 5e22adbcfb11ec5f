--------------------------- MODULE WorkerHandoff ---------------------------
(***************************************************************************)
(* How one execution worker takes over from another while the web process  *)
(* follows (runs/worker.ts, durable-runner.ts, handoff.ts,                 *)
(* endpoint-keeper.ts).                                                    *)
(*                                                                         *)
(* A worker that was asked to hand over waits until nothing runs, refuses  *)
(* new requests, pauses what starts work by itself, looks again, records   *)
(* its successor's nonce, closes the storage, removes its socket and       *)
(* token, releases the state lock and starts the successor. Every await of *)
(* that is the end of a step. The web adopts another worker only with the  *)
(* record as proof, or after it lost a worker that had recorded one.       *)
(*                                                                         *)
(* The state lock is a step here (StateLock has its files), the drain of a *)
(* forced update is UpdateDrain, versions and holds are UpdateTrial. There *)
(* is one request at a time, which the caller sends again when it is told  *)
(* that nothing was admitted; times are choices.                           *)
(***************************************************************************)
EXTENDS Naturals, FiniteSets

CONSTANTS MaxWorkers,  \* worker processes ever started
          MaxFaults,   \* crashes, failing files, removed tokens
          MaxSends,    \* times the request is sent
          MaxWebs      \* starts of the web process

ASSUME HandoffAssumption ==
  /\ MaxWorkers \in Nat \ {0} /\ MaxFaults \in Nat /\ MaxSends \in Nat /\ MaxWebs \in Nat \ {0}

Workers == 1 .. MaxWorkers
None == 0

VARIABLES
  at,       \* where each worker process is
  proof,    \* TOWER_HANDOFF of each: the nonce it was started with
  next,     \* the nonce each gives its successor
  asked,    \* workers that were asked to hand over
  turns,    \* workers with accepted work that runs
  paused,   \* workers whose triggers and automations are paused
  lock,     \* the state lock
  socket, token,  \* whose socket and whose credential the files are
  record,   \* handoff.json
  nonces,   \* nonces given out
  web,      \* the web process: attached (snapshot.instance), silent (unreachableSince), recovering
  call,     \* the request: where it is, the worker it goes to, the instance it names
  told,     \* what its sender was last told
  ran,      \* times it was admitted
  sends, webs, faults

fileVars == <<lock, socket, token, record>>
callVars == <<call, told, ran, sends>>
webVars == <<web, webs>>
vars == <<at, proof, next, asked, turns, paused, fileVars, nonces, webVars, callVars, faults>>

Serving == {"serving", "draining", "paused", "recording", "storing"}
Places == {"unused", "starting", "opening", "cleared", "closing", "unlinked", "released", "gone"} \cup Serving
Idle == [at |-> "idle", to |-> None, names |-> None]

TypeOK ==
  /\ at \in [Workers -> Places] /\ proof \in [Workers -> Nat] /\ next \in [Workers -> Nat]
  /\ asked \subseteq Workers /\ turns \subseteq Workers /\ paused \subseteq Workers
  /\ {lock, socket, token} \subseteq Workers \cup {None}
  /\ record \in [previous : Workers \cup {None}, successor : Nat]
  /\ web \in [at : {"down", "starting", "up"}, attached : Workers \cup {None}, silent : BOOLEAN, recovering : BOOLEAN]
  /\ call \in [at : {"idle", "sent", "pending", "done"}, to : Workers \cup {None}, names : Workers \cup {None}]
  /\ told \in {"nothing", "admitted", "refused", "unsure"}
  /\ {nonces, ran, sends, webs, faults} \subseteq Nat

Init ==
  /\ at = [w \in Workers |-> "unused"] /\ proof = [w \in Workers |-> 0] /\ next = [w \in Workers |-> 0]
  /\ asked = {} /\ turns = {} /\ paused = {}
  /\ lock = None /\ socket = None /\ token = None /\ record = [previous |-> None, successor |-> 0] /\ nonces = 0
  /\ web = [at |-> "down", attached |-> None, silent |-> FALSE, recovering |-> FALSE]
  /\ call = Idle /\ told = "nothing" /\ ran = 0 /\ sends = 0 /\ webs = 0 /\ faults = 0

Goes(w, place) == at' = [at EXCEPT ![w] = place]
Fault == faults < MaxFaults /\ faults' = faults + 1
DatabaseOpen(w) == at[w] \in {"opening", "cleared", "closing"} \cup Serving

(* The state lock of a process that ended is taken over.                   *)
LockFree == lock = None \/ at[lock] = "gone"

(* A new process, with the proof its predecessor gave it.                  *)
Spawn(w, nonce, places) ==
  /\ at[w] = "unused" /\ \A v \in 1 .. (w - 1) : at[v] # "unused"
  /\ at' = [places EXCEPT ![w] = "starting"] /\ proof' = [proof EXCEPT ![w] = nonce]

----------------------------------------------------------------------------
(* The worker process.                                                     *)

(* Variant: the lock is taken whoever holds it. *)
AcquireAnyway(w) ==
  /\ at[w] = "starting" /\ lock' = w /\ Goes(w, "opening")
  /\ UNCHANGED <<proof, next, asked, turns, paused, socket, token, record, nonces, webVars, callVars, faults>>

(* runRunnerWorker takes the state lock at once or ends; then it opens the *)
(* storage.                                                                *)
Acquire(w) ==
  /\ at[w] = "starting"
  /\ IF LockFree THEN lock' = w /\ Goes(w, "opening") ELSE UNCHANGED lock /\ Goes(w, "gone")
  /\ UNCHANGED <<proof, next, asked, turns, paused, socket, token, record, nonces, webVars, callVars, faults>>

(* startRunnerHost removes what a predecessor left, then writes its own    *)
(* token (only where there is none) and listens.                           *)
Clear(w) ==
  /\ at[w] = "opening" /\ Goes(w, "cleared") /\ socket' = None /\ token' = None
  /\ UNCHANGED <<proof, next, asked, turns, paused, lock, record, nonces, webVars, callVars, faults>>

Listen(w) ==
  /\ at[w] = "cleared"
  /\ IF token = None THEN socket' = w /\ token' = w /\ Goes(w, "serving")
                     ELSE UNCHANGED <<socket, token>> /\ Goes(w, "closing")
  /\ UNCHANGED <<proof, next, asked, turns, paused, lock, record, nonces, webVars, callVars, faults>>

(* Something of the worker's own starts work: a trigger, an automation.    *)
OwnWork(w) ==
  /\ at[w] \in {"serving", "draining"} /\ w \notin paused /\ w \notin turns
  /\ turns' = turns \cup {w}
  /\ UNCHANGED <<at, proof, next, asked, paused, fileVars, nonces, webVars, callVars, faults>>

WorkEnds(w) ==
  /\ w \in turns /\ turns' = turns \ {w}
  /\ UNCHANGED <<at, proof, next, asked, paused, fileVars, nonces, webVars, callVars, faults>>

(* quiet(): no request under way, no work.                                 *)
Quiet(w) == w \notin turns /\ ~(call.at \in {"pending", "done"} /\ call.to = w)

(* handOff, up to its first await: it refuses from here on.                *)
Drain(w) ==
  /\ at[w] = "serving" /\ w \in asked /\ Quiet(w) /\ Goes(w, "draining")
  /\ UNCHANGED <<proof, next, asked, turns, paused, fileVars, nonces, webVars, callVars, faults>>

(* quiesce pauses everything, then saves it.                               *)
Pause(w) ==
  /\ at[w] = "draining" /\ Goes(w, "paused") /\ paused' = paused \cup {w}
  /\ UNCHANGED <<proof, next, asked, turns, fileVars, nonces, webVars, callVars, faults>>

(* The worker stays in service.                                            *)
Resume(w) == Goes(w, "serving") /\ paused' = paused \ {w}

(* Variant: what started while everything was being paused is not noticed. *)
QuiescedUnseen(w) ==
  /\ at[w] = "paused"
  /\ Goes(w, "recording") /\ nonces' = nonces + 1 /\ next' = [next EXCEPT ![w] = nonces + 1] /\ UNCHANGED <<paused, faults>>
  /\ UNCHANGED <<proof, asked, turns, fileVars, webVars, callVars>>

(* The saves of quiesce are done, or one failed; work that slipped in      *)
(* meanwhile keeps the worker.                                             *)
Quiesced(w) ==
  /\ at[w] = "paused"
  /\ \/ Fault /\ Resume(w) /\ UNCHANGED <<next, nonces>>
     \/ ~Quiet(w) /\ Resume(w) /\ UNCHANGED <<next, nonces, faults>>
     \/ /\ Quiet(w) /\ Goes(w, "recording")
        /\ nonces' = nonces + 1 /\ next' = [next EXCEPT ![w] = nonces + 1]
        /\ UNCHANGED <<paused, faults>>
  /\ UNCHANGED <<proof, asked, turns, fileVars, webVars, callVars>>

Record(w) ==
  /\ at[w] = "recording"
  /\ \/ Fault /\ Resume(w) /\ UNCHANGED record
     \/ /\ Goes(w, "storing") /\ record' = [previous |-> w, successor |-> next[w]]
        /\ UNCHANGED <<paused, faults>>
  /\ UNCHANGED <<proof, next, asked, turns, lock, socket, token, nonces, webVars, callVars>>

(* The storage closes, or the worker stays with its record written.        *)
CloseStorage(w) ==
  /\ at[w] = "storing"
  /\ \/ Fault /\ Resume(w)
     \/ Goes(w, "closing") /\ UNCHANGED <<paused, faults>>
  /\ UNCHANGED <<proof, next, asked, turns, fileVars, nonces, webVars, callVars>>

(* Variant: an answer that does not come means nothing was admitted. *)
CutMeansRefused(w) ==
  IF call.to = w /\ call.at # "idle" THEN call' = Idle /\ told' = "refused" /\ UNCHANGED <<ran, sends>>
                                      ELSE UNCHANGED callVars

(* A request that was on its way to a worker that no longer answers.       *)
Cut(w) ==
  IF call.to = w /\ call.at # "idle" THEN call' = Idle /\ told' = "unsure" /\ UNCHANGED <<ran, sends>>
                                      ELSE UNCHANGED callVars

(* close: the keeper of the endpoint is stopped, connections are cut, then *)
(* socket and token are removed, whoever wrote them.                       *)
Unlink(w) ==
  /\ at[w] = "closing" /\ Goes(w, "unlinked")
  /\ socket' = None /\ token' = None /\ Cut(w)
  /\ UNCHANGED <<proof, next, asked, turns, paused, lock, record, nonces, webVars, faults>>

Release(w) ==
  /\ at[w] = "unlinked" /\ Goes(w, IF next[w] = 0 THEN "gone" ELSE "released") /\ lock' = None
  /\ UNCHANGED <<proof, next, asked, turns, paused, socket, token, record, nonces, webVars, callVars, faults>>

(* spawnSuccessor, with the nonce; the process may not come to be.         *)
StartSuccessor(w) ==
  /\ at[w] = "released"
  /\ \/ \E v \in Workers : Spawn(v, next[w], [at EXCEPT ![w] = "gone"]) /\ UNCHANGED faults
     \/ Fault /\ Goes(w, "gone") /\ UNCHANGED proof
  /\ UNCHANGED <<next, asked, turns, paused, fileVars, nonces, webVars, callVars>>

(* Without a web the worker closes after a while with nothing to do.       *)
CloseIdle(w) ==
  /\ at[w] = "serving" /\ web.at = "down" /\ Quiet(w)
  /\ Goes(w, "closing") /\ next' = [next EXCEPT ![w] = 0]
  /\ UNCHANGED <<proof, asked, turns, paused, fileVars, nonces, webVars, callVars, faults>>

(* Its storage cannot be closed: it stays in service.                      *)
CloseIdleFails(w) ==
  /\ at[w] = "closing" /\ next[w] = 0 /\ socket = w /\ Fault /\ Resume(w)
  /\ UNCHANGED <<proof, next, asked, turns, fileVars, nonces, webVars, callVars>>

Crash(w) ==
  /\ at[w] \notin {"unused", "gone"} /\ Fault
  /\ Goes(w, "gone") /\ turns' = turns \ {w} /\ Cut(w)
  /\ UNCHANGED <<proof, next, asked, paused, fileVars, nonces, webVars>>

(* Cleaners of /tmp delete old files; the keeper writes the token again.   *)
TokenRemoved ==
  /\ token # None /\ Fault /\ token' = None
  /\ UNCHANGED <<at, proof, next, asked, turns, paused, lock, socket, record, nonces, webVars, callVars>>

KeepToken(w) ==
  /\ at[w] \in Serving \cup {"closing"} /\ socket = w /\ token = None /\ token' = w
  /\ UNCHANGED <<at, proof, next, asked, turns, paused, lock, socket, record, nonces, webVars, callVars, faults>>

----------------------------------------------------------------------------
(* The web process.                                                        *)

(* The worker that would answer a request now.                             *)
Answers(w) == at[w] \in Serving /\ socket = w /\ token = w
Reachable == \E w \in Workers : Answers(w)

(* Only the successor that the attached worker recorded may replace it.    *)
Proven(w) == record.previous = web.attached /\ record.successor = proof[w] /\ proof[w] # 0

(* Variant: the record is proof for any worker. *)
AdoptOnAnyRecord(w) ==
  web' = IF web.attached \in {None, w} \/ record.previous = web.attached
         THEN [web EXCEPT !.at = "up", !.attached = w, !.silent = FALSE, !.recovering = FALSE] ELSE web

(* call(), with the answer of w: attach, adopt, or leave it as it is.      *)
Adopt(w) ==
  web' = IF web.attached \in {None, w} \/ Proven(w)
         THEN [web EXCEPT !.at = "up", !.attached = w, !.silent = FALSE, !.recovering = FALSE] ELSE web

WebUp ==
  /\ web.at = "down" /\ webs < MaxWebs /\ webs' = webs + 1
  /\ \/ \E w \in Workers : Answers(w) /\ Adopt(w) /\ UNCHANGED <<at, proof>>
     \/ /\ ~Reachable /\ web' = [web EXCEPT !.at = "starting"]
        /\ \E v \in Workers : Spawn(v, 0, at)
  /\ UNCHANGED <<next, asked, turns, paused, fileVars, nonces, callVars, faults>>

(* The web waits for the worker it started, in vain when it ended first.   *)
WebWaits ==
  /\ web.at = "starting"
  /\ \/ \E w \in Workers : Answers(w) /\ Adopt(w)
     \/ ~Reachable /\ web' = [web EXCEPT !.at = "down"]
  /\ UNCHANGED <<at, proof, next, asked, turns, paused, fileVars, nonces, webs, callVars, faults>>

WebDown ==
  /\ web.at = "up" /\ call.at = "idle"
  /\ web' = [at |-> "down", attached |-> None, silent |-> FALSE, recovering |-> FALSE]
  /\ UNCHANGED <<at, proof, next, asked, turns, paused, fileVars, nonces, webs, callVars, faults>>

(* poll, answered.                                                         *)
Poll(w) ==
  /\ web.at = "up" /\ Answers(w) /\ Adopt(w)
  /\ UNCHANGED <<at, proof, next, asked, turns, paused, fileVars, nonces, webs, callVars, faults>>

(* Variant: the silence is counted anew by every poll. *)
PollFailsAnew ==
  /\ web.at = "up" /\ ~Reachable /\ ~web.recovering /\ web' = [web EXCEPT !.silent = FALSE]
  /\ UNCHANGED <<at, proof, next, asked, turns, paused, fileVars, nonces, webs, callVars, faults>>

PollFails ==
  /\ web.at = "up" /\ ~Reachable /\ ~web.recovering /\ web' = [web EXCEPT !.silent = TRUE]
  /\ UNCHANGED <<at, proof, next, asked, turns, paused, fileVars, nonces, webs, callVars, faults>>

(* The attached worker recorded a handoff and nothing has answered for 20  *)
(* seconds, four times what its keeper takes to see that its token is      *)
(* gone: from here it is a web that starts.                                *)
Recover ==
  /\ web.at = "up" /\ \A w \in Workers : at[w] \notin Serving
  /\ web.recovering \/ (web.silent /\ web.attached # None /\ record.previous = web.attached)
  /\ web' = [web EXCEPT !.attached = None, !.recovering = TRUE, !.silent = TRUE]
  /\ \E v \in Workers : Spawn(v, 0, at)
  /\ UNCHANGED <<next, asked, turns, paused, fileVars, nonces, webs, callVars, faults>>

(* requestHandoff or forceUpdate of this web's newer build.                *)
AskHandoff(w) ==
  /\ web.at = "up" /\ web.attached = w /\ Answers(w) /\ at[w] = "serving" /\ w \notin asked
  /\ asked' = asked \cup {w}
  /\ UNCHANGED <<at, proof, next, turns, paused, fileVars, nonces, webVars, callVars, faults>>

----------------------------------------------------------------------------
(* One request of the owner.                                               *)

(* Without a token or a listener the request never left. A token that is   *)
(* not the listener's is refused without a body, which the web cannot      *)
(* tell from a lost answer.                                                *)
Send ==
  /\ web.at = "up" /\ call.at = "idle" /\ told \in {"nothing", "refused"} /\ sends < MaxSends /\ sends' = sends + 1
  /\ LET live == socket # None /\ at[socket] \in Serving \cup {"closing"} IN
     CASE token = None \/ ~live -> told' = "refused" /\ UNCHANGED call
       [] token # None /\ live /\ token # socket -> told' = "unsure" /\ UNCHANGED call
       [] OTHER -> call' = [at |-> "sent", to |-> socket, names |-> web.attached] /\ told' = "nothing"
  /\ UNCHANGED <<at, proof, next, asked, turns, paused, fileVars, nonces, webVars, ran, faults>>

(* The worker reads the request: it refuses one that names another worker, *)
(* whose sender adopts it with the proof or is told to restart.            *)
Arrive ==
  /\ call.at = "sent" /\ at[call.to] \in Serving \cup {"closing"}
  /\ LET w == call.to IN
     CASE at[w] = "closing" -> call' = Idle /\ told' = "unsure" /\ UNCHANGED web
       [] at[w] # "closing" /\ call.names \notin {None, w} -> call' = Idle /\ told' = "refused" /\ Adopt(w)
       [] OTHER -> call' = [call EXCEPT !.at = "pending"] /\ UNCHANGED <<told, web>>
  /\ UNCHANGED <<at, proof, next, asked, turns, paused, fileVars, nonces, webs, ran, sends, faults>>

(* dispatch: refused while the worker drains, else it is admitted.         *)
Dispatch ==
  /\ call.at = "pending" /\ at[call.to] \in Serving
  /\ IF at[call.to] # "serving" THEN call' = Idle /\ told' = "refused" /\ UNCHANGED <<turns, ran>>
     ELSE call' = [call EXCEPT !.at = "done"] /\ turns' = turns \cup {call.to} /\ ran' = ran + 1 /\ UNCHANGED told
  /\ UNCHANGED <<at, proof, next, asked, paused, fileVars, nonces, webVars, sends, faults>>

Answer ==
  /\ call.at = "done" /\ call' = Idle
  /\ IF web.attached \in {None, call.to} \/ Proven(call.to) THEN told' = "admitted" ELSE told' = "unsure"
  /\ Adopt(call.to)
  /\ UNCHANGED <<at, proof, next, asked, turns, paused, fileVars, nonces, webs, ran, sends, faults>>

Worker(w) ==
  \/ Acquire(w) \/ Clear(w) \/ Listen(w) \/ Drain(w) \/ Pause(w) \/ Quiesced(w) \/ Record(w)
  \/ CloseStorage(w) \/ Unlink(w) \/ Release(w) \/ StartSuccessor(w) \/ KeepToken(w)

Next ==
  \/ \E w \in Workers : Worker(w) \/ OwnWork(w) \/ WorkEnds(w) \/ CloseIdle(w) \/ CloseIdleFails(w)
       \/ Crash(w) \/ Poll(w) \/ AskHandoff(w)
  \/ TokenRemoved \/ WebUp \/ WebWaits \/ WebDown \/ PollFails \/ Recover
  \/ Send \/ Arrive \/ Dispatch \/ Answer

Spec == Init /\ [][Next]_vars

----------------------------------------------------------------------------
(* Only one worker has the storage open, and it holds the state lock: two  *)
(* queues would each give an instruction to a provider.                    *)
OneQueue == \A w \in Workers : DatabaseOpen(w) => lock = w

(* A worker that serves can be found: the socket is its own, and so is the *)
(* token when there is one. A late write or removal by its predecessor     *)
(* would lock every client out.                                            *)
EndpointIsOwn == \A w \in Workers : at[w] \in Serving => socket = w /\ token \in {w, None}

(* A worker that let go of the queue has no work left that it accepted and *)
(* no request it still answers.                                            *)
NothingLeftBehind == \A w \in Workers : at[w] \in {"unlinked", "released"} => Quiet(w)

(* The sender of a request that was told nothing was admitted may send it  *)
(* again: it is admitted once in all, whichever workers it reached.        *)
SentAgainRunsOnce == ran <= 1 /\ (told = "refused" => ran = 0) /\ (told = "admitted" => ran = 1)

(* The web goes from one worker to another only when the first recorded    *)
(* the second and has stopped.                                             *)
AdoptsSuccessor ==
  [][web'.attached # web.attached /\ None \notin {web.attached, web'.attached} =>
       /\ proof[web'.attached] = next[web.attached] /\ next[web.attached] # 0
       /\ at[web.attached] = "gone"]_vars

----------------------------------------------------------------------------
(* The worker's steps, the timer of the poll and work ending are fair; the *)
(* poll is strong, as the endpoint comes and goes with handoffs.           *)
Fairness ==
  /\ \A w \in Workers : WF_vars(Worker(w)) /\ WF_vars(WorkEnds(w)) /\ SF_vars(Poll(w))
  /\ WF_vars(PollFails) /\ SF_vars(Recover) /\ WF_vars(WebWaits) /\ WF_vars(Arrive) /\ WF_vars(Dispatch) /\ WF_vars(Answer)

FairSpec == Spec /\ Fairness

(* A web that follows a worker which handed over comes to follow a worker  *)
(* again, even when the successor never answers; unless the web stops, no  *)
(* process is left to start, or a worker without proof answers, for which  *)
(* the owner is told to restart Tower.                                     *)
HandedOver == web.at = "up" /\ web.attached # None /\ at[web.attached] = "gone" /\ record.previous = web.attached
Following == web.at = "up" /\ web.attached # None /\ at[web.attached] # "gone"
Stranger == \E w \in Workers : Answers(w) /\ ~Proven(w)
HandoverIsFollowed ==
  HandedOver ~> (Following \/ Stranger \/ web.at # "up" \/ \A w \in Workers : at[w] # "unused")
=============================================================================
