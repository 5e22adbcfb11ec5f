----------------------- MODULE WorkerHandoffProofs -----------------------
(* Proofs about WorkerHandoff, for any number of workers, faults, requests *)
(* and starts of the web.                                                  *)
EXTENDS WorkerHandoff, TLAPS

(* A worker holds the state lock from Acquire to Release.                  *)
Holding == {"opening", "cleared", "closing", "unlinked"} \cup Serving
HoldsLock == \A w \in Workers : at[w] \in Holding => lock = w

(* Only the holder of the lock touches socket and token: they are its own  *)
(* from the moment it listens until it removes them.                       *)
EndpointHeld ==
  \A w \in Workers :
    /\ at[w] = "cleared" => socket = None /\ token = None
    /\ at[w] \in Serving => socket = w
    /\ at[w] \in Serving \cup {"closing"} /\ socket = w => token \in {w, None}

(* Accepted work runs only before the worker has looked again.             *)
WorkInTime == \A w \in Workers : w \in turns => at[w] \in {"serving", "draining", "paused"}

(* A request under way is at a worker that still listens.                  *)
CallListens == call.at # "idle" => call.to \in Workers /\ at[call.to] \in Serving \cup {"closing"}

(* What the sender was told and where the request is agree with ran.       *)
CallCounted ==
  /\ call.at \in {"sent", "pending"} => told = "nothing" /\ ran = 0
  /\ call.at = "done" => told = "nothing" /\ ran = 1
  /\ told \in {"nothing", "refused"} /\ call.at = "idle" => ran = 0
  /\ told = "admitted" => ran = 1
  /\ ran <= 1

(* A nonce belongs to the worker that gave it out: a process started with  *)
(* it is started when that worker has ended, and a record that names it is *)
(* that worker's, however often the worker tried to hand over.             *)
NoncesOwned ==
  /\ \A w \in Workers : next[w] <= nonces
  /\ record.successor <= nonces
  /\ \A v, w \in Workers : next[v] = next[w] /\ next[v] # 0 => v = w
  /\ \A w \in Workers : proof[w] # 0 => \E v \in Workers : at[v] = "gone" /\ next[v] = proof[w]
  /\ \A v \in Workers : next[v] = record.successor /\ next[v] # 0 => v = record.previous

(* The inductive invariant.                                                *)
IInv == TypeOK /\ HoldsLock /\ EndpointHeld /\ WorkInTime /\ CallListens /\ CallCounted /\ NoncesOwned

USE DEF Serving, None

LEMMA NoneIsNoWorker == None \notin Workers
BY DEF Workers

(* At the start no process runs and nothing was sent.                      *)
LEMMA InitIInv == Init => IInv
<1> SUFFICES ASSUME Init PROVE IInv OBVIOUS
<1>1. TypeOK
  BY DEF Init, TypeOK, Places, Idle
<1>2. HoldsLock /\ EndpointHeld /\ WorkInTime
  BY DEF Init, HoldsLock, Holding, EndpointHeld, WorkInTime
<1>3. CallListens /\ CallCounted
  BY DEF Init, CallListens, CallCounted, Idle
<1>4. NoncesOwned
  BY DEF Init, NoncesOwned
<1> QED BY <1>1, <1>2, <1>3, <1>4 DEF IInv


(* What a web process can be, with and without an answer.                  *)
Webs == [at : {"down", "starting", "up"}, attached : Workers \cup {None}, silent : BOOLEAN, recovering : BOOLEAN]

(* Adopting an answer keeps the type of the web.                           *)
LEMMA AdoptedType ==
  ASSUME web \in Webs, NEW w \in Workers, Adopt(w)
  PROVE  web' \in Webs
BY DEF Adopt, Webs

(* Starting a process keeps the types of the places and the proofs.        *)
LEMMA SpawnedType ==
  ASSUME at \in [Workers -> Places], proof \in [Workers -> Nat], NEW w \in Workers, Spawn(w, 0, at)
  PROVE  at' \in [Workers -> Places] /\ proof' \in [Workers -> Nat]
BY DEF Spawn, Places

(* Every step keeps the types.                                             *)
LEMMA TypeStep == TypeOK /\ CallListens /\ [Next]_vars => TypeOK'
<1> SUFFICES ASSUME TypeOK, CallListens, [Next]_vars PROVE TypeOK' OBVIOUS
<1>1. CASE UNCHANGED vars
  BY <1>1 DEF TypeOK, Places, Idle, vars, fileVars, webVars, callVars
<1>2. ASSUME NEW w \in Workers,
             Worker(w) \/ OwnWork(w) \/ WorkEnds(w) \/ CloseIdle(w) \/ CloseIdleFails(w)
               \/ Crash(w) \/ Poll(w) \/ AskHandoff(w)
      PROVE TypeOK'
  <2>1. CASE Acquire(w)
    BY <2>1 DEF Acquire, LockFree, TypeOK, Places, Idle, Goes, fileVars, webVars, callVars
  <2>2. CASE Clear(w)
    BY <2>2 DEF Clear, TypeOK, Places, Idle, Goes, fileVars, webVars, callVars
  <2>3. CASE Listen(w)
    BY <2>3 DEF Listen, TypeOK, Places, Idle, Goes, fileVars, webVars, callVars
  <2>4. CASE Drain(w)
    BY <2>4 DEF Drain, Quiet, TypeOK, Places, Idle, Goes, fileVars, webVars, callVars
  <2>5. CASE Pause(w)
    BY <2>5 DEF Pause, TypeOK, Places, Idle, Goes, fileVars, webVars, callVars
  <2>6. CASE Quiesced(w)
    BY <2>6 DEF Quiesced, Resume, Fault, Quiet, TypeOK, Places, Idle, Goes, fileVars, webVars, callVars
  <2>7. CASE Record(w)
    BY <2>7 DEF Record, Resume, Fault, TypeOK, Places, Idle, Goes, fileVars, webVars, callVars
  <2>8. CASE CloseStorage(w)
    BY <2>8 DEF CloseStorage, Resume, Fault, TypeOK, Places, Idle, Goes, fileVars, webVars, callVars
  <2>9. CASE Unlink(w)
    BY <2>9 DEF Unlink, Cut, TypeOK, Places, Idle, Goes, fileVars, webVars, callVars
  <2>10. CASE Release(w)
    BY <2>10 DEF Release, TypeOK, Places, Idle, Goes, fileVars, webVars, callVars
  <2>11. CASE StartSuccessor(w)
    BY <2>11 DEF StartSuccessor, Spawn, Fault, TypeOK, Places, Idle, Goes, fileVars, webVars, callVars
  <2>12. CASE KeepToken(w)
    BY <2>12 DEF KeepToken, TypeOK, Places, Idle, Goes, fileVars, webVars, callVars
  <2>13. CASE OwnWork(w)
    BY <2>13 DEF OwnWork, TypeOK, Places, Idle, Goes, fileVars, webVars, callVars
  <2>14. CASE WorkEnds(w)
    BY <2>14 DEF WorkEnds, TypeOK, Places, Idle, Goes, fileVars, webVars, callVars
  <2>15. CASE CloseIdle(w)
    BY <2>15 DEF CloseIdle, Quiet, TypeOK, Places, Idle, Goes, fileVars, webVars, callVars
  <2>16. CASE CloseIdleFails(w)
    BY <2>16 DEF CloseIdleFails, Resume, Fault, TypeOK, Places, Idle, Goes, fileVars, webVars, callVars
  <2>17. CASE Crash(w)
    BY <2>17 DEF Crash, Cut, Fault, TypeOK, Places, Idle, Goes, fileVars, webVars, callVars
  <2>18. CASE Poll(w)
    BY <2>18 DEF Poll, Adopt, Answers, TypeOK, Places, Idle, Goes, fileVars, webVars, callVars
  <2>19. CASE AskHandoff(w)
    BY <2>19 DEF AskHandoff, TypeOK, Places, Idle, Goes, fileVars, webVars, callVars
  <2> QED BY <1>2, <2>1, <2>2, <2>3, <2>4, <2>5, <2>6, <2>7, <2>8, <2>9, <2>10, <2>11, <2>12, <2>13, <2>14, <2>15, <2>16, <2>17, <2>18, <2>19 DEF Worker
<1>3. CASE TokenRemoved \/ WebUp \/ WebWaits \/ WebDown \/ PollFails \/ Recover \/ Send \/ Arrive \/ Dispatch \/ Answer
  <2>1. CASE TokenRemoved
    BY <2>1 DEF TokenRemoved, Fault, TypeOK, Places, Idle, Goes, fileVars, webVars, callVars
  <2>2. CASE WebUp
    <3>1. web' \in Webs
      BY <2>2, AdoptedType DEF WebUp, TypeOK, Webs
    <3>2. at' \in [Workers -> Places] /\ proof' \in [Workers -> Nat]
      BY <2>2, SpawnedType DEF WebUp, TypeOK
    <3> QED BY <2>2, <3>1, <3>2 DEF WebUp, TypeOK, Webs, fileVars, callVars
  <2>3. CASE WebWaits
    <3>1. web' \in Webs
      BY <2>3, AdoptedType DEF WebWaits, TypeOK, Webs
    <3> QED BY <2>3, <3>1 DEF WebWaits, TypeOK, Webs, fileVars, callVars
  <2>4. CASE WebDown
    BY <2>4 DEF WebDown, TypeOK, Places, Idle, Goes, fileVars, webVars, callVars
  <2>5. CASE PollFails
    BY <2>5 DEF PollFails, TypeOK, Places, Idle, Goes, fileVars, webVars, callVars
  <2>6. CASE Recover
    <3>1. at' \in [Workers -> Places] /\ proof' \in [Workers -> Nat]
      BY <2>6, SpawnedType DEF Recover, TypeOK
    <3>2. web' \in Webs
      BY <2>6 DEF Recover, TypeOK, Webs
    <3> QED BY <2>6, <3>1, <3>2 DEF Recover, TypeOK, Webs, fileVars, callVars
  <2>7. CASE Send
    BY <2>7 DEF Send, TypeOK, Places, Idle, Goes, fileVars, webVars, callVars
  <2>8. CASE Arrive
    <3>1. call.to \in Workers /\ web \in Webs
      BY <2>8 DEF Arrive, CallListens, TypeOK, Webs
    <3>2. web' \in Webs
      BY <2>8, <3>1, AdoptedType DEF Arrive
    <3> QED BY <2>8, <3>1, <3>2 DEF Arrive, TypeOK, Idle, Webs, fileVars
  <2>9. CASE Dispatch
    BY <2>9 DEF CallListens, Dispatch, TypeOK, Places, Idle, Goes, fileVars, webVars, callVars
  <2>10. CASE Answer
    BY <2>10 DEF CallListens, Answer, Adopt, TypeOK, Places, Idle, Goes, fileVars, webVars, callVars
  <2> QED BY <1>3, <2>1, <2>2, <2>3, <2>4, <2>5, <2>6, <2>7, <2>8, <2>9, <2>10
<1> QED BY <1>1, <1>2, <1>3 DEF Next

(* Only Acquire makes a holder, when there is none; Release leaves first. *)
LEMMA LockStep == TypeOK /\ HoldsLock /\ [Next]_vars => HoldsLock'
<1> SUFFICES ASSUME TypeOK, HoldsLock, [Next]_vars PROVE HoldsLock' OBVIOUS
<1>1. CASE UNCHANGED vars
  BY <1>1 DEF HoldsLock, Holding, vars, fileVars, webVars, callVars
<1>2. ASSUME NEW w \in Workers,
             Worker(w) \/ OwnWork(w) \/ WorkEnds(w) \/ CloseIdle(w) \/ CloseIdleFails(w)
               \/ Crash(w) \/ Poll(w) \/ AskHandoff(w)
      PROVE  HoldsLock'
  <2>1. CASE Acquire(w)
    BY <2>1, NoneIsNoWorker DEF Acquire, LockFree, HoldsLock, Holding, TypeOK, Places, Goes,
           fileVars, webVars, callVars
  <2>2. CASE Release(w)
    BY <2>2, NoneIsNoWorker DEF Release, HoldsLock, Holding, TypeOK, Places, Goes, fileVars,
           webVars, callVars
  <2>3. CASE StartSuccessor(w)
    BY <2>3, NoneIsNoWorker DEF StartSuccessor, Spawn, HoldsLock, Holding, TypeOK, Places, Goes,
           fileVars, webVars, callVars
  <2>4. CASE Clear(w) \/ Listen(w) \/ Drain(w) \/ Pause(w) \/ Quiesced(w) \/ Record(w) \/
            CloseStorage(w) \/ Unlink(w) \/ KeepToken(w) \/ OwnWork(w) \/ WorkEnds(w) \/
            CloseIdle(w) \/ CloseIdleFails(w) \/ Crash(w) \/ Poll(w) \/ AskHandoff(w)
    BY <2>4, NoneIsNoWorker DEF Clear, Listen, Drain, Quiet, Pause, Quiesced, Resume, Record,
           CloseStorage, Unlink, Cut, KeepToken, OwnWork, WorkEnds, CloseIdle, CloseIdleFails,
           Crash, Poll, AskHandoff, HoldsLock, Holding, TypeOK, Places, Goes, fileVars, webVars,
           callVars
  <2> QED BY <1>2, <2>1, <2>2, <2>3, <2>4 DEF Worker
<1>3. CASE TokenRemoved \/ WebUp \/ WebWaits \/ WebDown \/ PollFails \/ Recover \/ Send \/
            Arrive \/ Dispatch \/ Answer
  <2>1. CASE WebUp
    BY <2>1, NoneIsNoWorker DEF WebUp, Spawn, HoldsLock, Holding, TypeOK, Places, Goes,
           fileVars, webVars, callVars
  <2>2. CASE Recover
    BY <2>2, NoneIsNoWorker DEF Recover, Spawn, HoldsLock, Holding, TypeOK, Places, Goes,
           fileVars, webVars, callVars
  <2>3. CASE TokenRemoved \/ WebWaits \/ WebDown \/ PollFails \/ Send \/ Arrive \/ Dispatch \/
            Answer
    BY <2>3, NoneIsNoWorker DEF TokenRemoved, WebWaits, WebDown, PollFails, Send, Arrive,
           Dispatch, Answer, HoldsLock, Holding, TypeOK, Places, Goes, fileVars, webVars,
           callVars
  <2> QED BY <1>3, <2>1, <2>2, <2>3
<1> QED BY <1>1, <1>2, <1>3 DEF Next

(* Socket and token are touched by the holder of the lock alone.          *)
LEMMA EndpointStep == TypeOK /\ HoldsLock /\ EndpointHeld /\ [Next]_vars => EndpointHeld'
<1> SUFFICES ASSUME TypeOK, HoldsLock, EndpointHeld, [Next]_vars PROVE EndpointHeld' OBVIOUS
<1>1. CASE UNCHANGED vars
  BY <1>1 DEF EndpointHeld, vars, fileVars, webVars, callVars
<1>2. ASSUME NEW w \in Workers,
             Worker(w) \/ OwnWork(w) \/ WorkEnds(w) \/ CloseIdle(w) \/ CloseIdleFails(w)
               \/ Crash(w) \/ Poll(w) \/ AskHandoff(w)
      PROVE  EndpointHeld'
  <2>1. CASE Acquire(w)
    BY <2>1 DEF Acquire, LockFree, EndpointHeld, HoldsLock, Holding, TypeOK, Places, Goes,
           fileVars, webVars, callVars
  <2>2. CASE Clear(w)
    BY <2>2 DEF Clear, EndpointHeld, HoldsLock, Holding, TypeOK, Places, Goes, fileVars,
           webVars, callVars
  <2>3. CASE Listen(w)
    BY <2>3 DEF Listen, EndpointHeld, HoldsLock, Holding, TypeOK, Places, Goes, fileVars,
           webVars, callVars
  <2>4. CASE Unlink(w)
    BY <2>4 DEF Unlink, Cut, EndpointHeld, HoldsLock, Holding, TypeOK, Places, Goes, fileVars,
           webVars, callVars
  <2>5. CASE Release(w)
    BY <2>5 DEF Release, EndpointHeld, HoldsLock, Holding, TypeOK, Places, Goes, fileVars,
           webVars, callVars
  <2>6. CASE StartSuccessor(w)
    BY <2>6 DEF StartSuccessor, Spawn, EndpointHeld, HoldsLock, Holding, TypeOK, Places, Goes,
           fileVars, webVars, callVars
  <2>7. CASE KeepToken(w)
    BY <2>7 DEF KeepToken, EndpointHeld, HoldsLock, Holding, TypeOK, Places, Goes, fileVars,
           webVars, callVars
  <2>8. CASE Drain(w) \/ Pause(w) \/ Quiesced(w) \/ Record(w) \/ CloseStorage(w) \/ OwnWork(w)
            \/ WorkEnds(w) \/ CloseIdle(w) \/ CloseIdleFails(w) \/ Crash(w) \/ Poll(w) \/
            AskHandoff(w)
    BY <2>8 DEF Drain, Quiet, Pause, Quiesced, Resume, Record, CloseStorage, OwnWork, WorkEnds,
           CloseIdle, CloseIdleFails, Crash, Cut, Poll, AskHandoff, EndpointHeld, HoldsLock,
           Holding, TypeOK, Places, Goes, fileVars, webVars, callVars
  <2> QED BY <1>2, <2>1, <2>2, <2>3, <2>4, <2>5, <2>6, <2>7, <2>8 DEF Worker
<1>3. CASE TokenRemoved \/ WebUp \/ WebWaits \/ WebDown \/ PollFails \/ Recover \/ Send \/
            Arrive \/ Dispatch \/ Answer
  <2>1. CASE WebUp
    BY <2>1 DEF WebUp, Spawn, EndpointHeld, HoldsLock, Holding, TypeOK, Places, Goes, fileVars,
           webVars, callVars
  <2>2. CASE Recover
    BY <2>2 DEF Recover, Spawn, EndpointHeld, HoldsLock, Holding, TypeOK, Places, Goes,
           fileVars, webVars, callVars
  <2>3. CASE TokenRemoved
    BY <2>3 DEF TokenRemoved, EndpointHeld, HoldsLock, Holding, TypeOK, Places, Goes, fileVars,
           webVars, callVars
  <2>4. CASE WebWaits \/ WebDown \/ PollFails \/ Send \/ Arrive \/ Dispatch \/ Answer
    BY <2>4 DEF WebWaits, WebDown, PollFails, Send, Arrive, Dispatch, Answer, EndpointHeld,
           HoldsLock, Holding, TypeOK, Places, Goes, fileVars, webVars, callVars
  <2> QED BY <1>3, <2>1, <2>2, <2>3, <2>4
<1> QED BY <1>1, <1>2, <1>3 DEF Next

(* A worker goes past its second look with no work, and takes none after. *)
LEMMA WorkStep == TypeOK /\ WorkInTime /\ CallListens /\ [Next]_vars => WorkInTime'
<1> SUFFICES ASSUME TypeOK, WorkInTime, CallListens, [Next]_vars PROVE WorkInTime' OBVIOUS
<1>1. CASE UNCHANGED vars
  BY <1>1 DEF WorkInTime, vars, fileVars, webVars, callVars
<1>2. ASSUME NEW w \in Workers,
             Worker(w) \/ OwnWork(w) \/ WorkEnds(w) \/ CloseIdle(w) \/ CloseIdleFails(w)
               \/ Crash(w) \/ Poll(w) \/ AskHandoff(w)
      PROVE  WorkInTime'
  <2>1. CASE Listen(w)
    BY <2>1 DEF Listen, WorkInTime, CallListens, TypeOK, Places, Goes, fileVars, webVars,
           callVars
  <2>2. CASE Quiesced(w)
    BY <2>2 DEF Quiesced, Resume, Quiet, WorkInTime, CallListens, TypeOK, Places, Goes,
           fileVars, webVars, callVars
  <2>3. CASE StartSuccessor(w)
    BY <2>3 DEF StartSuccessor, Spawn, WorkInTime, CallListens, TypeOK, Places, Goes, fileVars,
           webVars, callVars
  <2>4. CASE OwnWork(w) \/ WorkEnds(w)
    BY <2>4 DEF OwnWork, WorkEnds, WorkInTime, CallListens, TypeOK, Places, Goes, fileVars,
           webVars, callVars
  <2>5. CASE CloseIdle(w)
    BY <2>5 DEF CloseIdle, Quiet, WorkInTime, CallListens, TypeOK, Places, Goes, fileVars,
           webVars, callVars
  <2>6. CASE Crash(w)
    BY <2>6 DEF Crash, Cut, WorkInTime, CallListens, TypeOK, Places, Goes, fileVars, webVars,
           callVars
  <2>7. CASE Acquire(w) \/ Clear(w) \/ Drain(w) \/ Pause(w) \/ Record(w) \/ CloseStorage(w) \/
            Unlink(w) \/ Release(w) \/ KeepToken(w) \/ CloseIdleFails(w) \/ Poll(w) \/
            AskHandoff(w)
    BY <2>7 DEF Acquire, LockFree, Clear, Drain, Quiet, Pause, Record, Resume, CloseStorage,
           Unlink, Cut, Release, KeepToken, CloseIdleFails, Poll, AskHandoff, WorkInTime,
           CallListens, TypeOK, Places, Goes, fileVars, webVars, callVars
  <2> QED BY <1>2, <2>1, <2>2, <2>3, <2>4, <2>5, <2>6, <2>7 DEF Worker
<1>3. CASE TokenRemoved \/ WebUp \/ WebWaits \/ WebDown \/ PollFails \/ Recover \/ Send \/
            Arrive \/ Dispatch \/ Answer
  <2>1. CASE WebUp
    BY <2>1 DEF WebUp, Spawn, WorkInTime, CallListens, TypeOK, Places, Goes, fileVars, webVars,
           callVars
  <2>2. CASE Recover
    BY <2>2 DEF Recover, Spawn, WorkInTime, CallListens, TypeOK, Places, Goes, fileVars,
           webVars, callVars
  <2>3. CASE Dispatch
    BY <2>3 DEF Dispatch, WorkInTime, CallListens, TypeOK, Places, Goes, fileVars, webVars,
           callVars
  <2>4. CASE TokenRemoved \/ WebWaits \/ WebDown \/ PollFails \/ Send \/ Arrive \/ Answer
    BY <2>4 DEF TokenRemoved, WebWaits, WebDown, PollFails, Send, Arrive, Answer, WorkInTime,
           CallListens, TypeOK, Places, Goes, fileVars, webVars, callVars
  <2> QED BY <1>3, <2>1, <2>2, <2>3, <2>4
<1> QED BY <1>1, <1>2, <1>3 DEF Next

(* A worker that stops listening answers or cuts the request first.       *)
LEMMA CallStep == TypeOK /\ CallListens /\ [Next]_vars => CallListens'
<1> SUFFICES ASSUME TypeOK, CallListens, [Next]_vars PROVE CallListens' OBVIOUS
<1>1. CASE UNCHANGED vars
  BY <1>1 DEF CallListens, vars, fileVars, webVars, callVars
<1>2. ASSUME NEW w \in Workers,
             Worker(w) \/ OwnWork(w) \/ WorkEnds(w) \/ CloseIdle(w) \/ CloseIdleFails(w)
               \/ Crash(w) \/ Poll(w) \/ AskHandoff(w)
      PROVE  CallListens'
  <2>1. CASE Acquire(w)
    BY <2>1 DEF Acquire, LockFree, CallListens, TypeOK, Places, Idle, Goes, fileVars, webVars,
           callVars
  <2>2. CASE Listen(w)
    BY <2>2 DEF Listen, CallListens, TypeOK, Places, Idle, Goes, fileVars, webVars, callVars
  <2>3. CASE Unlink(w)
    BY <2>3 DEF Unlink, Cut, CallListens, TypeOK, Places, Idle, Goes, fileVars, webVars,
           callVars
  <2>4. CASE Release(w)
    BY <2>4 DEF Release, CallListens, TypeOK, Places, Idle, Goes, fileVars, webVars, callVars
  <2>5. CASE StartSuccessor(w)
    BY <2>5 DEF StartSuccessor, Spawn, CallListens, TypeOK, Places, Idle, Goes, fileVars,
           webVars, callVars
  <2>6. CASE Crash(w)
    BY <2>6 DEF Crash, Cut, CallListens, TypeOK, Places, Idle, Goes, fileVars, webVars, callVars
  <2>7. CASE Clear(w) \/ Drain(w) \/ Pause(w) \/ Quiesced(w) \/ Record(w) \/ CloseStorage(w) \/
            KeepToken(w) \/ OwnWork(w) \/ WorkEnds(w) \/ CloseIdle(w) \/ CloseIdleFails(w) \/
            Poll(w) \/ AskHandoff(w)
    BY <2>7 DEF Clear, Drain, Quiet, Pause, Quiesced, Resume, Record, CloseStorage, KeepToken,
           OwnWork, WorkEnds, CloseIdle, CloseIdleFails, Poll, AskHandoff, CallListens, TypeOK,
           Places, Idle, Goes, fileVars, webVars, callVars
  <2> QED BY <1>2, <2>1, <2>2, <2>3, <2>4, <2>5, <2>6, <2>7 DEF Worker
<1>3. CASE TokenRemoved \/ WebUp \/ WebWaits \/ WebDown \/ PollFails \/ Recover \/ Send \/
            Arrive \/ Dispatch \/ Answer
  <2>1. CASE WebUp
    BY <2>1 DEF WebUp, Spawn, CallListens, TypeOK, Places, Idle, Goes, fileVars, webVars,
           callVars
  <2>2. CASE Recover
    BY <2>2 DEF Recover, Spawn, CallListens, TypeOK, Places, Idle, Goes, fileVars, webVars,
           callVars
  <2>3. CASE Send
    BY <2>3 DEF Send, CallListens, TypeOK, Places, Idle, Goes, fileVars, webVars, callVars
  <2>4. CASE Arrive
    BY <2>4 DEF Arrive, CallListens, TypeOK, Places, Idle, Goes, fileVars, webVars, callVars
  <2>5. CASE Dispatch
    BY <2>5 DEF Dispatch, CallListens, TypeOK, Places, Idle, Goes, fileVars, webVars, callVars
  <2>6. CASE Answer
    BY <2>6 DEF Answer, CallListens, TypeOK, Places, Idle, Goes, fileVars, webVars, callVars
  <2>7. CASE TokenRemoved \/ WebWaits \/ WebDown \/ PollFails
    BY <2>7 DEF TokenRemoved, WebWaits, WebDown, PollFails, CallListens, TypeOK, Places, Idle,
           Goes, fileVars, webVars, callVars
  <2> QED BY <1>3, <2>1, <2>2, <2>3, <2>4, <2>5, <2>6, <2>7
<1> QED BY <1>1, <1>2, <1>3 DEF Next

(* The count moves with the request: only dispatch admits it.             *)
LEMMA CountStep == TypeOK /\ CallListens /\ CallCounted /\ [Next]_vars => CallCounted'
<1> SUFFICES ASSUME TypeOK, CallListens, CallCounted, [Next]_vars PROVE CallCounted' OBVIOUS
<1>1. CASE UNCHANGED vars
  BY <1>1 DEF CallCounted, vars, fileVars, webVars, callVars
<1>2. ASSUME NEW w \in Workers,
             Worker(w) \/ OwnWork(w) \/ WorkEnds(w) \/ CloseIdle(w) \/ CloseIdleFails(w)
               \/ Crash(w) \/ Poll(w) \/ AskHandoff(w)
      PROVE  CallCounted'
  <2>1. CASE Unlink(w) \/ Crash(w)
    BY <2>1 DEF Unlink, Cut, Crash, CallCounted, TypeOK, Idle, fileVars, webVars, callVars
  <2>2. CASE Acquire(w) \/ Clear(w) \/ Listen(w) \/ Drain(w) \/ Pause(w) \/ Quiesced(w) \/
            Record(w) \/ CloseStorage(w) \/ Release(w) \/ StartSuccessor(w) \/ KeepToken(w) \/
            OwnWork(w) \/ WorkEnds(w) \/ CloseIdle(w) \/ CloseIdleFails(w) \/ Poll(w) \/
            AskHandoff(w)
    BY <2>2 DEF Acquire, LockFree, Clear, Listen, Drain, Quiet, Pause, Quiesced, Resume, Record,
           CloseStorage, Release, StartSuccessor, Spawn, KeepToken, OwnWork, WorkEnds,
           CloseIdle, CloseIdleFails, Poll, AskHandoff, CallCounted, TypeOK, Idle, fileVars,
           webVars, callVars
  <2> QED BY <1>2, <2>1, <2>2 DEF Worker
<1>3. CASE TokenRemoved \/ WebUp \/ WebWaits \/ WebDown \/ PollFails \/ Recover \/ Send \/
            Arrive \/ Dispatch \/ Answer
  <2>1. CASE Send
    BY <2>1 DEF Send, CallCounted, TypeOK, Idle, fileVars, webVars, callVars
  <2>2. CASE Arrive
    BY <2>2 DEF Arrive, CallCounted, TypeOK, Idle, fileVars, webVars, callVars
  <2>3. CASE Dispatch
    BY <2>3 DEF Dispatch, CallCounted, TypeOK, Idle, fileVars, webVars, callVars
  <2>4. CASE Answer
    BY <2>4 DEF Answer, CallCounted, TypeOK, Idle, fileVars, webVars, callVars
  <2>5. CASE TokenRemoved \/ WebUp \/ WebWaits \/ WebDown \/ PollFails \/ Recover
    BY <2>5 DEF TokenRemoved, WebUp, Spawn, WebWaits, WebDown, PollFails, Recover, CallCounted,
           TypeOK, Idle, fileVars, webVars, callVars
  <2> QED BY <1>3, <2>1, <2>2, <2>3, <2>4, <2>5
<1> QED BY <1>1, <1>2, <1>3 DEF Next

(* A nonce that was given out is never given out again.                   *)
LEMMA NonceStep == TypeOK /\ NoncesOwned /\ [Next]_vars => NoncesOwned'
<1> SUFFICES ASSUME TypeOK, NoncesOwned, [Next]_vars PROVE NoncesOwned' OBVIOUS
<1>1. CASE UNCHANGED vars
  BY <1>1 DEF NoncesOwned, vars, fileVars, webVars, callVars
<1>2. ASSUME NEW w \in Workers,
             Worker(w) \/ OwnWork(w) \/ WorkEnds(w) \/ CloseIdle(w) \/ CloseIdleFails(w)
               \/ Crash(w) \/ Poll(w) \/ AskHandoff(w)
      PROVE  NoncesOwned'
  <2>1. CASE Acquire(w)
    BY <2>1 DEF Acquire, LockFree, NoncesOwned, TypeOK, Places, Goes, fileVars, webVars,
           callVars
  <2>2. CASE Listen(w)
    BY <2>2 DEF Listen, NoncesOwned, TypeOK, Places, Goes, fileVars, webVars, callVars
  <2>3. CASE Quiesced(w)
    BY <2>3 DEF Quiesced, Resume, Quiet, NoncesOwned, TypeOK, Places, Goes, fileVars, webVars,
           callVars
  <2>4. CASE Record(w)
    BY <2>4 DEF Record, Resume, NoncesOwned, TypeOK, Places, Goes, fileVars, webVars, callVars
  <2>5. CASE CloseStorage(w)
    BY <2>5 DEF CloseStorage, Resume, NoncesOwned, TypeOK, Places, Goes, fileVars, webVars,
           callVars
  <2>6. CASE Release(w)
    BY <2>6 DEF Release, NoncesOwned, TypeOK, Places, Goes, fileVars, webVars, callVars
  <2>7. CASE StartSuccessor(w)
    BY <2>7 DEF StartSuccessor, Spawn, NoncesOwned, TypeOK, Places, Goes, fileVars, webVars,
           callVars
  <2>8. CASE CloseIdle(w)
    BY <2>8 DEF CloseIdle, Quiet, NoncesOwned, TypeOK, Places, Goes, fileVars, webVars, callVars
  <2>9. CASE Crash(w)
    BY <2>9 DEF Crash, Cut, NoncesOwned, TypeOK, Places, Goes, fileVars, webVars, callVars
  <2>10. CASE Clear(w) \/ Drain(w) \/ Pause(w) \/ Unlink(w) \/ CloseIdleFails(w)
    BY <2>10 DEF Clear, Drain, Quiet, Pause, Unlink, Cut, CloseIdleFails, Resume, NoncesOwned,
           TypeOK, Places, Goes, fileVars, webVars, callVars
  <2>11. CASE KeepToken(w) \/ OwnWork(w) \/ WorkEnds(w) \/ Poll(w) \/ AskHandoff(w)
    BY <2>11 DEF KeepToken, OwnWork, WorkEnds, Poll, AskHandoff, NoncesOwned, TypeOK, Places,
           Goes, fileVars, webVars, callVars
  <2> QED BY <1>2, <2>1, <2>2, <2>3, <2>4, <2>5, <2>6, <2>7, <2>8, <2>9, <2>10, <2>11 DEF Worker
<1>3. CASE TokenRemoved \/ WebUp \/ WebWaits \/ WebDown \/ PollFails \/ Recover \/ Send \/
            Arrive \/ Dispatch \/ Answer
  <2>1. CASE WebUp
    BY <2>1 DEF WebUp, Spawn, NoncesOwned, TypeOK, Places, Goes, fileVars, webVars, callVars
  <2>2. CASE Recover
    BY <2>2 DEF Recover, Spawn, NoncesOwned, TypeOK, Places, Goes, fileVars, webVars, callVars
  <2>3. CASE TokenRemoved \/ WebWaits \/ WebDown \/ PollFails \/ Send \/ Arrive \/ Dispatch \/
            Answer
    BY <2>3 DEF TokenRemoved, WebWaits, WebDown, PollFails, Send, Arrive, Dispatch, Answer,
           NoncesOwned, TypeOK, Places, Goes, fileVars, webVars, callVars
  <2> QED BY <1>3, <2>1, <2>2, <2>3
<1> QED BY <1>1, <1>2, <1>3 DEF Next

(* Every reachable state satisfies the inductive invariant.                *)
LEMMA Invariant == Spec => []IInv
<1>1. IInv /\ [Next]_vars => IInv'
  BY TypeStep, LockStep, EndpointStep, WorkStep, CallStep, CountStep, NonceStep DEF IInv
<1> QED BY InitIInv, <1>1, PTL DEF Spec

(* The types are right.                                                    *)
THEOREM TypeCorrect == Spec => []TypeOK
<1>1. IInv => TypeOK
  BY DEF IInv
<1> QED BY Invariant, <1>1, PTL

(* Two workers never have the storage open, however they crash, hand over  *)
(* and are started: the one that has it open holds the state lock.         *)
THEOREM OneQueueHolds == Spec => []OneQueue
<1>1. IInv => OneQueue
  BY DEF IInv, HoldsLock, Holding, OneQueue, DatabaseOpen
<1> QED BY Invariant, <1>1, PTL

(* A worker in service owns the socket and the token, so its predecessor's *)
(* late removals never hit them.                                           *)
THEOREM EndpointIsOwnHolds == Spec => []EndpointIsOwn
<1>1. IInv => EndpointIsOwn
  BY DEF IInv, EndpointHeld, EndpointIsOwn
<1> QED BY Invariant, <1>1, PTL

(* A worker that handed over left neither work nor a request behind.       *)
THEOREM NothingLeftBehindHolds == Spec => []NothingLeftBehind
<1>1. IInv => NothingLeftBehind
  BY DEF IInv, WorkInTime, CallListens, NothingLeftBehind, Quiet
<1> QED BY Invariant, <1>1, PTL

(* A request sent again on a refusal is admitted once in all, whichever    *)
(* workers it reached and whatever was lost.                               *)
THEOREM SentAgainRunsOnceHolds == Spec => []SentAgainRunsOnce
<1>1. IInv => SentAgainRunsOnce
  <2> SUFFICES ASSUME IInv PROVE SentAgainRunsOnce OBVIOUS
  <2>1. call.at \in {"idle", "sent", "pending", "done"}
    BY DEF IInv, TypeOK
  <2> QED BY <2>1 DEF IInv, CallCounted, SentAgainRunsOnce
<1> QED BY Invariant, <1>1, PTL

(* A worker the web moves to was started by the one it leaves, which has   *)
(* ended: the proof cannot be that of another handover.                    *)
LEMMA ProofIsOwn ==
  ASSUME IInv, NEW w \in Workers, web.attached # None, Proven(w)
  PROVE  proof[w] = next[web.attached] /\ next[web.attached] # 0 /\ at[web.attached] = "gone"
<1>1. PICK v \in Workers : at[v] = "gone" /\ next[v] = proof[w]
  BY DEF IInv, NoncesOwned, Proven
<1>2. v = record.previous
  BY <1>1 DEF IInv, NoncesOwned, Proven
<1> QED BY <1>1, <1>2 DEF Proven

(* The web changes worker only by adopting an answer, with the proof.      *)
LEMMA WebMoves ==
  ASSUME IInv, Next, web'.attached # web.attached, web.attached # None, web'.attached # None
  PROVE  \E w \in Workers : w = web'.attached /\ Proven(w)
<1>1. ASSUME NEW w \in Workers, Adopt(w)
      PROVE  w = web'.attached /\ Proven(w)
  BY <1>1 DEF Adopt, IInv, TypeOK
<1>2. ASSUME NEW w \in Workers, Worker(w) \/ OwnWork(w) \/ WorkEnds(w) \/ CloseIdle(w) \/ CloseIdleFails(w)
               \/ Crash(w) \/ AskHandoff(w)
      PROVE  web' = web
  BY <1>2 DEF Worker, Acquire, Clear, Listen, Drain, Pause, Quiesced, Record, CloseStorage, Unlink, Release,
       StartSuccessor, KeepToken, OwnWork, WorkEnds, CloseIdle, CloseIdleFails, Crash, AskHandoff, webVars
<1>3. ASSUME NEW w \in Workers, Poll(w)
      PROVE  \E v \in Workers : v = web'.attached /\ Proven(v)
  BY <1>1, <1>3 DEF Poll
<1>4. CASE TokenRemoved \/ Send \/ Dispatch
  BY <1>4 DEF TokenRemoved, Send, Dispatch, webVars
<1>5. CASE WebDown \/ PollFails \/ Recover
  <2>1. web \in Webs
    BY DEF IInv, TypeOK, Webs
  <2>2. CASE WebDown
    BY <2>2 DEF WebDown
  <2>3. CASE PollFails
    BY <2>1, <2>3 DEF PollFails, Webs
  <2>4. CASE Recover
    <3>1. web'.attached = None
      BY <2>1, <2>4 DEF Recover, Webs
    <3> QED BY <3>1
  <2> QED BY <1>5, <2>2, <2>3, <2>4
<1>6. CASE WebUp \/ WebWaits
  <2>1. CASE \E w \in Workers : Adopt(w)
    BY <2>1, <1>1
  <2>2. CASE web' = [web EXCEPT !.at = "starting"] \/ web' = [web EXCEPT !.at = "down"]
    BY <2>2 DEF IInv, TypeOK
  <2> QED BY <1>6, <2>1, <2>2 DEF WebUp, WebWaits
<1>7. CASE Arrive \/ Answer
  <2>1. call.to \in Workers
    BY <1>7 DEF Arrive, Answer, IInv, CallListens
  <2>2. Adopt(call.to) \/ web' = web
    BY <1>7 DEF Arrive, Answer
  <2> QED BY <1>1, <2>1, <2>2
<1> QED BY <1>2, <1>3, <1>4, <1>5, <1>6, <1>7 DEF Next

(* The web never adopts a worker that happens to answer: only the one that *)
(* its own worker started when it ended.                                   *)
THEOREM AdoptsSuccessorHolds == Spec => AdoptsSuccessor
<1>1. IInv /\ [Next]_vars =>
        [web'.attached # web.attached /\ None \notin {web.attached, web'.attached} =>
           /\ proof[web'.attached] = next[web.attached] /\ next[web.attached] # 0
           /\ at[web.attached] = "gone"]_vars
  <2> SUFFICES ASSUME IInv, Next, web'.attached # web.attached, web.attached # None, web'.attached # None
               PROVE  /\ proof[web'.attached] = next[web.attached] /\ next[web.attached] # 0
                      /\ at[web.attached] = "gone"
    OBVIOUS
  <2>1. PICK w \in Workers : w = web'.attached /\ Proven(w)
    BY WebMoves
  <2> QED BY <2>1, ProofIsOwn
<1> QED BY Invariant, <1>1, PTL DEF AdoptsSuccessor, Spec

============================================================================
