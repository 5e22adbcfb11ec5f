------------------------- MODULE StorageClientProofs -------------------------
(***************************************************************************)
(* Proofs about StorageClient, for every set of calls and every bound: a   *)
(* command commits its effect at most once, two connections to the live    *)
(* files never overlap, what callers were told of their commands is what   *)
(* the database holds, a close the thread acknowledged leaves no call      *)
(* behind, a write takes effect only under the newest claim, and the       *)
(* storage implements CommandLedger.                                       *)
(***************************************************************************)
EXTENDS StorageClient, TLAPS

\* An effect was committed together with its receipt, and receipts stay.
EffectHasReceipt ==
    /\ effects \in [Commands -> {0, 1}]
    /\ DOMAIN receipts = Commands
    /\ \A k \in Commands : effects[k] = 1 => receipts[k].found

LEMMA CommandOfCall == \A c \in Calls : Command[c] \in Commands
  BY DEF Commands

\* A step of the thread that keeps or adds receipts keeps EffectHasReceipt.
LEMMA EffectStep ==
  ASSUME EffectHasReceipt, [Next]_vars
  PROVE  EffectHasReceipt'
<1> USE DEF EffectHasReceipt, dbVars, clientVars, Receipt
<1>1. ASSUME UNCHANGED <<effects, receipts>> PROVE EffectHasReceipt'
  BY <1>1
<1>2. ASSUME NEW g \in Generations, ServePrepare(g) PROVE EffectHasReceipt'
  BY <1>2 DEF ServePrepare
<1>3. ASSUME NEW g \in Generations, ServeWrite(g) PROVE EffectHasReceipt'
  <2> DEFINE c == thread[g].inbox.call
             k == Command[c]
             r == Receipt(c, epoch)
  <2>1. /\ ~receipts[k].found
        /\ receipts' = [receipts EXCEPT ![k] = r]
        /\ effects' = [effects EXCEPT ![k] = @ + 1]
    BY <1>3 DEF ServeWrite
  <2>2. r.found
    OBVIOUS
  <2> HIDE DEF k, r
  <2>3. effects' \in [Commands -> {0, 1}]
    <3>1. k \in Commands => effects[k] = 0
      BY <2>1
    <3>2. ASSUME NEW l \in Commands PROVE effects'[l] \in {0, 1}
      <4>1. effects'[l] = IF l = k THEN effects[k] + 1 ELSE effects[l]
        BY <2>1
      <4> QED
        BY <3>1, <4>1
    <3>3. effects' = [l \in Commands |-> effects'[l]]
      BY <2>1
    <3> QED
      BY <3>2, <3>3
  <2>4. ASSUME NEW l \in Commands, effects'[l] = 1 PROVE receipts'[l].found
    BY <2>1, <2>2, <2>4
  <2> QED
    BY <2>1, <2>3, <2>4
<1>4. ASSUME NEW g \in Generations, ThreadStep(g), ~ServePrepare(g), ~ServeWrite(g)
      PROVE  UNCHANGED <<effects, receipts>>
  BY <1>4 DEF ThreadStep, ServeRefused, ServeCheck, ServeOpen, ServeClose, ReplayPrepare,
              ReplayWrite, CommitLost, ServeReceipt
<1>5. ASSUME Reopen \/ Hello \/ HelloRefused \/ OpenDone \/ Refuse \/ RefuseDone \/ Close \/ Crash
             \/ OtherClaims \/ Deadline \/ ThreadDies \/ Answered
      PROVE  UNCHANGED <<effects, receipts>>
  BY <1>5 DEF Reopen, Hello, HelloRefused, OpenDone, Refuse, RefuseDone, Close, Crash,
              OtherClaims, Deadline, ThreadDies, Answered, AnswerCall, AnswerOpening, AnswerClose
<1>6. ASSUME NEW c \in Calls, CallPrepare(c) \/ CallWrite(c) \/ AskReceipt(c) \/ RecordDone(c) \/ RecordFails(c)
      PROVE  UNCHANGED <<effects, receipts>>
  BY <1>6 DEF CallPrepare, CallWrite, AskReceipt, RecordDone, RecordFails
<1>7. ASSUME NEW g \in Generations, Gone(g) PROVE UNCHANGED <<effects, receipts>>
  BY <1>7 DEF Gone
<1>8. CASE UNCHANGED vars
  BY <1>8 DEF vars
<1> QED
  BY <1>1, <1>2, <1>3, <1>4, <1>5, <1>6, <1>7, <1>8 DEF Next

\* Only a write that ran changes an effect.
LEMMA EffectMoves ==
  ASSUME [Next]_vars, effects' # effects
  PROVE  \E g \in Generations : ServeWrite(g)
<1> USE DEF dbVars, clientVars
<1>1. ASSUME NEW g \in Generations, ThreadStep(g), ~ServeWrite(g) PROVE effects' = effects
  BY <1>1 DEF ThreadStep, ServeRefused, ServeCheck, ServeOpen, ServeClose, ServePrepare, ReplayPrepare,
              ReplayWrite, CommitLost, ServeReceipt
<1>2. ASSUME \/ Reopen \/ Hello \/ HelloRefused \/ OpenDone \/ Refuse \/ RefuseDone \/ Close \/ Crash
             \/ OtherClaims \/ Deadline \/ ThreadDies \/ Answered
      PROVE  effects' = effects
  BY <1>2 DEF Reopen, Hello, HelloRefused, OpenDone, Refuse, RefuseDone, Close, Crash,
              OtherClaims, Deadline, ThreadDies, Answered, AnswerCall, AnswerOpening, AnswerClose
<1>3. ASSUME NEW c \in Calls, CallPrepare(c) \/ CallWrite(c) \/ AskReceipt(c) \/ RecordDone(c) \/ RecordFails(c)
      PROVE  effects' = effects
  BY <1>3 DEF CallPrepare, CallWrite, AskReceipt, RecordDone, RecordFails
<1>4. ASSUME NEW g \in Generations, Gone(g) PROVE effects' = effects
  BY <1>4 DEF Gone
<1>5. CASE UNCHANGED vars
  BY <1>5 DEF vars
<1> QED
  BY <1>1, <1>2, <1>3, <1>4, <1>5 DEF Next

\* The effect of a command is committed at most once, whatever is retried,
\* lost, crashed or reopened (client.ts write, runtime.ts doWrite, replay).
THEOREM CommandsApplyOnce == Spec => []AppliedOnce
<1>1. Init => EffectHasReceipt
  BY DEF Init, EffectHasReceipt, NoReceipt
<1>2. EffectHasReceipt /\ [Next]_vars => EffectHasReceipt'
  BY EffectStep
<1>3. EffectHasReceipt => AppliedOnce
  BY DEF EffectHasReceipt, AppliedOnce
<1> QED
  BY <1>1, <1>2, <1>3, PTL DEF Spec
-----------------------------------------------------------------------------
(* One connection.  A thread before the current one is gone, one after it   *)
(* was never started, and only a thread that runs has a connection.        *)

\* A thread is a record of these fields.
IsThread(t) == t = [phase |-> t.phase, conn |-> t.conn, claimed |-> t.claimed,
                    inbox |-> t.inbox, outbox |-> t.outbox]

OnlyCurrentRuns ==
    /\ generation \in 0..MaxOpens
    /\ DOMAIN thread = Generations
    /\ \A g \in Generations :
          /\ IsThread(thread[g])
          /\ thread[g].conn \in BOOLEAN
          /\ thread[g].conn => thread[g].phase \in {"live", "ending"}
          /\ g > generation => thread[g].phase = "none"
          /\ g < generation => thread[g].phase = "gone"

\* What most steps do to the threads: requests and answers move, and a live
\* thread may be told to end.
Slows ==
    /\ generation' = generation
    /\ DOMAIN thread' = DOMAIN thread
    /\ \A g \in Generations :
          /\ IsThread(thread'[g])
          /\ thread'[g].conn = thread[g].conn
          /\ \/ thread'[g].phase = thread[g].phase
             \/ thread[g].phase = "live" /\ thread'[g].phase = "ending"

LEMMA SlowsKeeps == ASSUME OnlyCurrentRuns, Slows PROVE OnlyCurrentRuns'
  BY DEF OnlyCurrentRuns, Slows

LEMMA SendSlows ==
  ASSUME OnlyCurrentRuns, NEW r, generation' = generation, Send(r)
  PROVE  Slows
  BY DEF OnlyCurrentRuns, Slows, Send, Pump, IsThread

LEMMA StopSlows ==
  ASSUME OnlyCurrentRuns, generation' = generation, StopThread
  PROVE  Slows
  BY DEF OnlyCurrentRuns, Slows, StopThread, IsThread

LEMMA PostSlows ==
  ASSUME OnlyCurrentRuns, generation' = generation, NEW g, NEW a, Post(g, a)
  PROVE  Slows
  BY DEF OnlyCurrentRuns, Slows, Post, Posted, IsThread

LEMMA PostedShape ==
  ASSUME OnlyCurrentRuns, NEW g, NEW a
  PROVE  /\ DOMAIN Posted(g, a) = Generations
         /\ \A h \in Generations : /\ IsThread(Posted(g, a)[h])
                                   /\ Posted(g, a)[h].conn = thread[h].conn
                                   /\ Posted(g, a)[h].phase = thread[h].phase
  BY DEF Posted, OnlyCurrentRuns, IsThread

LEMMA ClaimSlows ==
  ASSUME OnlyCurrentRuns, generation' = generation, NEW g, NEW a, NEW e,
         thread' = [Posted(g, a) EXCEPT ![g].claimed = e]
  PROVE  Slows
<1> DEFINE posted == Posted(g, a)
<1>1. /\ DOMAIN posted = Generations
      /\ \A h \in Generations : /\ IsThread(posted[h])
                                /\ posted[h].conn = thread[h].conn
                                /\ posted[h].phase = thread[h].phase
  BY PostedShape
<1>2. thread' = [posted EXCEPT ![g].claimed = e]
  OBVIOUS
<1> HIDE DEF posted
<1> QED
  BY <1>1, <1>2 DEF OnlyCurrentRuns, Slows, IsThread

LEMMA PumpSlows ==
  ASSUME OnlyCurrentRuns, generation' = generation, NEW q, NEW a,
         Pump(q, [thread EXCEPT ![generation].outbox = a])
  PROVE  Slows
  BY DEF OnlyCurrentRuns, Slows, Pump, IsThread

\* The steps that only slow threads down.
LEMMA OpeningSlows ==
  ASSUME OnlyCurrentRuns, Hello \/ HelloRefused \/ OpenDone \/ Refuse \/ RefuseDone
  PROVE  Slows
<1>1. CASE Hello
  BY <1>1, SendSlows DEF Hello
<1>2. CASE OpenDone
  BY <1>2 DEF OpenDone, Slows, OnlyCurrentRuns
<1>3. CASE HelloRefused \/ Refuse \/ RefuseDone
  BY <1>3, StopSlows DEF HelloRefused, Refuse, RefuseDone, Fail
<1> QED
  BY <1>1, <1>2, <1>3

LEMMA CallSlows ==
  ASSUME OnlyCurrentRuns, NEW c \in Calls, CallPrepare(c) \/ CallWrite(c) \/ AskReceipt(c)
  PROVE  Slows
<1>1. CASE thread' = thread /\ generation' = generation
  BY <1>1 DEF Slows, OnlyCurrentRuns
<1>2. CASE CallPrepare(c) /\ thread' # thread
  BY <1>2, SendSlows DEF CallPrepare
<1>3. CASE CallWrite(c) /\ thread' # thread
  BY <1>3, SendSlows DEF CallWrite
<1>4. CASE AskReceipt(c)
  BY <1>4, SendSlows DEF AskReceipt
<1> QED
  BY <1>1, <1>2, <1>3, <1>4 DEF CallPrepare, CallWrite

LEMMA CloseSlows == ASSUME OnlyCurrentRuns, Close PROVE Slows
  BY SendSlows DEF Close

LEMMA ServeSlows ==
  ASSUME OnlyCurrentRuns, NEW g \in Generations,
         ThreadStep(g), ~ServeOpen(g), ~ServeClose(g)
  PROVE  Slows
<1> USE DEF clientVars
<1>1. CASE ServeRefused(g) \/ ServeCheck(g) \/ ServeWrite(g) \/ ReplayWrite(g) \/ CommitLost(g) \/ ServeReceipt(g)
  BY <1>1, PostSlows DEF ServeRefused, ServeCheck, ServeWrite, ReplayWrite, CommitLost, ServeReceipt
<1>2. CASE ServePrepare(g)
  <2>1. CASE \E a \in UnknownCommits \cup Refusals : Post(g, a)
    BY <1>2, <2>1, PostSlows DEF ServePrepare
  <2>2. CASE ~\E a \in UnknownCommits \cup Refusals : Post(g, a)
    BY <1>2, <2>2, ClaimSlows DEF ServePrepare
  <2> QED
    BY <2>1, <2>2
<1>3. CASE ReplayPrepare(g)
  <2>1. CASE \E a \in Refusals : Post(g, a)
    BY <1>3, <2>1, PostSlows DEF ReplayPrepare
  <2>2. CASE ~\E a \in Refusals : Post(g, a)
    <3>1. PICK a, e : thread' = [Posted(g, a) EXCEPT ![g].claimed = e]
      <4>1. PICK r : r = receipts[Command[thread[g].inbox.call]]
        OBVIOUS
      <4>2. PICK again : again = (r.found /\ r.epoch = epoch)
        OBVIOUS
      <4>3. PICK a : a = [Answer(TRUE, "none") EXCEPT !.epoch = r.epoch, !.claimed = again]
        OBVIOUS
      <4>4. PICK posted : posted = Posted(g, a)
        OBVIOUS
      <4>5. thread' = [posted EXCEPT ![g].claimed = IF again THEN r.epoch ELSE posted[g].claimed]
        BY <1>3, <2>2, <4>1, <4>2, <4>3, <4>4 DEF ReplayPrepare
      <4> QED
        BY <4>4, <4>5
    <3>2. generation' = generation
      BY <1>3 DEF ReplayPrepare
    <3> QED
      BY <3>1, <3>2, ClaimSlows
  <2> QED
    BY <2>1, <2>2
<1> QED
  BY <1>1, <1>2, <1>3 DEF ThreadStep

LEMMA AnswerSlows == ASSUME OnlyCurrentRuns, Answered PROVE Slows
<1>1. CASE AnswerCall
  <2>1. CASE Current.outbox.fatal
    BY <1>1, <2>1 DEF AnswerCall, Current, OnlyCurrentRuns, Slows, IsThread
  <2>2. CASE ~Current.outbox.fatal
    BY <1>1, <2>2, PumpSlows DEF AnswerCall
  <2> QED
    BY <2>1, <2>2
<1>2. CASE AnswerOpening
  BY <1>2 DEF AnswerOpening, Current, OnlyCurrentRuns, Slows, IsThread
<1>3. CASE AnswerClose
  <2>1. CASE Current.outbox.ok
    BY <1>3, <2>1 DEF AnswerClose, Current, OnlyCurrentRuns, Slows, IsThread
  <2>2. CASE ~Current.outbox.ok
    BY <1>3, <2>2, StopSlows DEF AnswerClose, Fail
  <2> QED
    BY <2>1, <2>2
<1> QED
  BY <1>1, <1>2, <1>3 DEF Answered

LEMMA FailureSlows ==
  ASSUME OnlyCurrentRuns, Deadline \/ ThreadDies
  PROVE  Slows
  BY StopSlows DEF Deadline, ThreadDies, ThreadFailed, Fail

LEMMA RecordSlows ==
  ASSUME OnlyCurrentRuns, NEW c \in Calls, RecordDone(c) \/ RecordFails(c)
  PROVE  Slows
  BY DEF RecordDone, RecordFails, OnlyCurrentRuns, Slows, IsThread

LEMMA DisconnectedShape ==
  ASSUME NEW p, NEW a
  PROVE  /\ IsThread(Disconnected(p, a))
         /\ Disconnected(p, a).conn = FALSE
         /\ Disconnected(p, a).phase = p
  BY DEF Disconnected, IsThread

LEMMA IdleThreads ==
  \A p \in Phases : /\ IsThread(IdleThread(p))
                    /\ IdleThread(p).conn = FALSE
                    /\ IdleThread(p).phase = p
  BY DisconnectedShape DEF IdleThread

LEMMA PhaseNames == /\ "none" \in Phases /\ "live" \in Phases
                    /\ "ending" \in Phases /\ "gone" \in Phases
  BY DEF Phases

LEMMA OneThreadStep ==
  ASSUME OnlyCurrentRuns, [Next]_vars
  PROVE  OnlyCurrentRuns'
<1>1. CASE Reopen
  <2>1. /\ generation' = generation + 1 /\ generation < MaxOpens
        /\ generation > 0 => thread[generation].phase = "gone"
        /\ thread' = [thread EXCEPT ![generation + 1] = IdleThread("live")]
    BY <1>1 DEF Reopen, Current
  <2>2. generation \in Nat /\ generation' \in Generations /\ generation' \in 0..MaxOpens
    BY <2>1, BoundsAssumption DEF OnlyCurrentRuns, Generations
  <2>3. ASSUME NEW g \in Generations
        PROVE  IF g = generation' THEN thread'[g] = IdleThread("live") ELSE thread'[g] = thread[g]
    BY <2>1, <2>2 DEF OnlyCurrentRuns
  <2>4. ASSUME NEW g \in Generations, g < generation' PROVE thread'[g].phase = "gone"
    BY <2>1, <2>2, <2>3, <2>4 DEF OnlyCurrentRuns, Generations
  <2>5. ASSUME NEW g \in Generations, g > generation' PROVE thread'[g].phase = "none"
    BY <2>1, <2>2, <2>3, <2>5 DEF OnlyCurrentRuns, Generations
  <2>6. DOMAIN thread' = Generations
    BY <2>1 DEF OnlyCurrentRuns
  <2>7. ASSUME NEW g \in Generations
        PROVE  /\ IsThread(thread'[g]) /\ thread'[g].conn \in BOOLEAN
               /\ thread'[g].conn => thread'[g].phase \in {"live", "ending"}
    <3>1. CASE g = generation'
      BY <2>3, <3>1, IdleThreads, PhaseNames
    <3>2. CASE g # generation'
      BY <2>3, <3>2 DEF OnlyCurrentRuns
    <3> QED
      BY <3>1, <3>2
  <2> QED
    BY <2>2, <2>4, <2>5, <2>6, <2>7 DEF OnlyCurrentRuns
<1>2. ASSUME NEW g \in Generations, ServeOpen(g) PROVE OnlyCurrentRuns'
  BY <1>2 DEF ServeOpen, Has, Running, OnlyCurrentRuns, IsThread, Posted, clientVars
<1>3. ASSUME NEW g \in Generations, ServeClose(g) PROVE OnlyCurrentRuns'
  <2> DEFINE closed == Disconnected(thread[g].phase, Answer(TRUE, "none"))
  <2>1. IsThread(closed) /\ closed.conn = FALSE /\ closed.phase = thread[g].phase
    BY DisconnectedShape
  <2>2. thread' = [thread EXCEPT ![g] = closed] /\ generation' = generation
    BY <1>3 DEF ServeClose, clientVars
  <2> HIDE DEF closed
  <2> QED
    BY <2>1, <2>2 DEF OnlyCurrentRuns
<1>4. ASSUME NEW g \in Generations, Gone(g) PROVE OnlyCurrentRuns'
  BY <1>4, IdleThreads, PhaseNames DEF Gone, OnlyCurrentRuns, Generations
<1>5. CASE Crash
  <2>1. ASSUME NEW g \in Generations
        PROVE  /\ IsThread(thread'[g]) /\ thread'[g].conn = FALSE
               /\ thread'[g].phase = IF thread[g].phase = "none" THEN "none" ELSE "gone"
    <3>1. thread'[g] = IdleThread(IF thread[g].phase = "none" THEN "none" ELSE "gone")
      BY <1>5 DEF Crash
    <3> QED
      BY <3>1, IdleThreads, PhaseNames
  <2>2. DOMAIN thread' = Generations /\ generation' = generation
    BY <1>5 DEF Crash
  <2> QED
    BY <2>1, <2>2 DEF OnlyCurrentRuns
<1>6. CASE OtherClaims
  BY <1>6 DEF OtherClaims, clientVars, OnlyCurrentRuns, IsThread
<1>7. CASE UNCHANGED vars
  BY <1>7 DEF vars, OnlyCurrentRuns, IsThread
<1>8. CASE Slows
  BY <1>8, SlowsKeeps
<1> QED
  BY <1>1, <1>2, <1>3, <1>4, <1>5, <1>6, <1>7, <1>8, OpeningSlows, CallSlows, CloseSlows, ServeSlows,
     AnswerSlows, FailureSlows, RecordSlows DEF Next

LEMMA NoneRunsYet == ASSUME Init PROVE OnlyCurrentRuns
<1>1. /\ generation = 0 /\ generation \in 0..MaxOpens
      /\ thread = [g \in Generations |-> IdleThread("none")]
  BY BoundsAssumption DEF Init
<1>2. ASSUME NEW g \in Generations
      PROVE  /\ IsThread(thread[g]) /\ thread[g].conn = FALSE /\ thread[g].phase = "none"
             /\ ~(g < generation)
  <2>1. thread[g] = IdleThread("none")
    BY <1>1
  <2>2. ~(g < generation)
    BY <1>1, BoundsAssumption DEF Generations
  <2> QED
    BY <2>1, <2>2, IdleThreads, PhaseNames
<1> QED
  BY <1>1, <1>2 DEF OnlyCurrentRuns

\* Two connections to the live files never overlap (client.ts reopen waits
\* until the thread of the open before is gone).
THEOREM ConnectionsNeverOverlap == Spec => []OneConnection
<1>1. Init => OnlyCurrentRuns
  BY NoneRunsYet
<1>2. OnlyCurrentRuns /\ [Next]_vars => OnlyCurrentRuns'
  BY OneThreadStep
<1>3. OnlyCurrentRuns => OneConnection
  BY DEF OnlyCurrentRuns, OneConnection, Generations
<1> QED
  BY <1>1, <1>2, <1>3, PTL DEF Spec
-----------------------------------------------------------------------------
(* What callers were told.  The invariant follows a request from the queue  *)
(* to the thread and back: whom it belongs to, what its caller waits for,   *)
(* and what an answer still on its way says of the database.               *)

Requests == [op: {"prepare"}, call: {c \in Calls : Kind[c] = "prepare"}, epoch: {0}]
            \cup [op: {"receipt"}, call: Calls, epoch: {0}]
            \cup [op: {"write"}, call: Calls, epoch: Nat \ {0}]
            \cup [op: {"check", "open", "close"}]

Dispositions == {"none", "not-committed", "unknown", "committed", "found", "absent"}
Answers == [op: {"answer"}, ok: BOOLEAN, disposition: Dispositions,
            epoch: Nat, claimed: BOOLEAN, fatal: BOOLEAN]

OpeningSteps == {"hello", "check", "open", "name", "refuse"}
Live == generation > 0 /\ thread[generation].phase = "live"

StorageTypes ==
    /\ state \in States /\ step \in Steps
    /\ claim \in Nat /\ epoch \in Nat
    /\ queue \in Seq(Requests) /\ inflight \in Requests \cup {None}
    /\ \A g \in Generations : /\ thread[g].phase \in Phases
                              /\ thread[g].inbox \in Requests \cup {None}
                              /\ thread[g].outbox \in Answers \cup {None}
                              /\ thread[g].claimed \in Nat
    /\ DOMAIN outcome = Calls
    /\ prepared \in [Calls -> [on: Nat, epoch: Nat, claimed: BOOLEAN]]
    /\ \A k \in Commands : /\ receipts[k].found \in BOOLEAN
                           /\ receipts[k].found => receipts[k].epoch \in Nat

\* What the caller of a request is waiting for.
AskedAs(r) == IF r.op = "receipt" THEN "asking" ELSE "pending"

\* A call whose answer is outstanding has one request, in the queue or in the
\* thread, and no other call has one; a close is the last request.
QueueOK ==
    /\ inflight = None => queue = <<>>
    /\ \A i \in 1..Len(queue) :
          /\ queue[i].op \notin {"check", "open"}
          /\ queue[i].op = "close" => i = Len(queue) /\ state = "closing"
          /\ IsCall(queue[i]) => outcome[queue[i].call] = AskedAs(queue[i])
          /\ IsCall(queue[i]) /\ IsCall(inflight) => queue[i].call # inflight.call
    /\ \A i, j \in 1..Len(queue) :
          IsCall(queue[i]) /\ IsCall(queue[j]) /\ queue[i].call = queue[j].call => i = j
    /\ IsCall(inflight) => outcome[inflight.call] = AskedAs(inflight)
    /\ inflight.op = "close" => queue = <<>> /\ state = "closing"
    /\ \A c \in Calls : outcome[c] \in {"pending", "asking"} => Waiting(c) \/ InThread(c)

\* Where the client stands, and when its thread is one that can answer.
StepOK ==
    /\ state = "opening" <=> step \in OpeningSteps
    /\ inflight # None => (state = "opening" <=> inflight.op \in {"check", "open"})
    /\ state = "opening" => queue = <<>>
    /\ step = "leaving" => state \in {"closing", "unavailable"} /\ inflight = None
    /\ step \in {"hello", "name"} => inflight = None
    /\ \A c \in Calls : /\ prepared[c].on <= generation
                        /\ state = "opening" /\ outcome[c] = "recording" => prepared[c].on < generation
    /\ state = "ready" \/ (state = "opening" /\ ~lost /\ step # "refuse") => Live
    /\ inflight # None => Live

\* The thread's side of the one exchange at a time: a live thread has either
\* the request or an answer to it; a thread being ended may still commit a
\* request whose caller was told that it may have.
ExchangeOK ==
    generation > 0 =>
        /\ Live /\ inflight = None => Current.inbox = None /\ Current.outbox = None
        /\ Live /\ inflight # None => \/ Current.inbox = inflight /\ Current.outbox = None
                                      \/ Current.inbox = None /\ Current.outbox # None
        /\ Current.phase = "ending" /\ Current.inbox.op \in {"prepare", "write"}
              => outcome[Current.inbox.call] = "unknown"

ClientOK == OnlyCurrentRuns /\ StorageTypes /\ QueueOK /\ StepOK /\ ExchangeOK

LEMMA RequestShape ==
  ASSUME NEW r \in Requests
  PROVE  /\ r # None /\ r.op # "none"
         /\ r.op \in {"prepare", "receipt", "write", "check", "open", "close"}
         /\ IsCall(r) => r.call \in Calls
         /\ r.op = "write" => r.epoch \in Nat \ {0}
         /\ IsCall(r) => AskedAs(r) \in {"pending", "asking"}
         /\ r.op = "prepare" => Kind[r.call] = "prepare"
  BY DEF Requests, None, IsCall, AskedAs

LEMMA NoneShape == None.op = "none" /\ ~IsCall(None)
  BY DEF None, IsCall

\* Every step that ends the thread leaves no request behind, and settles the
\* calls that had one.
Ended ==
    /\ generation' = generation /\ queue' = <<>> /\ inflight' = None
    /\ \A g \in Generations : /\ thread'[g].inbox = thread[g].inbox
                              /\ thread'[g].outbox \in {thread[g].outbox, None}
                              /\ thread'[g].claimed = thread[g].claimed
                              /\ \/ thread'[g].phase = thread[g].phase
                                 \/ thread[g].phase = "live" /\ thread'[g].phase = "ending"
    /\ generation > 0 =>
          /\ thread'[generation].phase # "live"
          /\ thread[generation].phase = "live" /\ thread[generation].inbox.op \in {"prepare", "write"}
                => outcome'[thread[generation].inbox.call] = "unknown"
    /\ DOMAIN outcome' = Calls
    /\ \A c \in Calls : /\ outcome'[c] \notin {"pending", "asking"}
                        /\ state = "opening" /\ outcome'[c] = "recording" => outcome[c] = "recording"
                        /\ outcome[c] = "unknown" => outcome'[c] = "unknown"

ThreadTypes == \A g \in Generations : /\ thread[g].phase \in Phases
                                      /\ thread[g].inbox \in Requests \cup {None}
                                      /\ thread[g].outbox \in Answers \cup {None}
                                      /\ thread[g].claimed \in Nat
RequestTypes == queue \in Seq(Requests) /\ inflight \in Requests \cup {None} /\ DOMAIN outcome = Calls

LEMMA GenerationOfThread ==
  ASSUME OnlyCurrentRuns
  PROVE  generation \in Nat /\ (generation > 0 => generation \in Generations)
  BY BoundsAssumption DEF OnlyCurrentRuns, Generations

LEMMA EmptyQueue == queue' = <<>> => Len(queue') = 0 /\ queue' \in Seq(Requests)
  OBVIOUS

LEMMA EndedKeeps ==
  ASSUME ClientOK, Ended
  PROVE  QueueOK' /\ ExchangeOK' /\ ThreadTypes' /\ RequestTypes' /\ ~Live'
<1>1. QueueOK'
  BY EmptyQueue, NoneShape DEF Ended, QueueOK, ClientOK
<1>2. ThreadTypes'
  BY DEF Ended, ThreadTypes, ClientOK, StorageTypes, Phases
<1>3. RequestTypes'
  BY EmptyQueue DEF Ended, RequestTypes
<1>4. ~Live'
  BY DEF Ended, Live
<1>5. ExchangeOK'
  <2> SUFFICES ASSUME generation > 0, thread'[generation].phase = "ending",
                      thread'[generation].inbox.op \in {"prepare", "write"}
               PROVE  outcome'[thread'[generation].inbox.call] = "unknown"
    BY <1>4 DEF Ended, ExchangeOK, Current
  <2>1. generation \in Generations
    BY GenerationOfThread DEF ClientOK
  <2>2. thread'[generation].inbox = thread[generation].inbox
    BY <2>1 DEF Ended
  <2>3. CASE thread[generation].phase = "live"
    BY <2>2, <2>3 DEF Ended
  <2>4. CASE thread[generation].phase # "live"
    <3>1. thread[generation].phase = "ending"
      BY <2>1, <2>4 DEF Ended
    <3> DEFINE r == thread[generation].inbox
    <3>2. r \in Requests /\ r.op \in {"prepare", "write"}
      BY <2>1, <2>2, NoneShape DEF ClientOK, StorageTypes
    <3>3. r.call \in Calls
      BY <3>2, RequestShape DEF IsCall
    <3>4. outcome[r.call] = "unknown"
      BY <3>1, <3>2 DEF ClientOK, ExchangeOK, Current
    <3> QED
      BY <2>2, <3>3, <3>4 DEF Ended
  <2> QED
    BY <2>3, <2>4
<1> QED
  BY <1>1, <1>2, <1>3, <1>4, <1>5

\* What a call with a request is told when its thread is ended.
LEMMA RejectedShape ==
  ASSUME ClientOK, NEW c \in Calls
  PROVE  /\ DOMAIN Rejected = Calls
         /\ Rejected[c] \notin {"pending", "asking"}
         /\ outcome[c] \notin {"pending", "asking"} => Rejected[c] = outcome[c]
         /\ outcome[c] = "asking" => Rejected[c] = "unknown"
         /\ outcome[c] = "pending" => Rejected[c] = IF InThread(c) THEN "unknown" ELSE "not-committed"
<1>1. Waiting(c) \/ InThread(c) => outcome[c] \in {"pending", "asking"}
  BY DEF ClientOK, QueueOK, Waiting, InThread, AskedAs
<1>2. outcome[c] \in {"pending", "asking"} => Waiting(c) \/ InThread(c)
  BY DEF ClientOK, QueueOK
<1>3. /\ DOMAIN Rejected = Calls
      /\ Rejected[c] = IF ~Waiting(c) /\ ~InThread(c) THEN outcome[c]
                       ELSE IF InThread(c) \/ outcome[c] = "asking" THEN "unknown" ELSE "not-committed"
  BY DEF Rejected
<1> QED
  BY <1>1, <1>2, <1>3

LEMMA LiveThread ==
  ASSUME ClientOK, inflight # None
  PROVE  /\ generation \in Generations /\ thread[generation].phase = "live"
         /\ inflight \in Requests
         /\ \/ thread[generation].inbox = inflight /\ thread[generation].outbox = None
            \/ thread[generation].inbox = None /\ thread[generation].outbox # None
<1>1. Live
  BY DEF ClientOK, StepOK
<1>2. generation \in Generations
  BY <1>1, GenerationOfThread DEF ClientOK, Live
<1> QED
  BY <1>1, <1>2 DEF ClientOK, ExchangeOK, Live, Current, StorageTypes

\* What a live thread has is what the client has in flight.
LEMMA InboxOfLive ==
  ASSUME ClientOK, generation > 0, thread[generation].phase = "live",
         thread[generation].inbox.op # "none"
  PROVE  /\ inflight = thread[generation].inbox /\ inflight \in Requests
         /\ thread[generation].outbox = None
<1>1. thread[generation].inbox # None
  BY NoneShape
<1> QED
  BY <1>1, LiveThread DEF ClientOK, ExchangeOK, Live, Current

LEMMA StopEnds ==
  ASSUME ClientOK, generation' = generation, StopThread
  PROVE  Ended
<1>1. /\ queue' = <<>> /\ inflight' = None /\ outcome' = Rejected
      /\ thread' = [thread EXCEPT ![generation].phase = IF @ = "live" THEN "ending" ELSE @]
  BY DEF StopThread
<1>2. ASSUME NEW g \in Generations
      PROVE  /\ thread'[g].inbox = thread[g].inbox
             /\ thread'[g].outbox \in {thread[g].outbox, None}
             /\ thread'[g].claimed = thread[g].claimed
             /\ \/ thread'[g].phase = thread[g].phase
                \/ thread[g].phase = "live" /\ thread'[g].phase = "ending"
             /\ g = generation => thread'[g].phase # "live"
  BY <1>1 DEF ClientOK, OnlyCurrentRuns, IsThread
<1>3. ASSUME generation > 0, thread[generation].phase = "live", thread[generation].inbox.op \in {"prepare", "write"}
      PROVE  outcome'[thread[generation].inbox.call] = "unknown"
  <2>1. inflight = thread[generation].inbox /\ inflight \in Requests
    BY <1>3, InboxOfLive
  <2>2. inflight.call \in Calls /\ IsCall(inflight)
    BY <1>3, <2>1, RequestShape DEF IsCall
  <2>3. outcome[inflight.call] = "pending" /\ InThread(inflight.call)
    BY <1>3, <2>1, <2>2 DEF ClientOK, QueueOK, AskedAs, InThread
  <2> QED
    BY <1>1, <2>1, <2>2, <2>3, RejectedShape
<1>4. ASSUME NEW c \in Calls
      PROVE  /\ outcome'[c] \notin {"pending", "asking"}
             /\ state = "opening" /\ outcome'[c] = "recording" => outcome[c] = "recording"
             /\ outcome[c] = "unknown" => outcome'[c] = "unknown"
  BY <1>1, RejectedShape
<1>5. generation > 0 => generation \in Generations
  BY GenerationOfThread DEF ClientOK
<1>6. DOMAIN outcome' = Calls
  BY <1>1 DEF Rejected
<1> QED
  BY <1>1, <1>2, <1>3, <1>4, <1>5, <1>6 DEF Ended

\* A request given to a live thread.
Sent(r) ==
    /\ generation' = generation
    /\ \/ /\ inflight = None /\ queue' = <<>> /\ inflight' = r
          /\ thread' = [thread EXCEPT ![generation].inbox = r]
       \/ inflight # None /\ queue' = Append(queue, r) /\ UNCHANGED <<inflight, thread>>

LEMMA SendSends ==
  ASSUME ClientOK, generation' = generation, NEW r \in Requests, Send(r)
  PROVE  Sent(r)
<1>1. CASE inflight = None
  <2>1. queue = <<>>
    BY <1>1 DEF ClientOK, QueueOK
  <2>2. Append(queue, r) = <<r>> /\ Append(queue, r) # <<>> /\ Head(<<r>>) = r /\ Tail(<<r>>) = <<>>
    BY <2>1
  <2> QED
    BY <1>1, <2>2 DEF Send, Pump, Sent
<1>2. CASE inflight # None
  BY <1>2 DEF Send, Sent
<1> QED
  BY <1>1, <1>2

LEMMA SentKeeps ==
  ASSUME ClientOK, Live, NEW r \in Requests, Sent(r),
         \/ /\ IsCall(r) /\ outcome[r.call] \notin {"pending", "asking"}
            /\ state # "closing"
            /\ outcome' = [outcome EXCEPT ![r.call] = AskedAs(r)]
         \/ r.op = "close" /\ state # "closing" /\ state' = "closing" /\ outcome' = outcome
         \/ r.op \in {"check", "open"} /\ inflight = None /\ outcome' = outcome
  PROVE  QueueOK' /\ ExchangeOK' /\ ThreadTypes' /\ RequestTypes' /\ Live'
<1>1. generation \in Generations /\ generation' = generation /\ generation > 0
  BY GenerationOfThread DEF ClientOK, Live, Sent
<1>2. ASSUME NEW g \in Generations
      PROVE  /\ thread'[g].phase = thread[g].phase /\ thread'[g].outbox = thread[g].outbox
             /\ thread'[g].claimed = thread[g].claimed
             /\ thread'[g].inbox = IF inflight = None /\ g = generation THEN r ELSE thread[g].inbox
  BY DEF ClientOK, OnlyCurrentRuns, IsThread, Sent
<1>3. ThreadTypes'
  BY <1>2 DEF ThreadTypes, ClientOK, StorageTypes
<1>4. Live'
  BY <1>1, <1>2 DEF Live
<1>5. RequestTypes'
  <2>1. inflight' \in Requests \cup {None}
    BY DEF Sent, ClientOK, StorageTypes
  <2>2. queue' \in Seq(Requests)
    <3>1. CASE queue' = <<>>
      BY <3>1, EmptyQueue
    <3>2. CASE queue' = Append(queue, r)
      BY <3>2 DEF ClientOK, StorageTypes
    <3> QED
      BY <3>1, <3>2 DEF Sent
  <2>3. DOMAIN outcome' = Calls
    BY DEF ClientOK, StorageTypes
  <2> QED
    BY <2>1, <2>2, <2>3 DEF RequestTypes
<1>6. ExchangeOK'
  <2>1. thread[generation].outbox = None \/ inflight # None
    BY DEF ClientOK, ExchangeOK, Current, Live
  <2>2. /\ thread'[generation].phase = "live"
        /\ inflight' # None
        /\ \/ thread'[generation].inbox = inflight' /\ thread'[generation].outbox = None
           \/ thread'[generation].inbox = None /\ thread'[generation].outbox # None
    <3>1. CASE inflight = None
      BY <1>1, <1>2, <2>1, <3>1, RequestShape DEF Sent, Live
    <3>2. CASE inflight # None
      BY <1>1, <1>2, <3>2, LiveThread DEF Sent, Live
    <3> QED
      BY <3>1, <3>2
  <2> QED
    BY <1>1, <2>2 DEF ExchangeOK, Current
<1>7. ASSUME inflight = None PROVE QueueOK'
  <2>1. queue' = <<>> /\ Len(queue') = 0 /\ inflight' = r
    BY <1>7 DEF Sent
  <2>2. ASSUME NEW c \in Calls PROVE outcome[c] \notin {"pending", "asking"}
    <3>1. queue = <<>> /\ Len(queue) = 0
      BY <1>7 DEF ClientOK, QueueOK
    <3> QED
      BY <1>7, <3>1, NoneShape DEF ClientOK, QueueOK, Waiting, InThread
  <2>3. r # None /\ (IsCall(r) => r.call \in Calls)
    BY RequestShape
  <2>4. CASE IsCall(r)
    <3>1. outcome' = [outcome EXCEPT ![r.call] = AskedAs(r)]
      BY <2>4 DEF IsCall
    <3>2. ASSUME NEW c \in Calls PROVE outcome'[c] = IF c = r.call THEN AskedAs(r) ELSE outcome[c]
      BY <3>1 DEF ClientOK, StorageTypes
    <3>3. ASSUME NEW c \in Calls, outcome'[c] \in {"pending", "asking"} PROVE InThread(c)'
      BY <2>1, <2>2, <2>4, <3>2, <3>3 DEF InThread
    <3>4. IsCall(inflight') => outcome'[inflight'.call] = AskedAs(inflight')
      BY <2>1, <2>3, <3>2
    <3>5. inflight' # None /\ inflight'.op # "close"
      BY <2>1, <2>3, <2>4 DEF IsCall
    <3> QED
      BY <2>1, <3>3, <3>4, <3>5 DEF QueueOK
  <2>5. CASE ~IsCall(r)
    <3>1. outcome' = outcome /\ (r.op = "close" => state' = "closing")
      BY <2>5 DEF IsCall
    <3> QED
      BY <2>1, <2>2, <2>3, <2>5, <3>1 DEF QueueOK
  <2> QED
    BY <2>4, <2>5
<1>8. ASSUME inflight # None PROVE QueueOK'
  <2>1. ~(r.op \in {"check", "open"}) /\ state # "closing" /\ inflight' = inflight
    BY <1>8 DEF Sent, IsCall
  <2> DEFINE n == Len(queue)
  <2>2. /\ n \in Nat /\ Len(queue') = n + 1 /\ queue'[n + 1] = r
        /\ \A i \in 1..n : queue'[i] = queue[i] /\ queue[i] \in Requests
    BY <1>8 DEF Sent, ClientOK, StorageTypes
  <2>3. \A i \in 1..n : queue[i].op \notin {"check", "open", "close"}
    BY <2>1 DEF ClientOK, QueueOK
  <2>4. inflight.op # "close"
    BY <2>1 DEF ClientOK, QueueOK
  <2>5. \A i \in 1..n : IsCall(queue[i]) => queue[i].call \in Calls
    BY <2>2, RequestShape
  <2>6. IsCall(inflight) => inflight.call \in Calls
    BY <1>8, LiveThread, RequestShape
  <2>7. IsCall(r) => r.call \in Calls
    BY RequestShape
  <2> HIDE DEF n
  <2>8. CASE IsCall(r)
    <3>1. outcome' = [outcome EXCEPT ![r.call] = AskedAs(r)] /\ outcome[r.call] \notin {"pending", "asking"}
      BY <2>8 DEF IsCall
    <3>2. \A c \in Calls : outcome'[c] = IF c = r.call THEN AskedAs(r) ELSE outcome[c]
      BY <3>1 DEF ClientOK, StorageTypes
    <3>3. /\ \A i \in 1..n : IsCall(queue[i]) => /\ outcome[queue[i].call] \in {"pending", "asking"}
                                                 /\ queue[i].call # r.call
          /\ IsCall(inflight) => /\ outcome[inflight.call] \in {"pending", "asking"}
                                 /\ inflight.call # r.call
      BY <3>1 DEF ClientOK, QueueOK, AskedAs, n
    <3>4. ASSUME NEW i \in 1..Len(queue')
          PROVE  /\ queue'[i].op \notin {"check", "open", "close"}
                 /\ IsCall(queue'[i]) => outcome'[queue'[i].call] = AskedAs(queue'[i])
                 /\ IsCall(queue'[i]) /\ IsCall(inflight') => queue'[i].call # inflight'.call
      <4>1. CASE i \in 1..n
        BY <2>1, <2>2, <2>3, <2>5, <3>2, <3>3, <4>1 DEF ClientOK, QueueOK, n
      <4>2. CASE i = n + 1
        BY <2>1, <2>2, <2>7, <2>8, <3>2, <3>3, <4>2 DEF IsCall
      <4> QED
        BY <2>2, <4>1, <4>2
    <3>5. ASSUME NEW i \in 1..Len(queue'), NEW j \in 1..Len(queue'),
                 IsCall(queue'[i]), IsCall(queue'[j]), queue'[i].call = queue'[j].call
          PROVE  i = j
      <4>1. CASE i \in 1..n /\ j \in 1..n
        BY <2>2, <3>5, <4>1 DEF ClientOK, QueueOK, n
      <4>2. CASE i = n + 1 /\ j \in 1..n
        BY <2>2, <3>3, <3>5, <4>2
      <4>3. CASE i \in 1..n /\ j = n + 1
        BY <2>2, <3>3, <3>5, <4>3
      <4> QED
        BY <2>2, <4>1, <4>2, <4>3
    <3>6. IsCall(inflight') => outcome'[inflight'.call] = AskedAs(inflight')
      BY <2>1, <2>6, <3>2, <3>3 DEF ClientOK, QueueOK
    <3>7. ASSUME NEW c \in Calls, outcome'[c] \in {"pending", "asking"}
          PROVE  Waiting(c)' \/ InThread(c)'
      <4>1. CASE c = r.call
        BY <2>2, <2>8, <4>1 DEF Waiting
      <4>2. CASE c # r.call
        <5>1. Waiting(c) \/ InThread(c)
          BY <3>2, <3>7, <4>2 DEF ClientOK, QueueOK
        <5>2. CASE InThread(c)
          BY <2>1, <5>2 DEF InThread
        <5>3. CASE Waiting(c)
          <6>1. PICK i \in 1..n : IsCall(queue[i]) /\ queue[i].call = c
            BY <5>3 DEF Waiting, n
          <6>2. i \in 1..Len(queue') /\ queue'[i] = queue[i]
            BY <2>2
          <6> QED
            BY <6>1, <6>2 DEF Waiting
        <5> QED
          BY <5>1, <5>2, <5>3
      <4> QED
        BY <4>1, <4>2
    <3>8. inflight' # None /\ inflight'.op # "close"
      BY <1>8, <2>1, <2>4
    <3> QED
      BY <3>4, <3>5, <3>6, <3>7, <3>8 DEF QueueOK
  <2>9. CASE ~IsCall(r)
    <3>1. outcome' = outcome /\ r.op = "close" /\ state' = "closing"
      BY <2>1, <2>9 DEF IsCall
    <3>2. ASSUME NEW i \in 1..Len(queue')
          PROVE  /\ queue'[i].op \notin {"check", "open"}
                 /\ queue'[i].op = "close" => i = Len(queue')
                 /\ IsCall(queue'[i]) => outcome'[queue'[i].call] = AskedAs(queue'[i])
                 /\ IsCall(queue'[i]) /\ IsCall(inflight') => queue'[i].call # inflight'.call
      <4>1. CASE i \in 1..n
        BY <2>1, <2>2, <2>3, <3>1, <4>1 DEF ClientOK, QueueOK, n
      <4>2. CASE i = n + 1
        BY <2>2, <2>9, <3>1, <4>2
      <4> QED
        BY <2>2, <4>1, <4>2
    <3>3. ASSUME NEW i \in 1..Len(queue'), NEW j \in 1..Len(queue'),
                 IsCall(queue'[i]), IsCall(queue'[j]), queue'[i].call = queue'[j].call
          PROVE  i = j
      <4>1. i \in 1..n /\ j \in 1..n
        BY <2>2, <2>9, <3>3
      <4> QED
        BY <2>2, <3>3, <4>1 DEF ClientOK, QueueOK, n
    <3>4. ASSUME NEW c \in Calls, outcome'[c] \in {"pending", "asking"}
          PROVE  Waiting(c)' \/ InThread(c)'
      <4>1. Waiting(c) \/ InThread(c)
        BY <3>1, <3>4 DEF ClientOK, QueueOK
      <4>2. CASE InThread(c)
        BY <2>1, <4>2 DEF InThread
      <4>3. CASE Waiting(c)
        <5>1. PICK i \in 1..n : IsCall(queue[i]) /\ queue[i].call = c
          BY <4>3 DEF Waiting, n
        <5>2. i \in 1..Len(queue') /\ queue'[i] = queue[i]
          BY <2>2
        <5> QED
          BY <5>1, <5>2 DEF Waiting
      <4> QED
        BY <4>1, <4>2, <4>3
    <3>5. inflight' # None /\ inflight'.op # "close" /\ (IsCall(inflight') => outcome'[inflight'.call] = AskedAs(inflight'))
      BY <1>8, <2>1, <2>4, <3>1 DEF ClientOK, QueueOK
    <3> QED
      BY <3>1, <3>2, <3>3, <3>4, <3>5 DEF QueueOK
  <2> QED
    BY <2>8, <2>9
<1> QED
  BY <1>3, <1>4, <1>5, <1>6, <1>7, <1>8

\* The answer to a call is taken, and the next request goes to the thread.
LEMMA AnsweredKeeps ==
  ASSUME ClientOK, generation' = generation, state' = state,
         IsCall(inflight), thread[generation].outbox # None,
         NEW x, x \notin {"pending", "asking"},
         Pump(queue, [thread EXCEPT ![generation].outbox = None]),
         outcome' = [outcome EXCEPT ![inflight.call] = x]
  PROVE  /\ QueueOK' /\ ExchangeOK' /\ ThreadTypes' /\ RequestTypes' /\ Live'
         /\ inflight' # None => inflight'.op \notin {"check", "open"}
<1> DEFINE n == Len(queue)
           call == inflight.call
<1>1. /\ generation \in Generations /\ generation > 0 /\ thread[generation].phase = "live"
      /\ inflight # None /\ inflight \in Requests /\ call \in Calls
      /\ thread[generation].inbox = None
  <2>1. inflight # None
    BY NoneShape
  <2>2. thread[generation].inbox = None /\ inflight \in Requests
    BY <2>1, LiveThread
  <2> QED
    BY <2>1, <2>2, LiveThread, RequestShape, GenerationOfThread DEF Generations
<1>2. ASSUME NEW c \in Calls PROVE outcome'[c] = IF c = call THEN x ELSE outcome[c]
  BY <1>1 DEF ClientOK, StorageTypes
<1>3. n \in Nat /\ queue \in Seq(Requests) /\ \A i \in 1..n : queue[i] \in Requests
  BY DEF ClientOK, StorageTypes
<1> DEFINE next == IF queue = <<>> THEN None ELSE queue[1]
<1>4. /\ inflight' = next
      /\ queue' = IF queue = <<>> THEN queue ELSE Tail(queue)
  BY <1>3 DEF Pump
<1>5. ASSUME NEW g \in Generations
      PROVE  /\ thread'[g].phase = thread[g].phase /\ thread'[g].claimed = thread[g].claimed
             /\ thread'[g].outbox = IF g = generation THEN None ELSE thread[g].outbox
             /\ thread'[g].inbox = IF g = generation THEN next ELSE thread[g].inbox
  <2> DEFINE taken == [thread EXCEPT ![generation].outbox = None]
  <2>1. /\ taken[g].phase = thread[g].phase /\ taken[g].claimed = thread[g].claimed
        /\ taken[g].outbox = IF g = generation THEN None ELSE thread[g].outbox
        /\ taken[g].inbox = thread[g].inbox
        /\ DOMAIN taken = Generations /\ IsThread(taken[g])
    BY DEF ClientOK, OnlyCurrentRuns, IsThread
  <2>2. thread' = IF queue = <<>> THEN taken ELSE [taken EXCEPT ![generation].inbox = queue[1]]
    BY <1>3 DEF Pump
  <2> HIDE DEF taken
  <2>3. CASE queue = <<>>
    BY <1>1, <2>1, <2>2, <2>3
  <2>4. CASE queue # <<>>
    BY <1>1, <2>1, <2>2, <2>4 DEF IsThread
  <2> QED
    BY <2>3, <2>4
<1>6. next \in Requests \cup {None}
  BY <1>3
<1>7. queue' \in Seq(Requests)
  BY <1>3, <1>4
<1>8. n > 0 => /\ Len(queue') = n - 1
               /\ \A i \in 1..(n - 1) : queue'[i] = queue[i + 1]
  BY <1>3, <1>4
<1>9. n = 0 => Len(queue') = 0
  BY <1>3, <1>4
<1>10. queue = <<>> <=> n = 0
  BY <1>3
<1>11. ASSUME NEW i \in 1..n
       PROVE  /\ queue[i].op \notin {"check", "open"}
              /\ queue[i].op = "close" => i = n /\ state = "closing"
              /\ IsCall(queue[i]) => /\ outcome[queue[i].call] = AskedAs(queue[i])
                                     /\ queue[i].call # call /\ queue[i].call \in Calls
              /\ \A j \in 1..n : IsCall(queue[i]) /\ IsCall(queue[j]) /\ queue[i].call = queue[j].call => i = j
  BY <1>3, RequestShape DEF ClientOK, QueueOK
<1>12. ASSUME NEW c \in Calls, outcome'[c] \in {"pending", "asking"}
       PROVE  \E i \in 1..n : IsCall(queue[i]) /\ queue[i].call = c
  <2>1. c # call /\ outcome[c] \in {"pending", "asking"}
    BY <1>2, <1>12
  <2> QED
    BY <2>1 DEF ClientOK, QueueOK, Waiting, InThread
<1> HIDE DEF n, next, call
<1>13. ThreadTypes'
  BY <1>5, <1>6 DEF ThreadTypes, ClientOK, StorageTypes
<1>14. RequestTypes'
  BY <1>1, <1>4, <1>6, <1>7 DEF RequestTypes, ClientOK, StorageTypes, call
<1>15. Live'
  BY <1>1, <1>5 DEF Live
<1>16. ExchangeOK'
  BY <1>1, <1>4, <1>5, <1>15 DEF ExchangeOK, Current
<1>17. inflight' # None => inflight'.op \notin {"check", "open"}
  BY <1>3, <1>4, <1>10, <1>11 DEF next
<1>18. CASE n = 0
  <2>1. inflight' = None /\ queue' = <<>>
    BY <1>4, <1>10, <1>18 DEF next
  <2>2. \A c \in Calls : outcome'[c] \notin {"pending", "asking"}
    BY <1>12, <1>18
  <2>3. QueueOK'
    BY <2>1, <2>2, EmptyQueue, NoneShape DEF QueueOK
  <2> QED
    BY <2>3, <1>13, <1>14, <1>15, <1>16, <1>17
<1>19. CASE n > 0
  <2>1. inflight' = queue[1] /\ 1 \in 1..n /\ inflight' \in Requests
    BY <1>3, <1>4, <1>10, <1>19 DEF next
  <2>2. inflight' # None
    BY <2>1, RequestShape
  <2>3. ASSUME NEW i \in 1..Len(queue')
        PROVE  i + 1 \in 1..n /\ i + 1 # 1 /\ queue'[i] = queue[i + 1] /\ (i = Len(queue') <=> i + 1 = n)
    BY <1>3, <1>8, <1>19
  <2>4. ASSUME NEW i \in 1..Len(queue')
        PROVE  /\ queue'[i].op \notin {"check", "open"}
               /\ queue'[i].op = "close" => i = Len(queue') /\ state' = "closing"
               /\ IsCall(queue'[i]) => outcome'[queue'[i].call] = AskedAs(queue'[i])
               /\ IsCall(queue'[i]) /\ IsCall(inflight') => queue'[i].call # inflight'.call
    <3>1. i + 1 \in 1..n /\ i + 1 # 1 /\ queue'[i] = queue[i + 1] /\ (i = Len(queue') <=> i + 1 = n)
      BY <2>3
    <3>2. /\ queue[i + 1].op \notin {"check", "open"}
          /\ queue[i + 1].op = "close" => i + 1 = n /\ state = "closing"
          /\ IsCall(queue[i + 1]) => /\ outcome[queue[i + 1].call] = AskedAs(queue[i + 1])
                                     /\ queue[i + 1].call # call /\ queue[i + 1].call \in Calls
      BY <1>11, <3>1
    <3>3. IsCall(queue[1]) /\ IsCall(queue[i + 1]) => queue[i + 1].call # queue[1].call
      BY <1>11, <2>1, <3>1
    <3>4. IsCall(queue[i + 1]) => outcome'[queue[i + 1].call] = outcome[queue[i + 1].call]
      BY <1>2, <3>2
    <3> QED
      BY <2>1, <3>1, <3>2, <3>3, <3>4
  <2>5. ASSUME NEW i \in 1..Len(queue'), NEW j \in 1..Len(queue'),
               IsCall(queue'[i]), IsCall(queue'[j]), queue'[i].call = queue'[j].call
        PROVE  i = j
    <3>1. i + 1 = j + 1
      BY <1>11, <2>3, <2>5
    <3> QED
      BY <3>1
  <2>6. IsCall(inflight') => outcome'[inflight'.call] = AskedAs(inflight')
    BY <1>2, <1>11, <2>1
  <2>7. inflight'.op = "close" => queue' = <<>> /\ state' = "closing"
    <3>1. SUFFICES ASSUME inflight'.op = "close" PROVE queue' = <<>> /\ state' = "closing"
      OBVIOUS
    <3>2. n = 1 /\ state = "closing"
      BY <1>11, <2>1, <3>1
    <3>3. Len(queue') = 0
      BY <1>8, <3>2
    <3> QED
      BY <1>7, <3>2, <3>3
  <2>8. ASSUME NEW c \in Calls, outcome'[c] \in {"pending", "asking"} PROVE Waiting(c)' \/ InThread(c)'
    <3>1. PICK i \in 1..n : IsCall(queue[i]) /\ queue[i].call = c
      BY <1>12, <2>8
    <3>2. CASE i = 1
      BY <2>1, <3>1, <3>2 DEF InThread
    <3>3. CASE i # 1
      <4>1. i - 1 \in 1..Len(queue') /\ queue'[i - 1] = queue[i]
        BY <1>3, <1>8, <1>19, <3>3
      <4> QED
        BY <3>1, <4>1 DEF Waiting
    <3> QED
      BY <3>2, <3>3
  <2>9. QueueOK'
    BY <2>2, <2>4, <2>5, <2>6, <2>7, <2>8 DEF QueueOK
  <2> QED
    BY <2>9, <1>13, <1>14, <1>15, <1>16, <1>17
<1> QED
  BY <1>3, <1>18, <1>19

RestTypes ==
    /\ state \in States /\ step \in Steps
    /\ claim \in Nat /\ epoch \in Nat
    /\ prepared \in [Calls -> [on: Nat, epoch: Nat, claimed: BOOLEAN]]
    /\ \A k \in Commands : /\ receipts[k].found \in BOOLEAN
                           /\ receipts[k].found => receipts[k].epoch \in Nat

LEMMA TypeParts == StorageTypes <=> ThreadTypes /\ RequestTypes /\ RestTypes
  BY DEF StorageTypes, ThreadTypes, RequestTypes, RestTypes

\* A step that leaves the requests, and the calls that wait, as they are.
LEMMA QueueFrame ==
  ASSUME ClientOK, UNCHANGED <<queue, inflight>>, state = "closing" => state' = "closing" \/ inflight = None,
         DOMAIN outcome' = Calls,
         \A c \in Calls : outcome[c] \in {"pending", "asking"} \/ outcome'[c] \in {"pending", "asking"}
                             => outcome'[c] = outcome[c]
  PROVE  QueueOK' /\ RequestTypes'
<1>1. RequestTypes'
  BY DEF RequestTypes, ClientOK, StorageTypes
<1>2. \A i \in 1..Len(queue) : IsCall(queue[i]) => outcome'[queue[i].call] = AskedAs(queue[i])
  <2> SUFFICES ASSUME NEW i \in 1..Len(queue), IsCall(queue[i])
               PROVE  outcome'[queue[i].call] = AskedAs(queue[i])
    OBVIOUS
  <2>1. queue[i] \in Requests
    BY DEF ClientOK, StorageTypes
  <2>2. queue[i].call \in Calls /\ outcome[queue[i].call] = AskedAs(queue[i])
    BY <2>1, RequestShape DEF ClientOK, QueueOK
  <2> QED
    BY <2>2 DEF AskedAs
<1>3. IsCall(inflight) => outcome'[inflight.call] = AskedAs(inflight)
  <2> SUFFICES ASSUME IsCall(inflight) PROVE outcome'[inflight.call] = AskedAs(inflight)
    OBVIOUS
  <2>1. inflight \in Requests
    BY NoneShape DEF ClientOK, StorageTypes
  <2>2. inflight.call \in Calls /\ outcome[inflight.call] = AskedAs(inflight)
    BY <2>1, RequestShape DEF ClientOK, QueueOK
  <2> QED
    BY <2>2 DEF AskedAs
<1>4. ASSUME NEW c \in Calls, outcome'[c] \in {"pending", "asking"} PROVE Waiting(c)' \/ InThread(c)'
  <2>1. Waiting(c) \/ InThread(c)
    BY <1>4 DEF ClientOK, QueueOK
  <2> QED
    BY <2>1 DEF Waiting, InThread
<1>5. \A i \in 1..Len(queue) : queue[i].op = "close" => i = Len(queue) /\ state' = "closing"
  <2>1. inflight = None => Len(queue) = 0
    BY DEF ClientOK, QueueOK
  <2> QED
    BY <2>1 DEF ClientOK, QueueOK
<1>6. inflight.op = "close" => queue = <<>> /\ state' = "closing"
  BY NoneShape DEF ClientOK, QueueOK
<1>7. /\ inflight = None => queue = <<>>
      /\ \A i \in 1..Len(queue) : /\ queue[i].op \notin {"check", "open"}
                                  /\ IsCall(queue[i]) /\ IsCall(inflight) => queue[i].call # inflight.call
      /\ \A i, j \in 1..Len(queue) :
            IsCall(queue[i]) /\ IsCall(queue[j]) /\ queue[i].call = queue[j].call => i = j
  BY DEF ClientOK, QueueOK
<1>8. QueueOK'
  BY <1>2, <1>3, <1>4, <1>5, <1>6, <1>7 DEF QueueOK
<1> QED
  BY <1>1, <1>8

\* A step that leaves the threads as they are.
LEMMA ThreadFrame ==
  ASSUME ClientOK, UNCHANGED <<thread, generation, inflight>>,
         DOMAIN outcome' = Calls,
         \A c \in Calls : outcome[c] = "unknown" /\ ~Live => outcome'[c] = "unknown"
  PROVE  ExchangeOK' /\ ThreadTypes' /\ (Live' <=> Live)
<1>1. ThreadTypes' /\ (Live' <=> Live)
  BY DEF ThreadTypes, ClientOK, StorageTypes, Live
<1>2. ASSUME generation > 0, Current.phase = "ending", Current.inbox.op \in {"prepare", "write"}
      PROVE  outcome'[Current.inbox.call] = "unknown"
  <2>1. Current.inbox \in Requests
    BY <1>2, GenerationOfThread, NoneShape DEF ClientOK, StorageTypes, Current
  <2>2. Current.inbox.call \in Calls
    BY <1>2, <2>1, RequestShape DEF IsCall
  <2> QED
    BY <1>2, <2>2 DEF ClientOK, ExchangeOK, Live, Current
<1>3. ExchangeOK'
  BY <1>1, <1>2 DEF ClientOK, ExchangeOK, Live, Current
<1> QED
  BY <1>1, <1>3

LEMMA RunningIsCurrent ==
  ASSUME OnlyCurrentRuns, NEW g \in Generations, Running(g)
  PROVE  g = generation /\ generation > 0
  BY BoundsAssumption DEF OnlyCurrentRuns, Running, Generations

\* Thread g takes its request and posts an answer.
Served(g) ==
    /\ UNCHANGED <<queue, inflight, generation>>
    /\ Running(g) /\ thread[g].inbox.op # "none"
    /\ thread'[g].inbox = None /\ thread'[g].outbox \in Answers /\ thread'[g].phase = thread[g].phase
    /\ thread'[g].claimed \in Nat
    /\ \A h \in Generations \ {g} : thread'[h] = thread[h]

LEMMA AnswerNotNone == \A a \in Answers : a # None
  BY DEF Answers, None

LEMMA ServedKeeps ==
  ASSUME ClientOK, NEW g \in Generations, Served(g)
  PROVE  ExchangeOK' /\ ThreadTypes' /\ (Live' <=> Live) /\ g = generation
<1>1. g = generation /\ generation > 0 /\ generation' = generation
  BY RunningIsCurrent DEF Served, ClientOK
<1>2. ThreadTypes'
  BY DEF ThreadTypes, ClientOK, StorageTypes, Served
<1>3. Live' <=> Live
  BY <1>1 DEF Live, Served
<1>4. ExchangeOK'
  <2>1. Live => inflight # None
    <3>1. thread[generation].inbox # None
      BY <1>1, NoneShape DEF Served
    <3> QED
      BY <1>1, <3>1 DEF ClientOK, ExchangeOK, Current
  <2>2. thread'[generation].inbox = None /\ thread'[generation].outbox # None /\ inflight' = inflight
    BY <1>1, AnswerNotNone DEF Served
  <2> QED
    BY <1>1, <1>3, <2>1, <2>2, NoneShape DEF ExchangeOK, Current
<1> QED
  BY <1>1, <1>2, <1>3, <1>4

LEMMA ClientParts ==
  ASSUME OnlyCurrentRuns', ThreadTypes', RequestTypes', RestTypes', QueueOK', StepOK', ExchangeOK'
  PROVE  ClientOK'
  BY TypeParts DEF ClientOK, StorageTypes, ThreadTypes, RequestTypes, RestTypes

\* The steps that fail the storage, or end the thread of a refused open.
LEMMA FailSteps ==
  ASSUME ClientOK, OnlyCurrentRuns',
         HelloRefused \/ Refuse \/ RefuseDone \/ Deadline \/ ThreadDies \/ (AnswerClose /\ ~Current.outbox.ok)
  PROVE  ClientOK'
<1>1. /\ StopThread /\ generation' = generation
      /\ UNCHANGED <<prepared, dbVars>>
      /\ \/ state' = "unavailable" /\ step' = "none" /\ claim' = 0
         \/ state = "opening" /\ state' = state /\ claim' = claim /\ lost' = TRUE /\ step' = step
         \/ step \in OpeningSteps /\ state' = state /\ claim' = claim /\ step' = "refuse"
  BY DEF HelloRefused, Refuse, RefuseDone, Deadline, ThreadDies, AnswerClose, ThreadFailed, Fail, OpeningSteps
<1>2. Ended
  BY <1>1, StopEnds
<1>3. /\ QueueOK' /\ ExchangeOK' /\ ThreadTypes' /\ RequestTypes' /\ ~Live'
      /\ inflight' = None /\ queue' = <<>>
      /\ \A c \in Calls : state = "opening" /\ outcome'[c] = "recording" => outcome[c] = "recording"
  BY <1>2, EndedKeeps DEF Ended
<1>4. RestTypes'
  BY <1>1 DEF ClientOK, StorageTypes, RestTypes, dbVars, States, Steps
<1>5. StepOK'
  <2>1. state = "opening" <=> step \in OpeningSteps
    BY DEF ClientOK, StepOK
  <2>2. \/ state' = "unavailable" /\ step' = "none"
        \/ state' = "opening" /\ state = "opening" /\ step' \in OpeningSteps /\ (lost' = TRUE \/ step' = "refuse")
    BY <1>1, <2>1 DEF OpeningSteps
  <2>3. \A c \in Calls : /\ prepared'[c].on <= generation'
                         /\ state' = "opening" /\ outcome'[c] = "recording" => prepared'[c].on < generation'
    <3>1. \A c \in Calls : /\ prepared[c].on <= generation
                           /\ state = "opening" /\ outcome[c] = "recording" => prepared[c].on < generation
      BY DEF ClientOK, StepOK
    <3>2. prepared' = prepared /\ generation' = generation
      BY <1>1
    <3>3. state' = "opening" => state = "opening"
      BY <2>2
    <3> QED
      BY <1>3, <3>1, <3>2, <3>3
  <2> QED
    BY <1>3, <2>2, <2>3 DEF StepOK, OpeningSteps
<1> QED
  BY <1>3, <1>4, <1>5, ClientParts

\* A prepare whose identity cannot be recorded.
LEMMA RecordFailStep ==
  ASSUME ClientOK, OnlyCurrentRuns', NEW c \in Calls, RecordFails(c)
  PROVE  ClientOK'
<1>1. CASE state # "unavailable" /\ prepared[c].on = generation
  <2> DEFINE rejected == Rejected
  <2>1. /\ outcome[c] = "recording" /\ state' = "unavailable" /\ claim' = 0
        /\ thread' = [thread EXCEPT ![generation].phase = IF @ = "live" THEN "ending" ELSE @]
        /\ queue' = <<>> /\ inflight' = None
        /\ outcome' = [Rejected EXCEPT ![c] = "committed"]
        /\ step' = step /\ generation' = generation /\ prepared' = prepared
        /\ epoch' = epoch /\ receipts' = receipts
    BY <1>1 DEF RecordFails, dbVars
  <2>2. \A d \in Calls : outcome'[d] = IF d = c THEN "committed" ELSE Rejected[d]
    BY <2>1, RejectedShape
  <2>3. ASSUME NEW g \in Generations
        PROVE  /\ thread'[g].inbox = thread[g].inbox
               /\ thread'[g].outbox \in {thread[g].outbox, None}
               /\ thread'[g].claimed = thread[g].claimed
               /\ \/ thread'[g].phase = thread[g].phase
                  \/ thread[g].phase = "live" /\ thread'[g].phase = "ending"
               /\ g = generation => thread'[g].phase # "live"
    BY <2>1 DEF ClientOK, OnlyCurrentRuns, IsThread
  <2>4. ASSUME generation > 0, thread[generation].phase = "live", thread[generation].inbox.op \in {"prepare", "write"}
        PROVE  outcome'[thread[generation].inbox.call] = "unknown"
    <3>1. inflight = thread[generation].inbox /\ inflight \in Requests
      BY <2>4, InboxOfLive
    <3>2. inflight.call \in Calls /\ IsCall(inflight)
      BY <2>4, <3>1, RequestShape DEF IsCall
    <3>3. outcome[inflight.call] = "pending" /\ InThread(inflight.call)
      BY <2>4, <3>1, <3>2 DEF ClientOK, QueueOK, AskedAs, InThread
    <3> QED
      BY <2>1, <2>2, <3>1, <3>2, <3>3, RejectedShape
  <2>5. ASSUME NEW d \in Calls
        PROVE  /\ outcome'[d] \notin {"pending", "asking"}
               /\ outcome'[d] = "recording" => outcome[d] = "recording"
               /\ outcome[d] = "unknown" => outcome'[d] = "unknown"
    BY <2>1, <2>2, RejectedShape
  <2>6. DOMAIN outcome' = Calls
    BY <2>1, RejectedShape
  <2>7. Ended
    BY <2>1, <2>3, <2>4, <2>5, <2>6, GenerationOfThread DEF Ended, ClientOK
  <2>8. QueueOK' /\ ExchangeOK' /\ ThreadTypes' /\ RequestTypes' /\ ~Live'
    BY <2>7, EndedKeeps
  <2>9. RestTypes'
    BY <2>1 DEF ClientOK, StorageTypes, RestTypes, States
  <2>10. state # "opening"
    BY <1>1, <2>1 DEF ClientOK, StepOK, StorageTypes
  <2>11. StepOK'
    <3>1. step' \notin OpeningSteps
      BY <2>1, <2>10 DEF ClientOK, StepOK
    <3> QED
      BY <2>1, <2>8, <3>1 DEF ClientOK, StepOK, OpeningSteps
  <2> QED
    BY <2>8, <2>9, <2>11, ClientParts
<1>2. CASE ~(state # "unavailable" /\ prepared[c].on = generation)
  <2>1. /\ outcome[c] = "recording" /\ outcome' = [outcome EXCEPT ![c] = "committed"]
        /\ UNCHANGED <<state, claim, queue, inflight, thread, step, lost, generation, prepared, epoch, receipts>>
    BY <1>2 DEF RecordFails, dbVars
  <2>2. \A d \in Calls : outcome'[d] = IF d = c THEN "committed" ELSE outcome[d]
    BY <2>1 DEF ClientOK, StorageTypes
  <2>3. DOMAIN outcome' = Calls
    BY <2>1 DEF ClientOK, StorageTypes
  <2>4. QueueOK' /\ RequestTypes'
    BY <2>1, <2>2, <2>3, QueueFrame
  <2>5. ExchangeOK' /\ ThreadTypes' /\ (Live' <=> Live)
    BY <2>1, <2>2, <2>3, ThreadFrame
  <2>6. RestTypes'
    BY <2>1 DEF ClientOK, StorageTypes, RestTypes
  <2>7. StepOK'
    BY <2>1, <2>2, <2>5 DEF ClientOK, StepOK
  <2> QED
    BY <2>4, <2>5, <2>6, <2>7, ClientParts
<1> QED
  BY <1>1, <1>2

LEMMA RecordDoneStep ==
  ASSUME ClientOK, OnlyCurrentRuns', NEW c \in Calls, RecordDone(c)
  PROVE  ClientOK'
<1>1. /\ outcome[c] = "recording"
      /\ outcome' = [outcome EXCEPT ![c] = "ok"] \/ outcome' = [outcome EXCEPT ![c] = "committed"]
      /\ claim' \in {claim, prepared[c].epoch}
      /\ UNCHANGED <<state, queue, inflight, thread, step, lost, generation, prepared, epoch, receipts>>
  BY DEF RecordDone, dbVars
<1>2. \A d \in Calls : outcome'[d] = outcome[d] \/ (d = c /\ outcome'[d] \in {"ok", "committed"})
  <2>1. DOMAIN outcome = Calls
    BY DEF ClientOK, StorageTypes
  <2> QED
    BY <1>1, <2>1
<1>3. DOMAIN outcome' = Calls
  BY <1>1 DEF ClientOK, StorageTypes
<1>4. QueueOK' /\ RequestTypes'
  BY <1>1, <1>2, <1>3, QueueFrame
<1>5. ExchangeOK' /\ ThreadTypes' /\ (Live' <=> Live)
  BY <1>1, <1>2, <1>3, ThreadFrame
<1>6. RestTypes'
  BY <1>1 DEF ClientOK, StorageTypes, RestTypes
<1>7. StepOK'
  BY <1>1, <1>2, <1>5 DEF ClientOK, StepOK
<1> QED
  BY <1>4, <1>5, <1>6, <1>7, ClientParts

\* The steps of an open that goes on.
LEMMA ReopenStep ==
  ASSUME ClientOK, OnlyCurrentRuns', Reopen
  PROVE  ClientOK'
<1>1. /\ generation < MaxOpens /\ generation' = generation + 1
      /\ generation > 0 => thread[generation].phase = "gone"
      /\ state' = "opening" /\ step' = "hello" /\ claim' = 0 /\ lost' = FALSE
      /\ thread' = [thread EXCEPT ![generation + 1] = IdleThread("live")]
      /\ UNCHANGED <<queue, inflight, outcome, prepared, epoch, receipts>>
      /\ state # "closing"
  BY DEF Reopen, Current, dbVars
<1>2. generation \in Nat /\ generation' \in Generations /\ generation' > 0
  BY <1>1, BoundsAssumption DEF ClientOK, OnlyCurrentRuns, Generations
<1>3. inflight = None
  BY <1>1 DEF ClientOK, StepOK, Live
<1>4. /\ thread'[generation'] = IdleThread("live")
      /\ \A g \in Generations \ {generation'} : thread'[g] = thread[g]
  BY <1>1, <1>2 DEF ClientOK, OnlyCurrentRuns
<1>5. /\ IdleThread("live").phase = "live" /\ IdleThread("live").inbox = None
      /\ IdleThread("live").outbox = None /\ IdleThread("live").claimed = 0
  BY DEF IdleThread, Disconnected
<1>6. ThreadTypes'
  BY <1>4, <1>5 DEF ThreadTypes, ClientOK, StorageTypes, Phases
<1>7. Live' /\ ExchangeOK'
  BY <1>1, <1>2, <1>3, <1>4, <1>5 DEF Live, ExchangeOK, Current
<1>8. QueueOK' /\ RequestTypes'
  BY <1>1, QueueFrame DEF ClientOK, StorageTypes
<1>9. RestTypes'
  BY <1>1 DEF ClientOK, StorageTypes, RestTypes, States, Steps
<1>10. \A c \in Calls : prepared'[c].on <= generation' /\ prepared'[c].on < generation'
  BY <1>1, <1>2 DEF ClientOK, StepOK, StorageTypes
<1>11. StepOK'
  <2>1. queue' = <<>>
    BY <1>1, <1>3 DEF ClientOK, QueueOK
  <2> QED
    BY <1>1, <1>3, <1>7, <1>10, <2>1 DEF StepOK, OpeningSteps
<1> QED
  BY <1>6, <1>7, <1>8, <1>9, <1>11, ClientParts

LEMMA HelloStep ==
  ASSUME ClientOK, OnlyCurrentRuns', Hello
  PROVE  ClientOK'
<1>1. PICK next \in {"check", "open"} :
        /\ step = "hello" /\ ~lost /\ step' = next /\ Send(Request(next))
        /\ UNCHANGED <<state, lost, generation, claim, outcome, prepared, epoch, receipts>>
  BY DEF Hello, dbVars
<1>2. state = "opening" /\ inflight = None /\ Live
  BY <1>1 DEF ClientOK, StepOK, OpeningSteps
<1>3. Request(next) \in Requests /\ Request(next).op = next
  BY DEF Request, Requests
<1>4. Sent(Request(next))
  BY <1>1, <1>3, SendSends
<1>5. QueueOK' /\ ExchangeOK' /\ ThreadTypes' /\ RequestTypes' /\ Live'
  BY <1>1, <1>2, <1>3, <1>4, SentKeeps
<1>6. RestTypes'
  BY <1>1 DEF ClientOK, StorageTypes, RestTypes, Steps
<1>7. inflight' = Request(next) /\ queue' = <<>>
  BY <1>2, <1>4 DEF Sent
<1>8. \A c \in Calls : /\ prepared'[c].on <= generation'
                       /\ state' = "opening" /\ outcome'[c] = "recording" => prepared'[c].on < generation'
  BY <1>1 DEF ClientOK, StepOK
<1>9. StepOK'
  BY <1>1, <1>2, <1>3, <1>5, <1>7, <1>8 DEF StepOK, OpeningSteps
<1> QED
  BY <1>5, <1>6, <1>9, ClientParts

LEMMA OpenDoneStep ==
  ASSUME ClientOK, OnlyCurrentRuns', OpenDone
  PROVE  ClientOK'
<1>1. /\ step = "name" /\ ~lost /\ state' = "ready" /\ step' = "none"
      /\ UNCHANGED <<lost, generation, claim, queue, inflight, thread, outcome, prepared, epoch, receipts>>
  BY DEF OpenDone, dbVars
<1>2. state = "opening" /\ inflight = None /\ Live
  BY <1>1 DEF ClientOK, StepOK, OpeningSteps
<1>3. QueueOK' /\ RequestTypes'
  BY <1>1, <1>2, QueueFrame DEF ClientOK, StorageTypes
<1>4. ExchangeOK' /\ ThreadTypes' /\ (Live' <=> Live)
  BY <1>1, ThreadFrame DEF ClientOK, StorageTypes
<1>5. RestTypes'
  BY <1>1 DEF ClientOK, StorageTypes, RestTypes, Steps, States
<1>6. StepOK'
  BY <1>1, <1>2, <1>4 DEF ClientOK, StepOK, OpeningSteps
<1> QED
  BY <1>3, <1>4, <1>5, <1>6, ClientParts

\* A call that reaches the queue, and one that is refused.
LEMMA SendCall ==
  ASSUME ClientOK, OnlyCurrentRuns', NEW r \in Requests, IsCall(r), state = "ready",
         outcome[r.call] \notin {"pending", "asking"},
         Send(r), outcome' = [outcome EXCEPT ![r.call] = AskedAs(r)],
         RestTypes', UNCHANGED <<state, step, lost, generation>>,
         \A d \in Calls : prepared'[d].on \in {prepared[d].on, generation}
  PROVE  ClientOK'
<1>1. Live /\ step \notin OpeningSteps \cup {"leaving"}
  BY DEF ClientOK, StepOK
<1>2. Sent(r)
  BY SendSends
<1>3. QueueOK' /\ ExchangeOK' /\ ThreadTypes' /\ RequestTypes' /\ Live'
  BY <1>1, <1>2, SentKeeps
<1>4. inflight'.op \notin {"check", "open"}
  BY <1>2, NoneShape DEF Sent, ClientOK, StepOK, IsCall
<1>5. \A d \in Calls : prepared'[d].on <= generation'
  BY GenerationOfThread DEF ClientOK, StepOK
<1>6. StepOK'
  BY <1>1, <1>3, <1>4, <1>5 DEF StepOK, OpeningSteps
<1> QED
  BY <1>3, <1>6, ClientParts

LEMMA RefuseCall ==
  ASSUME ClientOK, OnlyCurrentRuns', NEW c \in Calls, outcome[c] = "idle",
         outcome' = [outcome EXCEPT ![c] = "not-committed"],
         RestTypes', UNCHANGED <<state, step, lost, generation, queue, inflight, thread>>,
         \A d \in Calls : prepared'[d].on = prepared[d].on \/ (d = c /\ prepared'[d].on = generation)
  PROVE  ClientOK'
<1>1. /\ \A d \in Calls : outcome'[d] = IF d = c THEN "not-committed" ELSE outcome[d]
      /\ DOMAIN outcome' = Calls
  BY DEF ClientOK, StorageTypes
<1>2. QueueOK' /\ RequestTypes'
  BY <1>1, QueueFrame
<1>3. ExchangeOK' /\ ThreadTypes' /\ (Live' <=> Live)
  BY <1>1, ThreadFrame
<1>4. \A d \in Calls : /\ prepared'[d].on <= generation'
                       /\ state' = "opening" /\ outcome'[d] = "recording" => prepared'[d].on < generation'
  BY <1>1, GenerationOfThread DEF ClientOK, StepOK
<1>5. StepOK'
  BY <1>3, <1>4 DEF ClientOK, StepOK
<1> QED
  BY <1>2, <1>3, <1>5, ClientParts

LEMMA CallRequestShape ==
  ASSUME NEW op \in {"prepare", "write", "receipt"}, NEW c \in Calls, NEW e \in Nat,
         op = "write" <=> e # 0, op = "prepare" => Kind[c] = "prepare"
  PROVE  /\ CallRequest(op, c, e) \in Requests /\ IsCall(CallRequest(op, c, e))
         /\ CallRequest(op, c, e).call = c /\ CallRequest(op, c, e).op = op
         /\ AskedAs(CallRequest(op, c, e)) = IF op = "receipt" THEN "asking" ELSE "pending"
  BY DEF CallRequest, Requests, IsCall, AskedAs

LEMMA CallSteps ==
  ASSUME ClientOK, OnlyCurrentRuns', NEW c \in Calls, CallPrepare(c) \/ CallWrite(c) \/ AskReceipt(c)
  PROVE  ClientOK'
<1>1. CASE CallPrepare(c)
  <2>1. /\ outcome[c] = "idle" /\ prepared' = [prepared EXCEPT ![c].on = generation] /\ Kind[c] = "prepare"
        /\ UNCHANGED <<state, step, lost, generation, claim, epoch, receipts>>
    BY <1>1 DEF CallPrepare, dbVars
  <2>2. \A d \in Calls : prepared'[d].on = prepared[d].on \/ (d = c /\ prepared'[d].on = generation)
    BY <2>1 DEF ClientOK, StorageTypes
  <2>3. RestTypes'
    BY <2>1, GenerationOfThread DEF ClientOK, StorageTypes, RestTypes
  <2>4. CASE state = "ready" /\ ~QueueFull
    <3>1. PICK r : r = CallRequest("prepare", c, 0)
      OBVIOUS
    <3>2. r \in Requests /\ IsCall(r) /\ r.call = c /\ AskedAs(r) = "pending"
      BY <2>1, <3>1, CallRequestShape
    <3>3. Send(r) /\ outcome' = [outcome EXCEPT ![r.call] = AskedAs(r)]
      BY <1>1, <2>4, <3>1, <3>2 DEF CallPrepare
    <3> QED
      BY <2>1, <2>2, <2>3, <2>4, <3>2, <3>3, SendCall
  <2>5. CASE ~(state = "ready" /\ ~QueueFull)
    <3>1. outcome' = [outcome EXCEPT ![c] = "not-committed"] /\ UNCHANGED <<queue, inflight, thread>>
      BY <1>1, <2>5 DEF CallPrepare
    <3> QED
      BY <2>1, <2>2, <2>3, <3>1, RefuseCall
  <2> QED
    BY <2>4, <2>5
<1>2. CASE CallWrite(c)
  <2>1. /\ outcome[c] = "idle"
        /\ UNCHANGED <<state, step, lost, generation, claim, prepared, epoch, receipts>>
    BY <1>2 DEF CallWrite, dbVars
  <2>2. RestTypes'
    BY <2>1 DEF ClientOK, StorageTypes, RestTypes
  <2>3. CASE state = "ready" /\ claim # 0 /\ ~QueueFull
    <3>1. PICK r : r = CallRequest("write", c, claim)
      OBVIOUS
    <3>2. claim \in Nat
      BY DEF ClientOK, StorageTypes
    <3>3. r \in Requests /\ IsCall(r) /\ r.call = c /\ AskedAs(r) = "pending"
      BY <2>3, <3>1, <3>2, CallRequestShape
    <3>4. Send(r) /\ outcome' = [outcome EXCEPT ![r.call] = AskedAs(r)]
      BY <1>2, <2>3, <3>1, <3>3 DEF CallWrite
    <3>5. \A d \in Calls : prepared'[d].on \in {prepared[d].on, generation}
      BY <2>1
    <3> QED
      BY <2>1, <2>2, <2>3, <3>3, <3>4, <3>5, SendCall
  <2>4. CASE ~(state = "ready" /\ claim # 0 /\ ~QueueFull)
    <3>1. outcome' = [outcome EXCEPT ![c] = "not-committed"] /\ UNCHANGED <<queue, inflight, thread>>
      BY <1>2, <2>4 DEF CallWrite
    <3> QED
      BY <2>1, <2>2, <3>1, RefuseCall
  <2> QED
    BY <2>3, <2>4
<1>3. CASE AskReceipt(c)
  <2>1. /\ outcome[c] = "unknown" /\ state = "ready"
        /\ Send(CallRequest("receipt", c, 0)) /\ outcome' = [outcome EXCEPT ![c] = "asking"]
        /\ UNCHANGED <<state, step, lost, generation, claim, prepared, epoch, receipts>>
    BY <1>3 DEF AskReceipt, dbVars
  <2>2. RestTypes'
    BY <2>1 DEF ClientOK, StorageTypes, RestTypes
  <2>3. PICK r : r = CallRequest("receipt", c, 0)
    OBVIOUS
  <2>4. r \in Requests /\ IsCall(r) /\ r.call = c /\ AskedAs(r) = "asking"
    BY <2>3, CallRequestShape
  <2>5. Send(r) /\ outcome' = [outcome EXCEPT ![r.call] = AskedAs(r)]
    BY <2>1, <2>3, <2>4
  <2>6. \A d \in Calls : prepared'[d].on \in {prepared[d].on, generation}
    BY <2>1
  <2> QED
    BY <2>1, <2>2, <2>4, <2>5, <2>6, SendCall
<1> QED
  BY <1>1, <1>2, <1>3

LEMMA CloseStep ==
  ASSUME ClientOK, OnlyCurrentRuns', Close
  PROVE  ClientOK'
<1>1. /\ state = "ready" /\ state' = "closing" /\ Send(Request("close"))
      /\ UNCHANGED <<step, lost, generation, claim, outcome, prepared, epoch, receipts>>
  BY DEF Close, dbVars
<1>2. PICK r : r = Request("close")
  OBVIOUS
<1>3. r \in Requests /\ r.op = "close"
  BY <1>2 DEF Request, Requests
<1>4. Live /\ step \notin OpeningSteps \cup {"leaving"}
  BY <1>1 DEF ClientOK, StepOK
<1>5. Sent(r)
  BY <1>1, <1>2, <1>3, SendSends
<1>6. QueueOK' /\ ExchangeOK' /\ ThreadTypes' /\ RequestTypes' /\ Live'
  BY <1>1, <1>3, <1>4, <1>5, SentKeeps
<1>7. inflight'.op \notin {"check", "open"}
  BY <1>1, <1>3, <1>5, NoneShape DEF Sent, ClientOK, StepOK
<1>8. RestTypes'
  BY <1>1 DEF ClientOK, StorageTypes, RestTypes, States
<1>9. \A c \in Calls : prepared'[c].on <= generation'
  BY <1>1 DEF ClientOK, StepOK
<1>10. StepOK'
  BY <1>1, <1>4, <1>6, <1>7, <1>9 DEF StepOK, OpeningSteps
<1> QED
  BY <1>6, <1>8, <1>10, ClientParts

LEMMA PostedFields ==
  ASSUME OnlyCurrentRuns, NEW g \in Generations, NEW a
  PROVE  /\ DOMAIN Posted(g, a) = Generations
         /\ IsThread(Posted(g, a)[g])
         /\ Posted(g, a)[g].phase = thread[g].phase /\ Posted(g, a)[g].claimed = thread[g].claimed
         /\ Posted(g, a)[g].inbox = None /\ Posted(g, a)[g].outbox = a
         /\ \A h \in Generations \ {g} : Posted(g, a)[h] = thread[h]
<1>1. PICK t : t = [thread EXCEPT ![g].inbox = None]
  OBVIOUS
<1>2. /\ DOMAIN t = Generations /\ IsThread(t[g])
      /\ t[g].phase = thread[g].phase /\ t[g].claimed = thread[g].claimed /\ t[g].inbox = None
      /\ \A h \in Generations \ {g} : t[h] = thread[h]
  BY <1>1 DEF OnlyCurrentRuns, IsThread
<1>3. Posted(g, a) = [t EXCEPT ![g].outbox = a]
  BY <1>1 DEF Posted
<1> QED
  BY <1>2, <1>3 DEF IsThread

LEMMA PostServes ==
  ASSUME ClientOK, NEW g \in Generations, Running(g), thread[g].inbox.op # "none",
         UNCHANGED <<queue, inflight, generation>>, NEW a \in Answers, Post(g, a)
  PROVE  Served(g)
<1>1. /\ thread'[g].phase = thread[g].phase /\ thread'[g].claimed = thread[g].claimed
      /\ thread'[g].inbox = None /\ thread'[g].outbox = a
      /\ \A h \in Generations \ {g} : thread'[h] = thread[h]
  BY PostedFields DEF Post, ClientOK
<1>2. thread[g].claimed \in Nat
  BY DEF ClientOK, StorageTypes
<1> QED
  BY <1>1, <1>2 DEF Served

LEMMA HasServes ==
  ASSUME NEW g, NEW op, op # "none", Has(g, op)
  PROVE  Running(g) /\ thread[g].inbox.op # "none" /\ thread[g].inbox.op = op
  BY DEF Has

LEMMA AnswerTypes ==
  /\ Refusals \subseteq Answers /\ UnknownCommits \subseteq Answers
  /\ \A ok \in BOOLEAN, d \in Dispositions : Answer(ok, d) \in Answers
  /\ \A e \in Nat, b \in BOOLEAN : [Answer(TRUE, "none") EXCEPT !.epoch = e, !.claimed = b] \in Answers
<1>1. Refusals \subseteq Answers /\ UnknownCommits \subseteq Answers
  <2>1. 0 \in Nat /\ FALSE \in BOOLEAN /\ "not-committed" \in Dispositions /\ "unknown" \in Dispositions
    BY DEF Dispositions
  <2>2. Refusals \subseteq Answers
    BY <2>1, Zenon DEF Refusals, Answers
  <2>3. UnknownCommits \subseteq Answers
    BY <2>1, Zenon DEF UnknownCommits, Answers
  <2> QED
    BY <2>2, <2>3
<1>2. ASSUME NEW ok \in BOOLEAN, NEW d \in Dispositions PROVE Answer(ok, d) \in Answers
  BY DEF Answers, Answer
<1>3. ASSUME NEW e \in Nat, NEW b \in BOOLEAN
      PROVE  [Answer(TRUE, "none") EXCEPT !.epoch = e, !.claimed = b] \in Answers
  <2>1. PICK x : x = Answer(TRUE, "none")
    OBVIOUS
  <2>2. PICK y : y = [x EXCEPT !.epoch = e]
    OBVIOUS
  <2>3. x \in Answers
    BY <1>2, <2>1 DEF Dispositions
  <2>4. y \in Answers
    BY <2>2, <2>3 DEF Answers
  <2>5. [y EXCEPT !.claimed = b] \in Answers
    BY <2>4 DEF Answers
  <2>6. [x EXCEPT !.epoch = e, !.claimed = b] = [y EXCEPT !.claimed = b]
    BY <2>2, Zenon
  <2> QED
    BY <2>1, <2>5, <2>6
<1> QED
  BY <1>1, <1>2, <1>3

LEMMA ClaimServes ==
  ASSUME ClientOK, NEW g \in Generations, Running(g), thread[g].inbox.op # "none",
         UNCHANGED <<queue, inflight, generation>>, NEW a \in Answers, NEW e \in Nat,
         thread' = [Posted(g, a) EXCEPT ![g].claimed = e]
  PROVE  Served(g)
<1> DEFINE posted == Posted(g, a)
<1>1. /\ DOMAIN posted = Generations
      /\ IsThread(posted[g])
      /\ posted[g].phase = thread[g].phase /\ posted[g].inbox = None /\ posted[g].outbox = a
      /\ \A h \in Generations \ {g} : posted[h] = thread[h]
  BY PostedFields DEF ClientOK
<1>2. thread' = [posted EXCEPT ![g].claimed = e]
  OBVIOUS
<1> HIDE DEF posted
<1>3. \A h \in Generations \ {g} : thread'[h] = thread[h]
  BY <1>1, <1>2
<1>4. /\ thread'[g].phase = thread[g].phase /\ thread'[g].claimed = e
      /\ thread'[g].inbox = None /\ thread'[g].outbox = a
  BY <1>1, <1>2 DEF IsThread
<1> QED
  BY <1>3, <1>4 DEF Served

LEMMA InboxIsRequest ==
  ASSUME ClientOK, NEW g \in Generations, thread[g].inbox.op \in {"prepare", "write", "receipt"}
  PROVE  /\ thread[g].inbox \in Requests /\ IsCall(thread[g].inbox)
         /\ thread[g].inbox.call \in Calls /\ Command[thread[g].inbox.call] \in Commands
<1>1. thread[g].inbox \in Requests
  BY NoneShape DEF ClientOK, StorageTypes
<1> QED
  BY <1>1, RequestShape, CommandOfCall DEF IsCall

LEMMA AllServe ==
  ASSUME ClientOK, NEW g \in Generations, ThreadStep(g)
  PROVE  /\ Served(g) /\ UNCHANGED <<clientVars, outcome, prepared>>
         /\ epoch' \in Nat
         /\ \A k \in Commands : /\ receipts'[k].found \in BOOLEAN
                                /\ receipts'[k].found => receipts'[k].epoch \in Nat
<1> USE DEF clientVars, dbVars
<1>a. /\ epoch \in Nat
      /\ \A k \in Commands : /\ receipts[k].found \in BOOLEAN
                             /\ receipts[k].found => receipts[k].epoch \in Nat
  BY DEF ClientOK, StorageTypes
<1>1. CASE ServeRefused(g)
  <2>1. PICK a \in Refusals : Post(g, a)
    BY <1>1 DEF ServeRefused
  <2>2. Running(g) /\ thread[g].inbox # None /\ a \in Answers
    BY <1>1, AnswerTypes DEF ServeRefused
  <2>3. thread[g].inbox.op # "none"
    BY <2>2, RequestShape DEF ClientOK, StorageTypes
  <2>4. UNCHANGED <<clientVars, outcome, prepared, dbVars>>
    BY <1>1 DEF ServeRefused
  <2> QED
    BY <1>a, <2>1, <2>2, <2>3, <2>4, PostServes
<1>2. CASE ServeCheck(g)
  <2>1. Running(g) /\ thread[g].inbox.op # "none" /\ Post(g, Answer(TRUE, "none")) /\ Answer(TRUE, "none") \in Answers
    BY <1>2, HasServes, AnswerTypes DEF ServeCheck, Dispositions
  <2> QED
    BY <1>2, <1>a, <2>1, PostServes DEF ServeCheck
<1>3. CASE ServeOpen(g)
  <2>1. Running(g) /\ thread[g].inbox.op # "none" /\ Answer(TRUE, "none") \in Answers
    BY <1>3, HasServes, AnswerTypes DEF ServeOpen, Dispositions
  <2>2. PICK a \in Answers : a = Answer(TRUE, "none")
    BY <2>1
  <2>3. PICK posted : posted = Posted(g, a)
    OBVIOUS
  <2>4. /\ DOMAIN posted = Generations
        /\ IsThread(posted[g]) /\ posted[g].claimed = thread[g].claimed
        /\ posted[g].phase = thread[g].phase /\ posted[g].inbox = None /\ posted[g].outbox = a
        /\ \A h \in Generations \ {g} : posted[h] = thread[h]
    BY <2>3, PostedFields DEF ClientOK
  <2>5. thread' = [posted EXCEPT ![g].conn = TRUE]
    BY <1>3, <2>2, <2>3 DEF ServeOpen
  <2>6. \A h \in Generations \ {g} : thread'[h] = thread[h]
    BY <2>4, <2>5
  <2>7. /\ thread'[g].phase = thread[g].phase /\ thread'[g].claimed = thread[g].claimed
        /\ thread'[g].inbox = None /\ thread'[g].outbox = a
    BY <2>4, <2>5 DEF IsThread
  <2>8. thread[g].claimed \in Nat
    BY DEF ClientOK, StorageTypes
  <2> QED
    BY <1>3, <1>a, <2>1, <2>6, <2>7, <2>8 DEF Served, ServeOpen
<1>4. CASE ServeClose(g)
  <2>1. Running(g) /\ thread[g].inbox.op # "none" /\ Answer(TRUE, "none") \in Answers
    BY <1>4, HasServes, AnswerTypes DEF ServeClose, Dispositions
  <2>2. PICK a \in Answers : a = Answer(TRUE, "none")
    BY <2>1
  <2>3. thread' = [thread EXCEPT ![g] = Disconnected(thread[g].phase, a)]
    BY <1>4, <2>2 DEF ServeClose
  <2>4. thread'[g] = Disconnected(thread[g].phase, a) /\ \A h \in Generations \ {g} : thread'[h] = thread[h]
    BY <2>3 DEF ClientOK, OnlyCurrentRuns
  <2>5. /\ thread'[g].phase = thread[g].phase /\ thread'[g].claimed = 0
        /\ thread'[g].inbox = None /\ thread'[g].outbox = a
    BY <2>4 DEF Disconnected
  <2>6. UNCHANGED <<clientVars, outcome, prepared, dbVars>>
    BY <1>4 DEF ServeClose
  <2> QED
    BY <1>a, <2>1, <2>4, <2>5, <2>6 DEF Served
<1>5. CASE ServePrepare(g)
  <2>1. /\ Running(g) /\ thread[g].inbox.op = "prepare" /\ thread[g].inbox.op # "none"
        /\ UNCHANGED <<clientVars, outcome, prepared>> /\ epoch' = epoch + 1
        /\ receipts' = [receipts EXCEPT ![Command[thread[g].inbox.call]] = Receipt(thread[g].inbox.call, epoch + 1)]
    BY <1>5, HasServes DEF ServePrepare
  <2>2. \A k \in Commands : /\ receipts'[k].found \in BOOLEAN
                            /\ receipts'[k].found => receipts'[k].epoch \in Nat
    <3>1. PICK r : r = Receipt(thread[g].inbox.call, epoch + 1)
      OBVIOUS
    <3>2. r.found \in BOOLEAN /\ r.epoch \in Nat
      BY <1>a, <3>1 DEF Receipt
    <3>3. \A k \in Commands : receipts'[k] = r \/ receipts'[k] = receipts[k]
      BY <2>1, <3>1
    <3> QED
      BY <1>a, <3>2, <3>3
  <2>3. CASE \E a \in UnknownCommits \cup Refusals : Post(g, a)
    <3>1. PICK a \in UnknownCommits \cup Refusals : Post(g, a)
      BY <2>3
    <3>2. a \in Answers
      BY AnswerTypes
    <3>3. UNCHANGED <<queue, inflight, generation>>
      BY <2>1
    <3>4. Served(g)
      BY <2>1, <3>1, <3>2, <3>3, PostServes
    <3>5. epoch' \in Nat
      BY <1>a, <2>1
    <3> QED
      BY <2>1, <2>2, <3>4, <3>5
  <2>4. CASE ~\E a \in UnknownCommits \cup Refusals : Post(g, a)
    <3>1. PICK a : a = [Answer(TRUE, "none") EXCEPT !.epoch = epoch + 1, !.claimed = TRUE]
      OBVIOUS
    <3>2. epoch' \in Nat /\ epoch + 1 \in Nat
      BY <1>a, <2>1
    <3>3. a \in Answers
      BY <3>1, <3>2, AnswerTypes
    <3>4. thread' = [Posted(g, a) EXCEPT ![g].claimed = epoch + 1]
      BY <1>5, <2>4, <3>1 DEF ServePrepare
    <3>5. UNCHANGED <<queue, inflight, generation>>
      BY <2>1
    <3>6. Served(g)
      BY <2>1, <3>2, <3>3, <3>4, <3>5, ClaimServes
    <3> QED
      BY <2>1, <2>2, <3>2, <3>6
  <2> QED
    BY <2>3, <2>4
<1>6. CASE ReplayPrepare(g)
  <2> DEFINE rec == receipts[Command[thread[g].inbox.call]]
             again == rec.found /\ rec.epoch = epoch
  <2>1. /\ Running(g) /\ thread[g].inbox.op = "prepare" /\ thread[g].inbox.op # "none"
        /\ UNCHANGED <<clientVars, outcome, prepared, epoch, receipts>> /\ rec.found
    BY <1>6, HasServes DEF ReplayPrepare
  <2>2. rec.epoch \in Nat /\ again \in BOOLEAN
    BY <1>a, <2>1, InboxIsRequest
  <2>r. CASE \E a \in Refusals : Post(g, a)
    <3>1. PICK a \in Refusals : Post(g, a)
      BY <2>r
    <3>2. a \in Answers
      BY AnswerTypes
    <3> QED
      BY <1>a, <2>1, <3>1, <3>2, PostServes
  <2>3. PICK a : a = [Answer(TRUE, "none") EXCEPT !.epoch = rec.epoch, !.claimed = again]
    OBVIOUS
  <2>4. a \in Answers
    BY <2>2, <2>3, AnswerTypes
  <2>5. PICK e : e = IF again THEN rec.epoch ELSE Posted(g, a)[g].claimed
    OBVIOUS
  <2>6. e \in Nat
    <3>1. Posted(g, a)[g].claimed = thread[g].claimed /\ thread[g].claimed \in Nat
      BY PostedFields DEF ClientOK, StorageTypes
    <3> QED
      BY <2>2, <2>5, <3>1
  <2>7. ASSUME ~\E b \in Refusals : Post(g, b) PROVE thread' = [Posted(g, a) EXCEPT ![g].claimed = e]
    BY <1>6, <2>3, <2>5, <2>7 DEF ReplayPrepare
  <2>8. CASE ~\E b \in Refusals : Post(g, b)
    BY <1>a, <2>1, <2>4, <2>6, <2>7, <2>8, ClaimServes
  <2> QED
    BY <2>r, <2>8
<1>7. CASE ServeWrite(g)
  <2>1. /\ Running(g) /\ thread[g].inbox.op = "write" /\ thread[g].inbox.op # "none"
        /\ UNCHANGED <<clientVars, outcome, prepared, epoch>>
        /\ receipts' = [receipts EXCEPT ![Command[thread[g].inbox.call]] = Receipt(thread[g].inbox.call, epoch)]
    BY <1>7, HasServes DEF ServeWrite
  <2>2. \A k \in Commands : /\ receipts'[k].found \in BOOLEAN
                            /\ receipts'[k].found => receipts'[k].epoch \in Nat
    <3>1. PICK r : r = Receipt(thread[g].inbox.call, epoch)
      OBVIOUS
    <3>2. r.found \in BOOLEAN /\ r.epoch \in Nat
      BY <1>a, <3>1 DEF Receipt
    <3>3. \A k \in Commands : receipts'[k] = r \/ receipts'[k] = receipts[k]
      BY <2>1, <3>1
    <3> QED
      BY <1>a, <3>2, <3>3
  <2>3. PICK a \in {Answer(TRUE, "none")} \cup UnknownCommits : Post(g, a)
    BY <1>7 DEF ServeWrite
  <2>4. a \in Answers
    BY AnswerTypes DEF Dispositions
  <2> QED
    BY <1>a, <2>1, <2>2, <2>3, <2>4, PostServes
<1>8. CASE ReplayWrite(g)
  <2>1. PICK a \in {Answer(TRUE, "none"), Answer(FALSE, "committed")} : Post(g, a)
    BY <1>8 DEF ReplayWrite
  <2>2. a \in Answers
    BY AnswerTypes DEF Dispositions
  <2>3. Running(g) /\ thread[g].inbox.op # "none" /\ UNCHANGED <<clientVars, outcome, prepared, dbVars>>
    BY <1>8, HasServes DEF ReplayWrite
  <2> QED
    BY <1>a, <2>1, <2>2, <2>3, PostServes
<1>9. CASE CommitLost(g)
  <2>1. PICK a \in UnknownCommits : Post(g, a)
    BY <1>9 DEF CommitLost
  <2>2. Running(g) /\ thread[g].inbox.op # "none" /\ UNCHANGED <<clientVars, outcome, prepared, dbVars>>
    BY <1>9, HasServes DEF CommitLost
  <2> QED
    BY <1>a, <2>1, <2>2, AnswerTypes, PostServes
<1>10. CASE ServeReceipt(g)
  <2>1. PICK d \in {"found", "absent"} : Post(g, Answer(TRUE, d))
    BY <1>10 DEF ServeReceipt
  <2>2. Answer(TRUE, d) \in Answers
    BY AnswerTypes DEF Dispositions
  <2>3. Running(g) /\ thread[g].inbox.op # "none" /\ UNCHANGED <<clientVars, outcome, prepared, dbVars>>
    BY <1>10, HasServes DEF ServeReceipt
  <2> QED
    BY <1>a, <2>1, <2>2, <2>3, PostServes
<1> QED
  BY <1>1, <1>2, <1>3, <1>4, <1>5, <1>6, <1>7, <1>8, <1>9, <1>10 DEF ThreadStep

LEMMA ThreadSteps ==
  ASSUME ClientOK, OnlyCurrentRuns', NEW g \in Generations, ThreadStep(g)
  PROVE  ClientOK'
<1>1. /\ Served(g) /\ UNCHANGED <<clientVars, outcome, prepared>>
      /\ epoch' \in Nat
      /\ \A k \in Commands : /\ receipts'[k].found \in BOOLEAN
                             /\ receipts'[k].found => receipts'[k].epoch \in Nat
  BY AllServe
<1>2. ExchangeOK' /\ ThreadTypes' /\ (Live' <=> Live)
  BY <1>1, ServedKeeps
<1>3. UNCHANGED <<state, step, lost, generation, claim, queue, inflight, outcome, prepared>>
  BY <1>1 DEF clientVars
<1>4. QueueOK' /\ RequestTypes'
  BY <1>3, QueueFrame DEF ClientOK, StorageTypes
<1>5. RestTypes'
  BY <1>1, <1>3 DEF RestTypes, ClientOK, StorageTypes
<1>6. StepOK'
  BY <1>2, <1>3 DEF StepOK, ClientOK
<1> QED
  BY <1>2, <1>4, <1>5, <1>6, ClientParts

LEMMA GoneStep ==
  ASSUME ClientOK, OnlyCurrentRuns', NEW g \in Generations, Gone(g)
  PROVE  ClientOK'
<1>1. /\ thread[g].phase = "ending" /\ thread' = [thread EXCEPT ![g] = IdleThread("gone")]
      /\ \/ step = "leaving" /\ state' = "closed" /\ step' = "none" /\ claim' = 0
         \/ UNCHANGED <<state, step, claim>>
      /\ UNCHANGED <<lost, generation, queue, inflight, outcome, prepared, epoch, receipts>>
  BY DEF Gone, dbVars
<1>2. g = generation /\ generation > 0 /\ generation \in Generations
  BY <1>1, RunningIsCurrent DEF Running, ClientOK
<1>3. ~Live /\ inflight = None
  BY <1>1, <1>2 DEF Live, ClientOK, StepOK
<1>4. thread'[g] = IdleThread("gone") /\ \A h \in Generations \ {g} : thread'[h] = thread[h]
  BY <1>1 DEF ClientOK, OnlyCurrentRuns
<1>5. /\ IdleThread("gone").phase = "gone" /\ IdleThread("gone").inbox = None
      /\ IdleThread("gone").outbox = None /\ IdleThread("gone").claimed = 0
  BY DEF IdleThread, Disconnected
<1>6. ThreadTypes'
  BY <1>4, <1>5 DEF ThreadTypes, ClientOK, StorageTypes, Phases
<1>7. ~Live' /\ ExchangeOK'
  BY <1>1, <1>2, <1>4, <1>5 DEF Live, ExchangeOK, Current
<1>8. QueueOK' /\ RequestTypes'
  BY <1>1, <1>3, QueueFrame DEF ClientOK, StorageTypes
<1>9. RestTypes'
  BY <1>1 DEF ClientOK, StorageTypes, RestTypes, States, Steps
<1>10. \A c \in Calls : /\ prepared[c].on <= generation
                        /\ state = "opening" /\ outcome[c] = "recording" => prepared[c].on < generation
  BY DEF ClientOK, StepOK
<1>11. StepOK'
  BY <1>1, <1>3, <1>7, <1>10 DEF ClientOK, StepOK, OpeningSteps
<1> QED
  BY <1>6, <1>7, <1>8, <1>9, <1>11, ClientParts

LEMMA CrashStep ==
  ASSUME ClientOK, OnlyCurrentRuns', Crash
  PROVE  ClientOK'
<1>1. /\ state' = "closed" /\ step' = "none" /\ lost' = FALSE /\ claim' = 0
      /\ queue' = <<>> /\ inflight' = None
      /\ thread' = [g \in Generations |-> IdleThread(IF thread[g].phase = "none" THEN "none" ELSE "gone")]
      /\ UNCHANGED <<generation, prepared, epoch, receipts>>
  BY DEF Crash, dbVars
<1>2. /\ DOMAIN outcome' = Calls
      /\ \A c \in Calls : outcome'[c] \notin {"pending", "recording", "asking"}
  BY DEF Crash
<1>3. ASSUME NEW g \in Generations
      PROVE  thread'[g].phase \in {"none", "gone"} /\ thread'[g].inbox = None /\ thread'[g].outbox = None
             /\ thread'[g].claimed = 0
  BY <1>1 DEF IdleThread, Disconnected
<1>4. ThreadTypes'
  BY <1>3 DEF ThreadTypes, Phases
<1>5. ~Live' /\ ExchangeOK'
  BY <1>1, <1>3, GenerationOfThread, NoneShape DEF Live, ExchangeOK, Current, ClientOK
<1>6. QueueOK'
  BY <1>1, <1>2, EmptyQueue, NoneShape DEF QueueOK
<1>7. RequestTypes'
  BY <1>1, <1>2, EmptyQueue DEF RequestTypes
<1>8. RestTypes'
  BY <1>1 DEF ClientOK, StorageTypes, RestTypes, States, Steps
<1>9. StepOK'
  BY <1>1, <1>5 DEF ClientOK, StepOK, OpeningSteps
<1> QED
  BY <1>4, <1>5, <1>6, <1>7, <1>8, <1>9, ClientParts

LEMMA OtherSteps ==
  ASSUME ClientOK, OnlyCurrentRuns', OtherClaims \/ UNCHANGED vars
  PROVE  ClientOK'
<1>1. /\ UNCHANGED <<clientVars, thread, outcome, prepared, receipts>>
      /\ epoch' \in {epoch, epoch + 1}
  BY DEF OtherClaims, vars, clientVars
<1>2. UNCHANGED <<state, step, lost, generation, claim, queue, inflight, thread, outcome, prepared, receipts>>
  BY <1>1 DEF clientVars
<1>3. QueueOK' /\ RequestTypes'
  BY <1>2, QueueFrame DEF ClientOK, StorageTypes
<1>4. ExchangeOK' /\ ThreadTypes' /\ (Live' <=> Live)
  BY <1>2, ThreadFrame DEF ClientOK, StorageTypes
<1>5. RestTypes'
  BY <1>1, <1>2 DEF ClientOK, StorageTypes, RestTypes
<1>6. StepOK'
  BY <1>2, <1>4 DEF ClientOK, StepOK
<1> QED
  BY <1>3, <1>4, <1>5, <1>6, ClientParts

\* The answer to a step of the open.
LEMMA AnswerOpeningStep ==
  ASSUME ClientOK, OnlyCurrentRuns', AnswerOpening
  PROVE  ClientOK'
<1> DEFINE taken == [thread EXCEPT ![generation].outbox = None]
<1>1. /\ generation > 0 /\ thread[generation].phase = "live" /\ thread[generation].outbox # None
      /\ inflight.op \in {"check", "open"} /\ ~lost
      /\ UNCHANGED <<state, lost, generation, claim, queue, outcome, prepared, epoch, receipts>>
  BY DEF AnswerOpening, Current, dbVars
<1>2. \/ /\ step' = "refuse" /\ inflight' = None
         /\ thread' = [taken EXCEPT ![generation].phase = "ending"]
      \/ /\ step' = "open" /\ inflight' = Request("open")
         /\ thread' = [taken EXCEPT ![generation].inbox = Request("open")]
      \/ step' = "name" /\ inflight' = None /\ thread' = taken
  BY DEF AnswerOpening
<1>3. generation \in Generations /\ inflight # None /\ inflight \in Requests
      /\ thread[generation].inbox = None /\ state = "opening"
  <2>1. inflight # None
    BY <1>1, NoneShape
  <2> QED
    BY <1>1, <2>1, LiveThread DEF ClientOK, StepOK
<1>4. queue = <<>> /\ \A c \in Calls : outcome[c] \notin {"pending", "asking"}
  <2>1. ~IsCall(inflight) /\ inflight.op # "close"
    BY <1>1 DEF IsCall
  <2>2. queue = <<>> /\ Len(queue) = 0
    BY <1>3 DEF ClientOK, StepOK
  <2> QED
    BY <2>1, <2>2 DEF ClientOK, QueueOK, Waiting, InThread
<1>5. ASSUME NEW h \in Generations
      PROVE  /\ thread'[h].outbox = IF h = generation THEN None ELSE thread[h].outbox
             /\ thread'[h].claimed = thread[h].claimed
             /\ h # generation => thread'[h].phase = thread[h].phase /\ thread'[h].inbox = thread[h].inbox
             /\ thread'[h].phase \in {thread[h].phase, "ending"}
             /\ thread'[h].inbox \in {thread[h].inbox, Request("open")}
             /\ h = generation => IF inflight' = None THEN thread'[h].inbox = None
                                  ELSE thread'[h].inbox = inflight' /\ thread'[h].phase = "live"
             /\ h = generation /\ step' # "refuse" => thread'[h].phase = "live"
  <2>1. PICK t : t = taken
    OBVIOUS
  <2>2. /\ DOMAIN t = Generations /\ IsThread(t[h])
        /\ t[h].outbox = IF h = generation THEN None ELSE thread[h].outbox
        /\ t[h].claimed = thread[h].claimed /\ t[h].phase = thread[h].phase /\ t[h].inbox = thread[h].inbox
    BY <2>1 DEF ClientOK, OnlyCurrentRuns, IsThread
  <2>3. Request("open") # None
    BY DEF Request, None
  <2>4. CASE step' = "refuse" /\ inflight' = None /\ thread' = [t EXCEPT ![generation].phase = "ending"]
    BY <1>1, <1>3, <2>2, <2>4 DEF IsThread
  <2>5. CASE /\ step' = "open" /\ inflight' = Request("open")
             /\ thread' = [t EXCEPT ![generation].inbox = Request("open")]
    BY <1>1, <1>3, <2>2, <2>3, <2>5 DEF IsThread
  <2>6. CASE step' = "name" /\ inflight' = None /\ thread' = t
    BY <1>1, <1>3, <2>2, <2>6
  <2> QED
    BY <1>2, <2>1, <2>4, <2>5, <2>6
<1> HIDE DEF taken
<1>6. Request("open") \in Requests /\ Request("open") # None /\ Request("open").op = "open"
  BY DEF Request, Requests, None
<1>7. ThreadTypes'
  BY <1>5, <1>6 DEF ThreadTypes, ClientOK, StorageTypes, Phases
<1>8. inflight' \in {None, Request("open")}
  BY <1>2
<1>9. ExchangeOK' /\ (step' # "refuse" => Live') /\ (inflight' # None => Live')
  BY <1>1, <1>2, <1>3, <1>5, <1>6, <1>8, NoneShape DEF ExchangeOK, Live, Current
<1>10. RequestTypes'
  BY <1>1, <1>6, <1>8 DEF RequestTypes, ClientOK, StorageTypes
<1>11. QueueOK'
  BY <1>1, <1>4, <1>6, <1>8, EmptyQueue, NoneShape DEF QueueOK, IsCall
<1>12. RestTypes'
  BY <1>1, <1>2 DEF ClientOK, StorageTypes, RestTypes, Steps
<1>13. \A c \in Calls : /\ prepared'[c].on <= generation'
                        /\ state' = "opening" /\ outcome'[c] = "recording" => prepared'[c].on < generation'
  BY <1>1 DEF ClientOK, StepOK
<1>14. StepOK'
  BY <1>1, <1>2, <1>3, <1>4, <1>6, <1>9, <1>13 DEF StepOK, OpeningSteps
<1> QED
  BY <1>7, <1>9, <1>10, <1>11, <1>12, <1>14, ClientParts

\* The answer to a call.
LEMMA AnswerCallShape ==
  ASSUME ClientOK, AnswerCall
  PROVE  /\ generation \in Generations /\ generation > 0 /\ thread[generation].phase = "live"
         /\ IsCall(inflight) /\ inflight # None /\ inflight \in Requests /\ inflight.call \in Calls
         /\ thread[generation].inbox = None /\ thread[generation].outbox \in Answers
         /\ thread[generation].outbox # None
         /\ state # "opening" /\ outcome[inflight.call] = AskedAs(inflight)
         /\ UNCHANGED <<step, lost, generation, epoch, receipts>>
         /\ Told(inflight.call, Current.outbox) \notin {"pending", "asking"}
         /\ prepared' \in [Calls -> [on: Nat, epoch: Nat, claimed: BOOLEAN]]
         /\ \A d \in Calls : prepared'[d].on = prepared[d].on
<1>1. /\ generation > 0 /\ IsCall(inflight) /\ Current.outbox # None
      /\ UNCHANGED <<step, lost, generation, epoch, receipts>>
  BY DEF AnswerCall, dbVars
<1>2. inflight # None
  BY <1>1, NoneShape
<1>3. /\ generation \in Generations /\ thread[generation].phase = "live" /\ inflight \in Requests
      /\ thread[generation].inbox = None /\ thread[generation].outbox # None
  BY <1>1, <1>2, LiveThread DEF Current
<1>4. inflight.call \in Calls /\ outcome[inflight.call] = AskedAs(inflight)
  BY <1>1, <1>3, RequestShape DEF ClientOK, QueueOK
<1>5. Current.outbox \in Answers
  BY <1>1, <1>3 DEF ClientOK, StorageTypes, Current
<1>6. state # "opening"
  BY <1>1, <1>2 DEF ClientOK, StepOK, IsCall
<1>7. PICK a : a = Current.outbox
  OBVIOUS
<1>8. a \in Answers /\ a.disposition \in Dispositions /\ a.epoch \in Nat /\ a.claimed \in BOOLEAN
  BY <1>5, <1>7 DEF Answers
<1>9. Told(inflight.call, a) \notin {"pending", "asking"}
  <2>1. Told(inflight.call, a) \in Dispositions \cup {"unknown", "recording", "committed", "ok"}
    BY <1>1, <1>8 DEF Told, Dispositions, IsCall
  <2> QED
    BY <2>1 DEF Dispositions
<1>10. prepared' = IF inflight.op = "prepare" /\ a.ok
                   THEN [prepared EXCEPT ![inflight.call].epoch = a.epoch, ![inflight.call].claimed = a.claimed]
                   ELSE prepared
  BY <1>7 DEF AnswerCall
<1>11. prepared \in [Calls -> [on: Nat, epoch: Nat, claimed: BOOLEAN]]
  BY DEF ClientOK, StorageTypes
<1>12. PICK c \in Calls : c = inflight.call
  BY <1>4
<1>13. PICK p : p = [prepared EXCEPT ![c].epoch = a.epoch]
  OBVIOUS
<1>14. p \in [Calls -> [on: Nat, epoch: Nat, claimed: BOOLEAN]] /\ \A d \in Calls : p[d].on = prepared[d].on
  BY <1>8, <1>11, <1>13
<1>15. PICK q : q = [p EXCEPT ![c].claimed = a.claimed]
  OBVIOUS
<1>16. q \in [Calls -> [on: Nat, epoch: Nat, claimed: BOOLEAN]] /\ \A d \in Calls : q[d].on = p[d].on
  BY <1>8, <1>14, <1>15
<1>17. prepared' = q \/ prepared' = prepared
  BY <1>10, <1>12, <1>13, <1>15
<1> QED
  BY <1>1, <1>2, <1>3, <1>4, <1>5, <1>6, <1>7, <1>9, <1>11, <1>14, <1>16, <1>17 DEF Current

LEMMA AnswerCallStep ==
  ASSUME ClientOK, OnlyCurrentRuns', AnswerCall
  PROVE  ClientOK'
<1>0. PICK told : told = Told(inflight.call, Current.outbox)
  OBVIOUS
<1>1. PICK c \in Calls : /\ c = inflight.call /\ told = Told(c, Current.outbox)
                         /\ told \notin {"pending", "asking"}
  BY <1>0, AnswerCallShape
<1>2. \A d \in Calls : prepared'[d].on <= generation'
  BY AnswerCallShape DEF ClientOK, StepOK
<1>3. step \notin OpeningSteps \cup {"leaving"}
  BY AnswerCallShape DEF ClientOK, StepOK
<1>4. CASE Current.outbox.fatal
  <2>1. /\ state' = "unavailable" /\ claim' = 0
        /\ thread' = [[thread EXCEPT ![generation].outbox = None] EXCEPT ![generation].phase = "ending"]
        /\ queue' = <<>> /\ inflight' = None
        /\ outcome' = [Rejected EXCEPT ![c] = told]
    BY <1>1, <1>4 DEF AnswerCall
  <2>2. ASSUME NEW g \in Generations
        PROVE  /\ thread'[g].inbox = thread[g].inbox
               /\ thread'[g].outbox \in {thread[g].outbox, None}
               /\ thread'[g].claimed = thread[g].claimed
               /\ \/ thread'[g].phase = thread[g].phase
                  \/ thread[g].phase = "live" /\ thread'[g].phase = "ending"
               /\ g = generation => thread'[g].phase # "live"
    <3>1. PICK t : t = [thread EXCEPT ![generation].outbox = None]
      OBVIOUS
    <3>2. /\ DOMAIN t = Generations /\ IsThread(t[g])
          /\ t[g].outbox \in {thread[g].outbox, None}
          /\ t[g].claimed = thread[g].claimed /\ t[g].phase = thread[g].phase /\ t[g].inbox = thread[g].inbox
      BY <3>1 DEF ClientOK, OnlyCurrentRuns, IsThread
    <3>3. thread' = [t EXCEPT ![generation].phase = "ending"]
      BY <2>1, <3>1
    <3>4. thread[generation].phase = "live"
      BY AnswerCallShape
    <3> QED
      BY <3>2, <3>3, <3>4 DEF IsThread
  <2>3. \A d \in Calls : outcome'[d] = IF d = c THEN told ELSE Rejected[d]
    BY <2>1, RejectedShape
  <2>4. ASSUME NEW d \in Calls
        PROVE  outcome'[d] \notin {"pending", "asking"} /\ (outcome[d] = "unknown" => outcome'[d] = "unknown")
    <3>1. outcome[c] # "unknown"
      BY <1>1, AnswerCallShape DEF AskedAs
    <3> QED
      BY <1>1, <2>3, <3>1, RejectedShape
  <2>5. DOMAIN outcome' = Calls
    BY <1>1, <2>1, RejectedShape
  <2>6. thread[generation].inbox.op = "none"
    BY AnswerCallShape, NoneShape
  <2>7. Ended
    BY <2>1, <2>2, <2>4, <2>5, <2>6, AnswerCallShape DEF Ended
  <2>8. QueueOK' /\ ExchangeOK' /\ ThreadTypes' /\ RequestTypes' /\ ~Live'
    BY <2>7, EndedKeeps
  <2>9. RestTypes'
    BY <2>1, AnswerCallShape DEF ClientOK, StorageTypes, RestTypes, States
  <2>10. StepOK'
    BY <1>2, <1>3, <2>1, AnswerCallShape DEF StepOK, OpeningSteps
  <2> QED
    BY <2>8, <2>9, <2>10, ClientParts
<1>5. CASE ~Current.outbox.fatal
  <2>1. /\ state' = state /\ claim' = claim
        /\ Pump(queue, [thread EXCEPT ![generation].outbox = None])
        /\ outcome' = [outcome EXCEPT ![inflight.call] = told]
    BY <1>1, <1>5 DEF AnswerCall
  <2>2. /\ QueueOK' /\ ExchangeOK' /\ ThreadTypes' /\ RequestTypes' /\ Live'
        /\ inflight' # None => inflight'.op \notin {"check", "open"}
    BY <1>1, <2>1, AnswerCallShape, AnsweredKeeps
  <2>3. RestTypes'
    BY <2>1, AnswerCallShape DEF ClientOK, StorageTypes, RestTypes
  <2>4. StepOK'
    BY <1>2, <1>3, <2>1, <2>2, AnswerCallShape DEF StepOK, OpeningSteps
  <2> QED
    BY <2>2, <2>3, <2>4, ClientParts
<1> QED
  BY <1>4, <1>5

\* The close is acknowledged: nothing was left behind it.
LEMMA AnswerCloseStep ==
  ASSUME ClientOK, OnlyCurrentRuns', AnswerClose, Current.outbox.ok
  PROVE  ClientOK'
<1>1. /\ generation > 0 /\ thread[generation].phase = "live" /\ inflight.op = "close"
      /\ thread' = [thread EXCEPT ![generation].outbox = None, ![generation].phase = "ending"]
      /\ inflight' = None /\ step' = "leaving"
      /\ UNCHANGED <<state, claim, queue, outcome, lost, generation, prepared, epoch, receipts>>
      /\ thread[generation].outbox # None
  BY DEF AnswerClose, Current, dbVars
<1>2. inflight # None /\ queue = <<>> /\ state = "closing"
  BY <1>1, NoneShape DEF ClientOK, QueueOK
<1>3. thread[generation].inbox = None /\ generation \in Generations
  BY <1>1, <1>2, LiveThread
<1>4. ASSUME NEW g \in Generations
      PROVE  /\ thread'[g].inbox = thread[g].inbox
             /\ thread'[g].outbox \in {thread[g].outbox, None}
             /\ thread'[g].claimed = thread[g].claimed
             /\ \/ thread'[g].phase = thread[g].phase
                \/ thread[g].phase = "live" /\ thread'[g].phase = "ending"
             /\ g = generation => thread'[g].phase # "live"
  <2>1. PICK t : t = [thread EXCEPT ![generation].outbox = None]
    OBVIOUS
  <2>2. /\ DOMAIN t = Generations /\ IsThread(t[g])
        /\ t[g].outbox \in {thread[g].outbox, None}
        /\ t[g].claimed = thread[g].claimed /\ t[g].phase = thread[g].phase /\ t[g].inbox = thread[g].inbox
    BY <2>1 DEF ClientOK, OnlyCurrentRuns, IsThread
  <2>3. thread' = [t EXCEPT ![generation].phase = "ending"]
    BY <1>1, <2>1
  <2> QED
    BY <1>1, <2>2, <2>3 DEF IsThread
<1>5. \A c \in Calls : outcome[c] \notin {"pending", "asking"}
  <2>1. ~IsCall(inflight) /\ Len(queue) = 0
    BY <1>1, <1>2 DEF IsCall
  <2> QED
    BY <2>1 DEF ClientOK, QueueOK, Waiting, InThread
<1>6. Ended
  BY <1>1, <1>2, <1>3, <1>4, <1>5, NoneShape DEF Ended, ClientOK, StorageTypes
<1>7. QueueOK' /\ ExchangeOK' /\ ThreadTypes' /\ RequestTypes' /\ ~Live'
  BY <1>6, EndedKeeps
<1>8. RestTypes'
  BY <1>1 DEF ClientOK, StorageTypes, RestTypes, Steps
<1>9. StepOK'
  BY <1>1, <1>2 DEF ClientOK, StepOK, OpeningSteps
<1> QED
  BY <1>7, <1>8, <1>9, ClientParts

LEMMA ClientStep ==
  ASSUME ClientOK, [Next]_vars
  PROVE  ClientOK'
<1>1. OnlyCurrentRuns'
  BY OneThreadStep DEF ClientOK
<1>2. CASE Reopen \/ Hello \/ OpenDone \/ Close \/ Crash \/ OtherClaims \/ UNCHANGED vars
  BY <1>1, <1>2, ReopenStep, HelloStep, OpenDoneStep, CloseStep, CrashStep, OtherSteps
<1>3. CASE HelloRefused \/ Refuse \/ RefuseDone \/ Deadline \/ ThreadDies
  BY <1>1, <1>3, FailSteps
<1>4. CASE Answered
  BY <1>1, <1>4, AnswerCallStep, AnswerOpeningStep, AnswerCloseStep, FailSteps DEF Answered
<1>5. ASSUME NEW c \in Calls, CallPrepare(c) \/ CallWrite(c) \/ AskReceipt(c) PROVE ClientOK'
  BY <1>1, <1>5, CallSteps
<1>6. ASSUME NEW c \in Calls, RecordDone(c) \/ RecordFails(c) PROVE ClientOK'
  BY <1>1, <1>6, RecordDoneStep, RecordFailStep
<1>7. ASSUME NEW g \in Generations, ThreadStep(g) \/ Gone(g) PROVE ClientOK'
  BY <1>1, <1>7, ThreadSteps, GoneStep
<1> QED
  BY <1>2, <1>3, <1>4, <1>5, <1>6, <1>7 DEF Next
-----------------------------------------------------------------------------
(* What the answers say.  A receipt in the database is carried by a call    *)
(* that was told of it, may still be told of it, or knows it may be there. *)

Found(c) == receipts[Command[c]].found

\* Outcomes that claim the command committed, and those that leave it open.
Claimed == {"ok", "committed", "recording", "found"}
Open == {"unknown", "asking"}

\* A prepare that was refused leaves it open too.
Leaves(c, o) == o \in Open \/ (Kind[c] = "prepare" /\ o = "not-committed")

\* The answer on its way to a call leaves open that it committed.
AnswerOnItsWay(c) ==
    /\ Live /\ InThread(c) /\ Current.outbox # None
    /\ Current.outbox.ok \/ Current.outbox.disposition # "not-committed" \/ Kind[c] = "prepare"

Carries(c) ==
    \/ outcome[c] \in Claimed
    \/ Leaves(c, outcome[c])
    \/ outcome[c] = "pending" /\ AnswerOnItsWay(c)

\* An answer on its way is true of the database.
AnswerOK ==
    Live /\ IsCall(inflight) /\ Current.outbox # None =>
        IF inflight.op = "receipt"
        THEN Current.outbox.ok => \/ Current.outbox.disposition = "found" /\ Found(inflight.call)
                                  \/ Current.outbox.disposition = "absent" /\ ~Found(inflight.call)
        ELSE IF Current.outbox.ok THEN Found(inflight.call)
        ELSE \/ Current.outbox.disposition \in {"not-committed", "unknown"}
             \/ Current.outbox.disposition = "committed" /\ Found(inflight.call)

TruthOK ==
    /\ \A c \in Calls : outcome[c] \in Claimed => Found(c)
    /\ AnswerOK
    /\ \A c \in Calls : Found(c) => \E d \in Siblings(c) : Carries(d)

\* A step that leaves the receipts and takes no carrier away.
LEMMA TruthFrame ==
  ASSUME TruthOK, receipts' = receipts, AnswerOK',
         \A c \in Calls : outcome'[c] \in Claimed => outcome[c] \in Claimed \/ Found(c),
         \A c \in Calls : Carries(c) => Carries(c)' \/ ~Found(c)
  PROVE  TruthOK'
<1>1. \A c \in Calls : Found(c)' <=> Found(c)
  BY DEF Found
<1>2. ASSUME NEW c \in Calls, Found(c)' PROVE \E d \in Siblings(c) : Carries(d)'
  <2>1. PICK d \in Siblings(c) : Carries(d)
    BY <1>1, <1>2 DEF TruthOK
  <2>2. d \in Calls /\ Found(d)
    BY <1>1, <1>2 DEF Siblings, Found
  <2> QED
    BY <2>1, <2>2
<1> QED
  BY <1>1, <1>2 DEF TruthOK, Siblings

\* What ending the thread tells never takes a carrier away.
LEMMA RejectedCarries ==
  ASSUME ClientOK, NEW c \in Calls
  PROVE  /\ Carries(c) => Rejected[c] \in Claimed \/ Leaves(c, Rejected[c])
         /\ Rejected[c] \in Claimed => outcome[c] \in Claimed
  BY RejectedShape DEF Carries, AnswerOnItsWay, Leaves, Claimed, Open

LEMMA EndedTruth ==
  ASSUME ClientOK, TruthOK, Ended, receipts' = receipts,
         \A c \in Calls : \/ outcome'[c] = Rejected[c]
                          \/ outcome'[c] \in Claimed /\ Found(c)
                          \/ outcome'[c] \in Open
                          \/ ~Found(c) /\ outcome'[c] \notin Claimed
                          \/ ~Carries(c) /\ outcome'[c] \notin Claimed
  PROVE  TruthOK'
<1>1. AnswerOK'
  BY EndedKeeps DEF AnswerOK
<1>2. ASSUME NEW c \in Calls
      PROVE  /\ outcome'[c] \in Claimed => outcome[c] \in Claimed \/ Found(c)
             /\ Carries(c) => Carries(c)' \/ ~Found(c)
  <2>1. outcome'[c] \in Claimed \/ Leaves(c, outcome'[c]) => Carries(c)'
    BY DEF Carries
  <2> QED
    BY <2>1, RejectedCarries DEF Claimed, Open, Leaves
<1> QED
  BY <1>1, <1>2, TruthFrame

LEMMA FailTruth ==
  ASSUME ClientOK, TruthOK,
         HelloRefused \/ Refuse \/ RefuseDone \/ Deadline \/ ThreadDies \/ (AnswerClose /\ ~Current.outbox.ok)
  PROVE  TruthOK'
<1>1. StopThread /\ generation' = generation /\ receipts' = receipts
  BY DEF HelloRefused, Refuse, RefuseDone, Deadline, ThreadDies, AnswerClose, ThreadFailed, Fail, dbVars
<1>2. Ended
  BY <1>1, StopEnds
<1>3. outcome' = Rejected
  BY <1>1 DEF StopThread
<1> QED
  BY <1>1, <1>2, <1>3, EndedTruth

\* The live thread has the request in flight, and no answer yet.
LEMMA ServesWhat ==
  ASSUME ClientOK, NEW g \in Generations, Running(g), thread[g].inbox.op # "none"
  PROVE  /\ g = generation /\ generation > 0
         /\ Live => inflight = thread[g].inbox /\ thread[g].outbox = None
         /\ ~Live => thread[g].phase = "ending"
         /\ \A c \in Calls : ~AnswerOnItsWay(c)
<1>1. g = generation /\ generation > 0
  BY RunningIsCurrent DEF ClientOK
<1>2. Live => inflight = thread[g].inbox /\ thread[g].outbox = None
  BY <1>1, InboxOfLive DEF Live
<1>3. ~Live => thread[g].phase = "ending"
  BY <1>1 DEF Live, Running
<1> QED
  BY <1>1, <1>2, <1>3 DEF AnswerOnItsWay, Current

\* A served request without a commit.
LEMMA ServedTruth ==
  ASSUME ClientOK, TruthOK, NEW g \in Generations, Served(g), UNCHANGED <<outcome, receipts>>,
         AnswerOK'
  PROVE  TruthOK'
<1>1. \A c \in Calls : ~AnswerOnItsWay(c)
  BY ServesWhat DEF Served
<1>2. \A c \in Calls : Carries(c) => Carries(c)'
  BY <1>1 DEF Carries
<1> QED
  BY <1>2, TruthFrame

LEMMA CommitCarries ==
  ASSUME TruthOK, outcome' = outcome, AnswerOK', NEW c \in Calls, Carries(c)',
         \A d \in Calls : ~AnswerOnItsWay(d),
         \A d \in Calls : IF Command[d] = Command[c] THEN Found(d)' ELSE Found(d)' = Found(d)
  PROVE  TruthOK'
<1>1. ASSUME NEW d \in Calls, outcome'[d] \in Claimed PROVE Found(d)'
  BY <1>1 DEF TruthOK
<1>2. ASSUME NEW d \in Calls, Found(d)' PROVE \E e \in Siblings(d) : Carries(e)'
  <2>1. CASE Command[d] = Command[c]
    BY <2>1 DEF Siblings
  <2>2. CASE Command[d] # Command[c]
    <3>1. PICK e \in Siblings(d) : Carries(e)
      BY <1>2, <2>2 DEF TruthOK
    <3>2. e \in Calls /\ Carries(e)'
      BY <3>1 DEF Carries, Siblings
    <3> QED
      BY <3>1, <3>2
  <2> QED
    BY <2>1, <2>2
<1> QED
  BY <1>1, <1>2 DEF TruthOK, Siblings

\* A committed request: its caller is told, or knows that it may have been.
LEMMA CommitTruth ==
  ASSUME ClientOK, EffectHasReceipt, TruthOK, NEW g \in Generations, Served(g), UNCHANGED outcome,
         thread[g].inbox.op \in {"prepare", "write"},
         NEW r, r.found, receipts' = [receipts EXCEPT ![Command[thread[g].inbox.call]] = r],
         \/ thread'[g].outbox.ok \/ thread'[g].outbox.disposition = "unknown"
         \/ thread[g].inbox.op = "prepare" /\ thread'[g].outbox.disposition = "not-committed"
  PROVE  TruthOK'
<1>1. PICK c \in Calls : c = thread[g].inbox.call
  BY InboxIsRequest
<1>2. \A d \in Calls : IF Command[d] = Command[c] THEN Found(d)' ELSE Found(d)' = Found(d)
  BY <1>1, CommandOfCall DEF Found, EffectHasReceipt
<1>3. /\ g = generation /\ generation' = generation /\ inflight' = inflight
      /\ Live' <=> Live
      /\ \A d \in Calls : ~AnswerOnItsWay(d)
      /\ thread'[g].outbox # None
  BY ServesWhat, ServedKeeps, AnswerNotNone DEF Served
<1>4. CASE Live
  <2>1. inflight = thread[g].inbox
    BY <1>4, ServesWhat DEF Served
  <2>2. /\ IsCall(inflight) /\ inflight.op # "receipt" /\ InThread(c)' /\ inflight.call = c
        /\ outcome[c] = "pending"
    BY <1>1, <1>3, <2>1 DEF IsCall, InThread, ClientOK, QueueOK, AskedAs
  <2>a. thread[g].inbox.op = "prepare" => Kind[c] = "prepare"
    BY <1>1, NoneShape, RequestShape DEF ClientOK, StorageTypes
  <2>3. AnswerOnItsWay(c)'
    BY <1>3, <1>4, <2>2, <2>a DEF AnswerOnItsWay, Current
  <2>4. Carries(c)'
    BY <2>2, <2>3 DEF Carries
  <2>5. AnswerOK'
    BY <1>2, <1>3, <2>2 DEF AnswerOK, Current
  <2> QED
    BY <1>1, <1>2, <1>3, <2>4, <2>5, CommitCarries
<1>5. CASE ~Live
  <2>1. outcome[c] = "unknown"
    BY <1>1, <1>3, <1>5, ServesWhat DEF Served, ClientOK, ExchangeOK, Current
  <2>2. Carries(c)'
    BY <2>1 DEF Carries, Leaves, Open
  <2>3. AnswerOK'
    BY <1>3, <1>5 DEF AnswerOK
  <2> QED
    BY <1>1, <1>2, <1>3, <2>2, <2>3, CommitCarries
<1> QED
  BY <1>4, <1>5

\* An answer without a commit that says nothing of the database.
LEMMA QuietAnswer ==
  ASSUME ClientOK, TruthOK, NEW g \in Generations, Served(g), UNCHANGED <<outcome, receipts>>,
         IsCall(thread[g].inbox) =>
            LET a == thread'[g].outbox IN
            IF thread[g].inbox.op = "receipt"
            THEN a.ok => \/ a.disposition = "found" /\ Found(thread[g].inbox.call)
                         \/ a.disposition = "absent" /\ ~Found(thread[g].inbox.call)
            ELSE IF a.ok THEN Found(thread[g].inbox.call)
            ELSE \/ a.disposition \in {"not-committed", "unknown"}
                 \/ a.disposition = "committed" /\ Found(thread[g].inbox.call)
  PROVE  TruthOK'
<1>1. /\ g = generation /\ generation' = generation /\ inflight' = inflight
      /\ Live' <=> Live
      /\ Live => inflight = thread[g].inbox
  BY ServesWhat, ServedKeeps DEF Served
<1>2. \A c \in Calls : Found(c)' <=> Found(c)
  BY DEF Found
<1>3. IsCall(thread[g].inbox) => thread[g].inbox.call \in Calls
  BY InboxIsRequest DEF IsCall
<1>4. AnswerOK'
  BY <1>1, <1>2, <1>3 DEF AnswerOK, Current
<1> QED
  BY <1>4, ServedTruth

LEMMA AnswerFields ==
  /\ \A d : Answer(TRUE, d).ok /\ Answer(TRUE, d).disposition = d
  /\ \A d : ~Answer(FALSE, d).ok /\ Answer(FALSE, d).disposition = d
  /\ \A a \in Refusals : a.ok = FALSE /\ a.disposition = "not-committed"
  /\ \A a \in UnknownCommits : a.ok = FALSE /\ a.disposition = "unknown"
  BY DEF Answer, Refusals, UnknownCommits

LEMMA PostAnswers ==
  ASSUME ClientOK, NEW g \in Generations, NEW a, Post(g, a)
  PROVE  thread'[g].outbox = a
  BY PostedFields DEF Post, ClientOK

LEMMA ThreadTruth ==
  ASSUME ClientOK, EffectHasReceipt, TruthOK, NEW g \in Generations, ThreadStep(g)
  PROVE  TruthOK'
<1> DEFINE r == thread[g].inbox
<1>0. Served(g) /\ outcome' = outcome
  BY AllServe
<1>1. CASE ServeRefused(g)
  <2>1. PICK a \in Refusals : Post(g, a)
    BY <1>1 DEF ServeRefused
  <2>2. thread'[g].outbox = a /\ receipts' = receipts
    BY <1>1, <2>1, PostAnswers DEF ServeRefused, dbVars
  <2> QED
    BY <1>0, <2>2, AnswerFields, QuietAnswer
<1>2. CASE ServeCheck(g) \/ ServeOpen(g) \/ ServeClose(g)
  <2>1. ~IsCall(r) /\ receipts' = receipts
    BY <1>2 DEF ServeCheck, ServeOpen, ServeClose, Has, IsCall, dbVars
  <2> QED
    BY <1>0, <2>1, QuietAnswer
<1>3. CASE ServePrepare(g)
  <2>1. /\ r.op = "prepare"
        /\ receipts' = [receipts EXCEPT ![Command[r.call]] = Receipt(r.call, epoch + 1)]
    BY <1>3 DEF ServePrepare, Has
  <2>2. PICK rec : rec = Receipt(r.call, epoch + 1)
    OBVIOUS
  <2>3. rec.found
    BY <2>2 DEF Receipt
  <2>4. thread'[g].outbox.ok \/ thread'[g].outbox.disposition \in {"unknown", "not-committed"}
    <3>1. CASE \E a \in UnknownCommits \cup Refusals : Post(g, a)
      <4>1. PICK a \in UnknownCommits \cup Refusals : Post(g, a)
        BY <3>1
      <4>2. a.disposition \in {"unknown", "not-committed"}
        BY AnswerFields
      <4> QED
        BY <4>1, <4>2, PostAnswers
    <3>2. CASE ~\E a \in UnknownCommits \cup Refusals : Post(g, a)
      <4>1. PICK a : a = [Answer(TRUE, "none") EXCEPT !.epoch = epoch + 1, !.claimed = TRUE]
        OBVIOUS
      <4>2. a.ok
        BY <4>1 DEF Answer
      <4>3. PICK posted : posted = Posted(g, a)
        OBVIOUS
      <4>4. DOMAIN posted = Generations /\ posted[g].outbox = a /\ IsThread(posted[g])
        BY <4>3, PostedFields DEF ClientOK
      <4>5. thread' = [posted EXCEPT ![g].claimed = epoch + 1]
        BY <1>3, <3>2, <4>1, <4>3 DEF ServePrepare
      <4>6. thread'[g].outbox = a
        BY <4>4, <4>5 DEF IsThread
      <4> QED
        BY <4>2, <4>6
    <3> QED
      BY <3>1, <3>2
  <2> QED
    BY <1>0, <2>1, <2>2, <2>3, <2>4, CommitTruth
<1>4. CASE ReplayPrepare(g)
  <2> DEFINE rec == receipts[Command[r.call]]
             again == rec.found /\ rec.epoch = epoch
  <2>1. r.op = "prepare" /\ Found(r.call) /\ receipts' = receipts
    BY <1>4 DEF ReplayPrepare, Has, Found
  <2>r. CASE \E a \in Refusals : Post(g, a)
    <3>1. PICK a \in Refusals : Post(g, a)
      BY <2>r
    <3>2. thread'[g].outbox = a
      BY <3>1, PostAnswers
    <3> QED
      BY <1>0, <2>1, <3>2, AnswerFields, QuietAnswer
  <2>2. PICK a : a = [Answer(TRUE, "none") EXCEPT !.epoch = rec.epoch, !.claimed = again]
    OBVIOUS
  <2>3. a.ok
    BY <2>2 DEF Answer
  <2>4. PICK posted : posted = Posted(g, a)
    OBVIOUS
  <2>5. DOMAIN posted = Generations /\ posted[g].outbox = a /\ IsThread(posted[g])
    BY <2>4, PostedFields DEF ClientOK
  <2>6. CASE ~\E b \in Refusals : Post(g, b)
    <3>1. PICK e : thread' = [posted EXCEPT ![g].claimed = e]
      BY <1>4, <2>2, <2>4, <2>6 DEF ReplayPrepare
    <3>2. thread'[g].outbox = a
      BY <2>5, <3>1 DEF IsThread
    <3> QED
      BY <1>0, <2>1, <2>3, <3>2, QuietAnswer
  <2> QED
    BY <2>r, <2>6
<1>5. CASE ServeWrite(g)
  <2>1. /\ r.op = "write"
        /\ receipts' = [receipts EXCEPT ![Command[r.call]] = Receipt(r.call, epoch)]
    BY <1>5 DEF ServeWrite, Has
  <2>2. PICK rec : rec = Receipt(r.call, epoch)
    OBVIOUS
  <2>3. rec.found
    BY <2>2 DEF Receipt
  <2>4. thread'[g].outbox.ok \/ thread'[g].outbox.disposition = "unknown"
    <3>1. PICK a \in {Answer(TRUE, "none")} \cup UnknownCommits : Post(g, a)
      BY <1>5 DEF ServeWrite
    <3>2. thread'[g].outbox = a
      BY <3>1, PostAnswers
    <3>3. a = Answer(TRUE, "none") \/ a \in UnknownCommits
      BY <3>1
    <3>4. a.ok \/ a.disposition = "unknown"
      BY <3>3, AnswerFields
    <3> QED
      BY <3>2, <3>4
  <2> QED
    BY <1>0, <2>1, <2>2, <2>3, <2>4, CommitTruth
<1>6. CASE ReplayWrite(g)
  <2>1. r.op = "write" /\ Found(r.call) /\ receipts' = receipts
    BY <1>6 DEF ReplayWrite, Has, Found, dbVars
  <2>2. PICK a \in {Answer(TRUE, "none"), Answer(FALSE, "committed")} : Post(g, a)
    BY <1>6 DEF ReplayWrite
  <2>3. thread'[g].outbox = a /\ (a.ok \/ (~a.ok /\ a.disposition = "committed"))
    BY <2>2, PostAnswers, AnswerFields
  <2> QED
    BY <1>0, <2>1, <2>3, QuietAnswer
<1>7. CASE CommitLost(g)
  <2>1. r.op \in {"prepare", "write"} /\ receipts' = receipts
    BY <1>7 DEF CommitLost, Has, dbVars
  <2>2. PICK a \in UnknownCommits : Post(g, a)
    BY <1>7 DEF CommitLost
  <2>3. thread'[g].outbox = a /\ a.ok = FALSE /\ a.disposition = "unknown"
    BY <2>2, PostAnswers, AnswerFields
  <2> QED
    BY <1>0, <2>1, <2>3, QuietAnswer
<1>8. CASE ServeReceipt(g)
  <2>1. /\ r.op = "receipt" /\ receipts' = receipts
        /\ Post(g, Answer(TRUE, IF receipts[Command[r.call]].found THEN "found" ELSE "absent"))
    BY <1>8 DEF ServeReceipt, Has, dbVars
  <2>2. /\ thread'[g].outbox.ok
        /\ thread'[g].outbox.disposition = IF Found(r.call) THEN "found" ELSE "absent"
    BY <2>1, PostAnswers, AnswerFields DEF Found
  <2> QED
    BY <1>0, <2>1, <2>2, QuietAnswer
<1> QED
  BY <1>1, <1>2, <1>3, <1>4, <1>5, <1>6, <1>7, <1>8 DEF ThreadStep

\* A step of the client that leaves what the thread has, or gives it a
\* request, and the calls told by it.
LEMMA ClientTruth ==
  ASSUME ClientOK, TruthOK, receipts' = receipts, generation' = generation,
         \/ UNCHANGED <<thread, inflight>>
         \/ inflight = None /\ generation > 0 /\ thread[generation].outbox = None
              /\ thread'[generation].outbox = None,
         \A c \in Calls : \/ outcome'[c] = outcome[c]
                          \/ outcome[c] = "idle" /\ outcome'[c] \in {"pending", "not-committed"}
                          \/ outcome[c] = "unknown" /\ outcome'[c] = "asking"
                          \/ outcome[c] = "recording" /\ outcome'[c] \in {"ok", "committed"}
  PROVE  TruthOK'
<1>1. \A c \in Calls : Found(c)' <=> Found(c)
  BY DEF Found
<1>2. CASE UNCHANGED <<thread, inflight>>
  <2>1. AnswerOK'
    <3>1. IsCall(inflight) => inflight.call \in Calls
      BY NoneShape, RequestShape DEF ClientOK, StorageTypes
    <3> QED
      BY <1>1, <1>2, <3>1 DEF TruthOK, AnswerOK, Live, Current
  <2>2. \A c \in Calls : AnswerOnItsWay(c)' <=> AnswerOnItsWay(c)
    BY <1>2 DEF AnswerOnItsWay, Live, InThread, Current
  <2>3. \A c \in Calls : /\ Carries(c) => Carries(c)'
                         /\ outcome'[c] \in Claimed => outcome[c] \in Claimed
    BY <2>2 DEF Carries, Leaves, Claimed, Open
  <2> QED
    BY <2>1, <2>3, TruthFrame
<1>3. CASE /\ inflight = None /\ generation > 0 /\ thread[generation].outbox = None
           /\ thread'[generation].outbox = None
  <2>1. AnswerOK'
    BY <1>3 DEF AnswerOK, Current
  <2>2. \A c \in Calls : ~AnswerOnItsWay(c)
    BY <1>3, NoneShape DEF AnswerOnItsWay, InThread
  <2>3. ASSUME NEW c \in Calls
        PROVE  /\ Carries(c) => Carries(c)'
               /\ outcome'[c] \in Claimed => outcome[c] \in Claimed
    <3>1. Carries(c) => outcome[c] \in Claimed \/ Leaves(c, outcome[c])
      BY <2>2 DEF Carries
    <3>2. outcome[c] \in Claimed \/ Leaves(c, outcome[c]) => outcome'[c] \in Claimed \/ Leaves(c, outcome'[c])
      BY DEF Claimed, Open, Leaves
    <3>3. outcome'[c] \in Claimed => outcome[c] \in Claimed
      BY DEF Claimed
    <3> QED
      BY <3>1, <3>2, <3>3 DEF Carries
  <2> QED
    BY <2>1, <2>3, TruthFrame
<1> QED
  BY <1>2, <1>3

LEMMA SentGives ==
  ASSUME ClientOK, NEW r, Sent(r), Live
  PROVE  \/ UNCHANGED <<thread, inflight>>
         \/ inflight = None /\ generation > 0 /\ thread[generation].outbox = None
              /\ thread'[generation].outbox = None
<1>1. CASE inflight = None
  <2>1. generation \in Generations /\ generation > 0
    BY GenerationOfThread DEF Live, ClientOK
  <2>4. thread[generation].outbox = None
    BY <1>1, <2>1 DEF ClientOK, ExchangeOK, Current
  <2>2. thread' = [thread EXCEPT ![generation].inbox = r]
    BY <1>1 DEF Sent
  <2>3. thread'[generation].outbox = None
    BY <2>1, <2>2, <2>4 DEF ClientOK, OnlyCurrentRuns, IsThread
  <2> QED
    BY <1>1, <2>1, <2>3, <2>4
<1>2. CASE inflight # None
  BY <1>2 DEF Sent
<1> QED
  BY <1>1, <1>2

LEMMA CallTruth ==
  ASSUME ClientOK, TruthOK, NEW c \in Calls, CallPrepare(c) \/ CallWrite(c) \/ AskReceipt(c)
  PROVE  TruthOK'
<1>1. receipts' = receipts /\ generation' = generation
  BY DEF CallPrepare, CallWrite, AskReceipt, dbVars
<1>2. DOMAIN outcome = Calls
  BY DEF ClientOK, StorageTypes
<1>3. \/ /\ outcome[c] = "idle"
         /\ \/ outcome' = [outcome EXCEPT ![c] = "pending"]
            \/ outcome' = [outcome EXCEPT ![c] = "not-committed"]
      \/ outcome[c] = "unknown" /\ outcome' = [outcome EXCEPT ![c] = "asking"]
  BY DEF CallPrepare, CallWrite, AskReceipt
<1>4. \A d \in Calls : \/ outcome'[d] = outcome[d]
                       \/ outcome[d] = "idle" /\ outcome'[d] \in {"pending", "not-committed"}
                       \/ outcome[d] = "unknown" /\ outcome'[d] = "asking"
  BY <1>2, <1>3
<1>5. CASE UNCHANGED <<thread, inflight>>
  BY <1>1, <1>4, <1>5, ClientTruth
<1>6. CASE ~UNCHANGED <<thread, inflight>>
  <2>1. PICK r \in Requests : Send(r) /\ state = "ready"
    <3>1. claim \in Nat
      BY DEF ClientOK, StorageTypes
    <3>2. CASE CallPrepare(c)
      <4>1. Send(CallRequest("prepare", c, 0)) /\ state = "ready" /\ Kind[c] = "prepare"
        BY <1>6, <3>2 DEF CallPrepare
      <4> QED
        BY <4>1, CallRequestShape
    <3>3. CASE CallWrite(c)
      <4>1. Send(CallRequest("write", c, claim)) /\ state = "ready" /\ claim # 0
        BY <1>6, <3>3 DEF CallWrite
      <4> QED
        BY <3>1, <4>1, CallRequestShape
    <3>4. CASE AskReceipt(c)
      <4>1. Send(CallRequest("receipt", c, 0)) /\ state = "ready"
        BY <3>4 DEF AskReceipt
      <4> QED
        BY <4>1, CallRequestShape
    <3> QED
      BY <3>2, <3>3, <3>4
  <2>2. Live
    BY <2>1 DEF ClientOK, StepOK
  <2>3. Sent(r)
    BY <1>1, <2>1, SendSends
  <2> QED
    BY <1>1, <1>4, <2>2, <2>3, SentGives, ClientTruth
<1> QED
  BY <1>5, <1>6

LEMMA QuietTruth ==
  ASSUME ClientOK, TruthOK, Hello \/ OpenDone \/ Close \/ OtherClaims \/ UNCHANGED vars
  PROVE  TruthOK'
<1>1. UNCHANGED <<receipts, generation, outcome>>
  BY DEF Hello, OpenDone, Close, OtherClaims, vars, dbVars, clientVars
<1>2. CASE UNCHANGED <<thread, inflight>>
  BY <1>1, <1>2, ClientTruth
<1>3. CASE ~UNCHANGED <<thread, inflight>>
  <2>1. PICK r \in Requests : Send(r) /\ Live
    <3>1. CASE Hello
      <4>1. PICK next \in {"check", "open"} : Send(Request(next)) /\ step = "hello" /\ ~lost
        BY <3>1 DEF Hello
      <4>2. Request(next) \in Requests
        BY DEF Request, Requests
      <4>3. Live
        BY <4>1 DEF ClientOK, StepOK, OpeningSteps
      <4> QED
        BY <4>1, <4>2, <4>3
    <3>2. CASE Close
      <4>1. Send(Request("close")) /\ state = "ready"
        BY <3>2 DEF Close
      <4>2. Request("close") \in Requests /\ Live
        BY <4>1 DEF Request, Requests, ClientOK, StepOK
      <4> QED
        BY <4>1, <4>2
    <3> QED
      BY <1>3, <3>1, <3>2 DEF OpenDone, OtherClaims, vars, clientVars
  <2>2. Sent(r)
    BY <1>1, <2>1, SendSends
  <2> QED
    BY <1>1, <2>1, <2>2, SentGives, ClientTruth
<1> QED
  BY <1>2, <1>3

LEMMA RecordTruth ==
  ASSUME ClientOK, TruthOK, NEW c \in Calls, RecordDone(c) \/ RecordFails(c)
  PROVE  TruthOK'
<1>1. outcome[c] = "recording" /\ receipts' = receipts /\ generation' = generation /\ DOMAIN outcome = Calls
  BY DEF RecordDone, RecordFails, dbVars, ClientOK, StorageTypes
<1>2. CASE UNCHANGED <<thread, inflight>>
  <2>1. CASE outcome' \in {[outcome EXCEPT ![c] = "ok"], [outcome EXCEPT ![c] = "committed"]}
    <3>1. \A d \in Calls : \/ outcome'[d] = outcome[d]
                           \/ outcome[d] = "recording" /\ outcome'[d] \in {"ok", "committed"}
      BY <1>1, <2>1
    <3> QED
      BY <1>1, <1>2, <3>1, ClientTruth
  <2>2. CASE /\ outcome' = [Rejected EXCEPT ![c] = "committed"] /\ state # "unavailable" /\ prepared[c].on = generation
             /\ inflight' = None
    <3>1. \A d \in Calls : outcome'[d] = IF d = c THEN "committed" ELSE Rejected[d]
      BY <2>2, RejectedShape
    <3>2. inflight = None /\ Len(queue) = 0
      BY <1>2, <2>2 DEF ClientOK, QueueOK
    <3>3. \A d \in Calls : outcome[d] \notin {"pending", "asking"}
      BY <3>2, NoneShape DEF ClientOK, QueueOK, Waiting, InThread
    <3>4. \A d \in Calls : \/ outcome'[d] = outcome[d]
                           \/ outcome[d] = "recording" /\ outcome'[d] \in {"ok", "committed"}
      BY <1>1, <3>1, <3>3, RejectedShape
    <3> QED
      BY <1>1, <1>2, <3>4, ClientTruth
  <2> QED
    BY <2>1, <2>2 DEF RecordDone, RecordFails
<1>3. CASE ~UNCHANGED <<thread, inflight>>
  <2>1. /\ RecordFails(c) /\ queue' = <<>> /\ inflight' = None
        /\ thread' = [thread EXCEPT ![generation].phase = IF @ = "live" THEN "ending" ELSE @]
        /\ outcome' = [Rejected EXCEPT ![c] = "committed"]
    BY <1>3 DEF RecordDone, RecordFails
  <2>2. \A d \in Calls : outcome'[d] = IF d = c THEN "committed" ELSE Rejected[d]
    BY <2>1, RejectedShape
  <2>3. ASSUME NEW d \in Calls
        PROVE  /\ outcome'[d] \in Claimed => outcome[d] \in Claimed
               /\ Carries(d) => Carries(d)'
    BY <1>1, <2>2, RejectedCarries DEF Carries, Claimed
  <2>4. ~Live'
    <3>1. generation > 0 => thread'[generation].phase # "live"
      BY <2>1, GenerationOfThread DEF ClientOK, OnlyCurrentRuns, IsThread
    <3> QED
      BY <1>1, <3>1 DEF Live
  <2>5. AnswerOK'
    BY <2>4 DEF AnswerOK
  <2> QED
    BY <1>1, <2>3, <2>5, TruthFrame
<1> QED
  BY <1>2, <1>3

LEMMA AnswerTruth ==
  ASSUME ClientOK, TruthOK, AnswerCall
  PROVE  TruthOK'
<1>1. PICK c \in Calls : c = inflight.call
  BY AnswerCallShape
<1>2. PICK a \in Answers : a = Current.outbox
  BY AnswerCallShape DEF Current
<1>3. PICK told : told = Told(c, a)
  OBVIOUS
<1>4. /\ IsCall(inflight) /\ Live /\ Current.outbox # None /\ InThread(c)
      /\ receipts' = receipts /\ generation' = generation /\ DOMAIN outcome = Calls
  BY <1>1, AnswerCallShape DEF Live, Current, InThread, ClientOK, StorageTypes
<1>5. /\ told \in Claimed => Found(c)
      /\ told \in Claimed \/ Leaves(c, told) \/ ~Found(c) \/ ~Carries(c)
  <2>1. CASE inflight.op = "receipt"
    <3>1. told = IF a.ok THEN a.disposition ELSE "unknown"
      BY <1>3, <2>1 DEF Told
    <3>2. a.ok => \/ a.disposition = "found" /\ Found(c)
                  \/ a.disposition = "absent" /\ ~Found(c)
      BY <1>1, <1>2, <1>4, <2>1 DEF TruthOK, AnswerOK
    <3> QED
      BY <3>1, <3>2 DEF Claimed, Open, Leaves
  <2>2. CASE inflight.op # "receipt"
    <3>1. IF a.ok THEN Found(c) ELSE \/ a.disposition \in {"not-committed", "unknown"}
                                     \/ a.disposition = "committed" /\ Found(c)
      BY <1>1, <1>2, <1>4, <2>2 DEF TruthOK, AnswerOK
    <3>2. inflight.op \in {"prepare", "write"}
      BY <1>4, <2>2 DEF IsCall
    <3>3. IF a.ok THEN told \in {"recording", "committed", "ok"} ELSE told = a.disposition
      BY <1>3, <3>2 DEF Told
    <3>4. outcome[c] = "pending"
      BY <1>1, <2>2, AnswerCallShape DEF AskedAs
    <3>5. Carries(c) => a.ok \/ a.disposition # "not-committed" \/ Kind[c] = "prepare"
      BY <1>2, <3>4 DEF Carries, AnswerOnItsWay, Claimed, Open, Leaves
    <3> QED
      BY <3>1, <3>3, <3>5 DEF Claimed, Open, Leaves
  <2> QED
    BY <2>1, <2>2
<1>6. CASE a.fatal
  <2>1. outcome' = [Rejected EXCEPT ![c] = told] /\ inflight' = None
        /\ thread' = [[thread EXCEPT ![generation].outbox = None] EXCEPT ![generation].phase = "ending"]
    BY <1>1, <1>2, <1>3, <1>6 DEF AnswerCall
  <2>2. \A d \in Calls : outcome'[d] = IF d = c THEN told ELSE Rejected[d]
    BY <2>1, RejectedShape
  <2>3. AnswerOK'
    BY <2>1, NoneShape DEF AnswerOK
  <2>4. ASSUME NEW d \in Calls
        PROVE  /\ outcome'[d] \in Claimed => outcome[d] \in Claimed \/ Found(d)
               /\ Carries(d) => Carries(d)' \/ ~Found(d)
    <3>1. outcome'[d] \in Claimed \/ Leaves(d, outcome'[d]) => Carries(d)'
      BY DEF Carries
    <3> QED
      BY <1>5, <2>2, <3>1, RejectedCarries
  <2> QED
    BY <1>4, <2>3, <2>4, TruthFrame
<1>7. CASE ~a.fatal
  <2>1. /\ outcome' = [outcome EXCEPT ![c] = told]
        /\ Pump(queue, [thread EXCEPT ![generation].outbox = None])
    BY <1>1, <1>2, <1>3, <1>7 DEF AnswerCall
  <2>2. \A d \in Calls : outcome'[d] = IF d = c THEN told ELSE outcome[d]
    BY <1>4, <2>1
  <2>3. thread'[generation].outbox = None
    <3>1. PICK t : t = [thread EXCEPT ![generation].outbox = None]
      OBVIOUS
    <3>2. generation \in Generations /\ DOMAIN t = Generations /\ t[generation].outbox = None /\ IsThread(t[generation])
      BY <3>1, AnswerCallShape DEF ClientOK, OnlyCurrentRuns, IsThread
    <3>3. thread' = t \/ thread' = [t EXCEPT ![generation].inbox = Head(queue)]
      BY <2>1, <3>1 DEF Pump
    <3> QED
      BY <3>2, <3>3 DEF IsThread
  <2>4. AnswerOK'
    BY <1>4, <2>3 DEF AnswerOK, Current
  <2>5. ASSUME NEW d \in Calls
        PROVE  /\ outcome'[d] \in Claimed => outcome[d] \in Claimed \/ Found(d)
               /\ Carries(d) => Carries(d)' \/ ~Found(d)
    <3>1. outcome'[d] \in Claimed \/ Leaves(d, outcome'[d]) => Carries(d)'
      BY DEF Carries
    <3>2. CASE d = c
      BY <1>5, <2>2, <3>1, <3>2
    <3>3. CASE d # c
      <4>1. outcome'[d] = outcome[d] /\ ~InThread(d)
        BY <1>1, <2>2, <3>3 DEF InThread
      <4>2. Carries(d) => outcome[d] \in Claimed \/ Leaves(d, outcome[d])
        BY <4>1 DEF Carries, AnswerOnItsWay
      <4> QED
        BY <3>1, <4>1, <4>2
    <3> QED
      BY <3>2, <3>3
  <2> QED
    BY <1>4, <2>4, <2>5, TruthFrame
<1> QED
  BY <1>6, <1>7

\* The other steps tell nobody anything, or end the worker.
LEMMA NoCallTruth ==
  ASSUME ClientOK, TruthOK, receipts' = receipts, outcome' = outcome, ~IsCall(inflight), ~IsCall(inflight')
  PROVE  TruthOK'
<1>1. AnswerOK'
  BY DEF AnswerOK
<1>2. \A c \in Calls : Carries(c) => Carries(c)'
  BY DEF Carries, AnswerOnItsWay, InThread
<1> QED
  BY <1>1, <1>2, TruthFrame

LEMMA OtherTruth ==
  ASSUME ClientOK, TruthOK,
         \/ Reopen \/ AnswerOpening \/ (AnswerClose /\ Current.outbox.ok) \/ Crash
         \/ \E g \in Generations : Gone(g)
  PROVE  TruthOK'
<1>1. CASE Reopen
  <2>1. inflight = None /\ inflight' = inflight /\ receipts' = receipts /\ outcome' = outcome
    BY <1>1 DEF Reopen, Current, ClientOK, StepOK, Live, dbVars
  <2> QED
    BY <2>1, NoneShape, NoCallTruth
<1>2. CASE AnswerOpening
  <2>1. /\ inflight.op \in {"check", "open"} /\ receipts' = receipts /\ outcome' = outcome
        /\ inflight' \in {None, Request("open")}
    BY <1>2 DEF AnswerOpening, dbVars
  <2>2. ~IsCall(inflight) /\ ~IsCall(inflight')
    BY <2>1 DEF IsCall, None, Request
  <2> QED
    BY <2>1, <2>2, NoCallTruth
<1>3. CASE AnswerClose /\ Current.outbox.ok
  <2>1. inflight.op = "close" /\ inflight' = None /\ receipts' = receipts /\ outcome' = outcome
    BY <1>3 DEF AnswerClose, dbVars
  <2>2. ~IsCall(inflight) /\ ~IsCall(inflight')
    BY <2>1, NoneShape DEF IsCall
  <2> QED
    BY <2>1, <2>2, NoCallTruth
<1>4. CASE \E g \in Generations : Gone(g)
  <2>1. PICK g \in Generations : Gone(g)
    BY <1>4
  <2>2. thread[g].phase = "ending" /\ UNCHANGED <<inflight, receipts, outcome>>
    BY <2>1 DEF Gone, dbVars
  <2>3. g = generation
    BY <2>2, RunningIsCurrent DEF Running, ClientOK
  <2>4. inflight = None
    BY <2>2, <2>3 DEF ClientOK, StepOK, Live
  <2> QED
    BY <2>2, <2>4, NoneShape, NoCallTruth
<1>5. CASE Crash
  <2>1. /\ receipts' = receipts /\ inflight' = None
        /\ \A c \in Calls : outcome'[c] = IF outcome[c] \in {"pending", "recording", "asking"} THEN "unknown" ELSE outcome[c]
    BY <1>5 DEF Crash, dbVars
  <2>2. AnswerOK'
    BY <2>1, NoneShape DEF AnswerOK
  <2>3. \A c \in Calls : /\ outcome'[c] \in Claimed => outcome[c] \in Claimed
                         /\ Carries(c) => Carries(c)'
    BY <2>1 DEF Carries, Leaves, Claimed, Open
  <2> QED
    BY <2>1, <2>2, <2>3, TruthFrame
<1> QED
  BY <1>1, <1>2, <1>3, <1>4, <1>5

LEMMA TruthStep ==
  ASSUME ClientOK, EffectHasReceipt, TruthOK, [Next]_vars
  PROVE  TruthOK'
<1>1. CASE Hello \/ OpenDone \/ Close \/ OtherClaims \/ UNCHANGED vars
  BY <1>1, QuietTruth
<1>2. CASE Reopen \/ Crash
  BY <1>2, OtherTruth
<1>3. CASE HelloRefused \/ Refuse \/ RefuseDone \/ Deadline \/ ThreadDies
  BY <1>3, FailTruth
<1>4. CASE Answered
  BY <1>4, AnswerTruth, OtherTruth, FailTruth DEF Answered
<1>5. ASSUME NEW c \in Calls, CallPrepare(c) \/ CallWrite(c) \/ AskReceipt(c) PROVE TruthOK'
  BY <1>5, CallTruth
<1>6. ASSUME NEW c \in Calls, RecordDone(c) \/ RecordFails(c) PROVE TruthOK'
  BY <1>6, RecordTruth
<1>7. ASSUME NEW g \in Generations, ThreadStep(g) \/ Gone(g) PROVE TruthOK'
  BY <1>7, ThreadTruth, OtherTruth
<1> QED
  BY <1>1, <1>2, <1>3, <1>4, <1>5, <1>6, <1>7 DEF Next

Awaited == {"pending", "recording", "asking", "unknown"}

LEMMA WordNames ==
  /\ \A k : Word(k, "idle") = "idle"
  /\ \A k, o : /\ o \in Awaited => Word(k, o) = "open"
               /\ Word(k, o) = "yes" <=> o \in {"ok", "committed", "found"}
               /\ Word(k, o) \in {"idle", "open", "yes", "no"}
               /\ Word(k, o) = "idle" => o = "idle"
               /\ k = "prepare" /\ o = "not-committed" => Word(k, o) = "open"
  BY DEF Word, Awaited

\* A call that carries a receipt was not told that there is none.
LEMMA CarriesWord == ASSUME NEW c \in Calls, Carries(c) PROVE Word(Kind[c], outcome[c]) \in {"open", "yes"}
  BY DEF Carries, Leaves, Claimed, Open, Word

LEMMA NoEffectYet == Init => EffectHasReceipt
  BY DEF Init, EffectHasReceipt, NoReceipt

\* No call has been told anything, and no thread was started.
LEMMA ClientStarts == ASSUME Init PROVE ClientOK /\ TruthOK
<1>1. OnlyCurrentRuns
  BY NoneRunsYet
<1>2. /\ state = "closed" /\ step = "none" /\ claim = 0 /\ epoch = 0 /\ generation = 0
      /\ queue = <<>> /\ Len(queue) = 0 /\ queue \in Seq(Requests)
      /\ inflight = None /\ inflight.op = "none" /\ ~IsCall(inflight)
      /\ DOMAIN outcome = Calls
      /\ \A c \in Calls : outcome[c] = "idle"
      /\ \A k \in Commands : receipts[k].found = FALSE
  BY NoneShape DEF Init, NoReceipt
<1>3. ASSUME NEW g \in Generations
      PROVE  /\ thread[g].phase = "none" /\ thread[g].inbox = None
             /\ thread[g].outbox = None /\ thread[g].claimed = 0
  BY DEF Init, IdleThread, Disconnected
<1>4. /\ prepared \in [Calls -> [on: Nat, epoch: Nat, claimed: BOOLEAN]]
      /\ \A c \in Calls : prepared[c].on = 0
  BY DEF Init
<1>5. ~Live /\ \A c \in Calls : ~InThread(c)
  BY <1>2 DEF Live, InThread
<1>6. StorageTypes
  <2>1. \A g \in Generations : /\ thread[g].phase \in Phases
                               /\ thread[g].inbox \in Requests \cup {None}
                               /\ thread[g].outbox \in Answers \cup {None}
                               /\ thread[g].claimed \in Nat
    BY <1>3, PhaseNames
  <2> QED
    BY <1>2, <1>4, <2>1 DEF StorageTypes, States, Steps
<1>7. QueueOK /\ StepOK /\ ExchangeOK
  BY <1>2, <1>4, <1>5 DEF QueueOK, StepOK, ExchangeOK, OpeningSteps
<1>8. TruthOK
  BY <1>2, <1>5, CommandOfCall DEF TruthOK, AnswerOK, Found, Claimed
<1> QED
  BY <1>1, <1>6, <1>7, <1>8 DEF ClientOK

\* A write's refusal never lies: what was told not committed has no receipt
\* and gets none from a thread that was being ended; and what any call was
\* told committed is in the database (client.ts #stopThread, #answer;
\* runtime.ts doWrite, replay).  A prepare's refusal is no part of it: the
\* thread reads after its COMMIT and answers an error there as one before it
\* (runtime.ts doPrepare).
THEOREM AnswersAreTrueAlways == Spec => []AnswersAreTrue
<1> DEFINE IInv == ClientOK /\ EffectHasReceipt /\ TruthOK
<1>1. Init => IInv
  BY ClientStarts, NoEffectYet
<1>2. IInv /\ [Next]_vars => IInv'
  BY ClientStep, EffectStep, TruthStep
<1>3. ASSUME TruthOK PROVE AnswersAreTrue
  <2>1. CommittedMeansDurable
    BY <1>3 DEF TruthOK, CommittedMeansDurable, Claimed, Found
  <2>2. ASSUME NEW c \in Calls, Found(c), \A d \in Siblings(c) : Said[d] \in {"idle", "no"}
        PROVE  FALSE
    <3>1. PICK d \in Siblings(c) : Carries(d)
      BY <1>3, <2>2 DEF TruthOK
    <3>2. d \in Calls /\ Said[d] = Word(Kind[d], outcome[d])
      BY <3>1 DEF Said, Siblings
    <3> QED
      BY <2>2, <3>1, <3>2, CarriesWord
  <2> QED
    BY <2>1, <2>2 DEF AnswersAreTrue, RefusedMeansNotCommitted, Found
<1>4. IInv => AnswersAreTrue
  BY <1>3
<1> QED
  BY <1>1, <1>2, <1>4, PTL DEF Spec

\* A close() the thread acknowledged leaves no call waiting: the queue was
\* served before it, in order (client.ts close, #pump).
THEOREM CloseDrains == Spec => []CloseIsDrained
<1>1. Init => ClientOK
  BY ClientStarts
<1>2. ClientOK /\ [Next]_vars => ClientOK'
  BY ClientStep
<1>3. ASSUME ClientOK PROVE CloseIsDrained
  <2>1. ASSUME step = "leaving" PROVE inflight = None /\ Len(queue) = 0
    BY <1>3, <2>1 DEF ClientOK, StepOK, QueueOK
  <2>2. ASSUME step = "leaving", NEW c \in Calls PROVE ~Waiting(c) /\ ~InThread(c)
    BY <2>1, <2>2, NoneShape DEF Waiting, InThread
  <2> QED
    BY <1>3, <2>2 DEF CloseIsDrained, ClientOK, QueueOK
<1> QED
  BY <1>1, <1>2, <1>3, PTL DEF Spec
-----------------------------------------------------------------------------
(* Owners.  A connection's claim is at most the newest epoch, and equals it *)
(* only on the thread that made that claim.                                 *)

OwnerOK ==
    \A g \in Generations :
        /\ thread[g].claimed \in 0..epoch
        /\ ~Running(g) => thread[g].claimed = 0
        /\ thread[g].claimed = epoch /\ epoch # 0 => owner = g

\* What most steps do to the claims: a running thread keeps its own, or loses
\* it with its connection.
ClaimsStay ==
    /\ epoch' = epoch /\ owner' = owner
    /\ \A g \in Generations : \/ thread'[g].claimed = 0
                              \/ /\ thread'[g].claimed = thread[g].claimed
                                 /\ Running(g) => thread'[g].phase \in {"live", "ending"}

LEMMA StayKeeps == ASSUME OwnerOK, StorageTypes, ClaimsStay PROVE OwnerOK'
<1>1. epoch \in Nat /\ epoch' = epoch /\ owner' = owner
  BY DEF StorageTypes, ClaimsStay
<1>2. ASSUME NEW g \in Generations
      PROVE  /\ thread'[g].claimed \in 0..epoch
             /\ thread'[g].phase \notin {"live", "ending"} => thread'[g].claimed = 0
             /\ thread'[g].claimed = epoch /\ epoch # 0 => owner = g
  BY <1>1 DEF OwnerOK, ClaimsStay
<1> QED
  BY <1>1, <1>2 DEF OwnerOK, Running

LEMMA SendStays ==
  ASSUME OnlyCurrentRuns, NEW r, Send(r), UNCHANGED <<epoch, owner>>
  PROVE  ClaimsStay
<1>1. \/ thread' = thread
      \/ \E q : thread' = [thread EXCEPT ![generation].inbox = q]
  BY DEF Send, Pump
<1> QED
  BY <1>1 DEF OnlyCurrentRuns, ClaimsStay, Running, IsThread

LEMMA PostedClaims ==
  ASSUME OnlyCurrentRuns, NEW g, NEW a
  PROVE  /\ DOMAIN Posted(g, a) = Generations
         /\ \A h \in Generations : /\ IsThread(Posted(g, a)[h])
                                   /\ Posted(g, a)[h].claimed = thread[h].claimed
                                   /\ Posted(g, a)[h].phase = thread[h].phase
<1>1. PICK t : t = [thread EXCEPT ![g].inbox = None]
  OBVIOUS
<1>2. /\ DOMAIN t = Generations
      /\ \A h \in Generations : /\ IsThread(t[h])
                                /\ t[h].claimed = thread[h].claimed /\ t[h].phase = thread[h].phase
  BY <1>1 DEF OnlyCurrentRuns, IsThread
<1>3. Posted(g, a) = [t EXCEPT ![g].outbox = a]
  BY <1>1 DEF Posted
<1> QED
  BY <1>2, <1>3 DEF IsThread

LEMMA StopStays ==
  ASSUME OnlyCurrentRuns, StopThread, UNCHANGED <<epoch, owner>>
  PROVE  ClaimsStay
  BY DEF OnlyCurrentRuns, ClaimsStay, Running, StopThread, IsThread

LEMMA PostStays ==
  ASSUME OnlyCurrentRuns, NEW g, NEW a, Post(g, a), UNCHANGED <<epoch, owner>>
  PROVE  ClaimsStay
  BY DEF OnlyCurrentRuns, ClaimsStay, Running, Post, Posted, IsThread

LEMMA PumpStays ==
  ASSUME OnlyCurrentRuns, NEW q, NEW a, Pump(q, [thread EXCEPT ![generation].outbox = a]),
         UNCHANGED <<epoch, owner>>
  PROVE  ClaimsStay
  BY DEF OnlyCurrentRuns, ClaimsStay, Running, Pump, IsThread

LEMMA SameThreadsStay ==
  ASSUME thread' = thread, UNCHANGED <<epoch, owner>>
  PROVE  ClaimsStay
  BY DEF ClaimsStay, Running

LEMMA ClientStays ==
  ASSUME OnlyCurrentRuns,
         \/ Hello \/ HelloRefused \/ OpenDone \/ Refuse \/ RefuseDone \/ Close \/ Deadline \/ ThreadDies
         \/ \E c \in Calls : CallPrepare(c) \/ CallWrite(c) \/ AskReceipt(c) \/ RecordDone(c) \/ RecordFails(c)
  PROVE  ClaimsStay
<1> USE DEF dbVars
<1>1. CASE Hello \/ Close
  BY <1>1, SendStays DEF Hello, Close
<1>2. CASE HelloRefused \/ Refuse \/ RefuseDone \/ Deadline \/ ThreadDies
  BY <1>2, StopStays DEF HelloRefused, Refuse, RefuseDone, Deadline, ThreadDies, ThreadFailed, Fail
<1>3. CASE OpenDone
  BY <1>3, SameThreadsStay DEF OpenDone
<1>4. ASSUME NEW c \in Calls, CallPrepare(c) \/ CallWrite(c) \/ AskReceipt(c) PROVE ClaimsStay
  BY <1>4, SendStays, SameThreadsStay DEF CallPrepare, CallWrite, AskReceipt
<1>5. ASSUME NEW c \in Calls, RecordDone(c) \/ RecordFails(c) PROVE ClaimsStay
  <2>1. CASE thread' = thread
    BY <1>5, <2>1, SameThreadsStay DEF RecordDone, RecordFails
  <2>2. CASE thread' # thread
    <3>1. /\ thread' = [thread EXCEPT ![generation].phase = IF @ = "live" THEN "ending" ELSE @]
          /\ epoch' = epoch /\ owner' = owner
      BY <1>5, <2>2 DEF RecordDone, RecordFails
    <3> QED
      BY <3>1 DEF OnlyCurrentRuns, ClaimsStay, Running, IsThread
  <2> QED
    BY <2>1, <2>2
<1> QED
  BY <1>1, <1>2, <1>3, <1>4, <1>5

LEMMA AnswerStays ==
  ASSUME OnlyCurrentRuns, Answered
  PROVE  ClaimsStay
<1> USE DEF dbVars
<1>1. CASE AnswerCall
  <2>1. CASE Current.outbox.fatal
    BY <1>1, <2>1 DEF AnswerCall, Current, OnlyCurrentRuns, ClaimsStay, Running, IsThread
  <2>2. CASE ~Current.outbox.fatal
    BY <1>1, <2>2, PumpStays DEF AnswerCall
  <2> QED
    BY <2>1, <2>2
<1>2. CASE AnswerOpening
  BY <1>2 DEF AnswerOpening, Current, OnlyCurrentRuns, ClaimsStay, Running, IsThread
<1>3. CASE AnswerClose
  <2>1. CASE Current.outbox.ok
    BY <1>3, <2>1 DEF AnswerClose, Current, OnlyCurrentRuns, ClaimsStay, Running, IsThread
  <2>2. CASE ~Current.outbox.ok
    BY <1>3, <2>2, StopStays DEF AnswerClose, Fail
  <2> QED
    BY <2>1, <2>2
<1> QED
  BY <1>1, <1>2, <1>3 DEF Answered

\* A thread that exits, crashes, is started or closes has no claim.
LEMMA IdleStays ==
  ASSUME OnlyCurrentRuns,
         Reopen \/ Crash \/ \E g \in Generations : Gone(g) \/ ServeClose(g)
  PROVE  ClaimsStay
<1> USE DEF dbVars
<1>1. \A p, a : Disconnected(p, a).claimed = 0
  BY DEF Disconnected
<1>2. \A p : IdleThread(p).claimed = 0
  BY <1>1 DEF IdleThread
<1>3. CASE Reopen
  BY <1>2, <1>3 DEF Reopen, OnlyCurrentRuns, ClaimsStay, Running
<1>4. CASE Crash
  BY <1>2, <1>4 DEF Crash, ClaimsStay
<1>5. ASSUME NEW g \in Generations, Gone(g) PROVE ClaimsStay
  BY <1>2, <1>5 DEF Gone, OnlyCurrentRuns, ClaimsStay, Running
<1>6. ASSUME NEW g \in Generations, ServeClose(g) PROVE ClaimsStay
  <2>1. PICK d : d = Disconnected(thread[g].phase, Answer(TRUE, "none"))
    OBVIOUS
  <2>2. thread' = [thread EXCEPT ![g] = d] /\ d.claimed = 0 /\ epoch' = epoch /\ owner' = owner
    BY <1>1, <1>6, <2>1 DEF ServeClose
  <2> QED
    BY <2>2 DEF OnlyCurrentRuns, ClaimsStay, Running
<1> QED
  BY <1>3, <1>4, <1>5, <1>6

\* A claim made or repeated: no other thread has the newest epoch.
LEMMA ClaimKeeps ==
  ASSUME ClientOK, OwnerOK, NEW g \in Generations, ServePrepare(g) \/ ReplayPrepare(g)
  PROVE  OwnerOK'
<1>1. epoch \in Nat
  BY DEF ClientOK, StorageTypes
<1>2. ASSUME NEW h \in Generations, h # g PROVE thread[h].claimed = 0
  <2>1. ~Running(h)
    BY <1>2, RunningIsCurrent DEF ServePrepare, ReplayPrepare, Has, ClientOK
  <2> QED
    BY <2>1 DEF OwnerOK
<1>3. ASSUME NEW e \in Nat, NEW a, thread' = [Posted(g, a) EXCEPT ![g].claimed = e]
      PROVE  /\ thread'[g].claimed = e
             /\ \A h \in Generations : /\ thread'[h].phase = thread[h].phase
                                       /\ h # g => thread'[h].claimed = thread[h].claimed
  <2>1. PICK t : t = Posted(g, a)
    OBVIOUS
  <2>2. /\ DOMAIN t = Generations
        /\ \A h \in Generations : /\ IsThread(t[h]) /\ t[h].phase = thread[h].phase
                                  /\ t[h].claimed = thread[h].claimed
    BY <2>1, PostedClaims DEF ClientOK
  <2>3. thread' = [t EXCEPT ![g].claimed = e]
    BY <1>3, <2>1
  <2> QED
    BY <2>2, <2>3 DEF IsThread
<1>4. CASE ServePrepare(g)
  <2>1. epoch' = epoch + 1 /\ owner' = g /\ Running(g)
    BY <1>4 DEF ServePrepare, Has
  <2>2. \/ \E a \in UnknownCommits \cup Refusals : Post(g, a)
        \/ \E a : thread' = [Posted(g, a) EXCEPT ![g].claimed = epoch + 1]
    BY <1>4 DEF ServePrepare
  <2>3. CASE \E a \in UnknownCommits \cup Refusals : Post(g, a)
    <3>1. \A h \in Generations : /\ thread'[h].claimed = thread[h].claimed
                                 /\ thread'[h].phase = thread[h].phase
      BY <2>3 DEF Post, Posted, ClientOK, OnlyCurrentRuns, IsThread
    <3> QED
      BY <1>1, <2>1, <3>1 DEF OwnerOK, Running
  <2>4. CASE \E a : thread' = [Posted(g, a) EXCEPT ![g].claimed = epoch + 1]
    <3>1. epoch + 1 \in Nat
      BY <1>1
    <3>2. /\ thread'[g].claimed = epoch + 1
          /\ \A h \in Generations : /\ thread'[h].phase = thread[h].phase
                                    /\ h # g => thread'[h].claimed = thread[h].claimed
      BY <1>3, <2>4, <3>1
    <3> QED
      BY <1>1, <1>2, <2>1, <3>2 DEF OwnerOK, Running
  <2> QED
    BY <2>2, <2>3, <2>4
<1>5. CASE ReplayPrepare(g)
  <2>1. PICK r : r = receipts[Command[thread[g].inbox.call]]
    OBVIOUS
  <2>r. CASE (\E a \in Refusals : Post(g, a)) /\ owner' = owner
    <3>1. \A h \in Generations : /\ thread'[h].claimed = thread[h].claimed
                                 /\ thread'[h].phase = thread[h].phase
      BY <2>r DEF Post, Posted, ClientOK, OnlyCurrentRuns, IsThread
    <3>2. epoch' = epoch
      BY <1>5 DEF ReplayPrepare
    <3> QED
      BY <2>r, <3>1, <3>2 DEF OwnerOK, Running
  <2> SUFFICES ASSUME ~((\E a \in Refusals : Post(g, a)) /\ owner' = owner) PROVE OwnerOK'
    BY <2>r
  <2>2. /\ Running(g) /\ epoch' = epoch /\ r.found
        /\ \E a : thread' = [Posted(g, a) EXCEPT ![g].claimed = IF r.found /\ r.epoch = epoch THEN r.epoch ELSE @]
        /\ owner' = IF r.found /\ r.epoch = epoch THEN g ELSE owner
    BY <1>5, <2>1 DEF ReplayPrepare, Has
  <2>3. CASE r.epoch = epoch
    <3>1. \E a : thread' = [Posted(g, a) EXCEPT ![g].claimed = epoch]
      BY <2>2, <2>3
    <3>2. /\ thread'[g].claimed = epoch
          /\ \A h \in Generations : /\ thread'[h].phase = thread[h].phase
                                    /\ h # g => thread'[h].claimed = thread[h].claimed
      BY <1>1, <1>3, <3>1
    <3>3. owner' = g
      BY <2>2, <2>3
    <3> QED
      BY <1>1, <1>2, <2>2, <3>2, <3>3 DEF OwnerOK, Running
  <2>4. CASE r.epoch # epoch
    <3>1. PICK a : thread' = [Posted(g, a) EXCEPT ![g].claimed = @]
      BY <2>2, <2>4
    <3>2. PICK t : t = Posted(g, a)
      OBVIOUS
    <3>3. /\ DOMAIN t = Generations
          /\ \A h \in Generations : /\ IsThread(t[h]) /\ t[h].phase = thread[h].phase
                                    /\ t[h].claimed = thread[h].claimed
      BY <3>2, PostedClaims DEF ClientOK
    <3>4. \A h \in Generations : /\ thread'[h].claimed = thread[h].claimed
                                 /\ thread'[h].phase = thread[h].phase
      BY <3>1, <3>2, <3>3 DEF IsThread
    <3>5. owner' = owner
      BY <2>2, <2>4
    <3> QED
      BY <1>1, <2>2, <3>4, <3>5 DEF OwnerOK, Running
  <2> QED
    BY <2>3, <2>4
<1> QED
  BY <1>4, <1>5

LEMMA OwnerStep ==
  ASSUME ClientOK, OwnerOK, [Next]_vars
  PROVE  OwnerOK'
<1> USE DEF ClientOK
<1>1. CASE \/ Hello \/ HelloRefused \/ OpenDone \/ Refuse \/ RefuseDone \/ Close \/ Deadline \/ ThreadDies
           \/ Answered \/ Reopen \/ Crash
  BY <1>1, ClientStays, AnswerStays, IdleStays, StayKeeps
<1>2. ASSUME NEW c \in Calls,
             CallPrepare(c) \/ CallWrite(c) \/ AskReceipt(c) \/ RecordDone(c) \/ RecordFails(c)
      PROVE  OwnerOK'
  BY <1>2, ClientStays, StayKeeps
<1>3. ASSUME NEW g \in Generations, Gone(g) \/ ServeClose(g) PROVE OwnerOK'
  BY <1>3, IdleStays, StayKeeps
<1>4. ASSUME NEW g \in Generations, ServePrepare(g) \/ ReplayPrepare(g) PROVE OwnerOK'
  BY <1>4, ClaimKeeps
<1>5. ASSUME NEW g \in Generations,
             \/ ServeRefused(g) \/ ServeCheck(g) \/ ServeWrite(g)
             \/ ReplayWrite(g) \/ CommitLost(g) \/ ServeReceipt(g)
      PROVE  OwnerOK'
  BY <1>5, PostStays, StayKeeps
     DEF ServeRefused, ServeCheck, ServeWrite, ReplayWrite, CommitLost, ServeReceipt, dbVars
<1>6. ASSUME NEW g \in Generations, ServeOpen(g) PROVE OwnerOK'
  <2>1. PICK t : t = Posted(g, Answer(TRUE, "none"))
    OBVIOUS
  <2>2. /\ DOMAIN t = Generations
        /\ \A h \in Generations : /\ IsThread(t[h]) /\ t[h].phase = thread[h].phase
                                  /\ t[h].claimed = thread[h].claimed
    BY <2>1, PostedClaims
  <2>3. thread' = [t EXCEPT ![g].conn = TRUE] /\ epoch' = epoch /\ owner' = owner
    BY <1>6, <2>1 DEF ServeOpen, dbVars
  <2>4. ClaimsStay
    BY <2>2, <2>3 DEF ClaimsStay, Running, IsThread
  <2> QED
    BY <2>4, StayKeeps
<1>7. CASE OtherClaims
  <2>1. epoch' = epoch + 1 /\ owner' = 0 /\ thread' = thread /\ epoch \in Nat
    BY <1>7 DEF OtherClaims, StorageTypes
  <2> QED
    BY <2>1 DEF OwnerOK, Running
<1>8. CASE UNCHANGED vars
  BY <1>8, SameThreadsStay, StayKeeps DEF vars
<1> QED
  BY <1>1, <1>2, <1>3, <1>4, <1>5, <1>6, <1>7, <1>8 DEF Next, ThreadStep

\* A write takes effect only while the newest claim is that of the thread
\* that runs it, also after another worker claimed or this one crashed
\* (runtime.ts doWrite, doPrepare).
THEOREM OnlyTheOwnerWrites == Spec => OnlyOwnerWrites
<1> DEFINE IInv == ClientOK /\ EffectHasReceipt /\ OwnerOK
           OwnerWrites == effects' # effects => /\ owner # 0 /\ thread[owner].inbox # None
                                                /\ thread[owner].inbox.op = "write"
<1>1. Init => IInv
  <2>1. Init => OwnerOK
    BY DEF Init, OwnerOK, IdleThread, Disconnected
  <2> QED
    BY <2>1, ClientStarts, NoEffectYet
<1>2. IInv /\ [Next]_vars => IInv'
  BY ClientStep, EffectStep, OwnerStep
<1>3. ASSUME IInv, [Next]_vars, effects' # effects
      PROVE  owner # 0 /\ thread[owner].inbox # None /\ thread[owner].inbox.op = "write"
  <2>1. PICK g \in Generations : ServeWrite(g)
    BY <1>3, EffectMoves
  <2>2. /\ thread[g].inbox.op = "write" /\ Running(g)
        /\ thread[g].inbox.epoch = thread[g].claimed /\ thread[g].inbox.epoch = epoch
    BY <2>1 DEF ServeWrite, Has, OwnsStorage
  <2>3. thread[g].inbox \in Requests
    BY <1>3, <2>2, NoneShape DEF ClientOK, StorageTypes
  <2>4. epoch # 0
    BY <2>2, <2>3, RequestShape
  <2>5. owner = g
    BY <1>3, <2>2, <2>4 DEF OwnerOK
  <2> QED
    BY <2>2, <2>3, <2>5, RequestShape DEF Generations
<1>4. IInv /\ [Next]_vars => [OwnerWrites]_vars
  BY <1>3
<1> QED
  BY <1>1, <1>2, <1>4, PTL DEF Spec, OnlyOwnerWrites
-----------------------------------------------------------------------------
(* The storage implements CommandLedger.  What a step tells is said while   *)
(* it was open, and the request that commits has a call that waits for it   *)
(* or knows that it may have.                                               *)

\* What a step may come to tell a call.
TellsFrom(c) ==
  \/ outcome'[c] = outcome[c]
  \/ outcome[c] = "idle" /\ outcome'[c] \in {"pending", "not-committed"}
  \/ outcome[c] \in Awaited /\ outcome'[c] # "idle"

\* A call that is called, asks or goes on with its prepare is told alone, and
\* an ended thread's calls were waiting.
LEMMA RejectedTells ==
  ASSUME ClientOK, NEW c \in Calls
  PROVE  Rejected[c] = outcome[c] \/ (outcome[c] \in Awaited /\ Rejected[c] # "idle")
  BY RejectedShape DEF Awaited

LEMMA CallTells ==
  ASSUME ClientOK, NEW c \in Calls,
         CallPrepare(c) \/ CallWrite(c) \/ AskReceipt(c) \/ RecordDone(c) \/ RecordFails(c)
  PROVE  \A d \in Calls : TellsFrom(d)
<1>1. DOMAIN outcome = Calls /\ DOMAIN Rejected = Calls
  BY RejectedShape DEF ClientOK, StorageTypes
<1>2. CASE CallPrepare(c) \/ CallWrite(c)
  BY <1>1, <1>2 DEF CallPrepare, CallWrite, TellsFrom
<1>3. CASE AskReceipt(c)
  BY <1>1, <1>3 DEF AskReceipt, TellsFrom, Awaited
<1>4. CASE RecordDone(c)
  BY <1>1, <1>4 DEF RecordDone, TellsFrom, Awaited
<1>5. CASE RecordFails(c)
  <2>1. outcome[c] = "recording" /\ outcome' \in {[Rejected EXCEPT ![c] = "committed"], [outcome EXCEPT ![c] = "committed"]}
    BY <1>5 DEF RecordFails
  <2> QED
    BY <1>1, <2>1, RejectedTells DEF TellsFrom, Awaited
<1> QED
  BY <1>2, <1>3, <1>4, <1>5

LEMMA AnswerTells ==
  ASSUME ClientOK, AnswerCall
  PROVE  \A d \in Calls : TellsFrom(d)
<1>1. PICK c \in Calls : c = inflight.call
  BY AnswerCallShape
<1>2. PICK a \in Answers : a = Current.outbox
  BY AnswerCallShape DEF Current
<1>3. PICK told : told = Told(c, a)
  OBVIOUS
<1>4. DOMAIN outcome = Calls /\ DOMAIN Rejected = Calls /\ outcome[c] \in {"pending", "asking"}
  BY <1>1, AnswerCallShape, RejectedShape DEF AskedAs, ClientOK, StorageTypes
<1>5. told # "idle"
  <2>1. a.disposition \in Dispositions
    BY DEF Answers
  <2> QED
    BY <1>3, <2>1 DEF Told, Dispositions
<1>6. outcome' \in {[Rejected EXCEPT ![c] = told], [outcome EXCEPT ![c] = told]}
  BY <1>1, <1>2, <1>3 DEF AnswerCall
<1> QED
  BY <1>4, <1>5, <1>6, RejectedTells DEF TellsFrom, Awaited

\* Every step tells a call what it may be told.
LEMMA StepTells ==
  ASSUME ClientOK, [Next]_vars
  PROVE  \A d \in Calls : TellsFrom(d)
<1>1. ASSUME outcome' = outcome PROVE \A d \in Calls : TellsFrom(d)
  BY <1>1 DEF TellsFrom
<1>2. ASSUME outcome' = Rejected PROVE \A d \in Calls : TellsFrom(d)
  BY <1>2, RejectedTells DEF TellsFrom
<1>3. CASE Reopen \/ Hello \/ OpenDone \/ Close \/ OtherClaims \/ AnswerOpening \/ UNCHANGED vars
  BY <1>1, <1>3 DEF Reopen, Hello, OpenDone, Close, OtherClaims, AnswerOpening, vars
<1>4. CASE HelloRefused \/ Refuse \/ RefuseDone \/ Deadline \/ ThreadDies \/ AnswerClose
  BY <1>1, <1>2, <1>4 DEF HelloRefused, Refuse, RefuseDone, Deadline, ThreadDies, AnswerClose,
                          ThreadFailed, Fail, StopThread
<1>5. ASSUME NEW g \in Generations, ThreadStep(g) PROVE outcome' = outcome
  BY <1>5, AllServe
<1>6. ASSUME NEW g \in Generations, Gone(g) PROVE outcome' = outcome
  BY <1>6 DEF Gone
<1>7. CASE Crash
  BY <1>7 DEF Crash, TellsFrom, Awaited
<1>8. CASE AnswerCall
  BY <1>8, AnswerTells
<1>9. ASSUME NEW c \in Calls,
             CallPrepare(c) \/ CallWrite(c) \/ AskReceipt(c) \/ RecordDone(c) \/ RecordFails(c)
      PROVE  \A d \in Calls : TellsFrom(d)
  BY <1>9, CallTells
<1> QED
  BY <1>1, <1>3, <1>4, <1>5, <1>6, <1>7, <1>8, <1>9 DEF Next, Answered

\* Receipts change only with the commit of a request, whose call is told
\* nothing in that step and waits for its answer, or knows it may not come.
Commits(c) ==
  /\ ~Found(c) /\ outcome[c] \in Awaited /\ outcome' = outcome
  /\ \E r : r.found /\ receipts' = [receipts EXCEPT ![Command[c]] = r]

LEMMA ServeCommits ==
  ASSUME ClientOK, NEW g \in Generations, ServePrepare(g) \/ ServeWrite(g)
  PROVE  \E c \in Calls : Commits(c)
<1>1. Running(g) /\ thread[g].inbox.op \in {"prepare", "write"}
  BY DEF ServePrepare, ServeWrite, Has
<1>2. ThreadStep(g)
  BY DEF ThreadStep
<1>3. Served(g) /\ outcome' = outcome
  BY <1>2, AllServe
<1>4. PICK c \in Calls : c = thread[g].inbox.call
  BY <1>1, <1>3, InboxIsRequest
<1>5. outcome[c] \in {"pending", "unknown"}
  <2>1. CASE Live
    <3>1. inflight = thread[g].inbox
      BY <1>1, <2>1, ServesWhat
    <3> QED
      BY <1>1, <1>4, <3>1 DEF IsCall, ClientOK, QueueOK, AskedAs
  <2>2. CASE ~Live
    BY <1>1, <1>4, <2>2, ServesWhat DEF ClientOK, ExchangeOK, Current
  <2> QED
    BY <2>1, <2>2
<1>6. ~Found(c)
  BY <1>4 DEF ServePrepare, ServeWrite, Found
<1>7. \E r : r.found /\ receipts' = [receipts EXCEPT ![Command[c]] = r]
  <2>1. \A e : Receipt(c, e).found
    BY DEF Receipt
  <2>2. receipts' \in {[receipts EXCEPT ![Command[c]] = Receipt(c, epoch)],
                       [receipts EXCEPT ![Command[c]] = Receipt(c, epoch + 1)]}
    BY <1>4 DEF ServePrepare, ServeWrite
  <2> QED
    BY <2>1, <2>2
<1> QED
  BY <1>3, <1>5, <1>6, <1>7 DEF Commits, Awaited

LEMMA ReceiptsMove ==
  ASSUME ClientOK, [Next]_vars, receipts' # receipts
  PROVE  \E c \in Calls : Commits(c)
<1> USE DEF dbVars
<1>1. ASSUME NEW g \in Generations, ThreadStep(g), ~ServePrepare(g), ~ServeWrite(g)
      PROVE  receipts' = receipts
  BY <1>1 DEF ThreadStep, ServeRefused, ServeCheck, ServeOpen, ServeClose, ReplayPrepare,
              ReplayWrite, CommitLost, ServeReceipt
<1>2. ASSUME Reopen \/ Hello \/ HelloRefused \/ OpenDone \/ Refuse \/ RefuseDone \/ Close \/ Crash
             \/ OtherClaims \/ Deadline \/ ThreadDies \/ Answered
      PROVE  receipts' = receipts
  BY <1>2 DEF Reopen, Hello, HelloRefused, OpenDone, Refuse, RefuseDone, Close, Crash,
              OtherClaims, Deadline, ThreadDies, Answered, AnswerCall, AnswerOpening, AnswerClose
<1>3. ASSUME NEW c \in Calls, CallPrepare(c) \/ CallWrite(c) \/ AskReceipt(c) \/ RecordDone(c) \/ RecordFails(c)
      PROVE  receipts' = receipts
  BY <1>3 DEF CallPrepare, CallWrite, AskReceipt, RecordDone, RecordFails
<1>4. ASSUME NEW g \in Generations, Gone(g) PROVE receipts' = receipts
  BY <1>4 DEF Gone
<1>5. ASSUME UNCHANGED vars PROVE receipts' = receipts
  BY <1>5 DEF vars
<1> QED
  BY <1>1, <1>2, <1>3, <1>4, <1>5, ServeCommits DEF Next

\* A command that committed has a call that knows, or may come to know.
LEMMA CarrierIsHeard ==
  ASSUME TruthOK', NEW k \in Commands, receipts'[k].found
  PROVE  \E c \in Calls : Command[c] = k /\ Word(Kind[c], outcome'[c]) \in {"open", "yes"}
<1>1. PICK c \in Calls : Command[c] = k
  BY DEF Commands
<1>2. PICK d \in Siblings(c) : Carries(d)'
  BY <1>1 DEF TruthOK, Found, Siblings
<1>3. d \in Calls /\ Word(Kind[d], outcome'[d]) \in {"open", "yes"}
  BY <1>2 DEF Carries, Leaves, Claimed, Open, Word, Siblings
<1> QED
  BY <1>1, <1>2, <1>3 DEF Siblings

\* A step that commits nothing is a Tell of the ledger.
LEMMA StepIsTell ==
  ASSUME ClientOK, TruthOK', [Next]_vars, receipts' = receipts
  PROVE  Ledger!Tell
<1>1. Receipted' = Receipted
  BY DEF Receipted
<1>2. ASSUME NEW c \in Calls PROVE Ledger!MayTell(c, Word(Kind[c], outcome'[c]))
  <2>1. Said[c] = Word(Kind[c], outcome[c])
    BY DEF Said
  <2>2. CASE outcome'[c] = outcome[c]
    BY <2>1, <2>2 DEF Ledger!MayTell, Said
  <2>3. CASE outcome[c] = "idle" /\ outcome'[c] \in {"pending", "not-committed"}
    <3>1. Word(Kind[c], outcome[c]) = "idle" /\ Word(Kind[c], outcome'[c]) \in {"open", "no"}
      BY <2>3 DEF Word
    <3> QED
      BY <2>1, <3>1 DEF Ledger!MayTell, Said
  <2>4. CASE outcome[c] \in Awaited /\ outcome'[c] # "idle"
    <3>1. Word(Kind[c], outcome[c]) = "open" /\ Word(Kind[c], outcome'[c]) \in {"open", "yes", "no"}
      BY <2>4, WordNames
    <3>2. Word(Kind[c], outcome'[c]) = "yes" => Command[c] \in Receipted
      BY WordNames, CommandOfCall DEF TruthOK, Claimed, Found, Receipted
    <3> QED
      BY <2>1, <3>1, <3>2 DEF Ledger!MayTell, Said, Receipted
  <2> QED
    BY <2>2, <2>3, <2>4, StepTells DEF TellsFrom
<1>3. ASSUME NEW k \in Receipted PROVE \E c \in Ledger!Of(k) : Said'[c] \in {"open", "yes"}
  <2>1. k \in Commands /\ receipts'[k].found
    BY DEF Receipted
  <2>2. PICK c \in Calls : Command[c] = k /\ Word(Kind[c], outcome'[c]) \in {"open", "yes"}
    BY <2>1, CarrierIsHeard
  <2> QED
    BY <2>2 DEF Ledger!Of, Said
<1> QED
  BY <1>1, <1>2, <1>3 DEF Ledger!Tell, Receipted, Said

\* One that commits is the ledger's commit of that command.
LEMMA CommitIsCommit ==
  ASSUME EffectHasReceipt, NEW c \in Calls, Commits(c)
  PROVE  Ledger!Commit(Command[c])
<1>1. PICK r : r.found /\ receipts' = [receipts EXCEPT ![Command[c]] = r]
  BY DEF Commits
<1>2. Command[c] \in Commands /\ DOMAIN receipts = Commands
  BY CommandOfCall DEF EffectHasReceipt
<1>3. \A k \in Commands : receipts'[k] = IF k = Command[c] THEN r ELSE receipts[k]
  BY <1>1, <1>2
<1>4. Receipted' = Receipted \cup {Command[c]} /\ Command[c] \notin Receipted
  BY <1>1, <1>2, <1>3 DEF Receipted, Commits, Found
<1>5. c \in Ledger!Of(Command[c]) /\ Said[c] = "open" /\ Said' = Said
  BY WordNames DEF Ledger!Of, Said, Commits
<1> QED
  BY <1>4, <1>5 DEF Ledger!Commit, Receipted, Said

\* The storage is a ledger of commands to its callers: a command commits
\* once, while a call of it waits or does not know; what was told is final
\* and true; not every call of a command that committed is told that it did
\* not (client.ts #answer, #stopThread, receipt; runtime.ts doWrite, replay).
\* A prepare that was refused is taken for one that does not know (runtime.ts
\* doPrepare, its reads after COMMIT).
THEOREM ImplementsLedger == Spec => LedgerSpec
<1> DEFINE IInv == ClientOK /\ EffectHasReceipt /\ TruthOK
<1>1. Init => IInv
  BY ClientStarts, NoEffectYet
<1>2. IInv /\ [Next]_vars => IInv'
  BY ClientStep, EffectStep, TruthStep
<1>3. Init => Ledger!Init
  <2> SUFFICES ASSUME Init PROVE Ledger!Init
    OBVIOUS
  <2>1. \A k \in Commands : ~receipts[k].found
    BY DEF Init, NoReceipt
  <2>2. \A c \in Calls : Word(Kind[c], outcome[c]) = "idle"
    BY WordNames DEF Init
  <2> QED
    BY <2>1, <2>2 DEF Ledger!Init, Receipted, Said
<1>4. IInv /\ IInv' /\ [Next]_vars => [Ledger!Next]_<<Receipted, Said>>
  <2> SUFFICES ASSUME IInv, IInv', [Next]_vars PROVE Ledger!Next
    OBVIOUS
  <2>1. CASE receipts' = receipts
    BY <2>1, StepIsTell DEF Ledger!Next
  <2>2. CASE receipts' # receipts
    BY <2>2, ReceiptsMove, CommitIsCommit DEF Ledger!Next
  <2> QED
    BY <2>1, <2>2
<1> QED
  BY <1>1, <1>2, <1>3, <1>4, PTL DEF Spec, LedgerSpec, Ledger!Spec
=============================================================================
