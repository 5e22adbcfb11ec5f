---------------------------- MODULE StorageClient ----------------------------
(***************************************************************************)
(* The storage connection of the execution worker: the client in the       *)
(* worker (src/server/storage/client.ts) and the thread that owns the one  *)
(* SQLite connection (src/server/storage/thread/runtime.ts).               *)
(*                                                                         *)
(* Callers write with a command ID; the thread runs one request at a time  *)
(* and commits a command together with its receipt.  A thread that exits,  *)
(* misses a deadline or answers nonsense fails the storage: the request it *)
(* had may have committed ("unknown"), the queued ones did not.  It is     *)
(* never replaced under the callers: they reopen, prepare (a new owner     *)
(* epoch) and ask for the receipt.                                         *)
(*                                                                         *)
(* Abstracted: payload bytes and size limits, the private check copy and   *)
(* the comparison of the live files around it (an open may be refused at   *)
(* each of its steps), pure reads other than the receipt, snapshots.       *)
(***************************************************************************)
EXTENDS Integers, Sequences, FiniteSets

CONSTANTS
    Calls,      \* the calls of prepare() and write() the worker makes
    Kind,       \* Kind[c]: "prepare" or "write"
    Command,    \* Command[c]: the command ID; a retry repeats one
    Payload,    \* Payload[c]: what the call asks, as its hash tells apart
    MaxQueue,   \* limits.maxQueue: commands waiting or in the thread
    MaxOpens,   \* bound of the model: threads started in all
    MaxEpoch    \* bound of the model: owner epochs claimed in all

Commands == {Command[c] : c \in Calls}
Generations == 1..MaxOpens

ASSUME CallsAssumption ==
    /\ Kind \in [Calls -> {"prepare", "write"}]
    /\ DOMAIN Command = Calls
    /\ DOMAIN Payload = Calls
ASSUME BoundsAssumption ==
    /\ MaxQueue \in Nat \ {0}
    /\ MaxOpens \in Nat \ {0}
    /\ MaxEpoch \in Nat

VARIABLES
    state,      \* #state
    step,       \* where an open or a close stands, "none" outside them
    lost,       \* #lost: the thread failed while opening
    generation, \* #generation: the number of the open, and of its thread
    claim,      \* #claim: the owner epoch published, 0 for none
    queue,      \* #queue
    inflight,   \* #inflight
    thread,     \* every thread ever started
    epoch,      \* storage_meta.owner_epoch in the database
    receipts,   \* operation_receipts in the database
    outcome,    \* what each call has been told
    prepared,   \* the open a prepare started on, and what it claimed
    effects,    \* how often each write's effect was committed (history)
    owner       \* the thread that made the newest claim, 0 for another worker (history)

clientVars == <<state, step, lost, generation, claim, queue, inflight>>
dbVars == <<epoch, receipts, effects, owner>>
vars == <<state, step, lost, generation, claim, queue, inflight, thread,
          epoch, receipts, outcome, prepared, effects, owner>>

None == [op |-> "none"]
Request(op) == [op |-> op]
CallRequest(op, c, e) == [op |-> op, call |-> c, epoch |-> e]
IsCall(r) == r.op \in {"prepare", "write", "receipt"}

NoReceipt == [found |-> FALSE]
Receipt(c, e) == [found |-> TRUE, payload |-> Payload[c], epoch |-> e]

\* What a call may be told.  "recording" is a prepare whose commit was
\* answered and whose storage identity is being recorded; "asking" is a call
\* of unknown outcome whose receipt is being read.
Outcomes == {"idle", "pending", "recording", "asking", "ok", "not-committed",
             "unknown", "committed", "found", "absent"}

\* A thread without a connection.
Disconnected(p, a) == [phase |-> p, conn |-> FALSE, claimed |-> 0, inbox |-> None, outbox |-> a]
IdleThread(p) == Disconnected(p, None)

\* The state and the steps of an open, the phases of a thread.
States == {"closed", "opening", "ready", "closing", "unavailable"}
Steps == {"none", "hello", "check", "open", "name", "refuse", "leaving"}
Phases == {"none", "live", "ending", "gone"}

Init ==
    /\ state = "closed" /\ step = "none" /\ lost = FALSE
    /\ generation = 0 /\ claim = 0
    /\ queue = <<>> /\ inflight = None
    /\ thread = [g \in Generations |-> IdleThread("none")]
    /\ epoch = 0
    /\ receipts = [k \in Commands |-> NoReceipt]
    /\ outcome = [c \in Calls |-> "idle"]
    /\ prepared = [c \in Calls |-> [on |-> 0, epoch |-> 0, claimed |-> FALSE]]
    /\ effects = [k \in Commands |-> 0]
    /\ owner = 0
-----------------------------------------------------------------------------
(* The client's queue: one request in the thread at a time.                *)

Current == thread[generation]

\* #pump: the head of the queue goes to the thread.
Pump(q, threads) ==
    IF q = <<>>
    THEN queue' = q /\ inflight' = None /\ thread' = threads
    ELSE /\ queue' = Tail(q)
         /\ inflight' = Head(q)
         /\ thread' = [threads EXCEPT ![generation].inbox = Head(q)]

\* #send, once the state and the queue allow it.
Send(r) ==
    IF inflight = None THEN Pump(Append(queue, r), thread)
    ELSE queue' = Append(queue, r) /\ UNCHANGED <<inflight, thread>>

Waiting(c) == \E i \in 1..Len(queue) : IsCall(queue[i]) /\ queue[i].call = c
InThread(c) == IsCall(inflight) /\ inflight.call = c
Held == Cardinality({i \in 1..Len(queue) : IsCall(queue[i])}) + IF IsCall(inflight) THEN 1 ELSE 0

QueueFull == Held >= MaxQueue

\* Variant: what the thread had is taken for not committed.
RejectedAsNotCommitted ==
    [c \in Calls |->
        IF ~Waiting(c) /\ ~InThread(c) THEN outcome[c]
        ELSE IF outcome[c] = "asking" THEN "unknown" ELSE "not-committed"]

\* Variant: what was still queued is forgotten.
RejectedInThread ==
    [c \in Calls |-> IF InThread(c) THEN "unknown" ELSE outcome[c]]

\* What a call is told when the thread is stopped: a write it had may have
\* committed, a waiting one did not; a receipt read is simply not answered.
Rejected ==
    [c \in Calls |->
        IF ~Waiting(c) /\ ~InThread(c) THEN outcome[c]
        ELSE IF InThread(c) \/ outcome[c] = "asking" THEN "unknown" ELSE "not-committed"]

\* #stopThread: a running thread is ended and what it was given is rejected.
StopThread ==
    /\ thread' = [thread EXCEPT ![generation].phase = IF @ = "live" THEN "ending" ELSE @]
    /\ queue' = <<>> /\ inflight' = None
    /\ outcome' = Rejected

\* #fail: the storage is unavailable until the owner reopens it.
Fail == state' = "unavailable" /\ step' = "none" /\ claim' = 0 /\ StopThread

\* #threadFailed: while opening, the open owns the outcome.
ThreadFailed ==
    IF state = "opening"
    THEN lost' = TRUE /\ StopThread /\ UNCHANGED <<state, step, claim>>
    ELSE Fail /\ UNCHANGED lost
-----------------------------------------------------------------------------
(* Opening.                                                                *)

\* Variant: a new thread without waiting until the one before is gone.
ReopenAtOnce ==
    /\ state \in {"closed", "unavailable"}
    /\ generation < MaxOpens
    /\ state' = "opening" /\ step' = "hello" /\ lost' = FALSE /\ claim' = 0
    /\ generation' = generation + 1
    /\ thread' = [thread EXCEPT ![generation + 1] = IdleThread("live")]
    /\ UNCHANGED <<queue, inflight, outcome, prepared, dbVars>>

\* reopen(): only when the thread of the open before is gone, so that two
\* connections never overlap.  #open starts the new thread.
Reopen ==
    /\ state \in {"closed", "unavailable"}
    /\ generation < MaxOpens
    /\ generation > 0 => Current.phase = "gone"
    /\ state' = "opening" /\ step' = "hello" /\ lost' = FALSE /\ claim' = 0
    /\ generation' = generation + 1
    /\ thread' = [thread EXCEPT ![generation + 1] = IdleThread("live")]
    /\ UNCHANGED <<queue, inflight, outcome, prepared, dbVars>>

\* The hello answers, the paths and the barrier are read; an existing
\* database is judged on a private copy first, a file made now is opened.
Hello ==
    /\ step = "hello" /\ ~lost
    /\ \E next \in {"check", "open"} : step' = next /\ Send(Request(next))
    /\ UNCHANGED <<state, lost, generation, claim, outcome, prepared, dbVars>>

\* An open refused before the live files were found fails at once.
HelloRefused ==
    /\ step = "hello"
    /\ Fail
    /\ UNCHANGED <<lost, generation, prepared, dbVars>>

\* The file opened is the one checked and the storage is named durably.
OpenDone ==
    /\ step = "name" /\ ~lost
    /\ state' = "ready" /\ step' = "none"
    /\ UNCHANGED <<lost, generation, claim, queue, inflight, thread, outcome, prepared, dbVars>>

\* #refuse: an open refused after the live files were found (or whose thread
\* was lost) ends its thread before it fails the storage.
Refuse ==
    /\ step \in {"check", "open", "name"} /\ inflight = None
    /\ lost \/ step = "name"
    /\ step' = "refuse"
    /\ StopThread
    /\ UNCHANGED <<state, lost, generation, claim, prepared, dbVars>>

\* The thread ended, or did not within the command deadline.
RefuseDone ==
    /\ step = "refuse"
    /\ Fail
    /\ UNCHANGED <<lost, generation, prepared, dbVars>>
-----------------------------------------------------------------------------
(* Calls.                                                                  *)

\* The worker prepares only a storage it has not claimed, one prepare at a
\* time (openWorkerStorage).
MayPrepare ==
    /\ claim = 0
    /\ \A c \in Calls : Kind[c] = "prepare" => outcome[c] \notin {"pending", "recording"}

\* prepare(): claims the storage for this worker.
CallPrepare(c) ==
    /\ Kind[c] = "prepare" /\ outcome[c] = "idle" /\ MayPrepare
    /\ IF state = "ready" /\ ~QueueFull
       THEN /\ Send(CallRequest("prepare", c, 0))
            /\ outcome' = [outcome EXCEPT ![c] = "pending"]
       ELSE outcome' = [outcome EXCEPT ![c] = "not-committed"] /\ UNCHANGED <<queue, inflight, thread>>
    /\ prepared' = [prepared EXCEPT ![c].on = generation]
    /\ UNCHANGED <<state, step, lost, generation, claim, dbVars>>

\* write(): carries the epoch this worker claimed.
CallWrite(c) ==
    /\ Kind[c] = "write" /\ outcome[c] = "idle"
    /\ IF state = "ready" /\ claim # 0 /\ ~QueueFull
       THEN /\ Send(CallRequest("write", c, claim))
            /\ outcome' = [outcome EXCEPT ![c] = "pending"]
       ELSE outcome' = [outcome EXCEPT ![c] = "not-committed"] /\ UNCHANGED <<queue, inflight, thread>>
    /\ UNCHANGED <<state, step, lost, generation, claim, prepared, dbVars>>

\* receipt(): settles an unknown disposition.  Its callers ask behind the
\* storage gate, which is open only for a storage this worker prepared.
AskReceipt(c) ==
    /\ outcome[c] = "unknown" /\ state = "ready" /\ claim # 0 /\ ~QueueFull
    /\ Send(CallRequest("receipt", c, 0))
    /\ outcome' = [outcome EXCEPT ![c] = "asking"]
    /\ UNCHANGED <<state, step, lost, generation, claim, prepared, dbVars>>

\* Variant: the close overtakes what was sent before it.
CloseFirst ==
    /\ state = "ready"
    /\ state' = "closing"
    /\ IF inflight = None THEN Pump(<<Request("close")>> \o queue, thread)
       ELSE queue' = <<Request("close")>> \o queue /\ UNCHANGED <<inflight, thread>>
    /\ UNCHANGED <<step, lost, generation, claim, outcome, prepared, dbVars>>

\* close(): closes intake; what was sent before still runs.
Close ==
    /\ state = "ready"
    /\ state' = "closing"
    /\ Send(Request("close"))
    /\ UNCHANGED <<step, lost, generation, claim, outcome, prepared, dbVars>>
-----------------------------------------------------------------------------
(* The thread.  A thread being ended may still be inside the synchronous   *)
(* SQLite call of the request it has.                                      *)

Running(g) == thread[g].phase \in {"live", "ending"}
Has(g, op) == Running(g) /\ thread[g].inbox.op = op

Answer(ok, disposition) == [op |-> "answer", ok |-> ok, disposition |-> disposition,
                            epoch |-> 0, claimed |-> FALSE, fatal |-> FALSE]
Refusals == [op: {"answer"}, ok: {FALSE}, disposition: {"not-committed"},
             epoch: {0}, claimed: {FALSE}, fatal: BOOLEAN]

UnknownCommits == [op: {"answer"}, ok: {FALSE}, disposition: {"unknown"},
                   epoch: {0}, claimed: {FALSE}, fatal: BOOLEAN]

\* thread g with its request taken and an answer posted
Posted(g, a) == [thread EXCEPT ![g].inbox = None, ![g].outbox = a]
Post(g, a) == thread' = Posted(g, a)

\* Failures before COMMIT (BEGIN, the schema, the domain command, its own
\* refusals) roll back; SQLite corruption and failed I/O are fatal.
ServeRefused(g) ==
    /\ Running(g) /\ thread[g].inbox # None
    /\ \E a \in Refusals : Post(g, a)
    /\ UNCHANGED <<clientVars, outcome, prepared, dbVars>>

ServeCheck(g) ==
    /\ Has(g, "check")
    /\ Post(g, Answer(TRUE, "none"))
    /\ UNCHANGED <<clientVars, outcome, prepared, dbVars>>

\* doOpen: the one connection to the live files.
ServeOpen(g) ==
    /\ Has(g, "open") /\ ~thread[g].conn
    /\ thread' = [Posted(g, Answer(TRUE, "none")) EXCEPT ![g].conn = TRUE]
    /\ UNCHANGED <<clientVars, outcome, prepared, dbVars>>

\* doClose
ServeClose(g) ==
    /\ Has(g, "close")
    /\ thread' = [thread EXCEPT ![g] = Disconnected(@.phase, Answer(TRUE, "none"))]
    /\ UNCHANGED <<clientVars, outcome, prepared, dbVars>>

\* doPrepare, first time: a new owner epoch, with its receipt.  COMMIT may
\* also fail after it reached the file, or before.  After COMMIT the schema
\* and the epoch are read once more: an error there is answered as one before
\* it, and the connection claims nothing.
ServePrepare(g) ==
    /\ Has(g, "prepare") /\ epoch < MaxEpoch
    /\ LET c == thread[g].inbox.call
           next == epoch + 1
       IN  /\ ~receipts[Command[c]].found
           /\ epoch' = next
           /\ receipts' = [receipts EXCEPT ![Command[c]] = Receipt(c, next)]
           /\ owner' = g
           /\ \/ thread' = [Posted(g, [Answer(TRUE, "none") EXCEPT !.epoch = next, !.claimed = TRUE])
                                EXCEPT ![g].claimed = next]
              \/ \E a \in UnknownCommits \cup Refusals : Post(g, a)
    /\ UNCHANGED <<clientVars, outcome, prepared, effects>>

\* doPrepare, replayed: answers the epoch claimed then; the connection claims
\* it only if nobody has claimed since, which is what it reads after COMMIT.
ReplayPrepare(g) ==
    /\ Has(g, "prepare")
    /\ LET c == thread[g].inbox.call
           r == receipts[Command[c]]
           again == r.found /\ r.epoch = epoch
       IN  /\ r.found /\ r.payload = Payload[c]
           /\ \/ /\ thread' = [Posted(g, [Answer(TRUE, "none") EXCEPT !.epoch = r.epoch, !.claimed = again])
                                    EXCEPT ![g].claimed = IF again THEN r.epoch ELSE @]
                 /\ owner' = IF again THEN g ELSE owner
              \/ /\ \E a \in Refusals : Post(g, a)
                 /\ owner' = owner
    /\ UNCHANGED <<clientVars, outcome, prepared, epoch, receipts, effects>>

\* Variant: only the epoch of the connection is compared.
OwnsConnection(g) == thread[g].inbox.epoch = thread[g].claimed

\* doWrite: the epochs are compared inside the transaction.
OwnsStorage(g) ==
    LET r == thread[g].inbox
    IN  r.epoch = thread[g].claimed /\ r.epoch = epoch

\* Variant: a repeated command ID is not looked up.
ServeWriteAgain(g) ==
    /\ Has(g, "write") /\ OwnsStorage(g)
    /\ LET c == thread[g].inbox.call
       IN  /\ receipts' = [receipts EXCEPT ![Command[c]] = Receipt(c, epoch)]
           /\ effects' = [effects EXCEPT ![Command[c]] = @ + 1]
    /\ \E a \in {Answer(TRUE, "none")} \cup UnknownCommits : Post(g, a)
    /\ UNCHANGED <<clientVars, outcome, prepared, epoch, owner>>

\* doWrite, first time: the effect and its receipt in one transaction.
ServeWrite(g) ==
    /\ Has(g, "write") /\ OwnsStorage(g)
    /\ LET c == thread[g].inbox.call
       IN  /\ ~receipts[Command[c]].found
           /\ receipts' = [receipts EXCEPT ![Command[c]] = Receipt(c, epoch)]
           /\ effects' = [effects EXCEPT ![Command[c]] = @ + 1]
    /\ \E a \in {Answer(TRUE, "none")} \cup UnknownCommits : Post(g, a)
    /\ UNCHANGED <<clientVars, outcome, prepared, epoch, owner>>

\* The same command again answers its stored result; one too large for the
\* present limit is refused, saying that it committed.
ReplayWrite(g) ==
    /\ Has(g, "write") /\ OwnsStorage(g)
    /\ LET c == thread[g].inbox.call
           r == receipts[Command[c]]
       IN  r.found /\ r.payload = Payload[c]
    /\ \E a \in {Answer(TRUE, "none"), Answer(FALSE, "committed")} : Post(g, a)
    /\ UNCHANGED <<clientVars, outcome, prepared, dbVars>>

\* COMMIT failed and left the file as it was: it did not reach it, or it was
\* the COMMIT of a replay.
CommitLost(g) ==
    /\ Has(g, "write") \/ Has(g, "prepare")
    /\ LET c == thread[g].inbox.call
           r == receipts[Command[c]]
       IN  r.found => r.payload = Payload[c]
    /\ Has(g, "write") => OwnsStorage(g)
    /\ \E a \in UnknownCommits : Post(g, a)
    /\ UNCHANGED <<clientVars, outcome, prepared, dbVars>>

ServeReceipt(g) ==
    /\ Has(g, "receipt")
    /\ Post(g, Answer(TRUE, IF receipts[Command[thread[g].inbox.call]].found THEN "found" ELSE "absent"))
    /\ UNCHANGED <<clientVars, outcome, prepared, dbVars>>

\* A thread exits: one being ended, or one that crashed.
Gone(g) ==
    /\ thread[g].phase = "ending"
    /\ thread' = [thread EXCEPT ![g] = IdleThread("gone")]
    /\ IF g = generation /\ step = "leaving"
       THEN state' = "closed" /\ step' = "none" /\ claim' = 0     \* close() goes on
       ELSE UNCHANGED <<state, step, claim>>
    /\ UNCHANGED <<lost, generation, queue, inflight, outcome, prepared, dbVars>>
-----------------------------------------------------------------------------
(* Answers and failures.                                                   *)

\* The thread's answer to a call.
Told(c, a) ==
    CASE inflight.op = "receipt" -> IF a.ok THEN a.disposition ELSE "unknown"
      [] inflight.op = "prepare" /\ a.ok -> IF state = "ready" THEN "recording" ELSE "committed"
      [] inflight.op = "write" /\ a.ok -> "ok"
      [] OTHER -> a.disposition

\* #answer for a call: the next request goes to the thread, or the storage
\* fails on an error that makes the connection unsafe.
AnswerCall ==
    /\ generation > 0 /\ Current.phase = "live" /\ Current.outbox # None /\ IsCall(inflight)
    /\ LET a == Current.outbox
           c == inflight.call
           taken == [thread EXCEPT ![generation].outbox = None]
       IN  /\ prepared' = IF inflight.op = "prepare" /\ a.ok
                          THEN [prepared EXCEPT ![c].epoch = a.epoch, ![c].claimed = a.claimed]
                          ELSE prepared
           /\ IF a.fatal
              THEN /\ state' = "unavailable" /\ claim' = 0
                   /\ thread' = [taken EXCEPT ![generation].phase = "ending"]
                   /\ queue' = <<>> /\ inflight' = None
                   /\ outcome' = [Rejected EXCEPT ![c] = Told(c, a)]
              ELSE /\ Pump(queue, taken)
                   /\ outcome' = [outcome EXCEPT ![c] = Told(c, a)]
                   /\ UNCHANGED <<state, claim>>
    /\ UNCHANGED <<step, lost, generation, dbVars>>

\* #answer for a step of the open: the checked copy leads to the live open,
\* that to naming the storage, and a refusal to #refuse.
AnswerOpening ==
    /\ generation > 0 /\ Current.phase = "live" /\ Current.outbox # None
    /\ inflight.op \in {"check", "open"} /\ ~lost
    /\ LET a == Current.outbox
           taken == [thread EXCEPT ![generation].outbox = None]
       IN  CASE ~a.ok -> /\ step' = "refuse"
                         /\ thread' = [taken EXCEPT ![generation].phase = "ending"]
                         /\ inflight' = None
             [] a.ok /\ inflight.op = "check" -> /\ step' = "open"
                                                 /\ inflight' = Request("open")
                                                 /\ thread' = [taken EXCEPT ![generation].inbox = Request("open")]
             [] OTHER -> step' = "name" /\ thread' = taken /\ inflight' = None
    /\ UNCHANGED <<state, lost, generation, claim, queue, outcome, prepared, dbVars>>

\* #answer for the close: the thread ends by itself and close() waits for it.
AnswerClose ==
    /\ generation > 0 /\ Current.phase = "live" /\ Current.outbox # None /\ inflight.op = "close"
    /\ IF Current.outbox.ok
       THEN /\ thread' = [thread EXCEPT ![generation].outbox = None, ![generation].phase = "ending"]
            /\ inflight' = None /\ step' = "leaving"
            /\ UNCHANGED <<state, claim, queue, outcome>>
       ELSE Fail
    /\ UNCHANGED <<lost, generation, prepared, dbVars>>

\* A request that is not answered within its deadline.
Deadline ==
    /\ inflight # None
    /\ ThreadFailed
    /\ UNCHANGED <<generation, prepared, dbVars>>

\* The thread exits unexpectedly, or its answer cannot be read.
ThreadDies ==
    /\ generation > 0 /\ Current.phase = "live"
    /\ ThreadFailed
    /\ UNCHANGED <<generation, prepared, dbVars>>

\* prepare() goes on once the identity beside the database is durable: the
\* claim belongs to the open the prepare started on.
RecordDone(c) ==
    /\ outcome[c] = "recording"
    /\ IF state = "ready" /\ prepared[c].on = generation
       THEN /\ claim' = IF prepared[c].claimed THEN prepared[c].epoch ELSE claim
            /\ outcome' = [outcome EXCEPT ![c] = "ok"]
       ELSE claim' = claim /\ outcome' = [outcome EXCEPT ![c] = "committed"]
    /\ UNCHANGED <<state, step, lost, generation, queue, inflight, thread, prepared, dbVars>>

\* #failAfter: recording the identity failed.  It fails the storage only when
\* that is still the open the prepare started on; the prepare has committed.
RecordFails(c) ==
    /\ outcome[c] = "recording"
    /\ IF state # "unavailable" /\ prepared[c].on = generation
       THEN /\ state' = "unavailable" /\ claim' = 0
            /\ thread' = [thread EXCEPT ![generation].phase = IF @ = "live" THEN "ending" ELSE @]
            /\ queue' = <<>> /\ inflight' = None
            /\ outcome' = [Rejected EXCEPT ![c] = "committed"]
       ELSE /\ outcome' = [outcome EXCEPT ![c] = "committed"]
            /\ UNCHANGED <<state, claim, queue, inflight, thread>>
    /\ UNCHANGED <<step, lost, generation, prepared, dbVars>>

\* The worker process ends: its threads with it.  Nobody has an answer for
\* what was not answered.
Crash ==
    /\ generation > 0
    /\ state' = "closed" /\ step' = "none" /\ lost' = FALSE /\ claim' = 0
    /\ queue' = <<>> /\ inflight' = None
    /\ thread' = [g \in Generations |-> IdleThread(IF thread[g].phase = "none" THEN "none" ELSE "gone")]
    /\ outcome' = [c \in Calls |-> IF outcome[c] \in {"pending", "recording", "asking"} THEN "unknown" ELSE outcome[c]]
    /\ UNCHANGED <<generation, prepared, dbVars>>

\* Another worker (one that took the state directory over) claims.
OtherClaims ==
    /\ epoch < MaxEpoch
    /\ epoch' = epoch + 1 /\ owner' = 0
    /\ UNCHANGED <<clientVars, thread, outcome, prepared, receipts, effects>>
-----------------------------------------------------------------------------
ThreadStep(g) ==
    \/ ServeRefused(g) \/ ServeCheck(g) \/ ServeOpen(g) \/ ServeClose(g)
    \/ ServePrepare(g) \/ ReplayPrepare(g) \/ ServeWrite(g) \/ ReplayWrite(g)
    \/ CommitLost(g) \/ ServeReceipt(g)

Answered == AnswerCall \/ AnswerOpening \/ AnswerClose

Next ==
    \/ Reopen \/ Hello \/ HelloRefused \/ OpenDone \/ Refuse \/ RefuseDone
    \/ \E c \in Calls : CallPrepare(c) \/ CallWrite(c) \/ AskReceipt(c)
    \/ Close
    \/ \E g \in Generations : ThreadStep(g) \/ Gone(g)
    \/ Answered
    \/ Deadline \/ ThreadDies
    \/ \E c \in Calls : RecordDone(c) \/ RecordFails(c)
    \/ Crash
    \/ OtherClaims

Spec == Init /\ [][Next]_vars

\* Timers fire, posted answers are taken, files answer or fail, and a thread
\* told to end does end.  Nothing is assumed of a thread that hangs.
Fairness ==
    /\ WF_vars(Deadline)
    /\ WF_vars(Answered)
    /\ WF_vars(Hello \/ HelloRefused \/ OpenDone \/ Refuse \/ RefuseDone)
    /\ \A c \in Calls : WF_vars(RecordDone(c) \/ RecordFails(c))
    /\ \A g \in Generations : WF_vars(Gone(g))

FairSpec == Spec /\ Fairness
-----------------------------------------------------------------------------
(* Properties.                                                             *)

\* A command commits its effect at most once, however often it is retried
\* after a lost answer.
AppliedOnce == \A k \in Commands : effects[k] <= 1

\* The calls that may have committed a command.
Siblings(c) == {d \in Calls : Command[d] = Command[c]}

\* What an outcome says of the command to a caller of that kind.  A refused
\* prepare says nothing of it: the reads after its COMMIT may have failed.
Word(kind, o) ==
    IF o \in {"pending", "recording", "asking", "unknown"} \/ (kind = "prepare" /\ o = "not-committed")
    THEN "open"
    ELSE IF o \in {"ok", "committed", "found"} THEN "yes"
    ELSE IF o = "idle" THEN "idle" ELSE "no"

Receipted == {k \in Commands : receipts[k].found}
Said == [c \in Calls |-> Word(Kind[c], outcome[c])]

\* A write's refusal never lies: when every call of a command was told it did
\* not commit (a write refused, or any of them told that there is no
\* receipt), there is no receipt, and none appears later from a thread that
\* was being ended.
RefusedMeansNotCommitted ==
    \A c \in Calls : (\A d \in Siblings(c) : Said[d] \in {"idle", "no"}) => ~receipts[Command[c]].found

\* What a call was told committed is in the database and stays there.
CommittedMeansDurable ==
    \A c \in Calls : outcome[c] \in {"ok", "committed", "recording", "found"} => receipts[Command[c]].found

\* What callers were told about their commands is what the database holds;
\* of a prepare that was refused nothing is claimed.
AnswersAreTrue == RefusedMeansNotCommitted /\ CommittedMeansDurable

Ledger == INSTANCE CommandLedger WITH committed <- Receipted, said <- Said

\* Whatever fails, callers see that ledger: their command commits once and
\* only while one of them waits or does not know, what they were told stays
\* true, and a command that committed has a call that may know.  A prepare
\* that was refused counts as one that does not know.
LedgerSpec == Ledger!Spec

\* Two connections to the live files never overlap, also while a thread that
\* missed a deadline is still inside SQLite.
OneConnection == \A g, h \in Generations : thread[g].conn /\ thread[h].conn => g = h

\* A write takes effect only while the newest claim is that of the thread
\* that runs it: owners' writes never interleave.
OnlyOwnerWrites == [][effects' # effects => owner # 0 /\ thread[owner].inbox # None /\ thread[owner].inbox.op = "write"]_vars

\* A close() the thread acknowledged leaves no call behind: what was sent
\* before it, a full queue included, has its answer.
CloseIsDrained == step = "leaving" => \A c \in Calls : outcome[c] \notin {"pending", "asking"}

\* Every call is answered, also when the thread hangs.
Unanswered == {"pending", "recording", "asking"}
EveryCallIsAnswered == \A c \in Calls : outcome[c] \in Unanswered ~> outcome[c] \notin Unanswered
=============================================================================
