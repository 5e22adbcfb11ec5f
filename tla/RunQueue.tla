------------------------------ MODULE RunQueue ------------------------------
(***************************************************************************)
(* The run queue of one execution worker: RunManager (runs/manager.ts) and *)
(* the row history it saves through (runs/run-history.ts).                 *)
(*                                                                         *)
(* A run is one instruction of a conversation. It is admitted by a request *)
(* (enqueue, create) or planned by the turn before it (a continuation), is *)
(* started as a turn of its own by the pump or inserted into the turn that *)
(* runs (steer), and ends completed, in error or cancelled. Each change    *)
(* saves the rows it touched, in one ordered chain of writes whose result  *)
(* may be unknown; an unknown result holds every later save until its      *)
(* receipt is read.                                                        *)
(*                                                                         *)
(* JavaScript runs one step at a time. A step here is the code between two *)
(* awaits, and a continuation whose promise is already settled runs before *)
(* any event from outside (Quiet).                                         *)
(*                                                                         *)
(* Abstracted: prompts, output text, attachments, models and origins (why  *)
(* an instruction may not be inserted is a choice), the pruning of old     *)
(* finished runs, turns in a Codex desktop app, sessions in use outside    *)
(* Tower, retention, permission runs and the wrap-ups of an update.        *)
(***************************************************************************)
EXTENDS Integers, Sequences, FiniteSetsExt, Functions

CONSTANTS MaxRuns,       \* run IDs, in the order of the runs map
          Sessions,
          MaxQueued,     \* MAX_QUEUED
          MaxChain,      \* bound: saves waiting when an event from outside comes
          MaxFaults,     \* bound: failed saves and lost storages
          MaxCrashes,    \* bound: ends of the worker
          MaxUpdates,    \* bound: switches to a new version that are begun
          Plans          \* turns may plan a continuation

ASSUME RunQueueAssumption ==
  /\ MaxRuns \in Nat \ {0} /\ MaxQueued \in Nat \ {0} /\ MaxChain \in Nat \ {0}
  /\ MaxFaults \in Nat /\ MaxCrashes \in Nat /\ MaxUpdates \in Nat
  /\ Plans \in BOOLEAN

Runs == 1 .. MaxRuns
NoRun == 0
Finished == {"completed", "error", "cancelled"}

(* A run as it is kept in memory and saved: its status, its conversation,  *)
(* whether it is a planned continuation, how its insertion stands and into *)
(* which turn, and the mark that a restart keeps it queued (carried).      *)
Rows == [st : {"queued", "running"} \cup Finished, session : Sessions, planned : BOOLEAN,
         steer : {"none", "sending", "delivered", "uncertain"}, target : Runs \cup {NoRun}, keep : BOOLEAN]
Gone == [st |-> "gone"]
Unread == [st |-> "unread"]
QueuedRun(s, p) ==
  [st |-> "queued", session |-> s, planned |-> p, steer |-> "none", target |-> NoRun, keep |-> FALSE]

(* What awaits a save: an admission, an insertion, a cancel, the pump, a   *)
(* recovery.                                                               *)
Tasks == [kind : {"admit", "steer", "cancel"}, run : Runs] \cup [kind : {"pump", "resolve"}, run : {NoRun}]
Admit(r) == [kind |-> "admit", run |-> r]
Insert(r) == [kind |-> "steer", run |-> r]
Stop(r) == [kind |-> "cancel", run |-> r]
Pump == [kind |-> "pump", run |-> NoRun]
Resolve == [kind |-> "resolve", run |-> NoRun]

VARIABLES
  disk,        \* the rows of the database
  chain,       \* saves not done: each maps the runs it touches to their rows
  unknown,     \* a write's result is unknown (pendingAdmission)
  failed,      \* failedRuns: runs whose last save failed
  newAdm,      \* newAdmissions: runs no save confirmed yet
  mem,         \* runs
  next,        \* run IDs used
  admissions, uncertain,
  unsent,      \* unsentSteering: the turn an instruction was never sent to
  live,        \* owned and stdio: turns with a provider
  reserved,    \* reservedSessions
  held,        \* storageHeld
  updating,    \* a switch to a new version holds new turns
  ready,       \* the worker has started
  at,          \* where each task is
  left,        \* saves each task still waits for
  pick,        \* the turn an insertion goes to; the run the pump looks at
  todo,        \* runs the pump has not looked at in this pass
  rest,        \* runs a read receipt has not settled yet
  found,       \* the rows the database had of new runs when that receipt was read
  resave,      \* runs it saves when all of them are settled
  old,         \* runs the pump or a provider holds that are no longer those of the map
  detached,    \* first runs of conversations that left the map while create waits
  faults, crashes, updates,
  told,        \* what the request that admitted a run was told
  sent,        \* times a run's instruction was given to a provider
  stopped,     \* runs whose cancel was confirmed once it was saved
  stale,       \* runs that left the map while the pump held them
  reopened,    \* ended runs that a receipt brought back from the row before their end
  torn         \* runs given to a provider by a worker that ended before it was saved

rowVars == <<disk, chain, unknown, failed, newAdm>>
bounds == <<faults, crashes, updates>>
history == <<told, sent, stopped, reopened, torn>>
recovery == <<rest, found, resave>>
objects == <<old, detached, stale>>
vars == <<rowVars, mem, next, admissions, uncertain, unsent, live, reserved, held, updating, ready,
          at, left, pick, todo, recovery, objects, bounds, history>>

Init ==
  /\ disk = [r \in Runs |-> Gone] /\ mem = [r \in Runs |-> Gone] /\ next = 0
  /\ chain = <<>> /\ unknown = FALSE /\ failed = {} /\ newAdm = {}
  /\ admissions = {} /\ uncertain = {} /\ unsent = [r \in Runs |-> NoRun]
  /\ live = {} /\ reserved = {} /\ held = FALSE /\ updating = FALSE /\ ready = TRUE
  /\ at = [t \in Tasks |-> "idle"] /\ left = [t \in Tasks |-> 0]
  /\ pick = [t \in Tasks |-> NoRun] /\ todo = {}
  /\ old = [r \in Runs |-> Gone] /\ detached = {} /\ stale = {}
  /\ faults = 0 /\ crashes = 0 /\ updates = 0
  /\ told = [r \in Runs |-> "none"] /\ sent = [r \in Runs |-> 0]
  /\ stopped = {} /\ reopened = {} /\ torn = {}
  /\ rest = {} /\ found = [r \in Runs |-> Unread] /\ resave = {}

(* Variant: a flush does not report a save that failed. *)
FlushOkUnlessUnknown == ~unknown

(***************************************************************************)
(* Saving. A flush ends when the saves queued before it are done, and      *)
(* refuses while any failed row is not saved.                              *)
(***************************************************************************)
FlushUncertain == unknown
FlushRefused == ~unknown /\ failed # {}
FlushOk == ~unknown /\ failed = {}

(* A flush right after a change is the first to wait for that save, so it  *)
(* goes on before the flushes that only wait for what is queued.           *)
OwnSave == {"saving", "failing", "putting", "backing", "stopping", "settling", "answered"}
Tails == {"creating", "flush", "looked", "writes"}
Saves(t, place) == at[t] = place /\ left[t] = 0
Follows(t, place) == Saves(t, place) /\ ~\E u \in Tasks : at[u] \in OwnSave /\ left[u] = 0
CanContinue(t) == at[t] \in OwnSave \cup Tails /\ left[t] = 0
Blocked == unknown /\ chain # <<>>
Quiet == ~Blocked /\ \A t \in Tasks : at[t] \notin {"loop", "rows", "noted"} /\ ~CanContinue(t)
Room == Quiet /\ Len(chain) < MaxChain

Go(t, place) == at' = [at EXCEPT ![t] = place] /\ UNCHANGED left
Await(t, place, saves) == at' = [at EXCEPT ![t] = place] /\ left' = [left EXCEPT ![t] = Len(saves)]

Queued(m, r) == m[r].st = "queued"
Running(m, r) == m[r].st = "running"
Ended(m, r) == m[r].st \in Finished

(* An inserted instruction ends as the turn it went into ends.             *)
Mirrors(m) == {r \in Runs : Running(m, r) /\ m[r].steer = "delivered" /\ Ended(m, m[r].target)}
Mirrored(m) == [r \in Runs |-> IF r \in Mirrors(m) THEN [m[r] EXCEPT !.st = m[m[r].target].st] ELSE m[r]]

(* Variant: a wait for a new version is not marked in the row. *)
CarriesNone(m, holding) == {r \in Runs : FALSE}

(* Instructions queued while new turns are held survive a restart.         *)
Carries(m, holding) == {r \in Runs : holding /\ Queued(m, r) /\ ~m[r].planned /\ ~m[r].keep}

(* The rows a change touches, with those of saves known to have failed.    *)
Retried == IF unknown THEN {} ELSE failed

(* changed() and persist(): the runs after a change to m, and those to save. *)
After(m, holding) ==
  LET rows == Mirrored(m) IN
  [r \in Runs |-> IF rows[r] = Gone THEN Gone
                  ELSE [rows[r] EXCEPT !.keep = Queued(rows, r) /\ (@ \/ r \in Carries(rows, holding))]]
Touches(m, touched, holding) == touched \cup Mirrors(m) \cup Carries(Mirrored(m), holding)

ChangedWhile(m, touched, holding) ==
  LET rows == After(m, holding)
      ids == Touches(m, touched, holding) \cup Retried
  IN  /\ mem' = rows
      /\ chain' = IF ids = {} THEN chain ELSE Append(chain, Restrict(rows, ids))
      /\ newAdm' = newAdm \cup {r \in ids : rows[r] # Gone /\ disk[r] = Gone}
      /\ UNCHANGED <<disk, unknown, failed>>
Changed(m, touched) == ChangedWhile(m, touched, held \/ updating)

Saved(save) == [r \in Runs |-> IF r \in DOMAIN save THEN save[r] ELSE disk[r]]
HeadDone ==
  /\ chain' = Tail(chain)
  /\ left' = [t \in Tasks |-> IF left[t] > 0 THEN left[t] - 1 ELSE 0]
  /\ UNCHANGED <<mem, next, admissions, uncertain, unsent, live, reserved, held, updating, ready,
                 at, pick, todo, recovery, objects, crashes, updates, history>>

SaveCommits ==
  /\ Quiet /\ chain # <<>>
  /\ disk' = Saved(Head(chain))
  /\ failed' = failed \ DOMAIN Head(chain) /\ newAdm' = newAdm \ DOMAIN Head(chain)
  /\ HeadDone /\ UNCHANGED <<unknown, faults>>

Fault == ready /\ faults < MaxFaults /\ faults' = faults + 1

SaveRefused ==
  /\ Quiet /\ chain # <<>> /\ Fault
  /\ failed' = failed \cup DOMAIN Head(chain)
  /\ HeadDone /\ UNCHANGED <<disk, unknown, newAdm>>

(* The storage thread ended in the write: it may have committed.           *)
SaveUnknown ==
  /\ Quiet /\ chain # <<>> /\ Fault
  /\ \E committed \in BOOLEAN : disk' = IF committed THEN Saved(Head(chain)) ELSE disk
  /\ unknown' = TRUE /\ failed' = failed \cup DOMAIN Head(chain)
  /\ HeadDone /\ UNCHANGED newAdm

(* Every save behind an unknown one fails at once.                         *)
SaveBlocked ==
  /\ Blocked
  /\ failed' = failed \cup DOMAIN Head(chain)
  /\ HeadDone /\ UNCHANGED <<disk, unknown, newAdm, faults>>

(***************************************************************************)
(* Runs are objects. The pump goes on with those it found when its pass    *)
(* began, and create with its own, whatever took their place in the map.   *)
(***************************************************************************)
Object(r) == IF old[r] # Gone THEN old[r] ELSE mem[r]
OfMap(r, m) == IF old[r] # Gone THEN mem ELSE m

Detach(runs) ==
  LET passing == {r \in runs \cap todo : Queued(mem, r) /\ old[r] = Gone} IN
  /\ old' = [r \in Runs |-> IF r \in passing THEN mem[r] ELSE old[r]]
  /\ stale' = stale \cup passing
  /\ detached' = detached \cup {r \in runs : at[Admit(r)] \in {"trusting", "creating", "failing"}}

(***************************************************************************)
(* Admission.                                                              *)
(***************************************************************************)
Waiting(m) == {r \in Runs : Queued(m, r) /\ ~m[r].planned}
Accepting == ready /\ ~held /\ Cardinality(Waiting(mem)) < MaxQueued

Admitted == UNCHANGED <<next, unsent, live, reserved, held, updating, ready, pick, todo, recovery, bounds>>

Register(row) ==
  LET r == next + 1 IN
  /\ next < MaxRuns /\ next' = r
  /\ admissions' = admissions \cup {r}
  /\ Changed([mem EXCEPT ![r] = row], {r})
  /\ UNCHANGED <<uncertain, unsent, live, reserved, held, updating, ready, pick, todo, recovery, objects, bounds, history>>

Enqueue ==
  /\ Room /\ Accepting
  /\ \E s \in Sessions : Register(QueuedRun(s, FALSE))
  /\ Await(Admit(next'), "saving", chain')

(* create: the first run of a conversation that does not exist yet. Its    *)
(* folder is trusted before it waits for the save.                         *)
Create ==
  /\ Room /\ Accepting
  /\ \E s \in Sessions :
       /\ \A r \in Runs : mem[r] # Gone => mem[r].session # s
       /\ Register(QueuedRun(s, FALSE))
  /\ Go(Admit(next'), "trusting")

CreateTrusted(r) ==
  /\ Quiet /\ at[Admit(r)] = "trusting"
  /\ Await(Admit(r), "creating", chain)
  /\ UNCHANGED <<rowVars, mem, admissions, uncertain, objects, history>> /\ Admitted

Leaves(r) == detached' = detached \ {r} /\ UNCHANGED <<old, stale>>
Tell(r, answer) == told' = [told EXCEPT ![r] = answer] /\ UNCHANGED <<sent, stopped, reopened, torn>>

(* The request of a write with an unknown result keeps its run held back.  *)
AdmissionUncertain(r) ==
  /\ FlushUncertain
  /\ uncertain' = uncertain \cup {r} /\ Tell(r, "uncertain") /\ Go(Admit(r), "idle")
  /\ UNCHANGED <<rowVars, mem, admissions>> /\ Leaves(r) /\ Admitted

(* The instruction replaces what the agent planned for its conversation.   *)
Superseded(r) == {p \in Runs : Queued(mem, p) /\ mem[p].planned /\ mem[p].session = mem[r].session}
Cancelling(ids) == [r \in Runs |-> IF r \in ids /\ mem[r] # Gone THEN [mem[r] EXCEPT !.st = "cancelled"] ELSE mem[r]]

Accepted(r, answer) ==
  /\ FlushOk
  /\ admissions' = admissions \ {r} /\ Tell(r, answer) /\ Go(Admit(r), "idle")
  /\ UNCHANGED uncertain /\ Leaves(r) /\ Admitted

EnqueueAccepted(r) ==
  /\ Saves(Admit(r), "saving")
  /\ Accepted(r, "accepted")
  /\ IF Superseded(r) = {} THEN UNCHANGED <<rowVars, mem>> ELSE Changed(Cancelling(Superseded(r)), Superseded(r))

CreateAccepted(r) ==
  /\ Follows(Admit(r), "creating")
  /\ Accepted(r, "created") /\ UNCHANGED <<rowVars, mem>>

EnqueueRefused(r) ==
  /\ Saves(Admit(r), "saving")
  /\ FlushRefused
  /\ Changed([mem EXCEPT ![r] = Gone], {r})
  /\ admissions' = admissions \ {r} /\ Tell(r, "refused") /\ Go(Admit(r), "idle")
  /\ Detach({r}) /\ UNCHANGED uncertain /\ Admitted

(* create keeps the failure visible and saves it, or holds on to the run   *)
(* when the result of that save is unknown.                                *)
Failing(r) == IF mem[r].st \in {"cancelled", "gone"} \/ r \in detached THEN mem ELSE [mem EXCEPT ![r].st = "error"]
CreateRefused(r) ==
  /\ Follows(Admit(r), "creating")
  /\ FlushRefused
  /\ Changed(Failing(r), {r}) /\ Await(Admit(r), "failing", chain')
  /\ UNCHANGED <<admissions, uncertain, objects, history>> /\ Admitted

CreateFailed(r) ==
  /\ Saves(Admit(r), "failing")
  /\ ~FlushUncertain
  /\ admissions' = admissions \ {r} /\ Tell(r, "failed") /\ Go(Admit(r), "idle")
  /\ UNCHANGED <<rowVars, mem, uncertain>> /\ Leaves(r) /\ Admitted

Admission(r) ==
  \/ EnqueueAccepted(r) \/ EnqueueRefused(r)
  \/ CreateAccepted(r) \/ CreateRefused(r) \/ CreateFailed(r)
  \/ (Saves(Admit(r), "saving") \/ Saves(Admit(r), "failing") \/ Follows(Admit(r), "creating")) /\ AdmissionUncertain(r)

(***************************************************************************)
(* The pump starts turns.                                                  *)
(***************************************************************************)
HoldsStarts == held \/ unknown
NotPumping == UNCHANGED <<next, admissions, uncertain, unsent, updating, ready, recovery, bounds, told, stopped, reopened, torn>>

SameObjects == UNCHANGED objects
PassEnds ==
  /\ todo' = {} /\ old' = [r \in Runs |-> IF r \in live THEN old[r] ELSE Gone]
  /\ UNCHANGED <<detached, stale>>
PumpIdle == at' = [at EXCEPT ![Pump] = "idle"] /\ PassEnds /\ UNCHANGED <<left, pick>>
NoTurn == UNCHANGED <<live, reserved, sent>>

PumpStarts ==
  /\ Quiet /\ at[Pump] = "idle" /\ ready /\ ~HoldsStarts
  /\ Await(Pump, "flush", chain)
  /\ UNCHANGED <<rowVars, mem, held, pick, todo>> /\ SameObjects /\ NoTurn /\ NotPumping

(* A flush or a look at the sessions that fails starts nothing: every      *)
(* queued run shows it, and the save of that retries the failed rows.      *)
PumpRefused ==
  /\ Changed(mem, {r \in Runs : Queued(mem, r)})
  /\ PumpIdle /\ UNCHANGED held /\ NoTurn /\ NotPumping
PumpUncertain ==
  /\ held' = TRUE
  /\ PumpIdle /\ UNCHANGED <<rowVars, mem>> /\ NoTurn /\ NotPumping

PumpFlushed ==
  /\ Follows(Pump, "flush")
  /\ \/ FlushUncertain /\ PumpUncertain
     \/ FlushRefused /\ PumpRefused
     \/ /\ FlushOk
        /\ Go(Pump, IF held \/ \A r \in Runs : ~Queued(mem, r) THEN "idle" ELSE "refresh")
        /\ UNCHANGED <<rowVars, mem, held, pick, todo>> /\ SameObjects /\ NoTurn /\ NotPumping

PumpRefreshFails == Room /\ at[Pump] = "refresh" /\ PumpRefused
PumpRefreshed ==
  /\ Quiet /\ at[Pump] = "refresh"
  /\ Go(Pump, IF HoldsStarts THEN "idle" ELSE "loop")
  /\ todo' = IF HoldsStarts THEN {} ELSE {r \in Runs : mem[r] # Gone}
  /\ UNCHANGED <<rowVars, mem, held, pick>> /\ SameObjects /\ NoTurn /\ NotPumping

Startable(r) == Object(r).st = "queued" /\ r \notin admissions

Looking == {r \in todo : Startable(r)}
NextRun == Min(Looking)
Passes(r) == at' = [at EXCEPT ![Pump] = "loop"] /\ todo' = todo \ {r} /\ UNCHANGED <<left, pick, detached, stale>>
Skip(r) == Passes(r) /\ old' = [old EXCEPT ![r] = Gone]
Skipped(r) == Skip(r) /\ UNCHANGED <<rowVars, mem, held>> /\ NoTurn /\ NotPumping
Dropped(r) == Skip(r) /\ Changed(OfMap(r, Cancelling({r})), {r}) /\ UNCHANGED held /\ NoTurn /\ NotPumping

(* A planned run is skipped before its time, which is later than the save  *)
(* of its row, and dropped when someone continued the conversation since.  *)
PumpLooks ==
  /\ at[Pump] = "loop" /\ ~Blocked
  /\ \/ /\ Looking = {}
        /\ PumpIdle
        /\ UNCHANGED <<rowVars, mem, held>> /\ NoTurn /\ NotPumping
     \/ /\ Looking # {} /\ Object(NextRun).planned
        /\ Skipped(NextRun) \/ Dropped(NextRun)
     \/ /\ Looking # {} /\ ~(Object(NextRun).planned /\ NextRun \in newAdm)
        /\ Go(Pump, "look") /\ pick' = [pick EXCEPT ![Pump] = NextRun]
        /\ UNCHANGED <<rowVars, mem, held, todo>> /\ SameObjects /\ NoTurn /\ NotPumping

(* prepareLaunch, then a flush.                                            *)
PumpLooked ==
  /\ Quiet /\ at[Pump] = "look"
  /\ Await(Pump, "looked", chain)
  /\ UNCHANGED <<rowVars, mem, held, pick, todo>> /\ SameObjects /\ NoTurn /\ NotPumping

SessionFree(r) == Object(r).session \notin reserved

PumpReserves ==
  LET r == pick[Pump] IN
  /\ Follows(Pump, "looked")
  /\ \/ FlushUncertain /\ PumpUncertain
     \/ FlushRefused /\ PumpRefused
     \/ /\ FlushOk
        /\ ~Startable(r) \/ held \/ ~SessionFree(r) \/ updating
        /\ Skipped(r)
     \/ /\ FlushOk /\ Startable(r) /\ ~held /\ ~SessionFree(r)   \* what it waits for is shown
        /\ Skip(r) /\ Changed(mem, {r}) /\ UNCHANGED held /\ NoTurn /\ NotPumping
     \/ /\ FlushOk /\ Startable(r) /\ ~held       \* the launch gate refuses
        /\ Dropped(r)
     \/ /\ FlushOk /\ Startable(r) /\ ~held /\ SessionFree(r) /\ ~updating
        /\ reserved' = reserved \cup {Object(r).session}
        /\ Go(Pump, "preparing")
        /\ UNCHANGED <<rowVars, mem, held, pick, todo, live, sent>> /\ SameObjects /\ NotPumping

(* Variant: the last look does not ask whether the run was cancelled. *)
RefusedByHolds(r) == Object(r) = Gone \/ HoldsStarts \/ updating

(* The last look of launch and launchCodex, in the step of the start.      *)
RefusedAtLaunch(r) == Object(r).st # "queued" \/ HoldsStarts \/ updating

(* Variant: a launch that is given up keeps its conversation reserved. *)
FreesNothing(r) == Skip(r) /\ UNCHANGED <<reserved, live, held, sent>> /\ NotPumping

Frees(r) == Skip(r) /\ reserved' = reserved \ {Object(r).session} /\ UNCHANGED <<live, held, sent>> /\ NotPumping

LaunchRefused ==
  LET r == pick[Pump] IN
  /\ Room /\ at[Pump] = "preparing" /\ RefusedAtLaunch(r)
  /\ Frees(r) /\ UNCHANGED <<rowVars, mem>>

(* The preparation fails, or the gate refuses at the last moment.          *)
LaunchFails ==
  LET r == pick[Pump] IN
  /\ Room /\ at[Pump] = "preparing" /\ Object(r).st = "queued"
  /\ Frees(r)
  /\ \/ Changed(OfMap(r, Failing(r)), {r})
     \/ ~HoldsStarts /\ ~updating /\ Changed(OfMap(r, Cancelling({r})), {r})

Launch ==
  LET r == pick[Pump] IN
  /\ Room /\ at[Pump] = "preparing" /\ ~RefusedAtLaunch(r)
  /\ live' = live \cup {r} /\ sent' = [sent EXCEPT ![r] = @ + 1]
  /\ Changed(OfMap(r, [mem EXCEPT ![r].st = "running"]), {r})
  /\ old' = IF old[r] # Gone THEN [old EXCEPT ![r].st = "running"] ELSE old
  /\ Passes(r) /\ UNCHANGED <<reserved, held>> /\ NotPumping

PumpStep == PumpFlushed \/ PumpLooks \/ PumpReserves
PumpEvent == PumpStarts \/ PumpRefreshed \/ PumpRefreshFails \/ PumpLooked \/ LaunchRefused \/ LaunchFails \/ Launch

(***************************************************************************)
(* Insertion into the turn that runs (steer), asked for by the owner, by   *)
(* the pump for a turn that only waits, or for one named turn.             *)
(***************************************************************************)
Target(r) == IF mem[r] = Gone THEN {} ELSE {q \in live : Running(mem, q) /\ mem[q].session = mem[r].session}
Insertable(r) == Queued(mem, r) /\ mem[r].steer = "none" /\ ~mem[r].planned
MayInsert(r) ==
  Insertable(r) /\ r \notin admissions /\ \E q \in Target(r) : pick[Insert(r)] \in {NoRun, q}
NotSteering == UNCHANGED <<next, live, reserved, held, updating, ready, todo, recovery, objects, bounds, told, stopped, reopened, torn>>
Picked(r, q) == pick' = [pick EXCEPT ![Insert(r)] = q]

Steer ==
  /\ Room /\ ready
  /\ \E r \in Runs, q \in {NoRun} \cup live :
       /\ at[Insert(r)] = "idle" /\ Insertable(r) /\ r \notin admissions
       /\ Target(r) # {} /\ q \in {NoRun} \cup Target(r)
       /\ Picked(r, q) /\ Await(Insert(r), "flush", chain)
  /\ UNCHANGED <<rowVars, mem, admissions, uncertain, unsent, sent>> /\ NotSteering

(* An insertion meant for one turn never becomes a turn of its own once a  *)
(* receipt is unknown.                                                     *)
Unsent(r, q) == unsent' = [unsent EXCEPT ![r] = q] /\ uncertain' = uncertain \cup {r}

SteerFlushed(r) ==
  /\ Follows(Insert(r), "flush")
  /\ \/ /\ ~(FlushOk /\ ~held /\ MayInsert(r))
        /\ IF FlushUncertain /\ pick[Insert(r)] # NoRun /\ Queued(mem, r) /\ mem[r].steer = "none"
           THEN Unsent(r, pick[Insert(r)])
           ELSE UNCHANGED <<unsent, uncertain>>
        /\ Go(Insert(r), "idle") /\ Picked(r, NoRun) /\ UNCHANGED admissions
     \/ /\ FlushOk /\ ~held /\ MayInsert(r)
        /\ \E q \in Target(r) :
             /\ pick[Insert(r)] \in {NoRun, q} /\ Picked(r, q)
        /\ admissions' = admissions \cup {r}
        /\ Go(Insert(r), "files") /\ UNCHANGED <<unsent, uncertain>>
  /\ UNCHANGED <<rowVars, mem, sent>> /\ NotSteering

(* settleSteer for an instruction that was not taken.                      *)
BackInQueue(r) == [mem EXCEPT ![r] = [@ EXCEPT !.st = "queued", !.steer = "none", !.target = NoRun]]
PutBack(r) ==
  /\ admissions' = admissions \ {r}
  /\ IF mem[r] # Gone /\ mem[r].steer # "none"
     THEN Changed(BackInQueue(r), {r}) /\ Await(Insert(r), "backing", chain')
     ELSE UNCHANGED <<rowVars, mem>> /\ Go(Insert(r), "idle")
  /\ UNCHANGED <<uncertain, unsent>>

(* The attachments are read; the row says that it is being sent before it  *)
(* is sent.                                                                *)
SteerMarks(r) ==
  LET q == pick[Insert(r)] IN
  /\ Room /\ at[Insert(r)] = "files"
  /\ \/ PutBack(r)
     \/ /\ Insertable(r) /\ q \in Target(r)
        /\ Changed([mem EXCEPT ![r] = [@ EXCEPT !.st = "running", !.steer = "sending", !.target = q]], {r})
        /\ Await(Insert(r), "putting", chain')
        /\ UNCHANGED <<admissions, uncertain, unsent>>
  /\ UNCHANGED <<pick, sent>> /\ NotSteering

(* The saved mark is followed by the sending, in one step.                 *)
SteerSends(r) ==
  /\ Saves(Insert(r), "putting")
  /\ \/ /\ FlushUncertain
        /\ Unsent(r, pick[Insert(r)]) /\ Go(Insert(r), "idle") /\ UNCHANGED <<rowVars, mem, admissions>>
     \/ FlushRefused /\ PutBack(r)
     \/ FlushOk /\ PutBack(r)                     \* held, or the turn ended or resumed meanwhile
     \/ /\ FlushOk /\ ~held /\ Running(mem, pick[Insert(r)])
        /\ Go(Insert(r), "sent") /\ UNCHANGED <<rowVars, mem, admissions, uncertain, unsent>>
  /\ UNCHANGED <<pick, sent>> /\ NotSteering

(* The put back instruction is saved, or kept as one that was never sent.  *)
SteerBacked(r) ==
  /\ Saves(Insert(r), "backing")
  /\ Go(Insert(r), "idle")
  /\ IF FlushUncertain THEN Unsent(r, pick[Insert(r)]) ELSE UNCHANGED <<unsent, uncertain>>
  /\ UNCHANGED <<rowVars, mem, admissions, pick, sent>> /\ NotSteering

(* Variant: an instruction that may have been taken goes back to the queue. *)
SteerAnsweredAgain(r) ==
  /\ Room /\ at[Insert(r)] = "sent"
  /\ \E taken \in BOOLEAN, sure \in BOOLEAN :
       /\ sent' = [sent EXCEPT ![r] = IF taken THEN @ + 1 ELSE @]
       /\ IF sure /\ taken
          THEN Changed([mem EXCEPT ![r].steer = "delivered"], {r})
          ELSE Changed(BackInQueue(r), {r})
  /\ admissions' = admissions \ {r}
  /\ Await(Insert(r), "answered", chain') /\ UNCHANGED <<uncertain, unsent, pick>> /\ NotSteering

(* The provider took the instruction, surely did not, or may have.         *)
SteerAnswered(r) ==
  /\ Room /\ at[Insert(r)] = "sent"
  /\ \E taken \in BOOLEAN, sure \in BOOLEAN :
       /\ sent' = [sent EXCEPT ![r] = IF taken THEN @ + 1 ELSE @]
       /\ IF sure /\ ~taken
          THEN Changed(BackInQueue(r), {r})
          ELSE Changed([mem EXCEPT ![r] = IF sure THEN [@ EXCEPT !.steer = "delivered"]
                                          ELSE [@ EXCEPT !.steer = "uncertain", !.st = "error"]], {r})
  /\ admissions' = admissions \ {r}
  /\ Await(Insert(r), "answered", chain') /\ UNCHANGED <<uncertain, unsent, pick>> /\ NotSteering

(* The answer is saved. When that fails, a delivery to Codex is recorded   *)
(* as one that may have failed.                                            *)
SteerSettled(r) ==
  /\ Saves(Insert(r), "answered")
  /\ Go(Insert(r), "idle")
  /\ \/ UNCHANGED <<rowVars, mem>>
     \/ /\ ~FlushOk /\ mem[r] # Gone /\ mem[r].steer = "delivered"
        /\ Changed([mem EXCEPT ![r] = [@ EXCEPT !.steer = "uncertain", !.st = "error"]], {r})
  /\ UNCHANGED <<admissions, uncertain, unsent, pick, sent>> /\ NotSteering

Insertion(r) == SteerFlushed(r) \/ SteerSends(r) \/ SteerBacked(r) \/ SteerSettled(r)
RunEvent(r) == SteerMarks(r) \/ SteerAnswered(r) \/ CreateTrusted(r)

(***************************************************************************)
(* The owner, turns that end, and a switch to a new version.               *)
(***************************************************************************)
Steady == UNCHANGED <<admissions, uncertain, unsent, ready, pick, todo, recovery, detached, stale, faults, crashes>>
Working == UNCHANGED <<at, left>>

(* A cancel of a run that memory has as ended changes nothing, so it is no *)
(* step: it is confirmed at once, whether the end is saved or not.         *)
ConfirmedAtOnce(r) == ready /\ mem[r].st = "cancelled"

(* The owner cancels a run: the row, still as it is, is saved with the note*)
(* that the owner stopped it, then the run ends, which is saved again. The *)
(* deadline of an update stops turns without that note.                    *)
Cancel ==
  /\ Room /\ ready
  /\ \E r \in Runs :
       /\ mem[r] # Gone /\ ~Ended(mem, r) /\ mem[r].steer = "none" /\ at[Stop(r)] = "idle"
       /\ \/ Changed(mem, {r})
          \/ updating /\ Running(mem, r) /\ UNCHANGED <<rowVars, mem>>
       /\ Go(Stop(r), "noted")
  /\ UNCHANGED <<next, live, reserved, held, updating, updates, old, history>> /\ Steady

(* Variant: a cancel frees the conversation before the provider stopped. *)
CancelFrees(r) ==
  /\ at[Stop(r)] = "noted"
  /\ Changed(Cancelling({r}), {r}) /\ Await(Stop(r), "stopping", chain')
  /\ reserved' = reserved \ {mem[r].session}
  /\ UNCHANGED <<next, live, held, updating, updates, old, history>> /\ Steady

(* The run ends, waiting or running; a provider it has stops later.        *)
CancelEnds(r) ==
  /\ at[Stop(r)] = "noted"
  /\ Changed(Cancelling({r}), {r}) /\ Await(Stop(r), "stopping", chain')
  /\ UNCHANGED <<next, live, reserved, held, updating, updates, old, history>> /\ Steady

(* The cancel is confirmed once it is saved.                               *)
CancelDone(r) ==
  /\ Saves(Stop(r), "stopping")
  /\ stopped' = IF FlushOk THEN stopped \cup {r} ELSE stopped
  /\ Go(Stop(r), "idle")
  /\ UNCHANGED <<rowVars, mem, next, live, reserved, held, updating, updates, old, told, sent, reopened, torn>>
  /\ Steady

(* scheduleContinuation: not while the conversation has other work.        *)
MayPlan(r) ==
  /\ Plans /\ next < MaxRuns
  /\ ~\E q \in Runs : /\ mem[q].st \in {"queued", "running"} /\ (q # r \/ old[r] # Gone)
                      /\ mem[q].session = Object(r).session /\ mem[q].target # r

Ending(r, outcome) == IF mem[r].st = "cancelled" THEN mem ELSE OfMap(r, [mem EXCEPT ![r].st = outcome])
Exited ==
  /\ Room
  /\ \E r \in live :
       /\ live' = live \ {r} /\ reserved' = reserved \ {Object(r).session}
       /\ old' = [old EXCEPT ![r] = Gone]
       /\ \/ \E outcome \in {"completed", "error"} : Changed(Ending(r, outcome), {r}) /\ UNCHANGED next
          \/ /\ Object(r).st = "running" /\ MayPlan(r) /\ next' = next + 1
             /\ Changed([Ending(r, "completed") EXCEPT ![next + 1] = QueuedRun(Object(r).session, TRUE)], {r, next + 1})
  /\ UNCHANGED <<held, updating, updates, history>> /\ Steady /\ Working

BeginUpdate ==
  /\ Room /\ ready /\ ~updating /\ updates < MaxUpdates
  /\ updating' = TRUE /\ updates' = updates + 1
  /\ ChangedWhile(mem, {}, TRUE)
  /\ UNCHANGED <<next, live, reserved, held, old, history>> /\ Steady /\ Working

EndUpdate ==
  /\ Room /\ updating /\ updating' = FALSE
  /\ ChangedWhile(mem, {}, held)
  /\ UNCHANGED <<next, live, reserved, held, updates, old, history>> /\ Steady /\ Working

(* The worker lost its storage.                                            *)
HoldStorage ==
  /\ Quiet /\ ~held /\ Fault /\ held' = TRUE
  /\ UNCHANGED <<rowVars, mem, next, live, reserved, updating, updates, history,
                 admissions, uncertain, unsent, ready, at, left, pick, todo, recovery, objects, crashes>>

(***************************************************************************)
(* Recovery: the owner retries the storage, which reads the receipt of an  *)
(* unknown write, settles it, and releases the hold.                       *)
(***************************************************************************)
Recovering == UNCHANGED <<next, live, reserved, updating, ready, todo, bounds, told, sent, stopped, torn>>
Unsettled == UNCHANGED <<rowVars, mem, admissions, uncertain, unsent, pick, recovery, reopened>> /\ SameObjects

Recover ==
  /\ Quiet /\ ready /\ at[Resolve] = "idle" /\ HoldsStarts
  /\ held' = TRUE /\ Await(Resolve, "writes", chain)
  /\ Unsettled /\ Recovering

Released == held' = unknown /\ Go(Resolve, "idle") /\ Unsettled /\ Recovering

RecoverWaited ==
  /\ Follows(Resolve, "writes")
  /\ IF unknown THEN Go(Resolve, "receipt") /\ UNCHANGED held /\ Unsettled /\ Recovering ELSE Released

(* The receipt cannot be read yet.                                         *)
RecoverUnread ==
  /\ Quiet /\ at[Resolve] = "receipt" /\ Go(Resolve, "idle")
  /\ UNCHANGED held /\ Unsettled /\ Recovering

(* resolveAdmission settles the runs no save confirmed, as the database has *)
(* them now, and those of requests and insertions whose save had an unknown *)
(* result, one after another.                                              *)
RecoverReads ==
  /\ Room /\ at[Resolve] = "receipt" /\ Go(Resolve, "rows")
  /\ rest' = newAdm \cup uncertain /\ resave' = failed \cup rest'
  /\ found' = [r \in Runs |-> IF r \in newAdm THEN disk[r] ELSE Unread]
  /\ unknown' = FALSE /\ failed' = {} /\ newAdm' = {}
  /\ UNCHANGED <<held, disk, chain, mem, admissions, uncertain, unsent, pick, reopened>>
  /\ SameObjects /\ Recovering

New(r) == found[r] # Unread
NeverSent(row, q) == [row EXCEPT !.st = "error", !.steer = "uncertain", !.target = q, !.keep = FALSE]

(* A run no save confirmed is as the database had it, or gone; one never   *)
(* sent to the turn it was meant for ends in error.                        *)
Removed(r) == found[r] = Gone /\ unsent[r] = NoRun
Replaced(r) == New(r) /\ found[r] # Gone
Settled(r) ==
  LET row == IF Replaced(r) THEN [found[r] EXCEPT !.keep = Queued(found, r) /\ mem[r] # Gone /\ mem[r].keep] ELSE mem[r]
  IN  IF Removed(r) \/ row = Gone THEN Gone
      ELSE IF unsent[r] # NoRun THEN NeverSent(row, unsent[r]) ELSE row

SettledNow(r) ==
  /\ admissions' = admissions \ {r} /\ uncertain' = uncertain \ {r}
  /\ unsent' = [unsent EXCEPT ![r] = NoRun] /\ rest' = rest \ {r}

(* The files of a run are kept, or removed with an admission that failed,  *)
(* before the next run is settled.                                         *)
RecoverRow(r) ==
  /\ at[Resolve] = "rows" /\ r \in rest /\ (New(r) \/ \A q \in rest : ~New(q))
  /\ mem' = [mem EXCEPT ![r] = Settled(r)]
  /\ Detach(IF Removed(r) \/ Replaced(r) THEN {r} ELSE {})
  /\ reopened' = IF Replaced(r) /\ mem[r].st \in Finished \cup {"gone"} /\ ~Ended(mem', r)
                 THEN reopened \cup {r} ELSE reopened
  /\ IF IF Removed(r) THEN r \in uncertain ELSE mem'[r] # Gone
     THEN Go(Resolve, "files") /\ pick' = [pick EXCEPT ![Resolve] = r] /\ UNCHANGED <<admissions, uncertain, unsent, rest>>
     ELSE SettledNow(r) /\ UNCHANGED <<at, left, pick>>
  /\ UNCHANGED <<held, rowVars, found, resave>> /\ Recovering

RecoverKept ==
  /\ Quiet /\ at[Resolve] = "files" /\ Go(Resolve, "rows")
  /\ SettledNow(pick[Resolve]) /\ pick' = [pick EXCEPT ![Resolve] = NoRun]
  /\ UNCHANGED <<held, rowVars, mem, found, resave, reopened>> /\ SameObjects /\ Recovering

RecoverSaves ==
  /\ at[Resolve] = "rows" /\ rest = {}
  /\ Changed(mem, resave) /\ Await(Resolve, "settling", chain')
  /\ found' = [r \in Runs |-> Unread] /\ resave' = {}
  /\ UNCHANGED <<held, admissions, uncertain, unsent, pick, rest, reopened>> /\ SameObjects /\ Recovering

(* A failed save leaves the hold to the next retry.                        *)
RecoverFlushed ==
  /\ Saves(Resolve, "settling")
  /\ \/ FlushOk /\ Released
     \/ ~FlushOk /\ Go(Resolve, "idle") /\ UNCHANGED held /\ Unsettled /\ Recovering

(***************************************************************************)
(* The end of the worker, by a crash or a handover, and the next one.      *)
(***************************************************************************)
Interrupted(row) == [row EXCEPT !.st = IF @ = "running" THEN "error" ELSE "cancelled", !.keep = FALSE]

(* restoreRuns; late are the continuations whose time is long past.        *)
Restored(row, late) ==
  LET seen == [row EXCEPT !.steer = IF @ = "sending" THEN "uncertain" ELSE @] IN
  IF row.st \in Finished \/ (row.st = "queued" /\ (IF row.planned THEN ~late ELSE row.keep))
  THEN seen ELSE Interrupted(seen)

Crash ==
  /\ Quiet /\ crashes < MaxCrashes /\ crashes' = crashes + 1
  /\ \E committed \in BOOLEAN, late \in SUBSET Runs :
       /\ committed => chain # <<>>
       /\ disk' = IF committed THEN Saved(Head(chain)) ELSE disk
       /\ late \subseteq {r \in Runs : disk'[r] # Gone /\ disk'[r].planned}
       /\ mem' = [r \in Runs |-> IF disk'[r] = Gone THEN Gone ELSE Restored(disk'[r], r \in late)]
  /\ LET ids == {r \in Runs : mem'[r] # Gone} IN
       chain' = IF ids = {} THEN <<>> ELSE <<Restrict(mem', ids)>>
  /\ unknown' = FALSE /\ failed' = {} /\ newAdm' = {}
  /\ admissions' = {} /\ uncertain' = {} /\ unsent' = [r \in Runs |-> NoRun]
  /\ live' = {} /\ reserved' = {} /\ held' = TRUE /\ updating' = FALSE /\ ready' = FALSE
  /\ at' = [t \in Tasks |-> "idle"] /\ left' = [t \in Tasks |-> 0]
  /\ pick' = [t \in Tasks |-> NoRun] /\ todo' = {}
  /\ rest' = {} /\ found' = [r \in Runs |-> Unread] /\ resave' = {}
  /\ old' = [r \in Runs |-> Gone] /\ detached' = {}
  /\ torn' = torn \cup {r \in Runs : sent[r] > 0 /\ disk'[r].st = "queued"}
  /\ UNCHANGED <<next, faults, updates, told, sent, stopped, reopened, stale>>

Ready ==
  /\ Quiet /\ ~ready /\ chain = <<>>
  /\ ready' = TRUE /\ held' = FALSE
  /\ UNCHANGED <<rowVars, mem, next, admissions, uncertain, unsent, live, reserved, updating,
                 at, left, pick, todo, recovery, objects, bounds, history>>

Continue ==
  \/ SaveBlocked \/ PumpStep \/ RecoverWaited \/ RecoverSaves \/ RecoverFlushed
  \/ \E r \in Runs : Admission(r) \/ Insertion(r) \/ CancelEnds(r) \/ CancelDone(r) \/ RecoverRow(r)
SaveEvent == SaveCommits \/ SaveRefused \/ SaveUnknown
RecoverEvent == Recover \/ RecoverUnread \/ RecoverReads \/ RecoverKept
Next ==
  \/ Continue \/ SaveEvent \/ PumpEvent \/ RecoverEvent
  \/ \E r \in Runs : RunEvent(r)
  \/ Enqueue \/ Create \/ Steer \/ Cancel \/ Exited
  \/ BeginUpdate \/ EndUpdate \/ HoldStorage \/ Crash \/ Ready

Spec == Init /\ [][Next]_vars

(* The storage answers, the pump is polled and the sessions can be read at *)
(* times, and preparations, providers and turns end. Each of these is      *)
(* handled whenever it comes; that it waits for Room or Quiet is the order *)
(* of the event loop and a bound of the model, so its fairness is strong.  *)
(* Nothing is assumed of the owner, who alone retries a held storage, nor  *)
(* of the end of an update.                                                *)
Fairness ==
  /\ WF_vars(Continue)
  /\ SF_vars(SaveEvent) /\ SF_vars(PumpEvent) /\ SF_vars(PumpRefreshed)
  /\ SF_vars(Ready) /\ SF_vars(Exited)
  /\ \A r \in Runs : SF_vars(RunEvent(r))
FairSpec == Spec /\ Fairness

(***************************************************************************)
(* Properties.                                                             *)

(* A conversation never has two turns with a provider of this worker.      *)
OneTurnPerSession == \A p, q \in live : Object(p).session = Object(q).session => p = q

(* An instruction a provider may have is not queued again: only one whose  *)
(* worker ended before the start was saved may be given a second time.     *)
(* Runs that left the map while a pass of the pump held their objects      *)
(* (stale) are left to NothingResent, here and below.                      *)
GivenOnce ==
  \A r \in Runs \ stale : sent[r] > 1 \/ (sent[r] > 0 /\ Queued(mem, r)) => r \in torn

(* An instruction whose request was answered with success is in the        *)
(* database from then on, whatever fails and whenever the worker ends.     *)
AcceptedIsSaved == \A r \in Runs : told[r] = "accepted" => disk[r] # Gone

(* A run whose cancel was confirmed is not started afterwards, whatever    *)
(* was underway for it, across restarts when its save was confirmed. One   *)
(* that memory has cancelled, so that a cancel is confirmed at once, does  *)
(* not go back to the queue while the worker lives: the next worker may    *)
(* find it queued. Runs that left the map while the pump held them, and    *)
(* those that a receipt brought back from an older row, are not covered.   *)
CancelledNeverStarts ==
  [][\A r \in Runs \ (stale \cup reopened') :
       /\ r \in stopped \/ ConfirmedAtOnce(r) => sent'[r] = sent[r]
       /\ ConfirmedAtOnce(r) /\ ready' => ~Queued(mem', r)]_vars

(* A worker that hands over with every change saved (flushState) takes no  *)
(* instruction with it: what waited for the new version is queued there.   *)
HandoverKeepsQueue ==
  [][(ready /\ ~ready' /\ updating /\ at[Resolve] # "files" /\ chain = <<>> /\ FlushOk) =>
       \A r \in Waiting(mem) : Queued(mem', r)]_vars

(* An acknowledged instruction ends.                                       *)
AcceptedEnds ==
  []<>~HoldsStarts /\ []<>~updating =>
    \A r \in Runs : told[r] \in {"accepted", "created"} ~> (mem[r] = Gone \/ Ended(mem, r))

(* What the comment on resolveAdmission says: reading a receipt never      *)
(* starts a provider or resends work. Without an end of the worker, an     *)
(* instruction is given at most once, whatever receipts are read.          *)
NothingResent == \A r \in Runs : sent[r] <= 1

=============================================================================
