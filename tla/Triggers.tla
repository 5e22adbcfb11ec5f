------------------------------ MODULE Triggers ------------------------------
(***************************************************************************)
(* One trigger of the engine (src/server/triggers): its scheduled times,   *)
(* the HTTP request it may send for one, the events it fires, the claim of *)
(* an event and its submission as a run, and what the launch gate of the   *)
(* run manager asks of it.                                                 *)
(*                                                                         *)
(* Two copies of the trigger's state: `disk` is what SQL holds, `mem` the  *)
(* store's projection. Every mutation is made on a draft and becomes `mem` *)
(* only when it was saved; the one other writer is the admission of a run  *)
(* for a session on this computer, which sets its event `running` in the   *)
(* transaction that inserts the run. The worker may stop between any two   *)
(* steps, a save may be refused or its result stay unknown, and the owner  *)
(* turns the trigger off and on at any time.                               *)
(*                                                                         *)
(* The revision of the definition stands for the times the code compares:  *)
(* turning a trigger off raises it, so an event's `receivedAt` is after    *)
(* `turnedOffAt` exactly when the event was fired at `offRev` or later.    *)
(* All firings of a behaviour fall into one hour.                          *)
(***************************************************************************)
EXTENDS Naturals, FiniteSetsExt, SequencesExt

CONSTANTS Policies,       \* definitions: source, once, catchUp, overlap, target
          Period,         \* ticks between scheduled times
          Window,         \* CATCH_UP_WINDOW_MS in ticks
          MaxNow,         \* ticks of the clock
          MaxConcurrent,  \* settings.maxConcurrentRuns
          PerHour,        \* policy.maxEventsPerHour
          MaxWaiting,     \* MAX_WAITING_PER_TRIGGER
          MaxManual,      \* runs the owner asks for
          MaxToggles,     \* times the owner turns the trigger off or on
          MaxFaults,      \* saves that fail
          MaxStops        \* stops of the worker

ASSUME TriggersAssumption ==
  /\ Policies \subseteq [source : {"schedule", "http"}, once : BOOLEAN, catchUp : {"latest", "skip"},
                         overlap : {"skip", "queue", "parallel"}, target : {"session", "folder"}]
  /\ {Period, MaxConcurrent, PerHour, MaxWaiting} \subseteq Nat \ {0}
  /\ {Window, MaxNow, MaxManual, MaxToggles, MaxFaults, MaxStops} \subseteq Nat

None == 0
Slots == {t \in 1 .. MaxNow : t % Period = 0}
Manual == MaxNow + 1 .. MaxNow + MaxManual
Keys == Slots \cup Manual     \* dedup keys; the request ID of a run is made from one

VARIABLES
  policy, now, asked,   \* the definition, the clock, the runs asked for
  disk, mem,            \* the trigger's rows, and the projection of this worker
  blocked,              \* "refused": storageError; "unknown": the repository's pending write
  up, held,
  tick,                 \* where the engine's step is
  poll,                 \* the request in flight, under the trigger's lock
  runs,                 \* the run of each request ID
  sent, starts,         \* requests sent for a time; starts of a run
  offSeen,              \* revision of the last turn-off that was saved and told
  toggles, faults, stops

worldVars == <<policy, now, asked, toggles, stops>>
engineVars == <<up, held, tick, poll>>
ghostVars == <<sent, starts, offSeen>>
vars == <<worldVars, engineVars, ghostVars, disk, mem, blocked, runs, faults>>

(* The parts of a tick, in the order `step` comes to them.                 *)
Save == 1
Orphaned == 2
Looking == 3
Tracking == 4
Dispatching == 5
Quiet == [at |-> Save, doing |-> "none", now |-> 0, id |-> None, fresh |-> FALSE, outcome |-> "none"]
NoPoll == [slot |-> None, rev |-> 0, sent |-> FALSE]

(* Scheduled times *)
NextSlot(after) ==
  LET later == {s \in Slots : s > after /\ (policy.once => s = Period)}
  IN IF later = {} THEN None ELSE Min(later)
LatestSlot(from, until) ==
  LET passed == {s \in Slots : from < s /\ s <= until}
  IN IF passed = {} THEN None ELSE Max(passed)

(* What the events of a state stand at *)
Ids(S) == DOMAIN S.events
In(S, status) == {i \in Ids(S) : S.events[i].status \in status}
Unfinished(S) == In(S, {"queued", "claimed", "running"})
Active(S) == In(S, {"claimed", "running"})

(* The events of a state, with those in `ids` at a new status.             *)
Restated(S, ids, status) ==
  [S EXCEPT !.events = [i \in Ids(S) |-> IF i \in ids THEN [S.events[i] EXCEPT !.status = status[i]] ELSE S.events[i]]]

Init ==
  /\ policy \in Policies
  /\ now = 0 /\ asked = 0
  /\ disk = [on |-> TRUE, rev |-> 1, offRev |-> 0, nextAt |-> Period, lastSlot |-> None,
             paused |-> FALSE, fired |-> {}, consumed |-> None, events |-> <<>>]
  /\ mem = disk
  /\ blocked = "none" /\ up = TRUE /\ held = FALSE
  /\ tick = Quiet /\ poll = NoPoll
  /\ runs = [k \in Keys |-> "none"]
  /\ sent = [k \in Slots |-> 0] /\ starts = [k \in Keys |-> 0]
  /\ offSeen = 0 /\ toggles = 0 /\ faults = 0 /\ stops = 0

-----------------------------------------------------------------------------
(* TriggerStore.mutate: the draft starts from the events SQL holds now. A  *)
(* draft that was refused or whose result is unknown never becomes `mem`;  *)
(* an unknown result fails every later mutation of this worker.            *)
Fresh == [mem EXCEPT !.events = disk.events]
Results == {"saved", "refused", "unknown", "held"}

Mutate(draft, r) ==
  \/ /\ r = "saved" /\ blocked # "unknown"
     /\ mem' = draft /\ disk' = draft /\ blocked' = "none"
     /\ UNCHANGED faults
  \/ /\ r \in {"refused", "unknown"} /\ blocked # "unknown"
     /\ draft # disk /\ faults < MaxFaults /\ faults' = faults + 1
     /\ mem' = Fresh /\ blocked' = r
     /\ disk' \in IF r = "unknown" THEN {disk, draft} ELSE {disk}
  \/ /\ r = "held" /\ blocked = "unknown"
     /\ UNCHANGED <<mem, disk, blocked, faults>>

NoMutation == UNCHANGED <<mem, disk, blocked, faults>>

-----------------------------------------------------------------------------
(* firing.ts: one firing on a draft. The limits decide what becomes of it. *)
Admission(S) ==
  IF Cardinality(S.fired) >= PerHour \/ (Unfinished(S) # {} /\ policy.overlap = "skip") THEN "skipped"
  ELSE IF In(S, {"queued"}) # {} /\ policy.overlap = "queue" THEN "coalesced"
  ELSE IF Cardinality(In(S, {"queued"})) >= MaxWaiting THEN "skipped"
  ELSE "queued"

(* Variant: only a scheduled time consumes a once reservation.             *)
ConsumeScheduled(S, key) ==
  IF policy.once /\ key \in Slots THEN [S EXCEPT !.consumed = key, !.on = FALSE, !.nextAt = None, !.rev = @ + 1] ELSE S

(* A once reservation is used up in the commit that records its event.     *)
Consume(S, key) ==
  IF policy.once THEN [S EXCEPT !.consumed = key, !.on = FALSE, !.nextAt = None, !.rev = @ + 1] ELSE S

(* `from` is the revision the firing was decided under: that of the        *)
(* request, when one was sent for it.                                      *)
Fire(S, key, from) ==
  IF S.consumed # None \/ key \in S.fired THEN S
  ELSE Consume([S EXCEPT !.fired = @ \cup {key},
                         !.paused = (@ \/ Cardinality(S.fired) >= PerHour),
                         !.events = Append(@, [key |-> key, rev |-> S.rev, from |-> from, status |-> Admission(S)])],
               key)

(* Variant: a claim without a run is left as it is.                        *)
ReconciledFound(S) ==
  Restated(S, {i \in In(S, {"claimed"}) : runs[S.events[i].key] # "none"}, [i \in Ids(S) |-> "running"])

(* Variant: every claim is queued again, as a coordinator's is.            *)
ReconciledAgain(S) == Restated(S, In(S, {"claimed"}), [i \in Ids(S) |-> "queued"])

(* dispatch.ts reconcile: a claim nobody is submitting is matched to what  *)
(* the run manager has, never submitted again.                             *)
Reconciled(S) ==
  Restated(S, In(S, {"claimed"}),
           [i \in Ids(S) |-> IF runs[S.events[i].key] = "none" THEN "uncertain" ELSE "running"])

-----------------------------------------------------------------------------
(* The engine's tick: it goes on without yielding to the next part that    *)
(* has something to save, so each action is one such part.                 *)
Due(S, at) == S.on /\ S.consumed = None /\ ~S.paused /\ S.nextAt # None /\ S.nextAt <= at

(* dispatch.ts track: what a running event makes of its run.               *)
Outcome == [none |-> "uncertain", doubtIn |-> "running", doubtOut |-> "running", queued |-> "running",
            running |-> "running", ended |-> "completed", refused |-> "cancelled"]
Tracked(S) ==
  Restated(S, In(S, {"running"}) \cap In(mem, {"running"}), [i \in Ids(S) |-> Outcome[runs[S.events[i].key]]])

(* Overlap and the limit decide which waiting event is handed over next.   *)
Busy(S) == Active(S)

Ready(S) ==
  {i \in In(S, {"queued"}) : /\ Cardinality(Busy(S)) < MaxConcurrent
                             /\ (policy.overlap = "parallel" \/ Busy(S) = {})}

Todo(part) ==
  CASE part = Save -> blocked # "none"
    [] part = Orphaned -> In(mem, {"claimed"}) # {}
    [] part = Looking -> ~held /\ blocked = "none" /\ poll = NoPoll /\ Due(mem, now)
    [] part = Tracking -> Tracked(mem) # mem
    [] part = Dispatching -> Ready(mem) # {}

Reached(part) == /\ up /\ tick.doing = "none" /\ tick.at <= part /\ Todo(part)
                 /\ \A p \in tick.at .. part - 1 : ~Todo(p)
Doing(what) == up /\ tick.doing = what
Proceed(part) == tick' = [Quiet EXCEPT !.at = part]

(* engine.ts step: after a failed save it saves again before anything new. *)
SaveAgain ==
  /\ Reached(Save) /\ Proceed(Orphaned)
  /\ \E r \in Results : Mutate(Fresh, r)
  /\ UNCHANGED <<worldVars, up, held, poll, runs, ghostVars>>

(* Claims nobody is submitting now.                                        *)
ReconcileOrphans ==
  /\ Reached(Orphaned) /\ Proceed(Looking)
  /\ \E r \in Results : Mutate(Reconciled(Fresh), r)
  /\ UNCHANGED <<worldVars, up, held, poll, runs, ghostVars>>

(* The time is due; its firing waits for the saves before it.              *)
Look ==
  /\ Reached(Looking)
  /\ tick' = [Quiet EXCEPT !.doing = "fire", !.now = now]
  /\ NoMutation
  /\ UNCHANGED <<worldVars, up, held, poll, runs, ghostVars>>

(* On time, or the latest missed time inside the window; a poll always     *)
(* looks once after a gap.                                                 *)
SlotDue(S, late) ==
  IF ~late THEN S.nextAt
  ELSE IF policy.source = "http" \/ policy.catchUp = "latest"
  THEN LatestSlot(Max({S.lastSlot, tick.now - Min({tick.now, Window})}), tick.now)
  ELSE None

(* The time a request is sent for is passed before it goes out.            *)
(* Variant: it is passed when the request was answered.                    *)
TakeSlotLater(S, slot) ==
  IF policy.source = "http" THEN S
  ELSE Fire([S EXCEPT !.nextAt = NextSlot(Max({tick.now, S.lastSlot})), !.lastSlot = slot], slot, S.rev)

TakeSlot(S, slot) ==
  LET taken == [S EXCEPT !.nextAt = NextSlot(Max({tick.now, S.lastSlot})), !.lastSlot = slot]
  IN IF policy.source = "http" THEN taken ELSE Fire(taken, slot, S.rev)

(* A new time; the clock may have been behind when the last one was taken. *)
Taken(S) == SlotDue(S, tick.now > S.nextAt) > S.lastSlot

FireOnce(S) ==
  LET fired == Fire(S, S.nextAt, S.rev)
  IN IF policy.catchUp = "skip" /\ now > S.nextAt
     THEN [fired EXCEPT !.events[Len(fired.events)].status = "skipped"] ELSE fired

FireDraft(S) ==
  IF policy.once /\ policy.source = "schedule" THEN FireOnce(S)
  ELSE IF Taken(S) THEN TakeSlot(S, SlotDue(S, tick.now > S.nextAt))
  ELSE [S EXCEPT !.nextAt = NextSlot(Max({tick.now, S.lastSlot}))]

FireDue ==
  /\ Doing("fire") /\ Proceed(Tracking)
  /\ IF ~held /\ Due(Fresh, now)
     THEN \E r \in Results :
       /\ Mutate(FireDraft(Fresh), r)
       /\ poll' = IF r = "saved" /\ policy.source = "http" /\ Taken(Fresh)
                  THEN [slot |-> SlotDue(Fresh, tick.now > Fresh.nextAt), rev |-> Fresh.rev, sent |-> FALSE] ELSE poll
     ELSE NoMutation /\ UNCHANGED poll
  /\ UNCHANGED <<worldVars, up, held, runs, ghostVars>>

Track ==
  /\ Reached(Tracking) /\ Proceed(Dispatching)
  /\ \E r \in Results : Mutate(Tracked(Fresh), r)
  /\ UNCHANGED <<worldVars, up, held, poll, runs, ghostVars>>

-----------------------------------------------------------------------------
(* dispatch.ts dispatch: a claim is saved before anything is submitted.    *)
Claim ==
  /\ Reached(Dispatching)
  /\ LET i == Min(Ready(mem))
     IN IF Fresh.events[i].status # "queued"
        THEN NoMutation /\ tick' = Quiet
        ELSE \E r \in Results :
          /\ Mutate(Restated(Fresh, {i}, [j \in {i} |-> "claimed"]), r)
          /\ tick' = IF r # "saved" THEN Quiet
                     ELSE [Quiet EXCEPT !.doing = IF policy.target = "session" THEN "link" ELSE "create", !.id = i]
  /\ UNCHANGED <<worldVars, up, held, poll, runs, ghostVars>>

EndTick ==
  /\ up /\ tick.doing = "none" /\ tick.at # Save /\ \A p \in tick.at .. Dispatching : ~Todo(p)
  /\ tick' = Quiet
  /\ NoMutation
  /\ UNCHANGED <<worldVars, up, held, poll, runs, ghostVars>>

Submitted(outcome) == tick' = [tick EXCEPT !.doing = "outcome", !.outcome = outcome]
Key == mem.events[tick.id].key

(* handover.ts: a session on this computer takes the fence of the          *)
(* triggers' rows with it; a later save of the triggers breaks it.         *)
Link ==
  /\ Doing("link")
  /\ mem' = IF blocked = "none" THEN Fresh ELSE mem
  /\ IF blocked = "none" THEN tick' = [tick EXCEPT !.doing = "create", !.fresh = TRUE] ELSE Submitted("error")
  /\ UNCHANGED <<worldVars, up, held, poll, runs, ghostVars, disk, blocked, faults>>

(* linkTriggerAdmissions: the event is set running with the insertion.     *)
Linked(S, i) == IF policy.target = "session" THEN [S EXCEPT !.events[i].status = "running"] ELSE S

(* The run manager admits the run: inserted, refused (also when a run of   *)
(* this request exists, or the fence moved), or the result is unknown: the *)
(* run is then held, inserted or not.                                      *)
Create ==
  /\ Doing("create")
  /\ \E r \in {"saved", "refused", "unknown"} :
       IF runs[Key] # "none" \/ (policy.target = "session" /\ ~tick.fresh)
       THEN r = "refused" /\ Submitted("error") /\ UNCHANGED <<runs, disk, faults>>
       ELSE /\ IF r = "saved" THEN UNCHANGED faults ELSE faults < MaxFaults /\ faults' = faults + 1
            /\ CASE r = "saved" -> /\ runs' = [runs EXCEPT ![Key] = "queued"]
                                   /\ disk' = Linked(disk, tick.id)
                                   /\ Submitted("running")
                 [] r = "refused" -> Submitted("error") /\ UNCHANGED <<runs, disk>>
                 [] r = "unknown" -> /\ Submitted("uncertain")
                                     /\ \/ /\ runs' = [runs EXCEPT ![Key] = "doubtIn"]
                                           /\ disk' = Linked(disk, tick.id)
                                        \/ /\ runs' = [runs EXCEPT ![Key] = "doubtOut"]
                                           /\ UNCHANGED disk
  /\ UNCHANGED <<worldVars, up, held, poll, ghostVars, mem, blocked>>

(* The outcome is saved over a claim only: the admission may already have  *)
(* set the event running.                                                  *)
WithOutcome(S, i) ==
  IF S.events[i].status = "claimed" THEN [S EXCEPT !.events[i].status = tick.outcome] ELSE S

SaveOutcome ==
  /\ Doing("outcome")
  /\ \E r \in Results : Mutate(WithOutcome(Fresh, tick.id), r)
  /\ Proceed(Dispatching)
  /\ UNCHANGED <<worldVars, up, held, poll, runs, ghostVars>>

-----------------------------------------------------------------------------
(* A saved change of the triggers' rows breaks the fence of a link taken   *)
(* before it.                                                              *)
BreakFence == tick' = [tick EXCEPT !.fresh = (@ /\ disk' = disk)]

(* polls.ts poll: the request of a claimed time, under the definition it   *)
(* was claimed for.                                                        *)
Ask ==
  /\ up /\ poll # NoPoll /\ ~poll.sent
  /\ IF mem.rev = poll.rev
     THEN /\ poll' = [poll EXCEPT !.sent = TRUE]
          /\ sent' = [sent EXCEPT ![poll.slot] = @ + 1]
     ELSE poll' = NoPoll /\ UNCHANGED sent
  /\ NoMutation
  /\ UNCHANGED <<worldVars, up, held, tick, runs, starts, offSeen>>

(* An answer whose condition is met fires, unless the definition changed   *)
(* since.                                                                  *)
Answer ==
  /\ up /\ poll.sent
  /\ \E met \in BOOLEAN, r \in Results :
       /\ Mutate(IF met /\ Fresh.rev = poll.rev THEN Fire(Fresh, poll.slot, poll.rev) ELSE Fresh, r)
       /\ poll' = NoPoll
  /\ BreakFence
  /\ UNCHANGED <<worldVars, up, held, runs, ghostVars>>

-----------------------------------------------------------------------------
(* The owner                                                               *)

(* polls.ts run: a run now, whether or not a time is due.                  *)
RunNow ==
  /\ up /\ asked < MaxManual /\ policy.source = "schedule"
  /\ Fresh.consumed = None /\ (policy.once => Fresh.on)
  /\ asked' = asked + 1
  /\ \E r \in Results : Mutate(Fire(Fresh, MaxNow + asked + 1, Fresh.rev), r)
  /\ BreakFence
  /\ UNCHANGED <<policy, now, toggles, stops, up, held, poll, runs, ghostVars>>

(* definitions.ts setEnabled and remove: waiting runs are cancelled, and   *)
(* the moment is kept for those already handed over.                       *)
(* Variant: the moment is not kept.                                        *)
Cancelled(S) == Restated(S, In(S, {"queued"}), [i \in Ids(S) |-> "cancelled"])
TurnedOffForgets(S) == [Cancelled(S) EXCEPT !.on = FALSE, !.rev = @ + 1]

TurnedOff(S) == [Cancelled(S) EXCEPT !.on = FALSE, !.rev = @ + 1, !.offRev = S.rev + 1]

(* Times count from now: nothing is caught up from before.                 *)
TurnedOn(S) == [S EXCEPT !.on = TRUE, !.rev = @ + 1, !.paused = FALSE, !.nextAt = NextSlot(now)]

TurnOff ==
  /\ up /\ (mem.on \/ mem.consumed # None) /\ toggles < MaxToggles /\ toggles' = toggles + 1
  /\ \E r \in Results :
       /\ Mutate(TurnedOff(Fresh), r)
       /\ offSeen' = IF r = "saved" THEN mem'.rev ELSE offSeen
  /\ BreakFence
  /\ UNCHANGED <<policy, now, asked, stops, up, held, poll, runs, sent, starts>>

TurnOn ==
  /\ up /\ ~mem.on /\ Fresh.consumed = None /\ toggles < MaxToggles /\ toggles' = toggles + 1
  /\ policy.once => now < Period
  /\ \E r \in Results : Mutate(TurnedOn(Fresh), r)
  /\ BreakFence
  /\ UNCHANGED <<policy, now, asked, stops, up, held, poll, runs, ghostVars>>

-----------------------------------------------------------------------------
(* The run manager                                                         *)

(* views.ts launchAllowed, asked right before a run starts.                *)
LaunchAllowed(k) ==
  \E i \in Ids(mem) : /\ mem.events[i].key = k
                      /\ (mem.on \/ mem.consumed = k)
                      /\ mem.events[i].rev >= mem.offRev

Launch(k) ==
  /\ up /\ runs[k] = "queued"
  /\ IF LaunchAllowed(k)
     THEN runs' = [runs EXCEPT ![k] = "running"] /\ starts' = [starts EXCEPT ![k] = @ + 1]
     ELSE runs' = [runs EXCEPT ![k] = "refused"] /\ UNCHANGED starts
  /\ NoMutation
  /\ UNCHANGED <<worldVars, engineVars, sent, offSeen>>

End(k) ==
  /\ up /\ runs[k] = "running"
  /\ runs' = [runs EXCEPT ![k] = "ended"]
  /\ NoMutation
  /\ UNCHANGED <<worldVars, engineVars, ghostVars>>

(* An admission whose result was unknown is settled by its receipt, here   *)
(* or when the worker starts again.                                        *)
Settled(state) == CASE state = "doubtIn" -> "queued" [] state = "doubtOut" -> "none" [] OTHER -> state

Resolve(k) ==
  /\ up /\ Settled(runs[k]) # runs[k]
  /\ runs' = [runs EXCEPT ![k] = Settled(@)]
  /\ NoMutation
  /\ UNCHANGED <<worldVars, engineVars, ghostVars>>

-----------------------------------------------------------------------------
(* The worker and the clock                                                *)
Hold == up /\ ~held /\ held' = TRUE /\ NoMutation /\ UNCHANGED <<worldVars, up, tick, poll, runs, ghostVars>>
Release == up /\ held /\ held' = FALSE /\ NoMutation /\ UNCHANGED <<worldVars, up, tick, poll, runs, ghostVars>>

(* A turn the stop cuts off ends; a queued run waits for the next worker.  *)
Stop ==
  /\ up /\ stops < MaxStops /\ stops' = stops + 1
  /\ up' = FALSE /\ held' = FALSE /\ tick' = Quiet /\ poll' = NoPoll
  /\ runs' = [k \in Keys |-> IF runs[k] = "running" THEN "ended" ELSE Settled(runs[k])]
  /\ NoMutation
  /\ UNCHANGED <<policy, now, asked, toggles, ghostVars>>

(* service.ts start: the rows are read, claims reconciled, and both saved  *)
(* before the engine's first tick.                                         *)
Start ==
  /\ ~up /\ up' = TRUE
  /\ mem' = Reconciled(disk) /\ disk' = mem' /\ blocked' = "none"
  /\ UNCHANGED <<worldVars, held, tick, poll, runs, ghostVars, faults>>

Clock ==
  /\ now < MaxNow /\ now' = now + 1
  /\ NoMutation
  /\ UNCHANGED <<policy, asked, toggles, stops, engineVars, runs, ghostVars>>

Engine == SaveAgain \/ ReconcileOrphans \/ Look \/ FireDue \/ Track \/ EndTick \/ Claim \/ Link \/ Create \/ SaveOutcome
Owner == RunNow \/ TurnOff \/ TurnOn
Manager == \E k \in Keys : Launch(k) \/ End(k) \/ Resolve(k)

Next == Engine \/ Ask \/ Answer \/ Owner \/ Manager \/ Hold \/ Release \/ Stop \/ Start \/ Clock

Spec == Init /\ [][Next]_vars

(* Fairness: the engine's timer, its awaited calls and the run manager go  *)
(* on while the worker is up, the supervisor starts it again, providers'   *)
(* turns end. Nothing is promised of the owner, of storage or of a hold.   *)
(* The actions of the second conjunct can each be taken only finitely      *)
(* often, so one fairness condition gives each its turn.                   *)
FairSpec ==
  /\ Spec
  /\ WF_vars(Engine)
  /\ WF_vars(Ask \/ Answer \/ Manager \/ Start)

-----------------------------------------------------------------------------
(* Alive in the run manager: inserted, and not ended.                      *)
Live(k) == runs[k] \in {"queued", "running", "doubtIn"}
Event(k, statuses) == \E i \in Ids(disk) : disk.events[i].key = k /\ disk.events[i].status \in statuses

(* An event that is told as not run has no run, then or later: its outcome *)
(* may be unsaved, its worker may have stopped while submitting it, and    *)
(* its claim may have been matched by the next one (dispatch.ts).          *)
RefusedNeverRuns ==
  \A k \in Keys : Event(k, {"error", "cancelled", "skipped", "coalesced"}) => starts[k] = 0 /\ ~Live(k)

(* A run fired, or whose request was decided on, before the owner turned   *)
(* the trigger off does not start afterwards, even when it was on again in *)
(* between and whatever was under way (views.ts launchAllowed).            *)
OffIsFinal ==
  [][\A k \in Keys : starts'[k] # starts[k] =>
       \E i \in Ids(disk) : disk.events[i].key = k /\ disk.events[i].from >= offSeen]_vars

(* A request is sent at most once for a scheduled time, also when the      *)
(* worker stops while it is out or its result cannot be saved (polls.ts).  *)
AskedOnce == \A s \in Slots : sent[s] <= 1

(* A once reservation fires one event, whoever of the owner and the clock  *)
(* comes first, however often it is saved, turned off or loaded (once.ts). *)
OnceIsOnce == policy.once => Len(disk.events) <= 1

(* Accepted events do not stay waiting: each is handed over, or told why   *)
(* not. Only a save with an unknown result may hold them, until the worker *)
(* is started again (engine.ts, dispatch.ts).                              *)
Waiting == In(disk, {"queued", "claimed"}) # {}
AcceptedSettles == Waiting ~> (~Waiting \/ blocked = "unknown")
=============================================================================
