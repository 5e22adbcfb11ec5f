---------------------------- MODULE UpdateTrial ----------------------------
(***************************************************************************)
(* How Tower's background service moves to a new version and back          *)
(* (link/update.ts, storage-hold.ts, storage-update.ts).                   *)
(*                                                                         *)
(* The web records an update and spawns a helper, a process of its own,    *)
(* which installs the version, writes the hold, points `current` at it,    *)
(* restarts the web and watches it: it keeps the version or goes back.     *)
(* While the hold is there the new web leaves the execution worker alone.  *)
(* Helper, web and computer may stop between any two of those file steps;  *)
(* a web that starts settles the update it finds (recover), and an old     *)
(* hold that no helper owns is removed by the web that finds it.           *)
(*                                                                         *)
(* A step of the transition turn (a hold written or removed, the pointer)  *)
(* is a step here, and taking the helper lock is one. Waits end as the web *)
(* comes up or, at any moment it is not, by their deadline. Files that     *)
(* cannot be read or are not plain files are left out: the code then does  *)
(* nothing. Some names say Trial, for the proofs extend UpdateDrain too.   *)
(***************************************************************************)
EXTENDS Naturals, FiniteSets

CONSTANTS MaxVersions,    \* versions: 1 is installed, the others are updates
          MaxHelpers,     \* helper processes ever spawned
          MaxTrialFaults  \* crashes and failing steps

ASSUME TrialAssumption == MaxVersions \in Nat \ {0} /\ MaxHelpers \in Nat /\ MaxTrialFaults \in Nat

Versions == 1 .. MaxVersions
Helpers == 1 .. MaxHelpers
None == 0

VARIABLES
  record,      \* update.json
  sameRecord,  \* it is still the one recover judged (its sha256)
  hold,        \* handoff-hold: the version it names, whether it is younger than HOLD_MS
  sameHold,    \* it is still the generation that was judged expired
  current,     \* the version the service starts
  installed,   \* installed versions
  lock,        \* the helper that update.lock names
  helper,      \* each helper process: where it is, what it was spawned for, its own copy of the record
  web,         \* the web process: where it is, its version, the record recover judged
  poll,        \* its look at the hold, before it asks the worker to hand over
  keep,        \* the versions a prune under way keeps
  steady,      \* the web is still the process the helper saw answer
  worker,      \* the version the execution worker runs
  kept, lapsed,  \* versions an update kept, versions whose hold ran out
  left,        \* versions whose update another one replaced before it was kept or undone
  missed,      \* a starting web took a helper for none that was on its way, or whose switch it had not seen
  trialFaults

recordVars == <<record, sameRecord>>
holdVars == <<hold, sameHold>>
webVars == <<web, poll, keep>>
fate == <<kept, lapsed, left, missed>>
trialVars == <<recordVars, holdVars, current, installed, lock, helper, webVars, steady, worker, fate, trialFaults>>

Active == {"installing", "checking", "switching", "verifying", "rolling-back"}
NoRecord == [stage |-> "none", version |-> None, previous |-> None, code |-> "none"]
NoHold == [version |-> None, fresh |-> FALSE]

TrialInit ==
  /\ record = NoRecord /\ sameRecord = FALSE /\ hold = NoHold /\ sameHold = FALSE
  /\ current = 1 /\ installed = {1} /\ lock = None
  /\ helper = [h \in Helpers |-> [at |-> "unused", version |-> None, resume |-> FALSE, previous |-> None, code |-> "none"]]
  /\ web = [at |-> "down", version |-> 1, judged |-> NoRecord] /\ poll = "idle" /\ keep = {}
  /\ steady = FALSE /\ worker = 1 /\ kept = {} /\ lapsed = {} /\ left = {} /\ missed = FALSE /\ trialFaults = 0

Fault == trialFaults < MaxTrialFaults /\ trialFaults' = trialFaults + 1

Alive(h) == helper[h].at \notin {"unused", "spawned", "gone"}
HelperRunning == lock # None /\ Alive(lock)
Spawned == \E h \in Helpers : helper[h].at = "spawned"

Spawn(h, v, resume) ==
  /\ helper[h].at = "unused" /\ \A g \in 1 .. (h - 1) : helper[g].at # "unused"
  /\ helper' = [helper EXCEPT ![h].at = "spawned", ![h].version = v, ![h].resume = resume]

WriteRecord(r) == record' = r /\ sameRecord' = FALSE

(* The web process stops; its polls and prunes with it.                    *)
WebGoes ==
  /\ web' = [at |-> "down", version |-> web.version, judged |-> NoRecord]
  /\ poll' = "idle" /\ keep' = {} /\ steady' = FALSE

----------------------------------------------------------------------------
(* The web process: an update is asked for.                                *)

(* Updates.start: refused while an update is under way, which a helper     *)
(* that has not taken its lock yet is too. Versions are released in order. *)
Request(h, v) ==
  /\ web.at = "up" /\ keep = {} /\ v > web.version /\ (v - 1) \in {record.version - 1, record.version, web.version}
  /\ ~(record.stage \in Active /\ (HelperRunning \/ Spawned))
  /\ WriteRecord([stage |-> "installing", version |-> v, previous |-> web.version, code |-> "none"])
  /\ Spawn(h, v, FALSE)
  /\ left' = IF record.stage \in Active \/ record.code = "rollback-failed" THEN left \cup {record.version} ELSE left
  /\ UNCHANGED <<holdVars, current, installed, lock, webVars, steady, worker, kept, lapsed, missed, trialFaults>>

(* Variant: not asked whether an update is under way. *)
PruneLooksAlways ==
  /\ web.at = "up" /\ keep = {} /\ keep' = ({web.version, current, record.previous, worker} \ {None})
  /\ ~(installed \subseteq keep')
  /\ UNCHANGED <<recordVars, holdVars, current, installed, lock, helper, web, poll, steady, worker, fate, trialFaults>>

(* prune looks under which circumstances it may remove, then removes.      *)
PruneLooks ==
  /\ web.at = "up" /\ keep = {} /\ record.stage \notin Active /\ ~HelperRunning
  /\ keep' = ({web.version, current, record.previous, worker} \ {None})
  /\ ~(installed \subseteq keep')
  /\ UNCHANGED <<recordVars, holdVars, current, installed, lock, helper, web, poll, steady, worker, fate, trialFaults>>

PruneRemoves ==
  /\ keep # {} /\ installed' = installed \cap keep /\ keep' = {}
  /\ UNCHANGED <<recordVars, holdVars, current, lock, helper, web, poll, steady, worker, fate, trialFaults>>

----------------------------------------------------------------------------
(* The helper.                                                             *)

At(h, place) == helper[h].at = place
Goes(h, place) == helper' = [helper EXCEPT ![h].at = place]

(* set: the record of its own copy, with a stage.                          *)
Stage(h, stage, code) ==
  WriteRecord([stage |-> stage, version |-> helper[h].version, previous |-> helper[h].previous, code |-> code])

(* writeHold creates the hold or refreshes the one of the same version; a  *)
(* hold of another version is refused.                                     *)
HoldIsFree(v) == hold.version \in {None, v}
WriteHold(v) == hold' = [version |-> v, fresh |-> TRUE] /\ sameHold' = FALSE

(* removeHold { version }: only the hold of that version.                  *)
RemoveHold(v) ==
  IF hold.version = v THEN hold' = NoHold /\ sameHold' = FALSE ELSE UNCHANGED holdVars

(* Where a helper that has the lock begins, by the record it reads then.   *)
Place(h) ==
  IF record.version # helper[h].version \/ record.stage \notin Active THEN "ends"
  ELSE IF ~helper[h].resume THEN "installing"
  ELSE IF record.stage = "rolling-back" THEN "back"
  ELSE IF record.stage \in {"switching", "verifying"} THEN "verify"
  ELSE "fail"

Owns(h) ==
  /\ lock' = h
  /\ helper' = [helper EXCEPT ![h].at = Place(h), ![h].previous = record.previous,
                              ![h].code = IF record.code = "none" THEN "interrupted" ELSE record.code]
  /\ IF Place(h) = "installing" THEN WriteRecord([record EXCEPT !.stage = "installing"]) ELSE UNCHANGED recordVars

(* Variant: a lock whose helper is gone is not taken over. *)
TakeLockIfAbsent(h) ==
  /\ At(h, "spawned")
  /\ \/ lock # None /\ Goes(h, "gone") /\ UNCHANGED <<lock, recordVars>>
     \/ lock = None /\ Owns(h)
  /\ UNCHANGED <<holdVars, current, installed, webVars, steady, worker, fate, trialFaults>>

(* runUpdateHelper up to its first stage: one helper at a time, which      *)
(* reads the record once it has the lock; a lock whose helper is gone is   *)
(* taken over.                                                             *)
TakeLock(h) ==
  /\ At(h, "spawned")
  /\ \/ HelperRunning /\ Goes(h, "gone") /\ UNCHANGED <<lock, recordVars>>
     \/ ~HelperRunning /\ Owns(h)
  /\ UNCHANGED <<holdVars, current, installed, webVars, steady, worker, fate, trialFaults>>

(* install and check; either may fail, and nothing else changed. A web     *)
(* that found no helper settles the record, a few file operations, before  *)
(* a helper that started meanwhile has installed anything.                 *)
Install(h) ==
  /\ At(h, "installing") /\ web.at \notin {"removing", "settling"}
  /\ \/ Stage(h, "checking", "none") /\ installed' = installed \cup {helper[h].version} /\ Goes(h, "checking") /\ UNCHANGED trialFaults
     \/ Fault /\ Stage(h, "failed", "install-failed") /\ Goes(h, "ends") /\ UNCHANGED installed
  /\ UNCHANGED <<holdVars, current, lock, webVars, steady, worker, fate>>

Check(h) ==
  /\ At(h, "checking")
  /\ \/ Stage(h, "switching", "none") /\ Goes(h, "holding") /\ UNCHANGED trialFaults
     \/ Fault /\ Stage(h, "failed", "check-failed") /\ Goes(h, "ends")
  /\ UNCHANGED <<holdVars, current, installed, lock, webVars, steady, worker, fate>>

(* The hold is written before the pointer moves, or nothing switches.      *)
Hold(h) ==
  /\ At(h, "holding")
  /\ \/ HoldIsFree(helper[h].version) /\ WriteHold(helper[h].version) /\ Goes(h, "pointing") /\ UNCHANGED <<recordVars, trialFaults>>
     \/ ~HoldIsFree(helper[h].version) /\ Stage(h, "failed", "switch-failed") /\ Goes(h, "ends") /\ UNCHANGED <<holdVars, trialFaults>>
     \/ Fault /\ Goes(h, "giveup") /\ UNCHANGED <<recordVars, holdVars>>
  /\ UNCHANGED <<current, installed, lock, webVars, steady, worker, fate>>

Point(h) ==
  /\ At(h, "pointing")
  /\ \/ current' = helper[h].version /\ Goes(h, "restart") /\ UNCHANGED trialFaults
     \/ Fault /\ Goes(h, IF current = helper[h].previous THEN "giveup" ELSE "back") /\ UNCHANGED current
  /\ UNCHANGED <<recordVars, holdVars, installed, lock, webVars, steady, worker, fate>>

(* Nothing switched: the hold is released, then the update has failed.     *)
GiveUp(h) ==
  /\ At(h, "giveup") /\ RemoveHold(helper[h].version)
  /\ helper' = [helper EXCEPT ![h].at = "failed", ![h].code = "switch-failed"]
  /\ UNCHANGED <<recordVars, current, installed, lock, webVars, steady, worker, fate, trialFaults>>

Failed(h) ==
  /\ At(h, "failed") /\ Stage(h, "failed", helper[h].code) /\ Goes(h, "ends")
  /\ UNCHANGED <<holdVars, current, installed, lock, webVars, steady, worker, fate, trialFaults>>

(* The restart command; one that fails is not the end.                     *)
Restart(h) ==
  /\ helper[h].at \in {"restart", "backRestart"}
  /\ Goes(h, IF At(h, "restart") THEN "verify" ELSE "backWait")
  /\ \/ WebGoes /\ UNCHANGED trialFaults
     \/ Fault /\ UNCHANGED <<webVars, steady>>
  /\ UNCHANGED <<recordVars, holdVars, current, installed, lock, worker, fate>>

Verify(h) ==
  /\ At(h, "verify") /\ Stage(h, "verifying", "none") /\ Goes(h, "waiting")
  /\ UNCHANGED <<holdVars, current, installed, lock, webVars, steady, worker, fate, trialFaults>>

GoesBack(h, code) == helper' = [helper EXCEPT ![h].at = "back", ![h].code = code]

Answers(v) == web.at = "up" /\ web.version = v

(* The new version answers, or did not in START_MS.                        *)
Waited(h) ==
  /\ At(h, "waiting")
  /\ \/ Answers(helper[h].version) /\ Goes(h, "stable") /\ steady' = TRUE
     \/ ~Answers(helper[h].version) /\ GoesBack(h, "start-failed") /\ UNCHANGED steady
  /\ UNCHANGED <<recordVars, holdVars, current, installed, lock, webVars, worker, fate, trialFaults>>

(* It answered as the same process all along, and reached a controller: it *)
(* is kept, and the record says so before the hold goes.                   *)
Stable(h) ==
  /\ At(h, "stable")
  /\ \/ /\ steady /\ Answers(helper[h].version)
        /\ Stage(h, "done", "none") /\ Goes(h, "release") /\ kept' = kept \cup {helper[h].version} /\ UNCHANGED trialFaults
     \/ ~(steady /\ Answers(helper[h].version)) /\ GoesBack(h, "start-failed") /\ UNCHANGED <<recordVars, kept, trialFaults>>
     \/ Fault /\ GoesBack(h, "link-failed") /\ UNCHANGED <<recordVars, kept>>
  /\ UNCHANGED <<holdVars, current, installed, lock, webVars, steady, worker, lapsed, left, missed>>

Release(h) ==
  /\ At(h, "release") /\ RemoveHold(helper[h].version) /\ Goes(h, "ends")
  /\ UNCHANGED <<recordVars, current, installed, lock, webVars, steady, worker, fate, trialFaults>>

(* A resumed update that had not switched.                                 *)
Fail(h) ==
  /\ At(h, "fail") /\ Stage(h, "failed", "interrupted") /\ Goes(h, "release")
  /\ UNCHANGED <<holdVars, current, installed, lock, webVars, steady, worker, fate, trialFaults>>

(* back: the pointer, the restart, the previous version's answer, and only *)
(* then the hold.                                                          *)
Back(h) ==
  /\ At(h, "back") /\ Stage(h, "rolling-back", helper[h].code) /\ Goes(h, "backPoint")
  /\ UNCHANGED <<holdVars, current, installed, lock, webVars, steady, worker, fate, trialFaults>>

BackPoint(h) ==
  /\ At(h, "backPoint")
  /\ \/ current' = helper[h].previous /\ Goes(h, "backRestart") /\ UNCHANGED <<recordVars, trialFaults>>
     \/ Fault /\ Stage(h, "failed", "rollback-failed") /\ Goes(h, "ends") /\ UNCHANGED current
  /\ UNCHANGED <<holdVars, installed, lock, webVars, steady, worker, fate>>

(* Variant: the hold goes whether the previous version answers or not. *)
BackWaitedReleases(h) ==
  /\ At(h, "backWait") /\ RemoveHold(helper[h].version) /\ Goes(h, "failed")
  /\ UNCHANGED <<recordVars, current, installed, lock, webVars, steady, worker, fate, trialFaults>>

BackWaited(h) ==
  /\ At(h, "backWait")
  /\ \/ Answers(helper[h].previous) /\ RemoveHold(helper[h].version) /\ Goes(h, "failed") /\ UNCHANGED recordVars
     \/ ~Answers(helper[h].previous) /\ Stage(h, "failed", "rollback-failed") /\ Goes(h, "ends") /\ UNCHANGED holdVars
  /\ UNCHANGED <<current, installed, lock, webVars, steady, worker, fate, trialFaults>>

Ends(h) ==
  /\ At(h, "ends") /\ Goes(h, "gone") /\ lock' = None
  /\ UNCHANGED <<recordVars, holdVars, current, installed, webVars, steady, worker, fate, trialFaults>>

----------------------------------------------------------------------------
(* The web process starts and settles the update it finds.                 *)

WebStarts ==
  /\ web.at = "down" /\ current \in installed
  /\ web' = [at |-> "judging", version |-> current, judged |-> record] /\ sameRecord' = TRUE
  /\ UNCHANGED <<record, holdVars, current, installed, lock, helper, poll, keep, steady, worker, fate, trialFaults>>

Up == web' = [web EXCEPT !.at = "up", !.judged = NoRecord]

(* What recover does not see when no helper runs: the helper of the update *)
(* has not taken its lock yet, or moved the pointer and ended after this   *)
(* web was started by it.                                                  *)
Overlooked(r) ==
  \/ \E h \in Helpers : At(h, "spawned") /\ helper[h].version = r.version
  \/ current = r.version /\ web.version # r.version

(* recover, after the record: does a helper run? The update's own version  *)
(* has it checked again; the previous one settles it.                      *)
Judge ==
  /\ web.at = "judging"
  /\ LET r == web.judged IN
     IF r = NoRecord \/ HelperRunning THEN Up
     ELSE web' = [web EXCEPT !.at = IF r.stage \in Active /\ r.version = web.version THEN "holding"
                                    ELSE IF r.previous = web.version THEN "removing" ELSE "settling"]
  /\ missed' = (missed \/ (web'.at # "up" /\ Overlooked(web.judged)))
  /\ UNCHANGED <<recordVars, holdVars, current, installed, lock, helper, poll, keep, steady, worker, kept, lapsed, left, trialFaults>>

(* Held anew before the helper starts; a hold of another version stays,    *)
(* and no helper starts.                                                   *)
HoldAnew(h) ==
  /\ web.at = "holding"
  /\ IF HoldIsFree(web.version) THEN WriteHold(web.version) /\ Spawn(h, web.version, TRUE)
                                ELSE UNCHANGED <<holdVars, helper>>
  /\ Up
  /\ UNCHANGED <<recordVars, current, installed, lock, poll, keep, steady, worker, fate, trialFaults>>

(* The hold of the update that was judged, unless another is recorded.     *)
RemoveOld ==
  /\ web.at = "removing"
  /\ IF sameRecord THEN RemoveHold(web.judged.version) ELSE UNCHANGED holdVars
  /\ web' = [web EXCEPT !.at = "settling"]
  /\ UNCHANGED <<recordVars, current, installed, lock, helper, poll, keep, steady, worker, fate, trialFaults>>

Settle ==
  /\ web.at = "settling" /\ Up
  /\ LET r == web.judged IN
     IF r.stage \notin Active THEN UNCHANGED recordVars
     ELSE WriteRecord([r EXCEPT !.stage = "failed",
            !.code = IF r.stage = "rolling-back" /\ r.previous = web.version THEN r.code ELSE "interrupted"])
  /\ UNCHANGED <<holdVars, current, installed, lock, helper, poll, keep, steady, worker, fate, trialFaults>>

----------------------------------------------------------------------------
(* The hold and the worker.                                                *)

(* HOLD_MS pass, which a helper that was spawned needs not to start.       *)
HoldAges ==
  /\ hold.fresh /\ ~Spawned /\ hold' = [hold EXCEPT !.fresh = FALSE]
  /\ UNCHANGED <<recordVars, sameHold, current, installed, lock, helper, webVars, steady, worker, fate, trialFaults>>

(* handoffHeld of a web that is newer than the worker.                     *)
PollLooks ==
  /\ web.at = "up" /\ poll = "idle" /\ worker # None /\ web.version > worker
  /\ \/ hold.version = None /\ poll' = "unheld" /\ UNCHANGED sameHold
     \/ hold.version # None /\ ~hold.fresh /\ ~HelperRunning /\ poll' = "expired" /\ sameHold' = TRUE
  /\ UNCHANGED <<recordVars, hold, current, installed, lock, helper, web, keep, steady, worker, fate, trialFaults>>

(* Variant: whatever hold is there now is removed. *)
PollRemovesAny ==
  /\ poll = "expired" /\ hold' = NoHold /\ sameHold' = FALSE /\ poll' = "unheld"
  /\ UNCHANGED <<recordVars, current, installed, lock, helper, web, keep, steady, worker, fate, trialFaults>>

(* Only the very generation that was judged expired is removed.            *)
PollRemoves ==
  /\ poll = "expired"
  /\ IF sameHold THEN hold' = NoHold /\ sameHold' = FALSE /\ poll' = "unheld" /\ lapsed' = lapsed \cup {hold.version}
                 ELSE poll' = "idle" /\ UNCHANGED <<holdVars, lapsed>>
  /\ UNCHANGED <<recordVars, current, installed, lock, helper, web, keep, steady, worker, kept, left, missed, trialFaults>>

(* The worker is asked to hand over, which it does (WorkerHandoff).        *)
PollAsks ==
  /\ poll = "unheld" /\ poll' = "idle" /\ worker' = IF worker = None THEN None ELSE web.version
  /\ UNCHANGED <<recordVars, holdVars, current, installed, lock, helper, web, keep, steady, fate, trialFaults>>

WorkerDies ==
  /\ worker # None /\ Fault /\ worker' = None
  /\ UNCHANGED <<recordVars, holdVars, current, installed, lock, helper, webVars, steady, fate>>

(* heldWorkerEntry: while the update is held, the previous version's.      *)
Held == hold.version # None /\ (hold.fresh \/ HelperRunning)

WorkerStarts ==
  /\ web.at = "up" /\ worker = None /\ poll = "idle"
  /\ worker' = IF Held /\ record.stage \in Active /\ record.previous \in installed THEN record.previous ELSE web.version
  /\ IF hold.version # None /\ ~Held THEN hold' = NoHold /\ sameHold' = FALSE /\ lapsed' = lapsed \cup {hold.version}
                                     ELSE UNCHANGED <<holdVars, lapsed>>
  /\ UNCHANGED <<recordVars, current, installed, lock, helper, webVars, steady, kept, left, missed, trialFaults>>

----------------------------------------------------------------------------
(* Faults.                                                                 *)

WebCrash ==
  /\ web.at # "down" /\ Fault /\ WebGoes
  /\ UNCHANGED <<recordVars, holdVars, current, installed, lock, helper, worker, fate>>

HelperCrash(h) ==
  /\ helper[h].at \notin {"unused", "gone"} /\ Fault /\ Goes(h, "gone")
  /\ UNCHANGED <<recordVars, holdVars, current, installed, lock, webVars, steady, worker, fate>>

(* The computer restarts.                                                  *)
Reboot ==
  /\ Fault /\ WebGoes /\ worker' = None
  /\ helper' = [h \in Helpers |-> IF At(h, "unused") THEN helper[h] ELSE [helper[h] EXCEPT !.at = "gone"]]
  /\ UNCHANGED <<recordVars, holdVars, current, installed, lock, fate>>

Helps(h) ==
  \/ TakeLock(h) \/ Install(h) \/ Check(h) \/ Hold(h) \/ Point(h) \/ GiveUp(h) \/ Failed(h) \/ Restart(h)
  \/ Verify(h) \/ Waited(h) \/ Stable(h) \/ Release(h) \/ Fail(h) \/ Back(h) \/ BackPoint(h) \/ BackWaited(h) \/ Ends(h)

Starts == WebStarts \/ Judge \/ RemoveOld \/ Settle \/ \E h \in Helpers : HoldAnew(h)

TrialNext ==
  \/ \E h \in Helpers : Helps(h) \/ HelperCrash(h) \/ \E v \in Versions : Request(h, v)
  \/ Starts \/ PruneLooks \/ PruneRemoves
  \/ HoldAges \/ PollLooks \/ PollRemoves \/ PollAsks \/ WorkerDies \/ WorkerStarts
  \/ WebCrash \/ Reboot

TrialSpec == TrialInit /\ [][TrialNext]_trialVars

----------------------------------------------------------------------------
(* A helper between the hold it wrote and what settles the update.         *)
Trying(h) ==
  helper[h].at \in {"restart", "verify", "waiting", "stable", "back", "backPoint", "backRestart", "backWait"}

(* While an update is tried its hold is there, until the update is kept or *)
(* undone, whatever webs started, judged and crashed before; but not one   *)
(* that ran out while no helper ran, one of a version asked for again, or  *)
(* once a starting web has overlooked a helper.                            *)
TrialIsHeld ==
  \A h \in Helpers : Trying(h)
    => hold.version = helper[h].version \/ helper[h].version \in lapsed \cup left \/ missed

(* The worker moves to a version only once the update to it was kept, its  *)
(* hold ran out with no helper left, or going back failed; or another      *)
(* update replaced it before it was settled, whose version is then not     *)
(* checked again, against the comment at update.ts:287-289. Not so once a  *)
(* starting web has overlooked a helper: a version that never was checked  *)
(* can then stay, behind a record that says it failed (README, section 3). *)
Settled(v) == v \in kept \cup lapsed' \/ (record.code = "rollback-failed" /\ record.version = v)
OnlyKeptTakesOver ==
  [][worker' \in {None, worker, 1} \/ Settled(worker') \/ worker' \in left \/ missed]_trialVars

(* While an update is tried, the version it would go back to and the one   *)
(* it tries are installed.                                                 *)
BackIsPossible ==
  \A h \in Helpers : Trying(h) => {helper[h].version, helper[h].previous, current} \subseteq installed

----------------------------------------------------------------------------
Fairness ==
  /\ \A h \in Helpers : WF_trialVars(Helps(h))
  /\ WF_trialVars(Starts)

FairSpec == TrialSpec /\ Fairness

(* With no more faults, an update that a starting web finds with no helper *)
(* is settled: checked again and kept or undone, or recorded as failed.    *)
Unattended == web.at = "down" /\ record.stage \in Active /\ ~HelperRunning /\ ~Spawned
InterruptedIsSettled ==
  Unattended /\ trialFaults = MaxTrialFaults /\ (\E h \in Helpers : At(h, "unused")) ~> record.stage \notin Active
=============================================================================
