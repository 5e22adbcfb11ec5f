# Agent Session Tower: a verification development

This directory holds TLA+ models of Agent Session Tower, the TLC runs that check them and the proofs TLAPS checks about
them. The models are written from the source under `server/`, `shared/` and `client/`; a definition's comment says which code it
stands for. Read this file next to the repository.

## 1. The system

Agent Session Tower shows and runs coding-agent sessions (Claude Code, Codex) of a computer and of computers linked to
it. It is made of processes that fail apart from each other:

- a **web process** (HTTP, UI, session list; disposable: it is restarted by every update);
- a detached **execution worker**, one per state directory, which owns everything that must not be lost or done twice:
  the run queue, provider turns, approvals, triggers, automations, the storage connection;
- a **storage thread** in the worker, which owns the one SQLite connection;
- provider processes (Claude Code, Codex), a terminal host, and other computers' Towers over a link.

### Components, their state and what makes them correct

| Component | State it keeps | Operations | Hard behaviour | Correct when |
|---|---|---|---|---|
| Storage client and thread (`server/storage`) | queue, one request in the thread, owner epoch, receipts | open, prepare, read, write, receipt, close, reopen | hung or dying threads, an answer lost after COMMIT, a reopen while the old thread is in SQLite, a second owner | a disposition never lies, a command ID commits once, one connection at a time, owners never interleave |
| Run rows (`server/runs/run-history.ts`, `storage-repository.ts`, `storage-commands.ts`) | rows known saved, an ordered chain of writes, an unknown receipt | save, flush, resolve | snapshots taken while a write is underway, unknown commits, failed writes retried later | nothing is accepted or launched before its row is durable; memory is never older than the database |
| Run queue (`server/runs/manager.ts`) | runs, admissions, slots of sessions, holds | enqueue, create, steer, cancel, pump, exited, retry/recover, retention and storage holds | awaits between check and use, cancellation while launching, a crash with turns running | one turn per session, an instruction is delivered at most once, a cancelled run is never started, none is lost |
| Update drain (`server/runs/update-drain.ts`, `handoff.ts`, `worker.ts`, `durable-runner.ts`) | per-turn targets, wrap-ups, the handoff record, the web's view | begin, end, wrap-up, hand over, adopt | turns finishing while being stopped, a web and a worker of different builds, a worker that dies half way | the queue has one owner, an interrupted turn is resumed exactly once, the web adopts only a proven successor |
| Permission continuations (`server/runs/permission-continuation.ts`, `server/permissions`) | requests, decisions, receipts | decide, notice, merge, sweep | an answer that comes after its turn ended, twice, or across a restart | one decision has one effect |
| State lock (`server/instance/state-lock.ts`) | a lock directory with one marker per owner | acquire, release | two starts at once, a stale owner, a crash between two file operations | one owner |
| Storage recovery and transition locks (`server/storage/recovery.ts`, `server/link/storage-*.ts`) | recovery barrier, identity files, transition lock | adopt, reconcile, hold, release | a crash between two renames, a release of an update trial | no scope is used before its recovery is reconciled |
| Triggers (`server/triggers`) | trigger rules, cursors, firings, dispatches | poll, fire, dispatch, hand over | an event seen twice, a poll that overlaps the next one, restore of old state | an event fires once and never before it is recorded |
| Links between computers (`server/link`, `server/remote`) | request ledger, exclusions, updates on trial | request, relay, update | lost and repeated requests, a peer that restarts | a request is carried out at most once |
| Secrets (`server/secrets`, `server/auth`) | vault, view grants, policies, operation claims | unlock, grant, use, change of password | an expiring grant, a claim while an operation is underway | a grant is used once and not after it expired |
| Retention (`server/sessions/retention`) | reservations, policies, archives | reserve, archive, restore | a run starting while its session is archived | no archived session runs |
| Slack and GitHub automation (`server/slack`, `server/auto-prompt`, `server/master`) | rules, workflows, heartbeats | receive, deliver, follow up | events redelivered, answers late | an event is worked once |
| Todo and its GitHub sync (`server/todo`) | todos, sync cursors | edit, pull, push | both sides edited | no edit is lost |
| Attachments, terminals, notifications, worktrees, skills, updates, backup, UI | files, sockets | many | expiry, reconnects | see the components list of PROJECT.json |

The worker's parts meet in the run queue: HTTP requests, triggers, automations and links admit runs through it; the
update drain stops and resumes its turns; retention reserves sessions in it; every change goes through the run rows to
the storage thread, whose dispositions decide whether a run was admitted.

## 2. Modules

| Module | Models | Uses |
|---|---|---|
| `StorageClient` | `storage/client.ts` with `storage/thread/runtime.ts` | implements `CommandLedger` |
| `CommandLedger` | what the storage promises its callers: a command commits once, an answer is final and true | |
| `RunQueue` | `runs/manager.ts`, `runs/run-history.ts`, `runs/steering.ts` | |
| `UpdateDrain` | `runs/update-drain.ts`, with what `runs/manager.ts` and `runs/permission-continuation.ts` do to one turn | |
| `StateLock` | `instance/state-lock.ts` | implements `StateLease` |
| `StateLease` | what a state lock promises: one user at a time | |
| `WorkerHandoff` | `runs/worker.ts`, `runs/durable-runner.ts`, `runs/handoff.ts`, `runs/endpoint-keeper.ts` | |
| `UpdateTrial` | `link/update.ts`, `link/storage-hold.ts`, `link/storage-update.ts`, with the worker's entry | |
| `RequestLedger` | `remote/request-ledger.ts` and its rows, `remote/router.ts`, `link/proxy.ts`, the page's `remote/scope.ts` | implements `OnceDelivery` |
| `OnceDelivery` | what ledger and page promise: an instruction runs once at most, and counts as sent only after it ran | |
| `Triggers` | `triggers/engine.ts`, `polls.ts`, `firing.ts`, `dispatch.ts`, `once.ts`, `views.ts`, with the launch gate of `runs/manager.ts` | |
| `PermissionRequests` | `permissions/service.ts`, `reviewer.ts`, `runner.ts`, `shared/permissions.ts` | |
| `MC*` | constants of the runs | the module they are named after |
| `StorageClientProofs`, `StateLockProofs`, `UpdateDrainProofs`, `WorkerHandoffProofs`, `PermissionRequestsProofs`, `RequestLedgerProofs`, `TriggersProofs`, `RunQueueProofs` | theorems and proofs | the module they are named after; `UpdateDrainProofs` also the trial of a new version (`UpdateTrial`) |

The modules meet where one component relies on another: `WorkerHandoff` takes the state lock in one step, which `StateLock`
takes apart; its graceful handover is the alternative to the forced one of `UpdateDrain`; `UpdateTrial` decides when a web
may ask for either. `RequestLedger`, `Triggers` and `PermissionRequests` end where a run is admitted, which is where
`RunQueue` begins, and `RunQueue` takes from `StorageClient` that a save is done, not done, or unknown until its receipt is
read. Putting two of them into one state space multiplies it beyond what a run can finish, so each models the other's
answers as choices, the failing and unknown ones included.

Definitions named *Variant* in a comment are not part of a specification. Each is a form a mistake in the code would give
the definition after it; with it in place, TLC finds the property violated that is meant to exclude the mistake.

### A step of a model

Tower's server is JavaScript: code between two `await`s is not interrupted. A step is such a piece of code, with every call
it makes; what happens between two pieces is another step. Three refinements of that:

- In `RunQueue` a promise that is settled already continues before any event from outside is looked at (`Quiet`).
- In `StorageClient` the client and the thread are two actors that exchange messages and share the database file; in
  `WorkerHandoff` and `UpdateTrial` every process is an actor and the files are what they share.
- In `StateLock` every file operation is a step, because each is awaited and other processes run in between.

### StorageClient

`state`, `step`, `lost`, `generation`, `claim`, `queue` and `inflight` are the private fields of the client. `thread` is
one record for each thread ever started: its phase, the request in it (`inbox`), whether it has a connection, the epoch it
holds. `epoch` and `receipts` are what is stored. `outcome` is what the caller of each call was told; `effects` and `owner`
are history. `Reopen`, `Hello`, `OpenDone`, `Refuse`, `CallPrepare`, `CallWrite`, `AskReceipt`, `Close`, `Deadline`,
`RecordDone` and `RecordFails` are the client's; the `Serve...` and `Replay...` actions are the thread's handlers, `CommitLost`
an end of the thread between COMMIT and its answer, `Gone` its exit. A prepare may fail once more after its COMMIT, in the
reads at `thread/runtime.ts:307`, and is then refused although it committed (`ServePrepare`, `ReplayPrepare`). `OtherClaims` is another worker with the same files,
`Crash` the end of the worker. `LedgerSpec` is `CommandLedger` with the commands that have a receipt and, for each call, the
word it was given: nothing yet, open (it waits, or does not know; a refused prepare does not know either), yes or no.
Payload sizes, the check copy of a database and reads other than that of a receipt are left out; an open may be refused at each of its steps.

### RunQueue

`mem` is the map of runs, `disk` the stored rows, `chain` the ordered saves that are not done, each with the rows as they
were when it was queued (`run-history.ts` takes its snapshot then). `unknown`, `failed`, `newAdm`, `admissions`,
`uncertain` and `unsent` are the fields of those names. `live` and `reserved` are turns and slots, `held`, `updating` and
`ready` what stops new turns. The asynchronous functions that can be suspended are the `Tasks`: for each, `at` says where it
awaits and `left` how many saves it waits for. `pick` and `todo` are a pass of the pump, which goes on with the run objects
it found at its start: `old` and `detached` keep those that are no longer in the map. `told`, `sent`, `stopped`, `stale`,
`reopened` and `torn` are history. Actions are named after the functions (`Enqueue`, `Create`, `Steer`, `Exited`, the steps of
`pump` and `launch`, `Crash` followed by `restoreRuns`).

A cancel saves the row twice: as it is, with the owner's mark (`Cancel`), and ended (`CancelEnds`); `CancelDone` is the answer
after the flush. A cancel of a run that memory has as ended is answered at once, without a flush (`ConfirmedAtOnce`). The
retry of a held storage is the owner's (`Recover`). When a write has an unknown result, the retry reads its receipt:
`RecoverReads` takes the rows of that moment (`found`), `RecoverRow` then settles one run after another from them, with an
await between two of them for the files of a run (`RecoverKept`), and `RecoverSaves` saves what was settled. `rest` are the runs
that wait for their turn, `resave` those to save at the end. Whatever else runs in the worker may come in each of these
awaits, a cancel of a run in `rest` included. Abstraction: the cancel of a Codex turn waits for Codex to end the turn before
the row ends; here the row ends at once and the provider later.

### UpdateDrain

`s` is a record of everything that `changed()` reads and writes, so that `Changed(m)` is that function: mirroring the end of
a turn to its wrap-ups, `track` (register, settle, forget an update given up) and the sweep of continuations. An action
describes the change `m` it makes and hands it to `Changed`. `at` is where the insertion of each wrap-up awaits
(`RunManager.steer`): before its first save (`flush`), before its files (`files`), during the save of its mark (`marking`),
with the provider (`sent`), during the save of the answer (`delivered`) or of its return to the queue (`putback`, or
`refused` by Codex). `unsent` is a wrap-up whose save has an unknown result; its receipt ends it.

### StateLock and StateLease

`exists` and `markers` are the directory and its files, the other variables the local ones of each process. A pid is used
again once its process ended, and a process may be unable to tell when it started. A process in `Strict` is an offline tool
(`acquireStrictStateLock`). `LeaseSpec` is `StateLease` with the processes that hold the lock as its `users`: the lock
implements the lease, which says both that there is one user and that the lock never passes from one to another directly.

### WorkerHandoff

`at` is where each worker process is, from `starting` (it takes the lock) over `serving`, `draining` (asked to hand over,
work still runs), `paused` (it refuses requests and stopped what starts work), `recording`, `storing` (closing the storage),
`unlinked` and `released` to `gone`. `lock`, `socket`, `token` and `record` are the files; `socket` and `token` name the
worker that wrote them. `proof` is the nonce a worker was started with, `next` the one it gives. `web` is the web process
with the instance it is attached to; `Poll` is its look at the endpoint, `Adopt` what it does with an answer, `Recover` its
look for a worker after one was lost. One request (`call`) is sent, admitted by a worker, answered or lost, and sent again
when the caller is told that nothing was admitted. Bodies of the RPC methods, terminals, the carried vault and the patient
and held timings are left out; times are choices.

### UpdateTrial

`record` is `update.json`, `hold` the hold file with the version it names and whether it is younger than `HOLD_MS`,
`current` the pointer, `installed` the versions on disk, `lock` the helper lock. `sameRecord` and `sameHold` say whether the
file is still the one that was judged, which is what the digests the code compares are for. A helper goes through install,
hold, switch, verify, and keep or go back; a web starts, recovers what it finds, looks at the hold (`poll`) and may prune
(`keep` is what its look decided). `kept`, `lapsed`, `left` and `missed` are history: what became of each version's update,
and whether a starting web took a helper for none that was only on its way to its lock, or whose switch of the pointer came
after that web had started (`Overlooked`). No guard reads them.
Abstractions: a version is asked for only after those before it; a turn of the transition lock is one step, as is taking
the helper lock; an install ends before its own deadline; a worker that is asked hands over at once (`WorkerHandoff` has
the rest); a wait ends when the web is up or, at any moment it is not, by its deadline.

### RequestLedger and OnceDelivery

`call` is one record for each time a request was sent: its ID, where it is (on the link, waiting in `once`, at work,
answered, lost) and the `now` and cutoff that `once` read from the clock. `job` is the ledger's `running`, `mem` its
`entries`, `row` the stored rows, `fenced` the repository after a write with an unknown result. `page` is the composer: the
ID it uses, whether that may have run, the call it waits for. `page` follows `scope.ts`: it keeps an ID as long as its
request may have run, and makes a new one when it was told that it never did. A clock that moves on lets entries expire and
be pruned. The content belongs to the ID, since `scope.ts` gives changed content a new one, and a reloaded page is a new
instruction. Work takes less than the retention time (the guard of `Tick`). `OnceSpec` is `OnceDelivery` with how often an
instruction ran under all the IDs it was sent with: never, once, or more often. Two races of the code, described under
*Disagreements found*, end in what the properties deny: a clock that passes the limit of a request's age, or a folder that
stops being shared, while a call of that ID is handled. Both are steps of the model like any other (`Tick`, `Share`), and the
history variable `raced` has the IDs they caught.

### Triggers

`disk` is what SQL holds of a trigger and its events, `mem` the store's projection: a mutation is made on a draft and
becomes `mem` only after its save. `tick` is the place of the engine's step, in the order of `step`: saving what is owed,
claims left by an earlier worker, looking for due times, following runs, dispatching. `poll` is the HTTP request in flight.
`runs` is what the run manager knows of each request ID; `Manager` starts and ends runs, and its start asks `launchAllowed`.
`TurnOff` and `TurnOn` are the owner's, `Ask` a run asked for by hand, `Hold` a storage hold, `Stop` and `Start` the
worker's. Abstractions: one trigger; the revision of its definition stands for the times `turnedOffAt` and `receivedAt`;
all firings fall in one hour; a scheduled time is late in any later tick; `completed` is any end of a run that was started; a write with an unknown result blocks later ones
until a restart, a run in doubt is settled by its receipt or by a restart; `Start` loads, reconciles and saves in one step.
Left out: GitHub watches, conversations of the coordinator, Auto Prompt targets, capacity of the history, the limits over
all triggers (50 waiting events), HTTP requests asked for by hand, backups.

### PermissionRequests

The service publishes each change after it was saved, in a serial queue, so an action is one such change and `rows` is both
what is saved and what is known. `rv` is the review under way (the files it read, the verdict, whether the agent is told),
`exec` the runner's step (`confirm`, `save`, `launch`, `live`, `running`), `queue`, `deferred` and `starting` the commands it has,
`recovering` what a new worker finds running. `world` is the version of the files a decision rests on; `seen` and `saw` are
the version a review read. The owner denies, allows once or makes a rule, turns reviews or the notices off and on, and
closes or opens the conversation. `shut` is a storage hold, which only the owner's retry ends (`Release`): it is the one way a save fails here, and a run's end
may still be saved during it. A command about to be launched in a hold is left as it is in its row; the count of reviews
started again begins anew with every verdict. Left out: the matching of rules, Codex rule files, precedents and managed settings, limits on records, the
message that tells a running agent, failing spawns, the timer that retries deferred commands, writes with an unknown result
(they hold permissions until a restart and start nothing), and what becomes of the owner's notices after they are handed to
the conversation (`UpdateDrain` has one).

## 3. Runs

`CHECK_DEADLOCK FALSE` everywhere: the bounds end every behaviour, and the systems may stop. With two workers most runs
finish within a minute or two; `storage_client` takes two to three and `permission_requests` three.

| Run | Question | Bounds and why they are enough |
|---|---|---|
| `storage_client` | Does what a caller is told agree with the database, do connections and owners never overlap, is every call answered? | A prepare and a write, each with a retry of the same command ID; two threads, two epochs, a queue of two. A lost answer needs one command and one retry, an overlap two threads, an interleaved write another epoch. |
| `run_queue` | Is an instruction given once, saved before, and never after a cancel, also a repeated one or one that comes while a receipt is settled? | Two runs of one conversation (the shortest queue in which one waits for, is inserted into, or replaces another), one fault, one end of the worker, one save waiting when an event comes. |
| `run_queue_live` | Does an acknowledged instruction end, if holds and updates do; does a handover keep the queue? | One run, two waiting saves, one fault, one crash, one update. |
| `update_drain` | Is a turn carried on once, when and only when the update interrupted it? | One turn (targets share nothing else), two wrap-ups, two updates, one fault: a retry, a request left over from an earlier update, and every save failing once. |
| `state_lock` | Does the lock implement a lease, and does a starter give up only for others? | Three processes (two that take over, and one that publishes or only looks), three pids, two attempts instead of eight: with two the loop already meets each of its outcomes. |
| `worker_handoff` | Is there one queue, is nothing left behind, does the web follow? | Three workers (a handover and a recovery, or two handovers), two webs, two sends, one fault, which is a crash, a failing file or a removed token at any step. |
| `update_trial` | Is a trial left alone, can it always go back, is what was interrupted settled? | Three versions (one installed, an update, and one that replaces it), three helpers (one for each and one to resume), two faults: an interrupted update and an interrupted recovery. For the two safety properties about the hold the theorems of section 4 stand for any number of each; their inductive invariant was checked with unlimited faults, for three versions with three helpers and two versions with four (14.0 and 10.3 million states). |
| `request_ledger` | Is an instruction run once at most, however it is sent? | One instruction, two IDs (an ID given up and the next), three sends, room for one entry so that a second ID meets a full ledger, a retention of one tick and clocks apart by one, two faults. |
| `triggers` | Do events, runs and what the owner is told agree? | Two scheduled times, one run by hand, off and on, one failing save, one stop; three definitions that between them use each source, overlap and catch-up rule and both targets. |
| `permission_requests` | Is a command started once, in turn, as reviewed; is the owner's word final; does a review end, if holds do? | Two requests (an order needs two), one repeat of review and of recheck, two events of any kind: a stop and a hold, a change of files and a stop, a closing and a stop, and so on. |

Each property is stated at the end of its module with the behaviour of the code it is about. What each run shows:

- `storage_client`: `LedgerSpec` (what callers are told is final and true of the database; a refused prepare tells nothing),
  `AppliedOnce`, `OneConnection`, `CloseIsDrained`, `OnlyOwnerWrites`, `EveryCallIsAnswered`.
- `run_queue`: `OneTurnPerSession`, `GivenOnce`, `AcceptedIsSaved`, `CancelledNeverStarts`. They leave aside the runs that
  `NothingResent` concerns (`stale`), so that they say something about everything else. `CancelledNeverStarts` has two parts:
  a run whose cancel was confirmed after its save, or which memory has cancelled, is given to no provider, the first also
  after a restart; and what memory has cancelled is not queued again while the worker lives. Runs that a receipt brought back
  (`reopened`) are left aside.
- `run_queue_live`: `HandoverKeepsQueue` (outside the awaits of a receipt), `AcceptedEnds`. The latter is conditional: if new
  turns are not held for ever and updates end, an acknowledged instruction ends. A hold that its owner never retries keeps it
  waiting.
- `update_drain`: `CarriedOnOnce`, `AskedOnce`, `OwnerStopIsFinal`, `InterruptedIsCarried`.
- `state_lock`: `LeaseSpec`, `ExhaustedMeansContended`.
- `worker_handoff`: `OneQueue` (who has the storage, or writes the endpoint, holds the lock), `NothingLeftBehind` (a worker that
  closed its queue has no work), `SentAgainRunsOnce`, `AdoptsSuccessor`, `HandoverIsFollowed`.
- `update_trial`: `TrialIsHeld` and `OnlyKeptTakesOver` (no worker changes to a version on trial, save one whose hold ran
  out, or after one of the last three disagreements about `link/update.ts` below), `BackIsPossible` (the version to go
  back to is installed), `InterruptedIsSettled`.
- `request_ledger`: `OnceSpec` and `GivenUpNeverRan` of what neither of the two races caught (`raced`), also while they catch
  others; `CallsAreAnswered` of every call.
- `triggers`: `RefusedNeverRuns`, `AskedOnce`, `OnceIsOnce`, `OffIsFinal`, `AcceptedSettles`.
- `permission_requests`: `RunsOnce`, `LaunchedAsReviewed`, `InTurn`, `DecisionIsFinal`, `ReviewsEnd` (if a held
  storage is retried again and again).

### Disagreements found

Two runs expect a violation. Each checks one sentence of the repository against what the code does:

- `run_queue_resent` (`NothingResent`): a receipt replaces a run's object in the map while a pass of the pump holds the old
  one; both are started, against the comment on `resolveAdmission` (`runs/manager.ts:433`).
- `permission_requests_sent_back` (`SentBackIsHeard`): a hold between a verdict that sends a request back and its message
  leaves the request withdrawn, its agent not told and the owner not asked, against the comment at
  `permissions/reviewer.ts:178`.

The models contain other behaviours a reviewer of the code should know of. They have no run of their own; the places are
where the code lets them happen:

- `runs/manager.ts:592`: `create` awaits the trust of the folder between queueing its save and flushing. An unknown result
  of that save, settled as not committed in between, removes the run; `create` still answers success. (`AcceptedIsSaved`
  therefore speaks of runs told `accepted`, not `created`.)
- `runs/manager.ts:441`: settling an unknown write removes a continuation planned meanwhile.
- `runs/manager.ts:715`: a run whose save failed during a pass of the pump is refused and started by that pass.
- `runs/manager.ts:1250`: a turn that ends with a wakeup of its own, while its request to wrap up is queued and not inserted
  yet, has neither the wakeup nor a continuation.
- `runs/update-drain.ts:128`: taking back the continuation of a turn that was not asked after all also removes the approved
  permission request merged into it.
- `runs/update-drain.ts:119`: when Codex refuses a request to wrap up and the save that puts it back has an unknown result,
  the request stays in the queue and later starts as a turn of its own (`WrapUpStarts`), against the comment at line 121.
- `link/update.ts:277`: an update that is asked for while the record of an interrupted one is active replaces that record.
  When the version of the first runs already, nothing checks it any more and the worker moves to it, against the comment
  at lines 287-289 (`left` in `OnlyKeptTakesOver`).
- `link/update.ts:309`: a web of the previous version that starts between the helper's record of the switch and its pointer,
  and looks for a helper only after that one ended, takes the update for one that never came to run: it removes the hold and
  records a failure, and the pointer stays on the new version. The next start runs that version unchecked and the worker
  moves to it, against the same comment. The end of the web, of the helper and of the web again are three faults, and there
  are other ways to it, all over a record that says `failed` while a helper just spawned is about to work (`start` refuses for
  a helper only when the record is active, line 266). `OnlyKeptTakesOver` and `TrialIsHeld` therefore end with the first start
  of a web that overlooks a helper in this way (`missed`), whether or not harm comes of it.
- `link/update.ts:304`: a helper spawned to resume an update that takes its lock only after that update was undone and asked for
  again resumes the second one. A web that judged before then removes the hold it relies on. It takes four helpers and five
  faults, and a helper that waits for its lock through two updates (`missed` and `left` again, in `TrialIsHeld`).
- `storage/thread/runtime.ts:307`: a prepare reads the schema and the epoch once more after its COMMIT, outside the part of
  `writing` that judges a failure. An error there is answered `not-committed`, although the prepare committed and its receipt
  is stored, against `storage/contract.ts:102` ("An error can say `committed`: the commit is durable and what failed came after
  it") and `storage/client.ts:228` ("when the prepare had already committed, the error says
  `committed`"). A retry of the same command ID meets the receipt. `LedgerSpec` therefore takes a refused prepare as one that
  knows nothing; a refused write keeps its word.
- `runs/manager.ts:846`: a cancel of a run that memory has cancelled already is answered with success at once, while the save
  of the first cancel still waits or has failed. When the worker ends then, the row is queued as it was, and a row that was
  marked for the new version or is planned starts in the next worker. `CancelledNeverStarts` therefore promises less of such
  a confirmation: nothing while this worker lives.
- `runs/manager.ts:445`: while `resolveAdmission` awaits the files of a run (`retainAttachments`, `rollback`), another run of
  the same receipt may be cancelled, saved and confirmed; its turn then puts the row of the moment the receipt was read
  (`run-history.ts:94`) back into the map and saves it, queued (`reopened`).
- `runs/run-history.ts:106`: from the reading of a receipt until its save, failed rows are forgotten and not saved yet, so
  that a flush succeeds without them. A handover in one of those awaits (`manager.ts:443`, `452`) leaves to the next worker
  the rows of before; `HandoverKeepsQueue` excepts it.
- `remote/request-ledger.ts:133`: a request whose age passes the limit after `once` read the clock (line 72) and before its
  look at the entries, with two awaits between (lines 74-75): the prune reads the clock again and removes the entry of this
  very request, which is then run once more. Without the exception of `raced`, `OnceSpec` is violated.
- `client/src/remote/scope.ts:79` with `remote/router.ts:470`, `482` and `573`: a folder that stops being shared while its
  request is handled answers 404 after the work was done, which the page takes for a refusal before it. Without the exception of
  `raced`, `GivenUpNeverRan` and `OnceSpec` are violated.
- `permissions/service.ts:320`: a hold that begins between the saved approval and `startRun` leaves the command allowed and
  waiting until a worker starts.

### Fairness

Fairness is stated for what the event loop, timers, the supervisor and ended processes do by themselves; never for the
owner, for callers, for storage that fails or for a peer. Only the owner ends a storage hold (`runs/worker.ts:973`), so what
must happen in spite of one is stated under the condition that holds end: `[]<>~HoldsStarts` in `AcceptedEnds`, `[]<>~shut` in
`ReviewsEnd`.

- `StorageClient`: timers fire (`Deadline`), posted answers are taken (`Answered`), an open or a refusal goes on, recording
  an identity ends, and a thread told to end does end (`worker.terminate`). Nothing is assumed of a thread that hangs.
- `RunQueue`: settled promises continue (weak fairness); a save has some result, timers of the pump fire, sessions can be
  read at times, providers and turns end. Nothing is assumed of the retry of a held storage, nor of the end of an update.
  The others are strong because an
  event waits until the code that runs has come to an await: the event loop handles each in the end, but a model's event is
  not enabled all the time. The bounds on faults, crashes and updates make these finitely many.
- `WorkerHandoff`: a worker's next step, the end of accepted work, and each step of the web's request are weakly fair. The
  web's look at a worker and its recovery are strongly fair: they are periodic, and an endpoint that keeps appearing and
  disappearing is met in the end.
- `UpdateTrial`: a helper that runs goes on, and the service supervisor starts a web that is down.
- `RequestLedger`: calls and jobs of a worker that is up go on, and the worker is started again.
- `Triggers`: the engine's timer and its awaited calls; and the run manager, the answer to a request, and the start of a
  worker. The actions of the second group can be taken finitely often, so that one condition gives each its turn.
- `PermissionRequests`: the reviewer goes on when the service is open, its model answers or fails, and a worker is started
  again. Nothing is assumed of the end of a hold.

## 4. Proofs

TLAPS checks the following for every value of the constants that satisfies the named assumptions of the modules (bounds are
natural numbers, at least one attempt, pid, worker or version, the shape of `Kind`, `Command` and `Kinds`).

| Theorem | States | Argument |
|---|---|---|
| `StorageClientProofs!CommandsApplyOnce` | `AppliedOnce` | `EffectHasReceipt`: an effect is committed together with its receipt, receipts stay, and a command with a receipt is replayed. Without the receipt `AppliedOnce` is not inductive: a second `ServeWrite` would be possible. |
| `StorageClientProofs!ConnectionsNeverOverlap` | `OneConnection` | `OnlyCurrentRuns`: only the thread of the present generation has not gone, and a new one is started after the old one has. |
| `StorageClientProofs!AnswersAreTrueAlways` | `AnswersAreTrue` (what `LedgerSpec` says of one state; nothing of a prepare that was refused) | `TruthOK`: an answer on its way is true of the database, but for the refusal of a prepare, and of the calls that sent a command that committed, one was told so, may still be told, or knows that it may have, as a refused prepare does. It needs `ClientOK`: one exchange with the thread at a time, one request for each outstanding call, and when the thread is one that can answer. |
| `StorageClientProofs!ImplementsLedger` | `LedgerSpec` | A step that changes the receipts is the commit of a request whose call waits or knows that it may have committed (`ServeCommits`); every other step tells calls only what they may be told (`StepTells`), a yes only with a receipt, a no never by the refusal of a prepare, and leaves each committed command a call that knows or may come to (`TruthOK`). |
| `StorageClientProofs!CloseDrains` | `CloseIsDrained` | `ClientOK`: every outstanding call is in the queue or in the thread, and a close is the last request. |
| `StorageClientProofs!OnlyTheOwnerWrites` | `OnlyOwnerWrites` | `OwnerOK`: a connection's claim is at most the newest epoch, and equals it only on the thread that made that claim. |
| `RunQueueProofs!CoreHolds`, `OneTurnHolds`, `GivenOnceHolds`, `AcceptedHolds` | the last three: `OneTurnPerSession`, `GivenOnce`, `AcceptedIsSaved` | `CoreInv`, in the part below. |
| `RunQueueProofs!SyncHolds`, `CancelledNeverStartsHolds`, `HandoverKeepsQueueHolds` | the last two: `CancelledNeverStarts`, `HandoverKeepsQueue`, with the exceptions these state | `SyncInv`, on top of `CoreInv`, in the part below. |
| `StateLockProofs!TypesHold`, `HoldersAreMarked`, `Exclusion` | `TypeOK`, `HolderIsMarked`, `MutualExclusion` | `IInv`: at most one marker, of a process that holds the lock or ended; a marker is removed only for a process that ended, because running processes have different pids. Exclusion alone says nothing of what a cleanup may remove. |
| `StateLockProofs!ImplementsLease` | `LeaseSpec` | Every step takes or leaves the lease or stutters, by exclusion and the same invariant. |
| `StateLockProofs!ExhaustedHolds` | `ExhaustedMeansContended` | `ContendInv`: a process has failed to rename at most as often as markers came and went; while it cleans up, the marker that made it fail is gone or is among those it still looks at, and an owner that won never tries again. |
| `UpdateDrainProofs!TypesHold` | `TypeOK` | Frame lemmas for each stage of `changed()`; a turn is registered and settled in the step that shows it runs or ended. |
| `UpdateDrainProofs!AskedAtMostOnce` | `AskedOnce` | `AskedInv`: one request is under way at a time and the target says so (`sending`); nothing is taken before its hand-over; a taken request keeps `reached` for as long as the turn runs. |
| `UpdateDrainProofs!StopIsFinal` | `OwnerStopIsFinal` | `FinalInv`: while a turn runs only a permission waits, a stop ends Claude's turn in its step, and what waits when a stopped turn ends is swept with it. |
| `UpdateDrainProofs!CarriedOnAtMostOnce`, `InterruptedIsCarriedOn` | `CarriedOnOnce`, `InterruptedIsCarried` | `CarryInv`: nothing is made for the update while the turn runs, the target remembers what a stopped or asked turn is owed, and it is settled only in the step that shows the end. Shown stage by stage through `changed()`, then for the insertion, the owner, the update and the end of the turn. |
| `UpdateDrainProofs!BackIsPossibleHolds` | `BackIsPossible` of `UpdateTrial` | `BackInv`: one helper is at work, the one the lock names; what the record, the helper, the pointer, the running web and the record a starting web judged name is installed; and while a prune is under way no update is and no helper works, because a request takes its turn after the prune. The theorem on its own says nothing of a helper that ended and the record that outlives it. |
| `UpdateDrainProofs!TrialIsHeldHolds`, `OnlyKeptTakesOverHolds` | `TrialIsHeld`, `OnlyKeptTakesOver` of `UpdateTrial` | `FirmInv` on top of `BackInv`, until a starting web overlooks a helper; in the part below. |
| `WorkerHandoffProofs!OneQueueHolds`, `EndpointIsOwnHolds` | `OneQueue`, `EndpointIsOwn` | `HoldsLock`: every worker between `opening` and `unlinked` has the lock, so there is one; `EndpointHeld`: the files are only of such a worker or of one that ended. |
| `WorkerHandoffProofs!NothingLeftBehindHolds` | `NothingLeftBehind` | `WorkInTime`: work is only with a worker that still serves or looks again, since the last look comes after pausing. |
| `WorkerHandoffProofs!SentAgainRunsOnceHolds` | `SentAgainRunsOnce` | `CallCounted`: a request told as refused was admitted by nobody, and one on its way is counted with the worker it reached. |
| `WorkerHandoffProofs!AdoptsSuccessorHolds` | `AdoptsSuccessor` | `NoncesOwned`: a nonce is given to one successor, so that a worker with the record's nonce is the successor of the worker the record names. |
| `PermissionRequestsProofs!RunsOnceHolds` | `RunsOnce` | `IInv`: a run that is not saved as running was never started, the runner launches one that it saved as running and did not start, and recovery ends what it finds running instead of letting it wait again. |
| `PermissionRequestsProofs!LaunchedAsReviewedHolds`, `InTurnHolds` | the properties of those names | The only step that starts a process is `Launch` (`StartsAtLaunch`); `ExecAgrees` keeps, from the check to there, that the files are those of the review and that nothing before it is in review. |
| `PermissionRequestsProofs!DecisionIsFinalHolds` | `DecisionIsFinal` | Every step is shown to keep `IInv` and to move each row in one of three ways: it stays, it gets decided, it comes back to review; none of these changes an owner's decision. |
| `RequestLedgerProofs!GivenUpNeverRanHolds` | `GivenUpNeverRan` | `LedgerOK`: an ID that its page does not take for uncertain was sent once; that call has not run it before it is at work, and a refusal comes before work unless a race caught the ID (`raced`); of an ID given up no call is under way. |
| `RequestLedgerProofs!ImplementsOnce` | `OnceSpec` | `LedgerOK`: what ran under an ID that no race caught is in a row until no send of its ID is accepted any more, and what is in a row is known while the worker is up. Every step maps to a run, an acknowledgement or a stutter. |
| `TriggersProofs!AskedOnceHolds`, `OnceIsOnceHolds` | the properties of those names | `TriggersOK`: what SQL holds is a good state (events of one key each, one at most of a once reservation), the projection is behind it at most, and the same unless a result is unknown; so every draft is made from a good state, and leads to one. |
| `TriggersProofs!OffIsFinalHolds` | `OffIsFinal` | The owner was told of no turn-off that the projection does not have (`SeenOK`), and the gate of a start asks the projection. |
| `TriggersProofs!RefusedNeverRunsHolds` | `RefusedNeverRuns` | `EventOK`: an event that waits has no run, and one told as not run has none or a refused one, because the engine writes that only after the run manager said so and requests only what is claimed. |

`IInv` of `PermissionRequestsProofs` is `TypeOK` with `RowsAgree` (status, decider, run, process and counts of each row),
`InOrderMade` (the queue), `ExecAgrees`, `RecoveryAgrees` and `ReviewAgrees` (what runner, recovery and review may assume of
the rows). The theorems on their own are not inductive: nothing in `RunsOnce` says that a stop between the start of a
process and its record leaves a row that recovery does not start again.

`CoreInv` of `RunQueueProofs` has a clause for each kind of suspended function, because what one of them relies on after an
await is kept by all the others. Of the chain it says which rows the saves hold (`SavedOK`, `UnusedOK`): while `newAdm` has
not lost a run, the save that may still bring it to the database is queued or known to have failed, and afterwards no save
removes it. Of a request (`AdmitOK`) it says that its run is held back from the pump until the answer and, after a success,
that the run is in the database with no task left that could take it out (`Known`), which is more than `AcceptedIsSaved`
and is what makes that inductive. Of an insertion (`InsertOK`) it says that the row is marked from the saved mark to the
answer. `GivenOK` ties what a provider has to the row: given, it is not queued, not on its way into a turn, and `Known`.
`PumpOK` and `LiveOK` keep the reservation: of the run the pump prepares, no other turn is of its conversation, also when the
run has left the map and the pump goes on with its own object (`old`). Every action is a change of few rows with its save and
the move of one task; the lemmas `RunStays` and `StepKeeps` show once what such a step leaves, so that each action adds only
the runs that act in it. Apart stand the end of a save, the reading of a receipt and the end of the worker.

`ResolveOK` and `RestOK` are about a receipt that is being settled: outside its window nothing of it is left, and inside it what
waits to be settled is among what will be saved, which is what makes up for the failed rows it forgot (`SavedOK`).

`SyncInv` adds what memory, the saves and the database have of the same run. `SyncOK`: the last save of a run has the row of
memory, and a run no save holds is in the database as in memory unless a save of it is known to have failed, or a receipt has
still to save it; so once nothing waits and nothing failed, database and memory are the same. `CarryOK`: during an update, what
waits is marked to survive, unless a receipt is about to bring it back. `StopOK`: a cancel waits for the last save it queued,
and from that save on the run has ended in every save, so when the cancel is confirmed the run has ended in memory, in every
save and in the database, and no restart finds a row of it that still waits. A receipt may (`reopened`): it has the row of the
moment it was read. `CancelledNeverStarts` needs all of it: a confirmed cancel is forgotten by everything but the
rows. Most steps are a change that only adds a save (`Shape`) and leaves the cancels alone (`Apart`); `NextShape` shows that
for all steps but those of a cancel, the end of a save, three of a receipt and the end of the worker (`Special`), which are
then shown one by one.

TLC checked each inductive invariant on a small instance as well (`CoreInv` and `SyncInv` on that of `run_queue`).

`FirmInv` of `UpdateDrainProofs` says why the worker never moves to a version on trial. A version is *firm* when the worker
may take it: the first one, or one that was kept, ran out its hold or was replaced. `RunsHeld` is the centre: a version that
the service would start, or that the web runs, is firm, or it is that of the recorded update, past its switch and not settled,
and the hold names it. The rest is what makes that inductive. `RecordFirm`: what a record goes back to is older and firm, so a
worker that starts on the version before is safe too. `UpdateFirm` and `TrialHeld`: a helper at work is on the recorded update,
at the stage its place says, and has its hold from the switch on. `ReleaseFirm`: where a helper may release the hold, the
version does not run or is firm; that is why going back waits for the previous version's answer. `SpawnedFirm` and
`TwiceFirm`: what a helper on its way to its lock will find, also when another one of the same version was there before it.
`JudgedFirm`: what recovery relies on between its look for a helper and its last write, which is where a helper that starts
meanwhile could invalidate it. `KeptStays`: nothing goes back below a version that was kept, so that such a version
is not asked for again. The properties on their own say nothing of the record, of the pointer or of
helpers that have not begun, and neither is inductive.

`FirmInv` holds until a starting web overlooks a helper, and not after: the theorem behind both is `missed \/ FirmInv`
(`TrialIsFirm`), and the last three entries about `link/update.ts` under *Disagreements found* show that the excuse is needed.
No number of faults, helpers or versions bounds it. TLC checked this invariant before the proof, with unlimited faults
(section 3).

Only model-checked: liveness (`EveryCallIsAnswered`, `AcceptedEnds`, `HandoverIsFollowed`, `InterruptedIsSettled`,
`CallsAreAnswered`, `AcceptedSettles`, `ReviewsEnd`). Liveness under fairness is out of the prover's reach. Every other property
that a passing run checks is stated by a theorem. Where a property excepts something, the exception is in its formula and
in the theorem, never in an assumption or a constant, and *Disagreements found* names the code that needs it.

## 5. Not modelled

PROJECT.json lists every component and why it is left out. Of the modelled ones, the models leave out prompts, output,
attachments, sizes, file formats, real times and the protocols of the providers, whose answers are choices; what else a
module leaves out is in its section above. Most of the repository by lines is user interface, texts in several languages,
parsing of provider files, voice and integrations with outside services: code with little state that several actors share,
which these models do not reach for.

## 6. Plan

Next, in order:

1. `StorageRecovery` (`storage/recovery.ts`, `link/storage-transition-lock.ts`): no scope is used before its recovery ended,
   over a crash between two renames.
2. `Grants` (`secrets/view-grants.ts`, `broker.ts`): a grant used once and not after it expired.
3. `Retention` (`sessions/retention`): no archived session runs, composed with the admission of `RunQueue`.
4. `SlackAutomation` (`slack/automation.ts`), Auto Prompt and the Todo sync: an event worked once, no edit lost.
5. Abstract specifications: at-most-once delivery by `RunQueue`.
6. `UpdateTrial` with times: a helper takes its lock within seconds of being spawned, which would rule out the longest of the
   behaviours above, and with it a part of what `missed` excuses.

The two runs that show a disagreement go away when the code is changed, and their properties then join `run_queue` and
`permission_requests`.
