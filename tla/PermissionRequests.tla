------------------------- MODULE PermissionRequests -------------------------
(***************************************************************************)
(* The permission requests of one conversation (src/server/permissions):   *)
(* the service that keeps them, Tower's reviewer, and the runner of the    *)
(* commands that were allowed once.                                        *)
(*                                                                         *)
(* A request is decided by the owner or by the reviewer, whose verdict     *)
(* comes from a model that may take minutes. Meanwhile the owner decides,  *)
(* turns reviews off, closes the conversation or opens it again; files the *)
(* decision rests on change; storage is held; the worker stops. Every      *)
(* change of the service runs in its serial queue and is published after   *)
(* it was saved, so one action is one such change and `rows` is both what  *)
(* is saved and what the worker knows. A hold of the storage (`shut`)      *)
(* refuses changes and effects. A write whose result stays unknown holds   *)
(* permissions for good and starts nothing, which is no behaviour of       *)
(* interest here.                                                          *)
(***************************************************************************)
EXTENDS Naturals, SequencesExt

CONSTANTS Requests,     \* requests, in the order they are made
          Kinds,        \* what each may be: "run", one exact command; "rule", a rule for the conversation
          MaxRequeue,   \* MAX_REQUEUE of the reviewer
          MaxRechecks,  \* MAX_RECHECKS of the service
          MaxEvents     \* stops of the worker, holds of the storage, changes of the files or
                        \* of the reviewer's settings, closings and approvals that waited too
                        \* long, in any mixture

ASSUME PermissionRequestsAssumption ==
  /\ Requests \subseteq Nat \ {0} /\ IsFiniteSet(Requests)
  /\ Kinds \in [Requests -> SUBSET {"run", "rule"}]
  /\ {MaxRequeue, MaxRechecks, MaxEvents} \subseteq Nat

None == 0

VARIABLES
  rows, rules,          \* the requests, and those a rule of the conversation came from
  settings,             \* autoReview: enabled, and resume (the agent is told)
  up, shut,
  rv, requeues,         \* the review under way; reviews started again for a request
  starting,             \* approved and saved, startRun not called yet
  queue, deferred, exec, recovering,  \* the runner
  telling, handed,      \* notices left by an earlier worker; notices handed to the conversation's queue
  closed, life, forgets,              \* the conversation, closings so far, those not passed on yet
  world,                \* version of the files
  alive,                \* commands whose process exists
  starts, saw,          \* processes started for a request; version its reviewer read
  events                \* of MaxEvents

runnerVars == <<starting, queue, deferred, exec, recovering>>
noticeVars == <<telling, handed>>
ownerVars == <<settings, closed, life, forgets>>
reviewVars == <<rv, requeues, saw>>
vars == <<rows, rules, up, shut, world, alive, starts, reviewVars, runnerVars, noticeVars, ownerVars, events>>

Blank == [status |-> "none", kind |-> "run", by |-> "none", review |-> "none", files |-> 0, rechecks |-> 0,
          run |-> "none", pid |-> FALSE, note |-> "none", born |-> 0]
NoReview == [at |-> "idle", req |-> None, seen |-> 0, tell |-> FALSE, verdict |-> "none"]
NoExec == [at |-> "idle", req |-> None, files |-> 0]

Open == up /\ ~shut
Saved(r, row) == rows' = [rows EXCEPT ![r] = row]
Event == events < MaxEvents /\ events' = events + 1

Init ==
  /\ rows = [r \in Requests |-> Blank] /\ rules = {}
  /\ settings = [enabled |-> TRUE, resume |-> TRUE]
  /\ up = TRUE /\ shut = FALSE
  /\ rv = NoReview /\ requeues = [r \in Requests |-> 0]
  /\ starting = {} /\ queue = <<>> /\ deferred = {} /\ exec = NoExec /\ recovering = {}
  /\ telling = {} /\ handed = {}
  /\ closed = FALSE /\ life = 0 /\ forgets = {}
  /\ world = 1 /\ alive = {}
  /\ starts = [r \in Requests |-> 0] /\ saw = [r \in Requests |-> 0]
  /\ events = 0

-----------------------------------------------------------------------------
(* Requests and the owner's decisions *)
WithReview(row, review) == [row EXCEPT !.review = review]
WithRun(row, run) == [row EXCEPT !.run = run]
Asked(kind) == [Blank EXCEPT !.status = "pending", !.kind = kind, !.born = life,
                             !.review = IF settings.enabled THEN "queued" ELSE "none"]
Decided(row, status) == [row EXCEPT !.status = status, !.by = "owner"]

Pending(r) == rows[r].status = "pending"
InReview(r) == Pending(r) /\ rows[r].review \in {"queued", "running"}

(* The agent asks; while reviews are on, the reviewer takes it first.      *)
Request(r, kind) ==
  /\ Open /\ ~closed
  /\ rows[r].status = "none" /\ \A q \in Requests : q < r => rows[q].status # "none"
  /\ Saved(r, Asked(kind))
  /\ UNCHANGED <<rules, up, shut, world, alive, starts, reviewVars, runnerVars, noticeVars, ownerVars, events>>

(* The owner refuses. What the conversation is told of an owner's decision *)
(* is the continuation of RunQueue.                                        *)
Deny(r) ==
  /\ Open /\ Pending(r)
  /\ Saved(r, Decided(rows[r], "denied"))
  /\ UNCHANGED <<rules, up, shut, world, alive, starts, reviewVars, runnerVars, noticeVars, ownerVars, events>>

(* The owner allows a rule: it is kept from now on.                        *)
AllowRule(r) ==
  /\ Open /\ Pending(r) /\ rows[r].kind = "rule" /\ ~closed
  /\ Saved(r, Decided(rows[r], "approved"))
  /\ rules' = rules \cup {r}
  /\ UNCHANGED <<up, shut, world, alive, starts, reviewVars, runnerVars, noticeVars, ownerVars, events>>

(* The owner allows a command: saved as waiting, then handed to the runner. *)
AllowRun(r) ==
  /\ Open /\ Pending(r) /\ rows[r].kind = "run" /\ ~closed
  /\ Saved(r, WithRun(Decided(rows[r], "approved"), "waiting"))
  /\ starting' = starting \cup {r}
  /\ UNCHANGED <<rules, up, shut, world, alive, starts, reviewVars, queue, deferred, exec, recovering, noticeVars, ownerVars, events>>

(* The owner turns reviews or their notices on or off. Off leaves what the *)
(* reviewer has not begun to the owner.                                    *)
SetAutoReview(field) ==
  LET next == [settings EXCEPT ![field] = ~@]
  IN /\ Open /\ Event
     /\ settings' = next
     /\ rows' = [r \in Requests |-> IF ~next.enabled /\ Pending(r) /\ rows[r].review = "queued"
                                    THEN WithReview(rows[r], "none") ELSE rows[r]]
     /\ UNCHANGED <<rules, up, shut, world, alive, starts, reviewVars, runnerVars, noticeVars, closed, life, forgets>>

-----------------------------------------------------------------------------
(* The conversation is closed and opened in the web; the worker is told    *)
(* later, with the time of the close, and asked again when it refuses.     *)
Before(r, close) == rows[r].born < close

Close ==
  /\ ~closed /\ Event
  /\ closed' = TRUE /\ life' = life + 1 /\ forgets' = forgets \cup {life + 1}
  /\ UNCHANGED <<rows, rules, up, shut, world, alive, starts, reviewVars, runnerVars, noticeVars, settings>>

Reopen ==
  /\ closed /\ closed' = FALSE
  /\ UNCHANGED <<rows, rules, up, shut, world, alive, starts, reviewVars, runnerVars, noticeVars, settings, life, forgets, events>>

(* What came before the close and still waits is withdrawn, as the owner's. *)
Forgotten(close) ==
  [r \in Requests |-> IF Pending(r) /\ Before(r, close)
                      THEN Decided(rows[r], "withdrawn") ELSE rows[r]]

Forget(close) ==
  /\ Open /\ close \in forgets
  /\ forgets' = forgets \ {close}
  /\ rows' = Forgotten(close)
  /\ rules' = {r \in rules : ~Before(r, close)}
  /\ UNCHANGED <<up, shut, world, alive, starts, reviewVars, runnerVars, noticeVars, settings, closed, life, events>>

-----------------------------------------------------------------------------
(* Tower's reviewer: one review at a time, the oldest request first. One   *)
(* whose end could not be recorded is taken again.                         *)

(* Variant: only a request nobody has begun is taken.                      *)
WaitingQueued == {r \in Requests : Pending(r) /\ rows[r].review = "queued"}

WaitingReview == {r \in Requests : InReview(r)}

StartReview ==
  /\ Open /\ rv = NoReview
  /\ \E r \in WaitingReview :
       /\ \A q \in WaitingReview : r <= q
       /\ \/ /\ ~settings.enabled
             /\ Saved(r, WithReview(rows[r], "none")) /\ UNCHANGED rv
          \/ /\ settings.enabled /\ ~closed
             /\ Saved(r, WithReview(rows[r], "running"))
             /\ rv' = [NoReview EXCEPT !.at = "reading", !.req = r, !.seen = world, !.tell = settings.resume]
  /\ UNCHANGED <<rules, up, shut, world, alive, starts, requeues, saw, runnerVars, noticeVars, ownerVars, events>>

(* The review ends; its request is left as `next`, or as it was when       *)
(* storage refuses.                                                        *)
ReviewEnds(r, next) ==
  /\ rv' = NoReview
  /\ IF shut THEN UNCHANGED rows ELSE Saved(r, next)

(* The model failed, timed out or was stopped: the owner decides.          *)
ModelFails ==
  /\ up /\ rv.at = "reading"
  /\ LET r == rv.req
     IN /\ ReviewEnds(r, WithReview(rows[r], "none"))
        /\ requeues' = [requeues EXCEPT ![r] = 0]
  /\ UNCHANGED <<rules, up, shut, world, alive, starts, saw, runnerVars, noticeVars, ownerVars, events>>

(* The model answered. Material that changed while it read is reviewed     *)
(* again, a few times, unless the owner decided meanwhile. Sending the     *)
(* agent back needs an agent that can be told.                             *)
ModelAnswers(verdict) ==
  /\ up /\ rv.at = "reading"
  /\ LET r == rv.req
         changed == rows[r].kind = "run" /\ world # rv.seen
     IN \/ /\ changed /\ (shut \/ requeues[r] = MaxRequeue)
           /\ ReviewEnds(r, WithReview(rows[r], "none"))
           /\ requeues' = [requeues EXCEPT ![r] = 0]
        \/ /\ changed /\ ~shut /\ requeues[r] < MaxRequeue /\ Pending(r)
           /\ ReviewEnds(r, WithReview(rows[r], "queued"))
           /\ requeues' = [requeues EXCEPT ![r] = @ + 1]
        \/ /\ ~changed \/ (~shut /\ requeues[r] < MaxRequeue /\ ~Pending(r))
           /\ rv' = [rv EXCEPT !.at = "verdict", !.verdict = IF verdict = "narrow" /\ ~rv.tell THEN "owner" ELSE verdict]
           /\ UNCHANGED <<rows, requeues>>
  /\ UNCHANGED <<rules, up, shut, world, alive, starts, saw, runnerVars, noticeVars, ownerVars, events>>

(* The request as the verdict leaves it. *)
Verdict(row, status) == [row EXCEPT !.status = status, !.by = "auto", !.review = "none"]
WithNote(row, note) == [row EXCEPT !.note = note]
NoteLeft == IF settings.resume THEN "pending" ELSE "none"

(* Variant: the files are bound as they are when the verdict is recorded.  *)
BoundLate(row) == [row EXCEPT !.run = "waiting", !.files = world]

(* An allowed command waits with the files its decision rests on.          *)
Bound(row) == [row EXCEPT !.run = "waiting", !.files = rv.seen]

(* Variant: the verdict decides whoever decided before.                    *)
DecidesAlways(r) == rows[r].review = "running" /\ settings.enabled

(* A verdict still counts: not turned off, not decided by the owner.       *)
Decides(r) == rows[r].review = "running" /\ settings.enabled /\ Pending(r)

ApplyReview ==
  /\ up /\ rv.at = "verdict"
  /\ LET r == rv.req
     IN \/ /\ shut \/ (Decides(r) /\ closed)
           /\ rv' = NoReview
           /\ UNCHANGED <<rows, rules, starting, saw>>
        \/ /\ ~shut /\ (~Decides(r) \/ (~closed /\ rv.verdict = "owner"))
           /\ rv' = NoReview /\ Saved(r, WithReview(rows[r], "none"))
           /\ UNCHANGED <<rules, starting, saw>>
        \/ /\ ~shut /\ Decides(r) /\ ~closed /\ rv.verdict = "approve" /\ rows[r].kind = "run"
           /\ rv' = NoReview /\ Saved(r, Bound(Verdict(rows[r], "approved")))
           /\ starting' = starting \cup {r} /\ saw' = [saw EXCEPT ![r] = rv.seen]
           /\ UNCHANGED rules
        \/ /\ ~shut /\ Decides(r) /\ ~closed /\ rv.verdict = "approve" /\ rows[r].kind = "rule"
           /\ rv' = [rv EXCEPT !.at = "telling"] /\ Saved(r, WithNote(Verdict(rows[r], "approved"), NoteLeft))
           /\ rules' = rules \cup {r}
           /\ UNCHANGED <<starting, saw>>
        \/ /\ ~shut /\ Decides(r) /\ ~closed /\ rv.verdict = "narrow"
           /\ rv' = [rv EXCEPT !.at = "telling"] /\ Saved(r, WithNote(Verdict(rows[r], "withdrawn"), NoteLeft))
           /\ UNCHANGED <<rules, starting, saw>>
     /\ requeues' = [requeues EXCEPT ![r] = 0]
  /\ UNCHANGED <<up, shut, world, alive, starts, queue, deferred, exec, recovering, noticeVars, ownerVars, events>>

-----------------------------------------------------------------------------
(* Notices *)

(* One the reviewer sent back whose agent was not told waits for the owner. *)
Reopened(row) ==
  IF row.status = "withdrawn" /\ row.by = "auto"
  THEN [row EXCEPT !.status = "pending", !.by = "none", !.note = "none", !.review = "none"] ELSE row

Recorded(r) ==
  /\ Saved(r, WithNote(rows[r], "recorded")) /\ handed' = handed \cup {r}

(* The end of a review whose conversation is to be told.                   *)
TellReview(reached) ==
  /\ up /\ rv.at = "telling" /\ rv' = NoReview
  /\ LET r == rv.req
     IN \/ /\ ~shut /\ settings.resume /\ rows[r].note = "pending" /\ reached /\ ~closed
           /\ Recorded(r)
        \/ /\ ~settings.resume \/ (rows[r].note = "pending" /\ (~reached \/ closed))
           /\ ReviewEnds(r, Reopened(rows[r])) /\ UNCHANGED handed
        \/ /\ settings.resume /\ (shut \/ rows[r].note # "pending")
           /\ UNCHANGED <<rows, handed>>
  /\ UNCHANGED <<rules, up, shut, world, alive, starts, requeues, saw, runnerVars, telling, ownerVars, events>>

(* A notice an earlier worker left: when it cannot be handed over now, the *)
(* next start tries again.                                                 *)
Deliver(r, reached) ==
  /\ up /\ r \in telling /\ telling' = telling \ {r}
  /\ \/ /\ ~shut /\ reached /\ ~closed /\ rows[r].note = "pending" /\ Recorded(r)
     \/ /\ shut \/ ~reached \/ closed \/ rows[r].note # "pending"
        /\ UNCHANGED <<rows, handed>>
  /\ UNCHANGED <<rules, up, shut, world, alive, starts, reviewVars, runnerVars, ownerVars, events>>

(* A notice that seemed handed over never reaches its turn.                *)
Undelivered(r) ==
  /\ up /\ r \in handed /\ handed' = handed \ {r}
  /\ IF shut THEN UNCHANGED rows ELSE Saved(r, Reopened(rows[r]))
  /\ UNCHANGED <<rules, up, shut, world, alive, starts, reviewVars, runnerVars, telling, ownerVars, events>>

-----------------------------------------------------------------------------
(* The runner: allowed commands in the order they came, one at a time in   *)
(* one conversation.                                                       *)
Waiting(r) == rows[r].status = "approved" /\ rows[r].run = "waiting"
Running(r) == rows[r].status = "approved" /\ rows[r].run = "running"

(* startRun, right after the approval was saved; a hold that began in      *)
(* between refuses it.                                                     *)
StartRun(r) ==
  /\ up /\ r \in starting /\ starting' = starting \ {r}
  /\ queue' = IF shut \/ r \in Range(queue) \/ exec.req = r THEN queue ELSE Append(queue, r)
  /\ UNCHANGED <<rows, rules, up, shut, world, alive, starts, reviewVars, deferred, exec, recovering, noticeVars, ownerVars, events>>

Ready == ~shut /\ exec = NoExec /\ recovering = {}

(* The first in the queue that is not put off.                             *)
Foremost(r) == \E i \in 1 .. Len(queue) : /\ queue[i] = r /\ r \notin deferred
                                          /\ \A j \in 1 .. i - 1 : queue[j] \in deferred

Pump ==
  \E r \in Requests :
     /\ up /\ Ready /\ Foremost(r)
     /\ exec' = [NoExec EXCEPT !.at = "confirm", !.req = r]
     /\ queue' = Remove(queue, r)
     /\ UNCHANGED <<rows, rules, up, shut, world, alive, starts, reviewVars, starting, deferred, recovering, noticeVars, ownerVars, events>>

(* Refused before anything was saved: tried again when the hold ends.      *)
Defer(r) ==
  /\ exec' = NoExec /\ queue' = <<r>> \o queue /\ deferred' = deferred \cup {r}
  /\ UNCHANGED rows

(* Variant: the turn of an earlier request is not asked about.             *)
OvertakesAny(r) == FALSE

(* An earlier command of the conversation went back to review.             *)
Overtakes(r) == \E q \in Requests : q < r /\ rows[q].kind = "run" /\ InReview(q)

AsReviewed(r) == rows[r].files = world

(* Back to the reviewer with what is there now; files that keep changing   *)
(* are the owner's to judge.                                               *)
ReviewedAgain(row, stale) ==
  [row EXCEPT !.status = "pending", !.by = "none", !.run = "none",
     !.rechecks = IF stale THEN row.rechecks ELSE row.rechecks + 1,
     !.review = IF stale \/ row.rechecks < MaxRechecks THEN "queued" ELSE "none"]

(* Right before the start: still allowed, and what the reviewer allowed is *)
(* still what is there. `waited`: the approval is older than a minute.     *)
Confirm(waited) ==
  LET r == exec.req
      stale == waited \/ Overtakes(r)
  IN /\ up /\ exec.at = "confirm"
     /\ IF waited THEN Event /\ Waiting(r) /\ ~shut /\ ~closed /\ rows[r].by = "auto" ELSE UNCHANGED events
     /\ \/ /\ ~Waiting(r)
           /\ exec' = NoExec /\ UNCHANGED <<rows, queue, deferred>>
        \/ /\ Waiting(r) /\ shut /\ Defer(r)
        \/ /\ Waiting(r) /\ ~shut /\ closed
           /\ Saved(r, WithRun(rows[r], "ended"))
           /\ exec' = NoExec /\ UNCHANGED <<queue, deferred>>
        \/ /\ Waiting(r) /\ ~shut /\ ~closed /\ (rows[r].by = "owner" \/ (~stale /\ AsReviewed(r)))
           /\ exec' = [exec EXCEPT !.at = "save", !.files = world]
           /\ UNCHANGED <<rows, queue, deferred>>
        \/ /\ Waiting(r) /\ ~shut /\ ~closed /\ rows[r].by = "auto" /\ (stale \/ ~AsReviewed(r))
           /\ Saved(r, ReviewedAgain(rows[r], stale))
           /\ exec' = NoExec /\ UNCHANGED <<queue, deferred>>
     /\ UNCHANGED <<rules, up, shut, world, alive, starts, reviewVars, starting, recovering, noticeVars, ownerVars>>

Begun(row) == [row EXCEPT !.run = "running", !.files = 0]

(* Saved as running before the command starts: a worker that stops from    *)
(* here on leaves a run whose result is unknown.                           *)
SaveRunning ==
  LET r == exec.req
  IN /\ up /\ exec.at = "save"
     /\ \/ /\ shut /\ Defer(r)
        \/ /\ ~shut
           /\ Saved(r, Begun(rows[r]))
           /\ exec' = [exec EXCEPT !.at = "launch"]
           /\ UNCHANGED <<queue, deferred>>
     /\ UNCHANGED <<rules, up, shut, world, alive, starts, reviewVars, starting, recovering, noticeVars, ownerVars, events>>

(* The last check and the start, with nothing in between. A refusal leaves *)
(* the run as it was saved, or failed where that can be saved.             *)
Launch ==
  LET r == exec.req
  IN /\ up /\ exec.at = "launch"
     /\ \/ /\ shut \/ ~Running(r)
           /\ exec' = NoExec /\ UNCHANGED <<rows, alive, starts>>
        \/ /\ ~shut /\ Running(r) /\ closed
           /\ Saved(r, WithRun(rows[r], "ended"))
           /\ exec' = NoExec /\ UNCHANGED <<alive, starts>>
        \/ /\ ~shut /\ Running(r) /\ ~closed
           /\ alive' = alive \cup {r} /\ starts' = [starts EXCEPT ![r] = @ + 1]
           /\ exec' = [NoExec EXCEPT !.at = "live", !.req = r] /\ UNCHANGED rows
     /\ saw' = [saw EXCEPT ![r] = 0]
     /\ UNCHANGED <<rules, up, shut, world, rv, requeues, starting, queue, deferred, recovering, noticeVars, ownerVars, events>>

WithProcess(row) == [row EXCEPT !.pid = TRUE]

(* The process is recorded, so that a later worker can prove it is ours.   *)
RecordProcess ==
  /\ up /\ exec.at = "live"
  /\ exec' = [exec EXCEPT !.at = "running"]
  /\ IF shut THEN UNCHANGED rows ELSE Saved(exec.req, WithProcess(rows[exec.req]))
  /\ UNCHANGED <<rules, up, shut, world, alive, starts, reviewVars, starting, queue, deferred, recovering, noticeVars, ownerVars, events>>

(* The command ends, or its time limit ends it.                            *)
Exit(r) ==
  /\ r \in alive /\ alive' = alive \ {r}
  /\ UNCHANGED <<rows, rules, up, shut, world, starts, reviewVars, runnerVars, noticeVars, ownerVars, events>>

(* The end of a run is the one change a hold may let through.              *)
Completed(r, row) == Saved(r, row) \/ (shut /\ UNCHANGED rows)

Finish ==
  /\ up /\ exec.at = "running" /\ exec.req \notin alive
  /\ Completed(exec.req, WithRun(rows[exec.req], "ended"))
  /\ exec' = NoExec
  /\ UNCHANGED <<rules, up, shut, world, alive, starts, reviewVars, starting, queue, deferred, recovering, noticeVars, ownerVars, events>>

-----------------------------------------------------------------------------
(* The worker. Commands it started go on when it stops.                    *)
Stop ==
  /\ up /\ Event
  /\ up' = FALSE
  /\ rv' = NoReview /\ requeues' = [r \in Requests |-> 0]
  /\ starting' = {} /\ queue' = <<>> /\ deferred' = {} /\ exec' = NoExec /\ recovering' = {}
  /\ telling' = {} /\ handed' = {}
  /\ UNCHANGED <<rows, rules, shut, world, alive, starts, saw, ownerVars>>

(* The order the requests were made in.                                    *)
InOrder(S) == SetToSortSeq(S, <)

(* The next worker: closed conversations are forgotten, notices left are   *)
(* delivered, commands allowed and not started are queued, those left      *)
(* running are recovered before anything starts.                           *)
Start ==
  /\ ~up /\ ~shut /\ up' = TRUE
  /\ rows' = IF closed THEN Forgotten(life) ELSE rows
  /\ rules' = IF closed THEN {} ELSE rules
  /\ telling' = {r \in Requests : rows[r].note = "pending"}
  /\ recovering' = {r \in Requests : Running(r)}
  /\ queue' = InOrder({r \in Requests : Waiting(r)})
  /\ UNCHANGED <<shut, world, alive, starts, reviewVars, starting, deferred, exec, handed, ownerVars, events>>

(* Variant: a run whose process was never recorded is started after all.   *)
RecoveredAgain(row) == WithRun(row, IF row.pid THEN "ended" ELSE "waiting")

(* What was running is over, whatever became of it.                        *)
Recovered(row) == WithRun(row, "ended")

(* Only a process proven to be ours is stopped.                            *)
Recover(r) ==
  /\ up /\ r \in recovering /\ recovering' = recovering \ {r}
  /\ alive' = IF rows[r].pid THEN alive \ {r} ELSE alive
  /\ Completed(r, Recovered(rows[r]))
  /\ UNCHANGED <<rules, up, shut, world, starts, reviewVars, starting, queue, deferred, exec, noticeVars, ownerVars, events>>

Hold ==
  /\ ~shut /\ Event /\ shut' = TRUE
  /\ UNCHANGED <<rows, rules, up, world, alive, starts, reviewVars, runnerVars, noticeVars, ownerVars>>

(* The owner retries a held storage. Nothing else ends a hold.             *)
Release ==
  /\ shut /\ shut' = FALSE /\ deferred' = {}
  /\ UNCHANGED <<rows, rules, up, world, alive, starts, reviewVars, starting, queue, exec, recovering, noticeVars, ownerVars, events>>

(* Something writes to the files a decision rests on.                      *)
Edit ==
  /\ Event /\ world' = world + 1
  /\ UNCHANGED <<rows, rules, up, shut, alive, starts, reviewVars, runnerVars, noticeVars, ownerVars>>

-----------------------------------------------------------------------------
Reviewer ==
  \/ StartReview
  \/ ModelFails
  \/ \E verdict \in {"approve", "narrow", "owner"} : ModelAnswers(verdict)
  \/ ApplyReview
  \/ \E reached \in BOOLEAN : TellReview(reached)

Supervised == Start \/ \E close \in forgets : Forget(close)

Next ==
  \/ Reviewer \/ Supervised
  \/ \E r \in Requests :
       \/ \E kind \in Kinds[r] : Request(r, kind)
       \/ Deny(r) \/ AllowRule(r) \/ AllowRun(r)
       \/ \E reached \in BOOLEAN : Deliver(r, reached)
       \/ Undelivered(r) \/ StartRun(r) \/ Exit(r) \/ Recover(r)
  \/ \E field \in {"enabled", "resume"} : SetAutoReview(field)
  \/ \E waited \in BOOLEAN : Confirm(waited)
  \/ Close \/ Reopen \/ Hold \/ Release \/ Stop \/ Edit
  \/ Pump \/ SaveRunning \/ Launch \/ RecordProcess \/ Finish

Spec == Init /\ [][Next]_vars

(* Reviews have a time limit and are tried again after a failure; the next *)
(* worker starts, and the web asks again until a close was passed on.      *)
FairSpec == Spec /\ WF_vars(Reviewer) /\ WF_vars(Supervised)

-----------------------------------------------------------------------------
(* A command that was allowed once is started at most once, whenever the   *)
(* worker stops and however often a review or a start is repeated.         *)
RunsOnce == \A r \in Requests : starts[r] <= 1

(* A command the reviewer allowed starts only after a check of this very   *)
(* start found the files as the reviewer read them.                        *)
LaunchedAsReviewed ==
  [][\A r \in Requests : starts'[r] > starts[r] /\ rows[r].by = "auto" => exec.files = saw[r]]_vars

(* A command the reviewer allowed never overtakes an earlier one of its    *)
(* conversation that is with the reviewer.                                 *)
InTurn ==
  [][\A r, q \in Requests : starts'[r] > starts[r] /\ rows[r].by = "auto" /\ q < r => rows[q].kind = "rule" \/ ~InReview(q)]_vars

(* What the owner decided, by a choice or by closing the conversation,     *)
(* stays decided: no verdict that comes late, no notice that fails and no  *)
(* check before a start changes it.                                        *)
DecisionIsFinal ==
  [][\A r \in Requests : rows[r].by = "owner" => rows'[r].by = "owner" /\ rows'[r].status = rows[r].status]_vars

(* A request the reviewer sent back has reached its agent, or is with the  *)
(* owner again, once nothing of the review is left to do: "An agent never  *)
(* told to ask again would wait for good: the owner decides instead."      *)
SentBackIsHeard ==
  Open /\ rv = NoReview /\ telling = {} =>
    \A r \in Requests : rows[r].status = "withdrawn" /\ rows[r].by = "auto" => rows[r].note = "recorded"

(* As long as the owner retries a held storage, a request the reviewer has *)
(* is decided or left to the owner, whatever stops the review: a failing   *)
(* model, a stop of the worker, a hold, files that change. A hold that     *)
(* nobody ends stops the review for as long.                               *)
ReviewsEnd ==
  []<>~shut => ((\E r \in Requests : InReview(r)) ~> (\A r \in Requests : ~InReview(r)))
=============================================================================
