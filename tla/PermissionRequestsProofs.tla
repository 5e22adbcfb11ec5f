--------------------- MODULE PermissionRequestsProofs ---------------------
(* Proofs about PermissionRequests, for any number of requests, repeats    *)
(* and events.                                                             *)
EXTENDS PermissionRequests, TLAPS

Row == [status : {"none", "pending", "approved", "denied", "withdrawn"}, kind : {"run", "rule"},
        by : {"none", "owner", "auto"}, review : {"none", "queued", "running"}, files : Nat, rechecks : Nat,
        run : {"none", "waiting", "running", "ended"}, pid : BOOLEAN, note : {"none", "pending", "recorded"}, born : Nat]

Review == [at : {"idle", "reading", "verdict", "telling"}, req : Requests \cup {None}, seen : Nat, tell : BOOLEAN,
           verdict : {"none", "approve", "narrow", "owner"}]

Exec == [at : {"idle", "confirm", "save", "launch", "live", "running"}, req : Requests \cup {None}, files : Nat]

TypeOK ==
  /\ rows \in [Requests -> Row]
  /\ up \in BOOLEAN /\ shut \in BOOLEAN /\ closed \in BOOLEAN
  /\ settings \in [{"enabled", "resume"} -> BOOLEAN]
  /\ rv \in Review /\ exec \in Exec /\ recovering \subseteq Requests
  /\ life \in Nat /\ world \in Nat
  /\ starts \in [Requests -> Nat] /\ saw \in [Requests -> Nat]

(* The parts of a request agree: only what was allowed has a run, only a   *)
(* run saved as running may have been started, what the owner decided is   *)
(* decided, and a run the reviewer allowed waits with the files it read.   *)
RowAgrees(r) ==
  /\ rows[r].run # "none" => rows[r].status = "approved" /\ rows[r].kind = "run"
  /\ rows[r].run \in {"none", "waiting"} => starts[r] = 0
  /\ starts[r] <= 1
  /\ rows[r].by = "owner" => rows[r].status \in {"approved", "denied", "withdrawn"}
  /\ rows[r].by = "auto" => rows[r].status \in {"approved", "withdrawn"}
  /\ rows[r].by = "none" => rows[r].status \in {"none", "pending"}
  /\ rows[r].by = "auto" /\ rows[r].run = "waiting" => rows[r].files = saw[r]

RowsAgree == \A r \in Requests : RowAgrees(r)

(* Requests are made in their order.                                       *)
InOrderMade == \A r, q \in Requests : q < r /\ rows[r].status # "none" => rows[q].status # "none"

(* No earlier command is with the reviewer.                                *)
HasTurn(r) == \A q \in Requests : q < r => rows[q].kind = "rule" \/ ~InReview(q)

(* The command the runner works on is where its row says, was not started  *)
(* before its launch, and one the reviewer allowed was confirmed with the  *)
(* files it read and in its turn.                                          *)
ExecAgrees ==
  /\ exec.at # "idle" => up /\ exec.req \in Requests /\ recovering = {}
  /\ exec.at = "save" => Waiting(exec.req)
  /\ exec.at = "launch" => Running(exec.req) /\ starts[exec.req] = 0
  /\ exec.at \in {"live", "running"} => Running(exec.req)
  /\ exec.at \in {"save", "launch"} /\ rows[exec.req].by = "auto" => exec.files = saw[exec.req] /\ HasTurn(exec.req)

(* What is recovered was running when the worker stopped.                  *)
RecoveryAgrees == (~up => recovering = {}) /\ \A r \in recovering : Running(r)

(* The request that is read is still with the reviewer, or the owner       *)
(* decided it.                                                             *)
ReviewAgrees ==
  /\ rv.at # "idle" => rv.req \in Requests
  /\ rv.at \in {"reading", "verdict"} =>
       /\ rows[rv.req].by # "auto" /\ rows[rv.req].status # "none"
       /\ Pending(rv.req) => rows[rv.req].review = "running"

(* The inductive invariant.                                                *)
IInv == TypeOK /\ RowsAgree /\ InOrderMade /\ ExecAgrees /\ RecoveryAgrees /\ ReviewAgrees

USE PermissionRequestsAssumption DEF None

(* A saved row is the only one that changes.                               *)
LEMMA SavedRow ==
  ASSUME rows \in [Requests -> Row], NEW r \in Requests, NEW row \in Row, Saved(r, row)
  PROVE  /\ rows' \in [Requests -> Row] /\ rows'[r] = row
         /\ \A q \in Requests : q # r => rows'[q] = rows[q]
BY DEF Saved

(* What each change of a row leaves as it was.                             *)
Core(a, b) == a.status = b.status /\ a.kind = b.kind /\ a.by = b.by /\ a.run = b.run /\ a.files = b.files

LEMMA WithReviewRow ==
  ASSUME NEW row \in Row, NEW review \in {"none", "queued", "running"}
  PROVE  WithReview(row, review) \in Row /\ WithReview(row, review).review = review /\ Core(WithReview(row, review), row)
BY DEF WithReview, Row, Core

LEMMA WithNoteRow ==
  ASSUME NEW row \in Row, NEW note \in {"none", "pending", "recorded"}
  PROVE  WithNote(row, note) \in Row /\ WithNote(row, note).review = row.review /\ Core(WithNote(row, note), row)
BY DEF WithNote, Row, Core

LEMMA WithProcessRow ==
  ASSUME NEW row \in Row
  PROVE  WithProcess(row) \in Row /\ WithProcess(row).review = row.review /\ Core(WithProcess(row), row)
BY DEF WithProcess, Row, Core

LEMMA DecidedRow ==
  ASSUME NEW row \in Row, NEW status \in {"denied", "approved", "withdrawn"}
  PROVE  LET new == Decided(row, status)
         IN  new \in Row /\ new.status = status /\ new.by = "owner" /\ new.kind = row.kind /\ new.run = row.run
BY DEF Decided, Row

LEMMA WithRunRow ==
  ASSUME NEW row \in Row, NEW run \in {"waiting", "running", "ended"}
  PROVE  LET new == WithRun(row, run)
         IN  /\ new \in Row /\ new.run = run /\ new.status = row.status /\ new.by = row.by /\ new.kind = row.kind
             /\ new.review = row.review
BY DEF WithRun, Row

LEMMA BegunRow ==
  ASSUME NEW row \in Row
  PROVE  LET new == Begun(row)
         IN  /\ new \in Row /\ new.run = "running" /\ new.status = row.status /\ new.by = row.by /\ new.kind = row.kind
             /\ new.review = row.review
BY DEF Begun, Row

LEMMA VerdictRow ==
  ASSUME NEW row \in Row, NEW status \in {"approved", "withdrawn"}
  PROVE  LET new == Verdict(row, status)
         IN  new \in Row /\ new.status = status /\ new.by = "auto" /\ new.kind = row.kind /\ new.run = row.run
BY DEF Verdict, Row

LEMMA BoundRow ==
  ASSUME NEW row \in Row, rv.seen \in Nat
  PROVE  LET new == Bound(row)
         IN  /\ new \in Row /\ new.run = "waiting" /\ new.files = rv.seen /\ new.status = row.status
             /\ new.by = row.by /\ new.kind = row.kind
BY DEF Bound, Row

LEMMA ReopenedRow ==
  ASSUME NEW row \in Row, row.status = "withdrawn", row.by = "auto"
  PROVE  LET new == Reopened(row)
         IN  /\ new \in Row /\ new.status = "pending" /\ new.by = "none" /\ new.review = "none" /\ new.kind = row.kind
             /\ new.run = row.run
BY DEF Reopened, Row

LEMMA ReviewedAgainRow ==
  ASSUME NEW row \in Row, NEW stale \in BOOLEAN
  PROVE  LET new == ReviewedAgain(row, stale)
         IN  new \in Row /\ new.status = "pending" /\ new.by = "none" /\ new.run = "none" /\ new.kind = row.kind
<1> DEFINE n == IF stale THEN row.rechecks ELSE row.rechecks + 1
           v == IF stale \/ row.rechecks < MaxRechecks THEN "queued" ELSE "none"
<1>1. ReviewedAgain(row, stale) =
        [row EXCEPT !.status = "pending", !.by = "none", !.run = "none", !.rechecks = n, !.review = v]
  BY DEF ReviewedAgain
<1>2. n \in Nat /\ v \in {"queued", "none"}
  BY DEF Row
<1> HIDE DEF n, v
<1>3. PICK new : /\ new = ReviewedAgain(row, stale)
                 /\ new = [row EXCEPT !.status = "pending", !.by = "none", !.run = "none", !.rechecks = n, !.review = v]
  BY <1>1
<1>4. new.status = "pending" /\ new.by = "none" /\ new.run = "none" /\ new.kind = row.kind
  BY <1>3 DEF Row
<1>5. new = [status |-> "pending", kind |-> row.kind, by |-> "none", review |-> v, files |-> row.files,
             rechecks |-> n, run |-> "none", pid |-> row.pid, note |-> row.note, born |-> row.born]
  BY <1>3 DEF Row
<1>6. /\ row.kind \in {"run", "rule"} /\ row.files \in Nat /\ row.pid \in BOOLEAN
      /\ row.note \in {"none", "pending", "recorded"} /\ row.born \in Nat
  BY DEF Row
<1>7. new \in Row
  BY <1>2, <1>5, <1>6 DEF Row
<1> QED BY <1>3, <1>4, <1>7

LEMMA AskedRow ==
  ASSUME NEW kind \in {"run", "rule"}, life \in Nat
  PROVE  LET new == Asked(kind)
         IN  new \in Row /\ new.status = "pending" /\ new.by = "none" /\ new.run = "none"
BY DEF Asked, Blank, Row

(* What may happen to a row by other steps than the runner's: it stays     *)
(* (marks of its review and notice aside), is decided, or is the owner's   *)
(* again after the reviewer sent it back.                                  *)
Stays(r) ==
  /\ Core(rows'[r], rows[r]) /\ saw'[r] = saw[r]
  /\ rows'[r].review \in {"queued", "running"} => rows[r].review \in {"queued", "running"}

GetsDecided(r) ==
  /\ Pending(r) /\ rows'[r].kind = rows[r].kind
  /\ \/ rows'[r].by = "owner" /\ rows'[r].status \in {"approved", "denied", "withdrawn"}
     \/ rows'[r].by = "auto" /\ rows'[r].status \in {"approved", "withdrawn"}
  /\ \/ rows'[r].run = "none"
     \/ /\ rows'[r].run = "waiting" /\ rows'[r].status = "approved" /\ rows[r].kind = "run"
        /\ rows'[r].by = "auto" => rows'[r].files = saw'[r]

ComesBack(r) ==
  /\ rows[r].status = "withdrawn" /\ rows[r].by = "auto" /\ saw'[r] = saw[r]
  /\ rows'[r].status = "pending" /\ rows'[r].by = "none" /\ rows'[r].review = "none"
  /\ rows'[r].kind = rows[r].kind /\ rows'[r].run = rows[r].run

RowsMove == \A r \in Requests : Stays(r) \/ GetsDecided(r) \/ ComesBack(r)

LEMMA MovesKeep ==
  ASSUME IInv, rows' \in [Requests -> Row], RowsMove, starts' = starts
  PROVE  /\ RowsAgree' /\ InOrderMade'
         /\ up' = up /\ exec' = exec /\ recovering' = recovering => ExecAgrees' /\ RecoveryAgrees'
<1> USE DEF IInv, Core, Stays, GetsDecided, ComesBack
<1>1. RowsAgree'
  <2> SUFFICES ASSUME NEW r \in Requests PROVE RowAgrees(r)' BY DEF RowsAgree
  <2>1. RowAgrees(r) /\ (Stays(r) \/ GetsDecided(r) \/ ComesBack(r))
    BY DEF RowsMove, RowsAgree
  <2> QED BY <2>1 DEF RowAgrees, Pending, TypeOK, Row
<1>2. InOrderMade'
  BY DEF InOrderMade, RowsMove, Pending, TypeOK, Row
<1>3. ASSUME up' = up, exec' = exec, recovering' = recovering PROVE ExecAgrees' /\ RecoveryAgrees'
  <2>1. \A r \in Requests : Waiting(r) \/ Running(r) =>
           rows'[r].status = rows[r].status /\ rows'[r].run = rows[r].run /\ rows'[r].by = rows[r].by /\ saw'[r] = saw[r]
    BY DEF RowsMove, Waiting, Running, Pending
  <2>2. ASSUME NEW r \in Requests, HasTurn(r), NEW q \in Requests, q < r PROVE rows'[q].kind = "rule" \/ ~InReview(q)'
    <3>1. rows[q].kind = "rule" \/ ~InReview(q)
      BY <2>2 DEF HasTurn
    <3>2. rows'[q].kind = rows[q].kind
      BY DEF RowsMove
    <3>3. InReview(q)' => InReview(q)
      BY DEF RowsMove, InReview, Pending
    <3> QED BY <3>1, <3>2, <3>3
  <2>3. RecoveryAgrees'
    BY <1>3, <2>1 DEF RecoveryAgrees, TypeOK, Running
  <2>4. \A r \in Requests : HasTurn(r) => HasTurn(r)'
    BY <2>2 DEF HasTurn
  <2>5. ExecAgrees'
    BY <1>3, <2>1, <2>4 DEF ExecAgrees, Waiting, Running
  <2> QED BY <2>3, <2>5
<1> QED BY <1>1, <1>2, <1>3

(* What the owner decided stays so in this step.                           *)
Final == \A r \in Requests : rows[r].by = "owner" => rows'[r].by = "owner" /\ rows'[r].status = rows[r].status

LEMMA MovesFinal == IInv /\ RowsMove => Final
BY DEF RowsMove, Stays, GetsDecided, ComesBack, Core, Final, Pending, IInv, RowsAgree, RowAgrees

(* One saved row moves alone.                                              *)
LEMMA SavedMoves ==
  ASSUME IInv, NEW r \in Requests, NEW row \in Row, Saved(r, row),
         \A q \in Requests : q # r => saw'[q] = saw[q],
         (rows'[r] = row) => Stays(r) \/ GetsDecided(r) \/ ComesBack(r)
  PROVE  rows' \in [Requests -> Row] /\ rows'[r] = row /\ RowsMove /\ (\A q \in Requests : q # r => rows'[q] = rows[q])
<1>1. /\ rows' \in [Requests -> Row] /\ rows'[r] = row
      /\ \A q \in Requests : q # r => rows'[q] = rows[q]
  BY SavedRow DEF IInv, TypeOK
<1>2. \A q \in Requests : q # r => Stays(q)
  BY <1>1 DEF Stays, Core
<1> QED BY <1>1, <1>2 DEF RowsMove

(* A move leaves the request that is read with the reviewer, or decides it. *)
LEMMA ReviewKept ==
  ASSUME IInv, RowsMove, rv' = rv,
         \A r \in Requests : /\ rows'[r].by = "auto" => rows[r].by = "auto"
                             /\ Pending(r) /\ Pending(r)' => rows'[r].review = rows[r].review \/ rows[r].review = "queued"
  PROVE  ReviewAgrees'
<1>1. ASSUME rv.at \in {"reading", "verdict"}
      PROVE  /\ rows'[rv.req].by # "auto" /\ rows'[rv.req].status # "none"
             /\ rows'[rv.req].status = "pending" => rows'[rv.req].review = "running"
  <2> DEFINE r == rv.req
  <2>1. r \in Requests /\ rows[r].by # "auto" /\ rows[r].status # "none" /\ (Pending(r) => rows[r].review = "running")
    BY <1>1 DEF IInv, ReviewAgrees
  <2> HIDE DEF r
  <2>2. Stays(r) \/ GetsDecided(r)
    BY <2>1 DEF RowsMove, ComesBack
  <2>3. rows'[r].by # "auto" /\ rows'[r].status # "none" /\ (rows'[r].status = "pending" => rows'[r].review = "running")
    BY <2>1, <2>2 DEF Stays, GetsDecided, Core, Pending
  <2> QED BY <2>3 DEF r
<1>2. rv.at # "idle" => rv.req \in Requests
  BY DEF IInv, ReviewAgrees
<1> QED BY <1>1, <1>2 DEF ReviewAgrees, Pending

(* A step that only moves rows and keeps what the runner and the reviewer  *)
(* are at.                                                                 *)
LEMMA MovesKeepIInv ==
  ASSUME IInv, TypeOK', RowsMove, starts' = starts, up' = up, exec' = exec, recovering' = recovering, rv' = rv,
         \A r \in Requests : /\ rows'[r].by = "auto" => rows[r].by = "auto"
                             /\ Pending(r) /\ Pending(r)' => rows'[r].review = rows[r].review \/ rows[r].review = "queued"
  PROVE  IInv' /\ Final
<1>1. rows' \in [Requests -> Row]
  BY DEF TypeOK
<1>2. RowsAgree' /\ InOrderMade' /\ ExecAgrees' /\ RecoveryAgrees'
  BY <1>1, MovesKeep
<1>3. ReviewAgrees'
  BY ReviewKept
<1> QED BY <1>2, <1>3, MovesFinal DEF IInv

LEMMA RequestKeeps ==
  ASSUME IInv, NEW r \in Requests, NEW kind \in Kinds[r], Request(r, kind)
  PROVE  IInv' /\ Final
<1> DEFINE new == Asked(kind)
<1>1. new \in Row /\ new.status = "pending" /\ new.by = "none" /\ new.run = "none"
  BY AskedRow DEF IInv, TypeOK
<1> HIDE DEF new
<1>2. /\ rows' \in [Requests -> Row] /\ rows'[r] = new
      /\ \A q \in Requests : q # r => rows'[q] = rows[q]
  BY <1>1, SavedRow DEF IInv, TypeOK, Request, new
<1>3. rows[r].status = "none" /\ \A q \in Requests : q < r => rows[q].status # "none"
  BY DEF Request
<1>4. UNCHANGED <<up, shut, world, starts, saw, rv, exec, recovering, closed, life, settings>>
  BY DEF Request, reviewVars, runnerVars, ownerVars
<1>5. TypeOK'
  BY <1>2, <1>4 DEF IInv, TypeOK
<1>6. RowsAgree'
  <2> SUFFICES ASSUME NEW q \in Requests PROVE RowAgrees(q)' BY DEF RowsAgree
  <2>1. RowAgrees(q) /\ RowAgrees(r)
    BY DEF IInv, RowsAgree
  <2>2. CASE q = r
    BY <2>1, <2>2, <1>1, <1>2, <1>3, <1>4 DEF RowAgrees, IInv, TypeOK, Row
  <2>3. CASE q # r
    BY <2>1, <2>3, <1>2, <1>4 DEF RowAgrees
  <2> QED BY <2>2, <2>3
<1>7. InOrderMade'
  BY <1>1, <1>2, <1>3 DEF IInv, InOrderMade
<1>8. ExecAgrees'
  <2>1. \A q \in Requests : (Waiting(q) => Waiting(q)') /\ (Running(q) => Running(q)')
    BY <1>2, <1>3 DEF Waiting, Running
  <2>2. \A q \in Requests : Waiting(q) \/ Running(q) => rows'[q] = rows[q]
    BY <1>2, <1>3 DEF Waiting, Running
  <2>3. ASSUME NEW q \in Requests, Waiting(q) \/ Running(q), HasTurn(q) PROVE HasTurn(q)'
    <3> SUFFICES ASSUME NEW p \in Requests, p < q PROVE rows'[p].kind = "rule" \/ ~InReview(p)' BY DEF HasTurn
    <3>1. rows[q].status # "none"
      BY <2>3 DEF Waiting, Running
    <3>2. rows[p].status # "none"
      BY <3>1 DEF IInv, InOrderMade
    <3>3. rows'[p] = rows[p]
      BY <1>2, <1>3, <3>2
    <3> QED BY <3>3, <2>3 DEF HasTurn, InReview, Pending
  <2>4. exec.at # "idle" => exec.req \in Requests
    BY DEF IInv, ExecAgrees
  <2> QED BY <1>4, <2>1, <2>2, <2>3, <2>4 DEF IInv, ExecAgrees
<1>9. RecoveryAgrees'
  BY <1>2, <1>3, <1>4 DEF IInv, RecoveryAgrees, Running, TypeOK
<1>10. ReviewAgrees'
  BY <1>2, <1>3, <1>4 DEF IInv, ReviewAgrees, Pending
<1>11. Final
  BY <1>2, <1>3 DEF Final, IInv, RowsAgree, RowAgrees
<1> QED BY <1>5, <1>6, <1>7, <1>8, <1>9, <1>10, <1>11 DEF IInv

LEMMA DenyKeeps ==
  ASSUME IInv, NEW r \in Requests, Deny(r)
  PROVE  IInv' /\ Final
<1> DEFINE new == Decided(rows[r], "denied")
<1>1. /\ new \in Row /\ new.status = "denied" /\ new.by = "owner" /\ new.kind = rows[r].kind /\ new.run = rows[r].run
      /\ rows[r].run = "none"
  BY DecidedRow DEF IInv, TypeOK, RowsAgree, RowAgrees, Deny, Pending
<1> HIDE DEF new
<1>2. Pending(r) /\ Saved(r, new) /\ UNCHANGED <<up, shut, world, starts, saw, rv, exec, recovering, closed, life, settings>>
  BY DEF Deny, reviewVars, runnerVars, ownerVars, new
<1>3. rows' \in [Requests -> Row] /\ rows'[r] = new /\ RowsMove /\ (\A q \in Requests : q # r => rows'[q] = rows[q])
  BY <1>1, <1>2, SavedMoves DEF GetsDecided
<1>4. TypeOK'
  BY <1>2, <1>3 DEF IInv, TypeOK
<1> QED BY <1>1, <1>2, <1>3, <1>4, MovesKeepIInv DEF Pending

LEMMA AllowRuleKeeps ==
  ASSUME IInv, NEW r \in Requests, AllowRule(r)
  PROVE  IInv' /\ Final
<1> DEFINE new == Decided(rows[r], "approved")
<1>1. /\ new \in Row /\ new.status = "approved" /\ new.by = "owner" /\ new.kind = rows[r].kind /\ new.run = rows[r].run
      /\ rows[r].run = "none"
  BY DecidedRow DEF IInv, TypeOK, RowsAgree, RowAgrees, AllowRule, Pending
<1> HIDE DEF new
<1>2. Pending(r) /\ Saved(r, new) /\ UNCHANGED <<up, shut, world, starts, saw, rv, exec, recovering, closed, life, settings>>
  BY DEF AllowRule, reviewVars, runnerVars, ownerVars, new
<1>3. rows' \in [Requests -> Row] /\ rows'[r] = new /\ RowsMove /\ (\A q \in Requests : q # r => rows'[q] = rows[q])
  BY <1>1, <1>2, SavedMoves DEF GetsDecided
<1>4. TypeOK'
  BY <1>2, <1>3 DEF IInv, TypeOK
<1> QED BY <1>1, <1>2, <1>3, <1>4, MovesKeepIInv DEF Pending

LEMMA AllowRunKeeps ==
  ASSUME IInv, NEW r \in Requests, AllowRun(r)
  PROVE  IInv' /\ Final
<1> DEFINE row == Decided(rows[r], "approved")
           new == WithRun(row, "waiting")
<1>1. row \in Row /\ row.status = "approved" /\ row.by = "owner" /\ row.kind = rows[r].kind
  BY DecidedRow DEF IInv, TypeOK
<1> HIDE DEF row
<1>2. new \in Row /\ new.status = "approved" /\ new.by = "owner" /\ new.kind = rows[r].kind /\ new.run = "waiting"
  BY <1>1, WithRunRow
<1> HIDE DEF new
<1>3. /\ Pending(r) /\ rows[r].kind = "run" /\ Saved(r, new)
      /\ UNCHANGED <<up, shut, world, starts, saw, rv, exec, recovering, closed, life, settings>>
  BY DEF AllowRun, reviewVars, runnerVars, ownerVars, new, row
<1>4. rows' \in [Requests -> Row] /\ rows'[r] = new /\ RowsMove /\ (\A q \in Requests : q # r => rows'[q] = rows[q])
  BY <1>2, <1>3, SavedMoves DEF GetsDecided
<1>5. TypeOK'
  BY <1>3, <1>4 DEF IInv, TypeOK
<1> QED BY <1>2, <1>3, <1>4, <1>5, MovesKeepIInv DEF Pending

LEMMA SetAutoReviewKeeps ==
  ASSUME IInv, NEW field \in {"enabled", "resume"}, SetAutoReview(field)
  PROVE  IInv' /\ Final
<1> DEFINE off(r) == WithReview(rows[r], "none")
<1>1. UNCHANGED <<up, shut, world, starts, saw, rv, exec, recovering, closed, life>>
  BY DEF SetAutoReview, reviewVars, runnerVars
<1>2. PICK cut \in BOOLEAN : rows' = [r \in Requests |-> IF cut /\ Pending(r) /\ rows[r].review = "queued"
                                                       THEN off(r) ELSE rows[r]]
  BY DEF SetAutoReview
<1>3. \A r \in Requests : off(r) \in Row /\ off(r).review = "none" /\ Core(off(r), rows[r])
  BY WithReviewRow DEF IInv, TypeOK
<1> HIDE DEF off
<1>4. \A r \in Requests : rows'[r] = rows[r] \/ (rows'[r] = off(r) /\ rows[r].review = "queued")
  BY <1>2
<1>5. rows' \in [Requests -> Row]
  BY <1>2, <1>3 DEF IInv, TypeOK
<1>6. RowsMove /\ \A r \in Requests : Core(rows'[r], rows[r]) /\ (rows'[r] = rows[r] \/ rows[r].review = "queued")
  BY <1>1, <1>3, <1>4 DEF RowsMove, Stays, Core
<1>7. settings' \in [{"enabled", "resume"} -> BOOLEAN]
  BY DEF SetAutoReview, IInv, TypeOK
<1>8. TypeOK'
  BY <1>1, <1>5, <1>7 DEF IInv, TypeOK
<1> QED BY <1>1, <1>6, <1>8, MovesKeepIInv DEF Core

(* A step that moves rows and reviews.                                     *)
LEMMA ReviewMovesKeep ==
  ASSUME IInv, TypeOK', RowsMove, starts' = starts, up' = up, exec' = exec, recovering' = recovering, ReviewAgrees'
  PROVE  IInv' /\ Final
<1>1. rows' \in [Requests -> Row]
  BY DEF TypeOK
<1>2. RowsAgree' /\ InOrderMade' /\ ExecAgrees' /\ RecoveryAgrees'
  BY <1>1, MovesKeep
<1> QED BY <1>2, MovesFinal DEF IInv

(* A step that leaves rows, review and runner alone.                       *)
LEMMA FrameKeeps ==
  ASSUME IInv, TypeOK', UNCHANGED <<rows, up, starts, saw, rv, exec, recovering>>
  PROVE  IInv' /\ Final
<1>1. RowsMove
  BY DEF RowsMove, Stays, Core
<1>2. ReviewAgrees'
  BY DEF Pending, IInv, ReviewAgrees
<1> QED BY <1>1, <1>2, ReviewMovesKeep

LEMMA OutsideKeeps ==
  ASSUME IInv, Close \/ Reopen \/ Hold \/ Release \/ Edit \/ UNCHANGED vars \/ \E r \in Requests : Exit(r) \/ StartRun(r)
  PROVE  IInv' /\ Final
<1>1. UNCHANGED <<rows, up, starts, saw, rv, exec, recovering>>
  BY DEF Close, Reopen, Hold, Release, Edit, vars, Exit, StartRun, reviewVars, runnerVars
<1>2. life' \in Nat /\ world' \in Nat /\ shut' \in BOOLEAN /\ closed' \in BOOLEAN
  <2>1. \/ UNCHANGED <<shut, closed, life, world>>
        \/ closed' = TRUE /\ life' = life + 1 /\ UNCHANGED <<shut, world>>
        \/ closed' = FALSE /\ UNCHANGED <<shut, life, world>>
        \/ shut' \in BOOLEAN /\ UNCHANGED <<closed, life, world>>
        \/ world' = world + 1 /\ UNCHANGED <<shut, closed, life>>
    BY DEF Close, Reopen, Hold, Release, Edit, vars, Exit, StartRun, ownerVars
  <2>2. life' \in Nat /\ world' \in Nat
    BY <2>1, SMT DEF IInv, TypeOK
  <2>3. shut' \in BOOLEAN /\ closed' \in BOOLEAN
    BY <2>1, Zenon DEF IInv, TypeOK
  <2> QED BY <2>2, <2>3
<1>3. settings' = settings
  BY DEF Close, Reopen, Hold, Release, Edit, vars, Exit, StartRun, ownerVars
<1>4. TypeOK'
  BY <1>1, <1>2, <1>3 DEF IInv, TypeOK
<1> QED BY <1>1, <1>4, FrameKeeps

LEMMA ForgottenMoves ==
  ASSUME IInv, NEW close, rows' = Forgotten(close), saw' = saw
  PROVE  /\ rows' \in [Requests -> Row] /\ RowsMove
         /\ \A r \in Requests : rows'[r] = rows[r] \/ (rows'[r].by = "owner" /\ rows'[r].status = "withdrawn")
<1> DEFINE gone(r) == Decided(rows[r], "withdrawn")
<1>1. \A r \in Requests : /\ gone(r) \in Row /\ gone(r).status = "withdrawn" /\ gone(r).by = "owner"
                          /\ gone(r).kind = rows[r].kind /\ gone(r).run = rows[r].run
  BY DecidedRow DEF IInv, TypeOK
<1>2. rows' = [r \in Requests |-> IF Pending(r) /\ Before(r, close) THEN gone(r) ELSE rows[r]]
  BY DEF Forgotten
<1> HIDE DEF gone
<1>3. \A r \in Requests : rows'[r] = rows[r] \/ (Pending(r) /\ rows'[r] = gone(r))
  BY <1>2
<1>4. \A r \in Requests : Pending(r) => rows[r].run = "none"
  BY DEF IInv, RowsAgree, RowAgrees, Pending
<1>5. RowsMove
  BY <1>1, <1>3, <1>4 DEF RowsMove, Stays, Core, GetsDecided
<1>6. rows' \in [Requests -> Row]
  BY <1>1, <1>2 DEF IInv, TypeOK
<1> QED BY <1>1, <1>3, <1>5, <1>6

LEMMA ForgetKeeps ==
  ASSUME IInv, NEW close, Forget(close)
  PROVE  IInv' /\ Final
<1>1. rows' = Forgotten(close) /\ UNCHANGED <<up, shut, world, starts, saw, rv, exec, recovering, closed, life, settings>>
  BY DEF Forget, reviewVars, runnerVars
<1>2. /\ rows' \in [Requests -> Row] /\ RowsMove
      /\ \A r \in Requests : rows'[r] = rows[r] \/ (rows'[r].by = "owner" /\ rows'[r].status = "withdrawn")
  BY <1>1, ForgottenMoves
<1>3. TypeOK'
  BY <1>1, <1>2 DEF IInv, TypeOK
<1> QED BY <1>1, <1>2, <1>3, MovesKeepIInv DEF Pending

LEMMA NoReviewIsReview == NoReview \in Review /\ NoReview.at = "idle"
BY DEF NoReview, Review

LEMMA StartReviewKeeps ==
  ASSUME IInv, StartReview
  PROVE  IInv' /\ Final
<1>1. PICK r \in WaitingReview :
        \/ Saved(r, WithReview(rows[r], "none")) /\ rv' = rv
        \/ /\ Saved(r, WithReview(rows[r], "running"))
           /\ rv' = [NoReview EXCEPT !.at = "reading", !.req = r, !.seen = world, !.tell = settings.resume]
  BY DEF StartReview
<1>2. /\ r \in Requests /\ Pending(r) /\ rows[r].review \in {"queued", "running"} /\ rows[r].by # "auto"
      /\ rows[r] \in Row
  BY DEF WaitingReview, InReview, Pending, IInv, TypeOK, RowsAgree, RowAgrees
<1>3. rv = NoReview /\ UNCHANGED <<up, shut, world, starts, saw, exec, recovering, closed, life, settings>>
  BY DEF StartReview, runnerVars, ownerVars
<1>4. CASE Saved(r, WithReview(rows[r], "none")) /\ rv' = rv
  <2>1. WithReview(rows[r], "none") \in Row /\ WithReview(rows[r], "none").review = "none"
        /\ Core(WithReview(rows[r], "none"), rows[r])
    BY <1>2, WithReviewRow
  <2>2. rows' \in [Requests -> Row] /\ RowsMove
    BY <1>2, <1>3, <1>4, <2>1, SavedMoves DEF Stays
  <2>3. TypeOK'
    BY <1>3, <1>4, <2>2 DEF IInv, TypeOK
  <2>4. ReviewAgrees'
    BY <1>3, <1>4, NoReviewIsReview DEF ReviewAgrees
  <2> QED BY <1>3, <2>2, <2>3, <2>4, ReviewMovesKeep
<1>5. CASE /\ Saved(r, WithReview(rows[r], "running"))
           /\ rv' = [NoReview EXCEPT !.at = "reading", !.req = r, !.seen = world, !.tell = settings.resume]
  <2>1. WithReview(rows[r], "running") \in Row /\ WithReview(rows[r], "running").review = "running"
        /\ Core(WithReview(rows[r], "running"), rows[r])
    BY <1>2, WithReviewRow
  <2>2. rows' \in [Requests -> Row] /\ RowsMove /\ rows'[r] = WithReview(rows[r], "running")
    BY <1>2, <1>3, <1>5, <2>1, SavedMoves DEF Stays
  <2>3. rv'.at = "reading" /\ rv'.req = r
    BY <1>5 DEF NoReview
  <2>4. settings.resume \in BOOLEAN
    BY DEF IInv, TypeOK
  <2>5. rv' \in Review
    BY <1>2, <1>5, <2>4 DEF NoReview, Review, IInv, TypeOK
  <2>6. TypeOK'
    BY <1>3, <2>2, <2>5 DEF IInv, TypeOK
  <2>7. ReviewAgrees'
    BY <1>2, <2>1, <2>2, <2>3 DEF ReviewAgrees, Core, Pending
  <2> QED BY <1>3, <2>2, <2>6, <2>7, ReviewMovesKeep
<1> QED BY <1>1, <1>4, <1>5

(* The review ends: nothing is with the reviewer.                          *)
LEMMA ReviewEndsKeeps ==
  ASSUME IInv, NEW r \in Requests, NEW next \in Row, ReviewEnds(r, next), Core(next, rows[r]) \/ (
           rows[r].status = "withdrawn" /\ rows[r].by = "auto" /\ next.status = "pending" /\ next.by = "none"
           /\ next.review = "none" /\ next.kind = rows[r].kind /\ next.run = rows[r].run),
         next.review \in {"queued", "running"} => rows[r].review \in {"queued", "running"},
         UNCHANGED <<up, shut, world, starts, saw, exec, recovering, closed, life, settings>>
  PROVE  IInv' /\ Final
<1>1. rv' = NoReview /\ (rows' = rows \/ Saved(r, next))
  BY DEF ReviewEnds
<1>2. rows' \in [Requests -> Row] /\ RowsMove
  <2>1. CASE rows' = rows
    BY <2>1 DEF IInv, TypeOK, RowsMove, Stays, Core
  <2>2. CASE Saved(r, next)
    BY <2>2, SavedMoves DEF Stays, ComesBack
  <2> QED BY <1>1, <2>1, <2>2
<1>3. TypeOK'
  BY <1>1, <1>2, NoReviewIsReview DEF IInv, TypeOK
<1>4. ReviewAgrees'
  BY <1>1, NoReviewIsReview DEF ReviewAgrees
<1> QED BY <1>2, <1>3, <1>4, ReviewMovesKeep

LEMMA ModelFailsKeeps ==
  ASSUME IInv, ModelFails
  PROVE  IInv' /\ Final
<1>1. rv.req \in Requests /\ rows[rv.req] \in Row
  BY DEF ModelFails, IInv, ReviewAgrees, TypeOK
<1>2. /\ ReviewEnds(rv.req, WithReview(rows[rv.req], "none"))
      /\ UNCHANGED <<up, shut, world, starts, saw, exec, recovering, closed, life, settings>>
  BY DEF ModelFails, runnerVars, ownerVars
<1>3. WithReview(rows[rv.req], "none") \in Row /\ WithReview(rows[rv.req], "none").review = "none"
      /\ Core(WithReview(rows[rv.req], "none"), rows[rv.req])
  BY <1>1, WithReviewRow
<1> QED BY <1>1, <1>2, <1>3, ReviewEndsKeeps

LEMMA ModelAnswersKeeps ==
  ASSUME IInv, NEW verdict \in {"approve", "narrow", "owner"}, ModelAnswers(verdict)
  PROVE  IInv' /\ Final
<1>1. /\ rv.req \in Requests /\ rows[rv.req] \in Row /\ rv.at = "reading"
      /\ Pending(rv.req) => rows[rv.req].review = "running"
  BY DEF ModelAnswers, IInv, ReviewAgrees, TypeOK
<1>2. UNCHANGED <<up, shut, world, starts, saw, exec, recovering, closed, life, settings>>
  BY DEF ModelAnswers, runnerVars, ownerVars
<1>3. \/ ReviewEnds(rv.req, WithReview(rows[rv.req], "none"))
      \/ Pending(rv.req) /\ ReviewEnds(rv.req, WithReview(rows[rv.req], "queued"))
      \/ \E v \in {"approve", "narrow", "owner"} : rv' = [rv EXCEPT !.at = "verdict", !.verdict = v] /\ rows' = rows
  BY DEF ModelAnswers
<1>4. \A v \in {"none", "queued"} : /\ WithReview(rows[rv.req], v) \in Row /\ WithReview(rows[rv.req], v).review = v
                                    /\ Core(WithReview(rows[rv.req], v), rows[rv.req])
  BY <1>1, WithReviewRow
<1>5. CASE ReviewEnds(rv.req, WithReview(rows[rv.req], "none"))
  BY <1>1, <1>2, <1>4, <1>5, ReviewEndsKeeps
<1>6. CASE Pending(rv.req) /\ ReviewEnds(rv.req, WithReview(rows[rv.req], "queued"))
  BY <1>1, <1>2, <1>4, <1>6, ReviewEndsKeeps
<1>7. ASSUME NEW v \in {"approve", "narrow", "owner"}, rv' = [rv EXCEPT !.at = "verdict", !.verdict = v], rows' = rows
      PROVE  IInv' /\ Final
  <2>1. rv' \in Review /\ rv'.at = "verdict" /\ rv'.req = rv.req
    BY <1>7 DEF IInv, TypeOK, Review
  <2>2. TypeOK'
    BY <1>2, <1>7, <2>1 DEF IInv, TypeOK
  <2>3. RowsMove
    BY <1>2, <1>7 DEF RowsMove, Stays, Core
  <2>4. ReviewAgrees'
    BY <1>1, <1>7, <2>1 DEF IInv, ReviewAgrees, Pending
  <2> QED BY <1>2, <2>2, <2>3, <2>4, ReviewMovesKeep
<1> QED BY <1>3, <1>5, <1>6, <1>7

LEMMA ReopenedKinds ==
  ASSUME NEW row \in Row
  PROVE  /\ Reopened(row) \in Row
         /\ \/ Reopened(row) = row
            \/ /\ row.status = "withdrawn" /\ row.by = "auto"
               /\ Reopened(row).status = "pending" /\ Reopened(row).by = "none" /\ Reopened(row).review = "none"
               /\ Reopened(row).kind = row.kind /\ Reopened(row).run = row.run
<1>1. CASE row.status = "withdrawn" /\ row.by = "auto"
  BY <1>1, ReopenedRow
<1>2. CASE ~(row.status = "withdrawn" /\ row.by = "auto")
  BY <1>2 DEF Reopened
<1> QED BY <1>1, <1>2

LEMMA ApplyReviewKeeps ==
  ASSUME IInv, ApplyReview
  PROVE  IInv' /\ Final
<1> DEFINE r == rv.req
<1>1. /\ r \in Requests /\ rows[r] \in Row /\ rv.at = "verdict" /\ rv \in Review /\ rv.seen \in Nat
      /\ NoteLeft \in {"none", "pending", "recorded"}
  BY DEF ApplyReview, IInv, ReviewAgrees, TypeOK, Review, NoteLeft
<1>2. UNCHANGED <<up, shut, world, starts, exec, recovering, closed, life, settings>>
  BY DEF ApplyReview, ownerVars
<1>3. \/ rv' = NoReview /\ UNCHANGED <<rows, saw>>
      \/ rv' = NoReview /\ Saved(r, WithReview(rows[r], "none")) /\ saw' = saw
      \/ /\ Pending(r) /\ rows[r].kind = "run" /\ rv' = NoReview
         /\ Saved(r, Bound(Verdict(rows[r], "approved"))) /\ saw' = [saw EXCEPT ![r] = rv.seen]
      \/ \E status \in {"approved", "withdrawn"} :
           /\ Pending(r) /\ rv' = [rv EXCEPT !.at = "telling"] /\ saw' = saw
           /\ Saved(r, WithNote(Verdict(rows[r], status), NoteLeft))
  BY DEF ApplyReview, Decides
<1>4. Pending(r) => rows[r].run = "none"
  BY <1>1 DEF IInv, RowsAgree, RowAgrees, Pending
<1> HIDE DEF r
<1>5. ASSUME rv' = NoReview \/ rv' = [rv EXCEPT !.at = "telling"], rows' \in [Requests -> Row], RowsMove,
             saw' \in [Requests -> Nat]
      PROVE  IInv' /\ Final
  <2>1. rv' \in Review /\ rv'.at \in {"idle", "telling"} /\ (rv'.at # "idle" => rv'.req \in Requests)
    BY <1>1, <1>5, NoReviewIsReview DEF Review, r
  <2>2. TypeOK'
    BY <1>2, <1>5, <2>1 DEF IInv, TypeOK
  <2>3. ReviewAgrees'
    BY <2>1 DEF ReviewAgrees
  <2> QED BY <1>2, <1>5, <2>2, <2>3, ReviewMovesKeep
<1>6. CASE rv' = NoReview /\ UNCHANGED <<rows, saw>>
  <2>1. RowsMove
    BY <1>6 DEF RowsMove, Stays, Core
  <2> QED BY <1>5, <1>6, <2>1 DEF IInv, TypeOK
<1>7. CASE rv' = NoReview /\ Saved(r, WithReview(rows[r], "none")) /\ saw' = saw
  <2>1. WithReview(rows[r], "none") \in Row /\ WithReview(rows[r], "none").review = "none"
        /\ Core(WithReview(rows[r], "none"), rows[r])
    BY <1>1, WithReviewRow
  <2>2. rows' \in [Requests -> Row] /\ RowsMove
    BY <1>1, <1>7, <2>1, SavedMoves DEF Stays
  <2> QED BY <1>5, <1>7, <2>2 DEF IInv, TypeOK
<1>8. CASE /\ Pending(r) /\ rows[r].kind = "run" /\ rv' = NoReview
           /\ Saved(r, Bound(Verdict(rows[r], "approved"))) /\ saw' = [saw EXCEPT ![r] = rv.seen]
  <2> DEFINE row == Verdict(rows[r], "approved")
             new == Bound(row)
  <2>1. row \in Row /\ row.status = "approved" /\ row.by = "auto" /\ row.kind = "run"
    BY <1>1, <1>8, VerdictRow
  <2> HIDE DEF row
  <2>2. new \in Row /\ new.run = "waiting" /\ new.files = rv.seen /\ new.status = "approved" /\ new.by = "auto"
        /\ new.kind = "run"
    BY <1>1, <2>1, BoundRow
  <2>3. Saved(r, new)
    BY <1>8 DEF row
  <2> HIDE DEF new
  <2>4. saw' \in [Requests -> Nat] /\ saw'[r] = rv.seen /\ \A q \in Requests : q # r => saw'[q] = saw[q]
    BY <1>1, <1>8 DEF IInv, TypeOK
  <2>5. rows' \in [Requests -> Row] /\ RowsMove
    BY <1>1, <1>8, <2>2, <2>3, <2>4, SavedMoves DEF GetsDecided
  <2> QED BY <1>5, <1>8, <2>4, <2>5
<1>9. ASSUME NEW status \in {"approved", "withdrawn"}, Pending(r), rv' = [rv EXCEPT !.at = "telling"], saw' = saw,
             Saved(r, WithNote(Verdict(rows[r], status), NoteLeft))
      PROVE  IInv' /\ Final
  <2> DEFINE row == Verdict(rows[r], status)
             new == WithNote(row, NoteLeft)
  <2>1. row \in Row /\ row.status = status /\ row.by = "auto" /\ row.kind = rows[r].kind /\ row.run = "none"
    BY <1>1, <1>4, <1>9, VerdictRow
  <2>2. Saved(r, new)
    BY <1>9
  <2> HIDE DEF row
  <2>3. new \in Row /\ new.run = "none" /\ new.status = status /\ new.by = "auto" /\ new.kind = rows[r].kind
    BY <1>1, <2>1, WithNoteRow DEF Core
  <2> HIDE DEF new
  <2>4. rows' \in [Requests -> Row] /\ RowsMove
    BY <1>1, <1>9, <2>2, <2>3, SavedMoves DEF GetsDecided
  <2> QED BY <1>5, <1>9, <2>4 DEF IInv, TypeOK
<1> QED BY <1>3, <1>6, <1>7, <1>8, <1>9

LEMMA TellReviewKeeps ==
  ASSUME IInv, NEW reached \in BOOLEAN, TellReview(reached)
  PROVE  IInv' /\ Final
<1> DEFINE r == rv.req
<1>1. r \in Requests /\ rows[r] \in Row
  BY DEF TellReview, IInv, ReviewAgrees, TypeOK
<1>2. UNCHANGED <<up, shut, world, starts, saw, exec, recovering, closed, life, settings>>
  BY DEF TellReview, runnerVars, ownerVars
<1>3. rv' = NoReview /\ (rows' = rows \/ Saved(r, WithNote(rows[r], "recorded")) \/ Saved(r, Reopened(rows[r])))
  BY DEF TellReview, Recorded, ReviewEnds
<1> HIDE DEF r
<1>4. WithNote(rows[r], "recorded") \in Row /\ WithNote(rows[r], "recorded").review = rows[r].review
      /\ Core(WithNote(rows[r], "recorded"), rows[r])
  BY <1>1, WithNoteRow
<1>5. rows' \in [Requests -> Row] /\ RowsMove
  <2>1. CASE rows' = rows
    BY <1>2, <2>1 DEF IInv, TypeOK, RowsMove, Stays, Core
  <2>2. CASE Saved(r, WithNote(rows[r], "recorded"))
    BY <1>1, <1>2, <1>4, <2>2, SavedMoves DEF Stays
  <2>3. CASE Saved(r, Reopened(rows[r]))
    BY <1>1, <1>2, <2>3, SavedMoves, ReopenedKinds DEF Stays, ComesBack, Core
  <2> QED BY <1>3, <2>1, <2>2, <2>3
<1>6. TypeOK'
  BY <1>2, <1>3, <1>5, NoReviewIsReview DEF IInv, TypeOK
<1>7. ReviewAgrees'
  BY <1>3, NoReviewIsReview DEF ReviewAgrees
<1> QED BY <1>2, <1>5, <1>6, <1>7, ReviewMovesKeep

LEMMA NoticeKeeps ==
  ASSUME IInv, NEW r \in Requests, Undelivered(r) \/ \E reached \in BOOLEAN : Deliver(r, reached)
  PROVE  IInv' /\ Final
<1>1. UNCHANGED <<up, shut, world, starts, saw, rv, exec, recovering, closed, life, settings>>
  BY DEF Deliver, Undelivered, reviewVars, runnerVars, ownerVars
<1>2. rows' = rows \/ Saved(r, WithNote(rows[r], "recorded")) \/ Saved(r, Reopened(rows[r]))
  BY DEF Deliver, Undelivered, Recorded
<1>3. rows[r] \in Row
  BY DEF IInv, TypeOK
<1>4. WithNote(rows[r], "recorded") \in Row /\ WithNote(rows[r], "recorded").review = rows[r].review
      /\ Core(WithNote(rows[r], "recorded"), rows[r])
  BY <1>3, WithNoteRow
<1>5. /\ rows' \in [Requests -> Row] /\ RowsMove
      /\ \A q \in Requests : /\ rows'[q].by = "auto" => rows[q].by = "auto"
                             /\ Pending(q) /\ Pending(q)' => rows'[q].review = rows[q].review
  <2>1. CASE rows' = rows
    BY <1>1, <2>1 DEF IInv, TypeOK, RowsMove, Stays, Core
  <2>2. CASE Saved(r, WithNote(rows[r], "recorded"))
    BY <1>1, <1>4, <2>2, SavedMoves DEF Stays, Core
  <2>3. CASE Saved(r, Reopened(rows[r]))
    BY <1>1, <1>3, <2>3, SavedMoves, ReopenedKinds DEF Stays, ComesBack, Core, Pending
  <2> QED BY <1>2, <2>1, <2>2, <2>3
<1>6. TypeOK'
  BY <1>1, <1>5 DEF IInv, TypeOK
<1> QED BY <1>1, <1>5, <1>6, MovesKeepIInv

(* The runner changes a row that was allowed.                              *)
LEMMA RunnerMoves ==
  ASSUME IInv, NEW r \in Requests, NEW row \in Row, Saved(r, row), rows[r].status = "approved",
         row.kind = rows[r].kind, row.status # "none", row.by = "auto" \/ row.status = "pending" => rows[r].by = "auto",
         rows[r].by = "owner" => row.by = "owner" /\ row.status = "approved",
         rv' = rv, \A q \in Requests : q # r => starts'[q] = starts[q] /\ saw'[q] = saw[q],
         rows'[r] = row => RowAgrees(r)'
  PROVE  /\ rows' \in [Requests -> Row] /\ rows'[r] = row /\ \A q \in Requests : q # r => rows'[q] = rows[q]
         /\ RowsAgree' /\ InOrderMade' /\ ReviewAgrees' /\ Final
<1>1. rows' \in [Requests -> Row] /\ rows'[r] = row /\ \A q \in Requests : q # r => rows'[q] = rows[q]
  BY SavedRow DEF IInv, TypeOK
<1>2. RowsAgree'
  <2> SUFFICES ASSUME NEW q \in Requests, q # r PROVE RowAgrees(q)' BY <1>1 DEF RowsAgree
  <2> QED BY <1>1 DEF IInv, RowsAgree, RowAgrees
<1>3. InOrderMade'
  BY <1>1 DEF IInv, InOrderMade
<1>4. ReviewAgrees'
  BY <1>1 DEF IInv, ReviewAgrees, Pending
<1>5. Final
  BY <1>1 DEF Final
<1> QED BY <1>1, <1>2, <1>3, <1>4, <1>5

LEMMA NoExecIsExec == NoExec \in Exec /\ NoExec.at = "idle"
BY DEF NoExec, Exec

(* The runner puts its command down.                                       *)
LEMMA IdleKeeps ==
  ASSUME IInv, exec' = NoExec, UNCHANGED <<rows, up, shut, world, starts, saw, rv, recovering, closed, life, settings>>
  PROVE  IInv' /\ Final
<1>1. TypeOK' /\ ExecAgrees'
  BY NoExecIsExec DEF IInv, TypeOK, ExecAgrees
<1>2. RowsAgree' /\ InOrderMade'
  BY DEF IInv, RowsAgree, RowAgrees, InOrderMade
<1>3. RecoveryAgrees' /\ ReviewAgrees'
  BY DEF IInv, RecoveryAgrees, ReviewAgrees, Running, Pending
<1> QED BY <1>1, <1>2, <1>3 DEF IInv, Final

(* The runner ends a command.                                              *)
LEMMA EndedKeeps ==
  ASSUME IInv, exec.at # "idle", Waiting(exec.req) \/ Running(exec.req), Saved(exec.req, WithRun(rows[exec.req], "ended")),
         exec' = NoExec, saw' \in [Requests -> Nat], \A q \in Requests : q # exec.req => saw'[q] = saw[q],
         UNCHANGED <<up, shut, world, starts, rv, recovering, closed, life, settings>>
  PROVE  IInv' /\ Final
<1>0. PICK r \in Requests : r = exec.req
  BY DEF IInv, ExecAgrees
<1> DEFINE new == WithRun(rows[r], "ended")
<1>1. r \in Requests /\ rows[r] \in Row /\ recovering = {}
  BY DEF IInv, ExecAgrees, TypeOK
<1>2. rows[r].status = "approved" /\ Saved(r, new) /\ \A q \in Requests : q # r => saw'[q] = saw[q]
  BY <1>0 DEF Waiting, Running
<1>3. /\ new \in Row /\ new.run = "ended" /\ new.status = rows[r].status /\ new.by = rows[r].by
      /\ new.kind = rows[r].kind
  BY <1>1, WithRunRow
<1> HIDE DEF new
<1>4. RowAgrees(r) /\ rows[r].run \in {"waiting", "running"}
  BY <1>0 DEF IInv, RowsAgree, Waiting, Running
<1>5. rows'[r] = new => RowAgrees(r)'
  BY <1>2, <1>3, <1>4 DEF RowAgrees
<1>6. rows' \in [Requests -> Row] /\ RowsAgree' /\ InOrderMade' /\ ReviewAgrees' /\ Final
  BY <1>1, <1>2, <1>3, <1>5, RunnerMoves
<1>7. TypeOK' /\ ExecAgrees' /\ RecoveryAgrees'
  BY <1>1, <1>6, NoExecIsExec DEF IInv, TypeOK, ExecAgrees, RecoveryAgrees
<1> QED BY <1>6, <1>7 DEF IInv

LEMMA PumpKeeps ==
  ASSUME IInv, Pump
  PROVE  IInv' /\ Final
<1>1. PICK r \in Requests : exec' = [NoExec EXCEPT !.at = "confirm", !.req = r]
  BY DEF Pump
<1>2. up /\ recovering = {} /\ UNCHANGED <<rows, up, shut, world, starts, saw, rv, recovering, closed, life, settings>>
  BY DEF Pump, Ready, reviewVars, ownerVars
<1>3. exec' \in Exec /\ exec'.at = "confirm" /\ exec'.req = r
  BY <1>1 DEF NoExec, Exec
<1>4. TypeOK' /\ ExecAgrees'
  BY <1>2, <1>3 DEF IInv, TypeOK, ExecAgrees
<1>5. RowsAgree' /\ InOrderMade'
  BY <1>2 DEF IInv, RowsAgree, RowAgrees, InOrderMade
<1>6. RecoveryAgrees' /\ ReviewAgrees'
  BY <1>2 DEF IInv, RecoveryAgrees, ReviewAgrees, Running, Pending
<1> QED BY <1>2, <1>4, <1>5, <1>6 DEF IInv, Final

LEMMA ConfirmKeeps ==
  ASSUME IInv, NEW waited \in BOOLEAN, Confirm(waited)
  PROVE  IInv' /\ Final
<1>0. PICK r \in Requests : r = exec.req
  BY DEF Confirm, IInv, ExecAgrees
<1>1. /\ r \in Requests /\ rows[r] \in Row /\ RowAgrees(r) /\ up /\ recovering = {} /\ exec.at = "confirm"
      /\ exec \in Exec /\ world \in Nat
  BY <1>0 DEF Confirm, IInv, ExecAgrees, TypeOK, RowsAgree
<1>2. UNCHANGED <<up, shut, world, starts, saw, rv, recovering, closed, life, settings>>
  BY DEF Confirm, reviewVars, ownerVars
<1>3. \/ exec' = NoExec /\ rows' = rows
      \/ Waiting(r) /\ exec' = NoExec /\ Saved(r, WithRun(rows[r], "ended"))
      \/ /\ Waiting(r) /\ rows' = rows /\ exec' = [exec EXCEPT !.at = "save", !.files = world]
         /\ rows[r].by = "owner" \/ (~Overtakes(r) /\ AsReviewed(r))
      \/ \E stale \in BOOLEAN : Waiting(r) /\ rows[r].by = "auto" /\ exec' = NoExec /\ Saved(r, ReviewedAgain(rows[r], stale))
  BY <1>0 DEF Confirm, Defer
<1>4. CASE exec' = NoExec /\ rows' = rows
  BY <1>2, <1>4, IdleKeeps
<1>5. CASE Waiting(r) /\ exec' = NoExec /\ Saved(r, WithRun(rows[r], "ended"))
  BY <1>0, <1>1, <1>2, <1>5, EndedKeeps DEF IInv, TypeOK
<1>6. CASE /\ Waiting(r) /\ rows' = rows /\ exec' = [exec EXCEPT !.at = "save", !.files = world]
           /\ rows[r].by = "owner" \/ (~Overtakes(r) /\ AsReviewed(r))
  <2>1. exec' \in Exec /\ exec'.at = "save" /\ exec'.req = r /\ exec'.files = world
    BY <1>0, <1>1, <1>6 DEF Exec
  <2>2. ASSUME rows[r].by = "auto" PROVE world = saw[r] /\ HasTurn(r)
    <3>1. world = saw[r]
      BY <1>1, <1>6, <2>2 DEF RowAgrees, AsReviewed, Waiting
    <3>2. ASSUME NEW q \in Requests, q < r PROVE rows[q].kind = "rule" \/ ~InReview(q)
      BY <1>6, <2>2, <3>2 DEF Overtakes, IInv, TypeOK, Row
    <3> QED BY <3>1, <3>2 DEF HasTurn
  <2>3. Waiting(r)' /\ (HasTurn(r) => HasTurn(r)')
    BY <1>6 DEF Waiting, HasTurn, InReview, Pending
  <2>4. ExecAgrees'
    BY <1>1, <1>2, <1>6, <2>1, <2>2, <2>3 DEF ExecAgrees
  <2>5. TypeOK' /\ RecoveryAgrees'
    BY <1>1, <1>2, <1>6, <2>1 DEF IInv, TypeOK, RecoveryAgrees
  <2>6. RowsAgree' /\ InOrderMade'
    BY <1>2, <1>6 DEF IInv, RowsAgree, RowAgrees, InOrderMade
  <2>7. ReviewAgrees'
    BY <1>2, <1>6 DEF IInv, ReviewAgrees, Pending
  <2> QED BY <1>6, <2>4, <2>5, <2>6, <2>7 DEF IInv, Final
<1>7. ASSUME NEW stale \in BOOLEAN, Waiting(r), rows[r].by = "auto", exec' = NoExec, Saved(r, ReviewedAgain(rows[r], stale))
      PROVE  IInv' /\ Final
  <2> DEFINE new == ReviewedAgain(rows[r], stale)
  <2>1. new \in Row /\ new.status = "pending" /\ new.by = "none" /\ new.run = "none" /\ new.kind = rows[r].kind
    BY <1>1, ReviewedAgainRow
  <2>2. rows[r].status = "approved" /\ starts[r] = 0 /\ Saved(r, new)
    BY <1>1, <1>7 DEF RowAgrees, Waiting
  <2> HIDE DEF new
  <2>3. rows'[r] = new => RowAgrees(r)'
    BY <1>2, <2>1, <2>2 DEF RowAgrees
  <2>4. rows' \in [Requests -> Row] /\ RowsAgree' /\ InOrderMade' /\ ReviewAgrees' /\ Final
    BY <1>1, <1>2, <1>7, <2>1, <2>2, <2>3, RunnerMoves
  <2>5. TypeOK' /\ ExecAgrees' /\ RecoveryAgrees'
    BY <1>1, <1>2, <1>7, <2>4, NoExecIsExec DEF IInv, TypeOK, ExecAgrees, RecoveryAgrees
  <2> QED BY <2>4, <2>5 DEF IInv
<1> QED BY <1>3, <1>4, <1>5, <1>6, <1>7

LEMMA SaveRunningKeeps ==
  ASSUME IInv, SaveRunning
  PROVE  IInv' /\ Final
<1>0. PICK r \in Requests : r = exec.req
  BY DEF SaveRunning, IInv, ExecAgrees
<1>1. /\ rows[r] \in Row /\ RowAgrees(r) /\ up /\ recovering = {} /\ exec.at = "save" /\ exec \in Exec /\ Waiting(r)
      /\ rows[r].by = "auto" => exec.files = saw[r] /\ HasTurn(r)
  BY <1>0 DEF SaveRunning, IInv, ExecAgrees, TypeOK, RowsAgree
<1>2. UNCHANGED <<up, shut, world, starts, saw, rv, recovering, closed, life, settings>>
  BY DEF SaveRunning, reviewVars, ownerVars
<1> DEFINE new == Begun(rows[r])
<1>3. \/ exec' = NoExec /\ rows' = rows
      \/ Saved(r, new) /\ exec' = [exec EXCEPT !.at = "launch"]
  BY <1>0 DEF SaveRunning, Defer
<1>4. CASE exec' = NoExec /\ rows' = rows
  BY <1>2, <1>4, IdleKeeps
<1>5. CASE Saved(r, new) /\ exec' = [exec EXCEPT !.at = "launch"]
  <2>1. /\ new \in Row /\ new.run = "running" /\ new.status = "approved" /\ new.by = rows[r].by /\ new.kind = rows[r].kind
    BY <1>1, BegunRow DEF Waiting
  <2>2. rows[r].status = "approved" /\ starts[r] = 0
    BY <1>1 DEF RowAgrees, Waiting
  <2> HIDE DEF new
  <2>3. rows'[r] = new => RowAgrees(r)'
    BY <1>1, <1>2, <2>1, <2>2 DEF RowAgrees, Waiting
  <2>4. /\ rows' \in [Requests -> Row] /\ RowsAgree' /\ InOrderMade' /\ ReviewAgrees' /\ Final /\ rows'[r] = new
        /\ \A q \in Requests : q # r => rows'[q] = rows[q]
    BY <1>2, <1>5, <2>1, <2>2, <2>3, RunnerMoves
  <2>5. exec' \in Exec /\ exec'.at = "launch" /\ exec'.req = r /\ exec'.files = exec.files
    BY <1>0, <1>1, <1>5 DEF Exec
  <2>6. HasTurn(r) => HasTurn(r)'
    <3> SUFFICES ASSUME HasTurn(r), NEW q \in Requests, q < r PROVE rows'[q].kind = "rule" \/ ~InReview(q)'
      BY DEF HasTurn
    <3>1. q # r
      OBVIOUS
    <3> QED BY <2>4, <3>1 DEF HasTurn, InReview, Pending
  <2>7. ExecAgrees'
    BY <1>1, <1>2, <2>1, <2>2, <2>4, <2>5, <2>6 DEF ExecAgrees, Running
  <2>8. TypeOK' /\ RecoveryAgrees'
    BY <1>1, <1>2, <2>4, <2>5 DEF IInv, TypeOK, RecoveryAgrees
  <2> QED BY <2>4, <2>7, <2>8 DEF IInv
<1> QED BY <1>3, <1>4, <1>5

LEMMA LaunchKeeps ==
  ASSUME IInv, Launch
  PROVE  IInv' /\ Final
<1>0. PICK r \in Requests : r = exec.req
  BY DEF Launch, IInv, ExecAgrees
<1>1. /\ rows[r] \in Row /\ RowAgrees(r) /\ up /\ recovering = {} /\ exec.at = "launch" /\ exec \in Exec /\ Running(r)
      /\ starts[r] = 0
  BY <1>0 DEF Launch, IInv, ExecAgrees, TypeOK, RowsAgree
<1>2. UNCHANGED <<up, shut, world, rv, recovering, closed, life, settings>> /\ saw' = [saw EXCEPT ![r] = 0]
  BY <1>0 DEF Launch, ownerVars
<1>3. \/ exec' = NoExec /\ rows' = rows /\ starts' = starts
      \/ exec' = NoExec /\ Saved(r, WithRun(rows[r], "ended")) /\ starts' = starts
      \/ exec' = [NoExec EXCEPT !.at = "live", !.req = r] /\ rows' = rows /\ starts' = [starts EXCEPT ![r] = @ + 1]
  BY <1>0 DEF Launch
<1>4. saw' \in [Requests -> Nat] /\ \A q \in Requests : q # r => saw'[q] = saw[q]
  BY <1>2 DEF IInv, TypeOK
<1>5. CASE exec' = NoExec /\ Saved(r, WithRun(rows[r], "ended")) /\ starts' = starts
  BY <1>0, <1>1, <1>2, <1>4, <1>5, EndedKeeps
<1>6. CASE \/ exec' = NoExec /\ rows' = rows /\ starts' = starts
           \/ exec' = [NoExec EXCEPT !.at = "live", !.req = r] /\ rows' = rows /\ starts' = [starts EXCEPT ![r] = @ + 1]
  <2>1. /\ starts' \in [Requests -> Nat] /\ starts'[r] <= 1
        /\ \A q \in Requests : q # r => starts'[q] = starts[q]
    BY <1>1, <1>6 DEF IInv, TypeOK
  <2>2. exec' \in Exec /\ (exec'.at = "idle" \/ (exec'.at = "live" /\ exec'.req = r))
    BY <1>6, NoExecIsExec DEF NoExec, Exec
  <2>3. RowAgrees(r)'
    BY <1>1, <1>6, <2>1 DEF RowAgrees, Running
  <2>4. RowsAgree'
    BY <1>4, <1>6, <2>1, <2>3 DEF IInv, RowsAgree, RowAgrees
  <2>5. TypeOK' /\ RecoveryAgrees'
    BY <1>1, <1>2, <1>4, <1>6, <2>1, <2>2 DEF IInv, TypeOK, RecoveryAgrees
  <2>6. ExecAgrees'
    BY <1>1, <1>2, <1>6, <2>2 DEF ExecAgrees, Running
  <2>7. InOrderMade' /\ ReviewAgrees'
    BY <1>2, <1>6 DEF IInv, InOrderMade, ReviewAgrees, Pending
  <2> QED BY <1>6, <2>4, <2>5, <2>6, <2>7 DEF IInv, Final
<1> QED BY <1>3, <1>5, <1>6

LEMMA RecordProcessKeeps ==
  ASSUME IInv, RecordProcess
  PROVE  IInv' /\ Final
<1>0. PICK r \in Requests : r = exec.req
  BY DEF RecordProcess, IInv, ExecAgrees
<1>1. /\ rows[r] \in Row /\ RowAgrees(r) /\ up /\ recovering = {} /\ exec.at = "live" /\ exec \in Exec /\ Running(r)
  BY <1>0 DEF RecordProcess, IInv, ExecAgrees, TypeOK, RowsAgree
<1>2. UNCHANGED <<up, shut, world, starts, saw, rv, recovering, closed, life, settings>>
  BY DEF RecordProcess, reviewVars, ownerVars
<1> DEFINE new == WithProcess(rows[r])
<1>3. exec' = [exec EXCEPT !.at = "running"] /\ (rows' = rows \/ Saved(r, new))
  BY <1>0 DEF RecordProcess
<1>4. new \in Row /\ Core(new, rows[r])
  BY <1>1, WithProcessRow
<1> HIDE DEF new
<1>5. /\ rows' \in [Requests -> Row] /\ RowsAgree' /\ InOrderMade' /\ ReviewAgrees' /\ Final
      /\ rows'[r] = rows[r] \/ rows'[r] = new
  <2>1. CASE rows' = rows
    BY <1>2, <2>1 DEF IInv, TypeOK, RowsAgree, RowAgrees, InOrderMade, ReviewAgrees, Pending, Final
  <2>2. CASE Saved(r, new)
    <3>1. rows'[r] = new => RowAgrees(r)'
      BY <1>1, <1>2, <1>4 DEF RowAgrees, Core
    <3>2. /\ new.status = rows[r].status /\ new.kind = rows[r].kind /\ new.by = rows[r].by
          /\ rows[r].status = "approved"
      BY <1>1, <1>4 DEF Core, Running
    <3>3. \A q \in Requests : starts'[q] = starts[q] /\ saw'[q] = saw[q]
      BY <1>2
    <3>4. rv' = rv /\ new \in Row /\ Saved(r, new)
      BY <1>2, <1>4, <2>2
    <3>5. /\ rows' \in [Requests -> Row] /\ rows'[r] = new
          /\ RowsAgree' /\ InOrderMade' /\ ReviewAgrees' /\ Final
      BY <3>1, <3>2, <3>3, <3>4, RunnerMoves
    <3> QED BY <3>5
  <2> QED BY <1>3, <2>1, <2>2
<1>6. exec' \in Exec /\ exec'.at = "running" /\ exec'.req = r
  BY <1>0, <1>1, <1>3 DEF Exec
<1>7. ExecAgrees'
  BY <1>1, <1>2, <1>4, <1>5, <1>6 DEF ExecAgrees, Running, Core
<1>8. TypeOK' /\ RecoveryAgrees'
  BY <1>1, <1>2, <1>5, <1>6 DEF IInv, TypeOK, RecoveryAgrees
<1> QED BY <1>5, <1>7, <1>8 DEF IInv

LEMMA FinishKeeps ==
  ASSUME IInv, Finish
  PROVE  IInv' /\ Final
<1>1. Running(exec.req) /\ exec.at # "idle"
  BY DEF Finish, IInv, ExecAgrees
<1>2. exec' = NoExec /\ UNCHANGED <<up, shut, world, starts, saw, rv, recovering, closed, life, settings>>
  BY DEF Finish, reviewVars, ownerVars
<1>3. rows' = rows \/ Saved(exec.req, WithRun(rows[exec.req], "ended"))
  BY DEF Finish, Completed
<1> QED BY <1>1, <1>2, <1>3, IdleKeeps, EndedKeeps DEF IInv, TypeOK

LEMMA StopKeeps ==
  ASSUME IInv, Stop
  PROVE  IInv' /\ Final
<1>1. /\ up' = FALSE /\ rv' = NoReview /\ exec' = NoExec /\ recovering' = {}
      /\ UNCHANGED <<rows, shut, world, starts, saw, closed, life, settings>>
  BY DEF Stop, ownerVars
<1>2. TypeOK' /\ ExecAgrees' /\ RecoveryAgrees' /\ ReviewAgrees'
  BY <1>1, NoExecIsExec, NoReviewIsReview DEF IInv, TypeOK, ExecAgrees, RecoveryAgrees, ReviewAgrees
<1>3. RowsAgree' /\ InOrderMade' /\ Final
  BY <1>1 DEF IInv, RowsAgree, RowAgrees, InOrderMade, Final
<1> QED BY <1>2, <1>3 DEF IInv

LEMMA StartKeeps ==
  ASSUME IInv, Start
  PROVE  IInv' /\ Final
<1>1. /\ ~up /\ up' = TRUE /\ recovering' = {r \in Requests : Running(r)}
      /\ rows' = Forgotten(life) \/ rows' = rows
      /\ UNCHANGED <<shut, world, starts, saw, rv, exec, closed, life, settings>>
  BY DEF Start, reviewVars, ownerVars
<1>2. /\ rows' \in [Requests -> Row] /\ RowsMove
      /\ \A r \in Requests : rows'[r] = rows[r] \/ (rows'[r].by = "owner" /\ rows'[r].status = "withdrawn")
  <2>1. CASE rows' = rows
    BY <1>1, <2>1 DEF IInv, TypeOK, RowsMove, Stays, Core
  <2>2. CASE rows' = Forgotten(life)
    BY <1>1, <2>2, ForgottenMoves
  <2> QED BY <1>1, <2>1, <2>2
<1>3. RowsAgree' /\ InOrderMade'
  BY <1>1, <1>2, MovesKeep
<1>4. ReviewAgrees'
  BY <1>1, <1>2, ReviewKept DEF Pending
<1>5. exec.at = "idle"
  BY <1>1 DEF IInv, ExecAgrees
<1>6. TypeOK' /\ ExecAgrees'
  BY <1>1, <1>2, <1>5 DEF IInv, TypeOK, ExecAgrees
<1>7. RecoveryAgrees'
  BY <1>1, <1>2 DEF RecoveryAgrees, Running, RowsMove, Stays, GetsDecided, ComesBack, Core, Pending
<1> QED BY <1>2, <1>3, <1>4, <1>6, <1>7, MovesFinal DEF IInv

LEMMA RecoverKeeps ==
  ASSUME IInv, NEW r \in Requests, Recover(r)
  PROVE  IInv' /\ Final
<1> DEFINE new == Recovered(rows[r])
<1>1. /\ rows[r] \in Row /\ RowAgrees(r) /\ Running(r) /\ up /\ recovering' = recovering \ {r} /\ exec.at = "idle"
  BY DEF Recover, IInv, RecoveryAgrees, ExecAgrees, TypeOK, RowsAgree
<1>2. UNCHANGED <<up, shut, world, starts, saw, rv, exec, closed, life, settings>> /\ (rows' = rows \/ Saved(r, new))
  BY DEF Recover, Completed, reviewVars, ownerVars
<1>3. /\ new \in Row /\ new.run = "ended" /\ new.status = rows[r].status /\ new.by = rows[r].by
      /\ new.kind = rows[r].kind
  BY <1>1, WithRunRow DEF Recovered
<1> HIDE DEF new
<1>4. /\ rows' \in [Requests -> Row] /\ RowsAgree' /\ InOrderMade' /\ ReviewAgrees' /\ Final
      /\ \A q \in Requests : q # r => rows'[q] = rows[q]
  <2>1. CASE rows' = rows
    BY <1>2, <2>1 DEF IInv, TypeOK, RowsAgree, RowAgrees, InOrderMade, ReviewAgrees, Pending, Final
  <2>2. CASE Saved(r, new)
    <3>1. rows'[r] = new => RowAgrees(r)'
      BY <1>1, <1>2, <1>3 DEF RowAgrees, Running
    <3>2. rows[r].status = "approved"
      BY <1>1 DEF Running
    <3>3. \A q \in Requests : starts'[q] = starts[q] /\ saw'[q] = saw[q]
      BY <1>2
    <3> QED BY <1>2, <1>3, <2>2, <3>1, <3>2, <3>3, RunnerMoves
  <2> QED BY <1>2, <2>1, <2>2
<1>5. TypeOK' /\ ExecAgrees'
  BY <1>1, <1>2, <1>4 DEF IInv, TypeOK, ExecAgrees
<1>6. RecoveryAgrees'
  BY <1>1, <1>2, <1>4 DEF IInv, TypeOK, RecoveryAgrees, Running
<1> QED BY <1>4, <1>5, <1>6 DEF IInv

LEMMA NextKeeps ==
  ASSUME IInv, [Next]_vars
  PROVE  IInv' /\ Final
<1>1. CASE Reviewer
  BY <1>1, StartReviewKeeps, ModelFailsKeeps, ModelAnswersKeeps, ApplyReviewKeeps, TellReviewKeeps DEF Reviewer
<1>2. CASE Supervised
  BY <1>2, StartKeeps, ForgetKeeps DEF Supervised
<1>3. ASSUME NEW r \in Requests,
             \/ \E kind \in Kinds[r] : Request(r, kind)
             \/ Deny(r) \/ AllowRule(r) \/ AllowRun(r)
             \/ \E reached \in BOOLEAN : Deliver(r, reached)
             \/ Undelivered(r) \/ StartRun(r) \/ Exit(r) \/ Recover(r)
      PROVE  IInv' /\ Final
  <2>1. CASE StartRun(r) \/ Exit(r)
    BY <2>1, OutsideKeeps
  <2>2. CASE Undelivered(r) \/ \E reached \in BOOLEAN : Deliver(r, reached)
    BY <2>2, NoticeKeeps
  <2>3. CASE Deny(r) \/ AllowRule(r) \/ AllowRun(r) \/ Recover(r)
    BY <2>3, DenyKeeps, AllowRuleKeeps, AllowRunKeeps, RecoverKeeps
  <2>4. CASE \E kind \in Kinds[r] : Request(r, kind)
    BY <2>4, RequestKeeps
  <2> QED BY <1>3, <2>1, <2>2, <2>3, <2>4
<1>4. CASE \E field \in {"enabled", "resume"} : SetAutoReview(field)
  BY <1>4, SetAutoReviewKeeps
<1>5. CASE \E waited \in BOOLEAN : Confirm(waited)
  BY <1>5, ConfirmKeeps
<1>6. CASE Close \/ Reopen \/ Hold \/ Release \/ Edit \/ UNCHANGED vars
  BY <1>6, OutsideKeeps
<1>7. CASE Stop \/ Pump \/ SaveRunning \/ Launch \/ RecordProcess \/ Finish
  BY <1>7, StopKeeps, PumpKeeps, SaveRunningKeeps, LaunchKeeps, RecordProcessKeeps, FinishKeeps
<1> QED BY <1>1, <1>2, <1>3, <1>4, <1>5, <1>6, <1>7 DEF Next

LEMMA InitIInv == Init => IInv
<1> SUFFICES ASSUME Init PROVE IInv
  OBVIOUS
<1>1. Blank \in Row /\ Blank.status = "none" /\ Blank.run = "none" /\ Blank.by = "none"
  BY DEF Blank, Row
<1>2. rows \in [Requests -> Row] /\ \A r \in Requests : rows[r] = Blank
  BY <1>1 DEF Init
<1>3. settings \in [{"enabled", "resume"} -> BOOLEAN]
  <2>1. settings \in [enabled : BOOLEAN, resume : BOOLEAN]
    BY DEF Init
  <2>2. [enabled : BOOLEAN, resume : BOOLEAN] = [{"enabled", "resume"} -> BOOLEAN]
    OBVIOUS
  <2> QED BY <2>1, <2>2
<1>4. TypeOK
  BY <1>2, <1>3, NoExecIsExec, NoReviewIsReview DEF Init, TypeOK
<1>5. RowsAgree /\ InOrderMade
  BY <1>1, <1>2 DEF Init, RowsAgree, RowAgrees, InOrderMade
<1>6. ExecAgrees /\ RecoveryAgrees /\ ReviewAgrees
  BY NoExecIsExec, NoReviewIsReview DEF Init, ExecAgrees, RecoveryAgrees, ReviewAgrees
<1> QED BY <1>4, <1>5, <1>6 DEF IInv

LEMMA Invariant == Spec => []IInv
BY InitIInv, NextKeeps, PTL DEF Spec

(* A command starts only where the runner launches it.                     *)
LEMMA StartsAtLaunch ==
  ASSUME IInv, [Next]_vars, NEW r \in Requests, starts'[r] > starts[r]
  PROVE  exec.at = "launch" /\ exec.req = r
<1>1. CASE Launch
  <2>1. exec.at = "launch" /\ (starts' = starts \/ starts' = [starts EXCEPT ![exec.req] = @ + 1])
    BY <1>1 DEF Launch
  <2>2. exec.req # r => starts'[r] = starts[r]
    BY <2>1 DEF IInv, TypeOK
  <2>3. starts[r] \in Nat
    BY DEF IInv, TypeOK
  <2> QED BY <2>1, <2>2, <2>3
<1>2. CASE starts' = starts
  BY <1>2 DEF IInv, TypeOK
<1>3. Launch \/ starts' = starts
  BY DEF Next, vars, Reviewer, Supervised, StartReview, ModelFails, ModelAnswers, ApplyReview, TellReview, Start, Release,
         Forget, Request, Deny, AllowRule, AllowRun, Deliver, Undelivered, StartRun, Exit, Recover, SetAutoReview,
         Confirm, Close, Reopen, Hold, Stop, Edit, Pump, SaveRunning, RecordProcess, Finish
<1> QED BY <1>1, <1>2, <1>3

(* A command that was allowed once is started at most once.                *)
THEOREM RunsOnceHolds == Spec => []RunsOnce
<1>1. IInv => RunsOnce
  BY DEF IInv, RowsAgree, RowAgrees, RunsOnce
<1> QED BY Invariant, <1>1, PTL

(* What the owner decided stays decided.                                   *)
THEOREM DecisionIsFinalHolds == Spec => DecisionIsFinal
<1>1. IInv /\ [Next]_vars =>
        [\A r \in Requests : rows[r].by = "owner" => rows'[r].by = "owner" /\ rows'[r].status = rows[r].status]_vars
  BY NextKeeps DEF Final
<1> QED BY Invariant, <1>1, PTL DEF DecisionIsFinal, Spec

(* A command the reviewer allowed starts with the files it read.           *)
THEOREM LaunchedAsReviewedHolds == Spec => LaunchedAsReviewed
<1>1. IInv /\ [Next]_vars =>
        [\A r \in Requests : starts'[r] > starts[r] /\ rows[r].by = "auto" => exec.files = saw[r]]_vars
  BY StartsAtLaunch DEF IInv, ExecAgrees
<1> QED BY Invariant, <1>1, PTL DEF LaunchedAsReviewed, Spec

(* A command the reviewer allowed starts in its turn.                      *)
THEOREM InTurnHolds == Spec => InTurn
<1>1. IInv /\ [Next]_vars =>
        [\A r, q \in Requests : starts'[r] > starts[r] /\ rows[r].by = "auto" /\ q < r
                                  => rows[q].kind = "rule" \/ ~InReview(q)]_vars
  BY StartsAtLaunch DEF IInv, ExecAgrees, HasTurn
<1> QED BY Invariant, <1>1, PTL DEF InTurn, Spec

=============================================================================
