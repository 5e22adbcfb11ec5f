--------------------------- MODULE RequestLedger ---------------------------
(***************************************************************************)
(* Requests that create work on a joined computer, run once however often  *)
(* they are sent (remote/request-ledger.ts, the rows behind it in          *)
(* remote/storage-row-repository.ts, its use by runs/worker.ts and         *)
(* remote/router.ts, the link of link/proxy.ts and the request IDs the     *)
(* page keeps, client remote/scope.ts).                                    *)
(*                                                                         *)
(* A page sends one instruction until it is answered; every send is a call *)
(* of its own, which crosses the link, waits at the ledger and joins or    *)
(* starts the job of its request ID. The link may lose the answer, storage *)
(* may refuse a write or not say what became of it, the worker may stop    *)
(* and start again, and the clock of the page may be ahead of the ledger's.*)
(*                                                                         *)
(* A request keeps its content with its ID (scope.ts gives changed content *)
(* a new ID), so the ledger's refusal of other content is left out.        *)
(***************************************************************************)
EXTENDS Naturals, FiniteSets

CONSTANTS Pages,      \* composers of the page, each with one instruction
          NoPage, NoCall,
          MaxIds,     \* request IDs ever made
          MaxCalls,   \* requests ever sent
          Capacity,   \* MAX_ENTRIES
          Retention,  \* REMOTE_REQUEST_RETENTION_MS in ticks
          Skew,       \* FUTURE_SKEW_MS in ticks
          Ahead,      \* ticks the page's clock is ahead of this computer's
          MaxTime,    \* ticks of the clock
          MaxFaults   \* writes and work that go wrong, lost links, stops of the worker

ASSUME LedgerAssumption ==
  /\ {MaxIds, MaxCalls, Capacity, Retention, Skew, Ahead, MaxTime, MaxFaults} \subseteq Nat
  /\ NoPage \notin Pages /\ NoCall = 0

Ids == 1 .. MaxIds
Calls == 1 .. MaxCalls
None == 0

VARIABLES
  clock,
  issued,   \* the page and the time inside each ID
  page,     \* attempts: each page's ID, whether it may have run; the call it waits for, whether it is done
  call,     \* each send: its ID, where it is, what `once` read from the clock
  job,      \* `running`: where the work of an ID is
  mem,      \* `entries`: state and `at`
  row,      \* the rows in storage
  fenced,   \* the repository's `uncertain`
  up,       \* the worker is there
  shared,   \* the folder is still shared
  ran,      \* how often the work of an ID was done
  given,    \* IDs a page gave up as never run
  raced,    \* IDs whose limit passed, or whose folder was withdrawn, while a call was handled
  faults

ledgerVars == <<job, mem, row, fenced, ran>>
pageVars == <<issued, page, given>>
worldVars == <<clock, up, shared, raced, faults>>
vars == <<ledgerVars, pageVars, worldVars, call>>

NoEntry == [state |-> "none", at |-> 0]
Unsent == [id |-> None, stage |-> "unused", now |-> 0, cutoff |-> 0]
Idle == [id |-> None, uncertain |-> FALSE, call |-> NoCall, sent |-> FALSE]

Init ==
  /\ clock = Retention /\ up = TRUE /\ shared = TRUE /\ faults = 0 /\ fenced = FALSE /\ given = {} /\ raced = {}
  /\ issued = [i \in Ids |-> [page |-> NoPage, time |-> 0]]
  /\ page = [p \in Pages |-> Idle]
  /\ call = [c \in Calls |-> Unsent]
  /\ job = [i \in Ids |-> "none"]
  /\ mem = [i \in Ids |-> NoEntry]
  /\ row = [i \in Ids |-> NoEntry]
  /\ ran = [i \in Ids |-> 0]

---------------------------------------------------------------------------
(* The page and the link.                                                  *)

Waiting == {"sent", "checked", "pruning", "joined"}
Fresh(i) == issued[i].page = NoPage /\ \A k \in 1 .. i - 1 : issued[k].page # NoPage

(* nodeHeaders: the ID the page kept, or a new one with the page's time.   *)
Headers(p, i) ==
  \/ page[p].id = i /\ UNCHANGED issued
  \/ page[p].id = None /\ Fresh(i) /\ issued' = [issued EXCEPT ![i] = [page |-> p, time |-> clock + Ahead]]

Send(p) == \E i \in Ids, c \in Calls :
  /\ page[p].call = NoCall /\ ~page[p].sent
  /\ call[c].stage = "unused" /\ \A k \in 1 .. c - 1 : call[k].stage # "unused"
  /\ Headers(p, i)
  /\ page' = [page EXCEPT ![p].id = i, ![p].call = c]
  /\ call' = [call EXCEPT ![c] = [Unsent EXCEPT !.id = i, !.stage = "sent"]]
  /\ UNCHANGED <<ledgerVars, worldVars, given>>

(* Variant: the last answer decides, whatever an earlier one left open.    *)
SettledByLast(p, answer) ==
  CASE answer = "ok" -> [Idle EXCEPT !.sent = TRUE]
    [] answer = "refused" -> Idle
    [] answer = "unsure" -> [page[p] EXCEPT !.call = NoCall]

(* settleRequest: success and a refusal settle an ID, except that one that *)
(* may have run is kept until a send succeeds.                             *)
Settled(p, answer) ==
  CASE answer = "ok" -> [Idle EXCEPT !.sent = TRUE]
    [] answer = "refused" /\ ~page[p].uncertain -> Idle
    [] answer = "refused" /\ page[p].uncertain -> [page[p] EXCEPT !.call = NoCall]
    [] answer = "unsure" -> [page[p] EXCEPT !.call = NoCall, !.uncertain = TRUE]

Settle(p, answer) ==
  /\ page' = [page EXCEPT ![p] = Settled(p, answer)]
  /\ given' = given \cup (IF answer = "refused" /\ ~page[p].uncertain THEN {page[p].id} ELSE {})

Receive(p) ==
  LET c == page[p].call IN
  /\ c # NoCall /\ call[c].stage \in {"ok", "refused", "unsure"}
  /\ Settle(p, call[c].stage)
  /\ call' = [call EXCEPT ![c].stage = "over"]
  /\ UNCHANGED <<ledgerVars, worldVars, issued>>

(* A link lost, or quiet too long, is answered `uncertain`; what was sent  *)
(* may still arrive and goes on there.                                     *)
LoseLink(p) ==
  /\ page[p].call # NoCall /\ faults < MaxFaults
  /\ faults' = faults + 1
  /\ Settle(p, "unsure")
  /\ UNCHANGED <<ledgerVars, clock, up, shared, raced, issued, call>>

(* The link is not there: nothing is sent (`not-admitted`).                *)
Offline(p) == \E i \in Ids :
  /\ page[p].call = NoCall /\ ~page[p].sent /\ faults < MaxFaults
  /\ Headers(p, i)
  /\ faults' = faults + 1
  /\ page' = [page EXCEPT ![p] = IF @.uncertain THEN @ ELSE Idle]
  /\ given' = IF page[p].uncertain THEN given ELSE given \cup {i}
  /\ UNCHANGED <<ledgerVars, clock, up, shared, raced, call>>

---------------------------------------------------------------------------
(* The ledger: once().                                                     *)

Answered(c, answer) == call' = [call EXCEPT ![c].stage = answer]

(* The router answers a change it made with `not found` when the folder    *)
(* stopped being shared meanwhile (stillVisible).                          *)
Shown(answer) == IF answer = "ok" /\ ~shared THEN "refused" ELSE answer

TooNew(i) == issued[i].time > clock + Skew
TooOld(i) == issued[i].time + Retention < clock

Arrive(c) ==
  /\ up /\ call[c].stage = "sent"
  /\ LET i == call[c].id IN
     IF ~shared \/ TooNew(i) THEN Answered(c, "refused")
     ELSE IF TooOld(i) THEN Answered(c, "unsure")
     ELSE call' = [call EXCEPT ![c].stage = "checked", ![c].now = clock]
  /\ UNCHANGED <<ledgerVars, pageVars, worldVars>>

(* The repository's gate; prune() then reads the clock again.              *)
Gate(c) ==
  /\ up /\ call[c].stage = "checked"
  /\ \/ ~fenced /\ call' = [call EXCEPT ![c].stage = "pruning", ![c].cutoff = clock] /\ UNCHANGED faults
     \/ fenced /\ Answered(c, "unsure") /\ UNCHANGED faults
     \/ faults < MaxFaults /\ faults' = faults + 1 /\ Answered(c, "unsure")  \* storage is held
  /\ UNCHANGED <<ledgerVars, pageVars, clock, up, shared, raced>>

(* An entry is kept as long as a retry of it can still be accepted: by the *)
(* later of its arrival and the time inside its ID.                        *)
Expired(i, entry, time) ==
  /\ entry.state # "none"
  /\ entry.at + Retention < time /\ issued[i].time + Retention < time

(* One write of a row: done, refused, or done or not without an answer,    *)
(* which fences the repository.                                            *)
Write(i, entry, outcome) ==
  CASE outcome = "done" -> ~fenced /\ row' = [row EXCEPT ![i] = entry] /\ UNCHANGED <<fenced, faults>>
    [] outcome = "refused" -> ~fenced /\ faults < MaxFaults /\ faults' = faults + 1 /\ UNCHANGED <<row, fenced>>
    [] outcome = "unknown" ->
         \/ /\ ~fenced /\ faults < MaxFaults /\ faults' = faults + 1 /\ fenced' = TRUE
            /\ row' \in {row, [row EXCEPT ![i] = entry]}
         \/ fenced /\ UNCHANGED <<row, fenced, faults>>
Outcomes == {"done", "refused", "unknown"}

Prune(c, i) ==
  /\ up /\ call[c].stage = "pruning" /\ Expired(i, mem[i], call[c].cutoff)
  /\ \E outcome \in Outcomes :
       /\ Write(i, NoEntry, outcome)
       /\ mem' = [mem EXCEPT ![i] = IF outcome = "done" THEN NoEntry ELSE @]
       /\ IF outcome = "done" THEN UNCHANGED call ELSE Answered(c, "unsure")
  /\ UNCHANGED <<job, ran, pageVars, clock, up, shared, raced>>

Entries == {i \in Ids : mem[i].state # "none"}

(* Before the entry is looked up, a retry joins the work that is running.  *)
Lookup(c) ==
  LET i == call[c].id IN
  /\ up /\ call[c].stage = "pruning"
  /\ \A k \in Ids : ~Expired(k, mem[k], call[c].cutoff)
  /\ \/ /\ job[i] # "none"
        /\ Answered(c, "joined")
        /\ UNCHANGED <<job, mem>>
     \/ /\ job[i] = "none" /\ mem[i].state = "done"
        /\ \E answer \in {"ok", "unsure"} : Answered(c, Shown(answer))  \* the run itself may have expired
        /\ UNCHANGED <<job, mem>>
     \/ /\ job[i] = "none" /\ mem[i].state = "intent"
        /\ Answered(c, "unsure")
        /\ UNCHANGED <<job, mem>>
     \/ /\ job[i] = "none" /\ mem[i].state = "none" /\ Cardinality(Entries) >= Capacity
        /\ Answered(c, "refused")
        /\ UNCHANGED <<job, mem>>
     \/ /\ job[i] = "none" /\ mem[i].state = "none" /\ Cardinality(Entries) < Capacity
        /\ Answered(c, "joined")
        /\ job' = [job EXCEPT ![i] = "recording"]
        /\ mem' = [mem EXCEPT ![i] = [state |-> "intent", at |-> call[c].now]]
  /\ UNCHANGED <<row, fenced, ran, pageVars, worldVars>>

---------------------------------------------------------------------------
(* The ledger: admit(), shared by every call of the ID.                    *)

(* Variant: only the call that started the work is answered.               *)
JoinedFirst(i) == {c \in Calls : call[c].id = i /\ call[c].stage = "joined" /\ \A k \in 1 .. c - 1 : call[k].id # i}

Joined(i) == {c \in Calls : call[c].id = i /\ call[c].stage = "joined"}
Finish(i, answer) ==
  /\ job' = [job EXCEPT ![i] = "none"]
  /\ call' = [c \in Calls |-> IF c \in Joined(i) THEN [call[c] EXCEPT !.stage = Shown(answer)] ELSE call[c]]

(* The intent is saved before anything runs.                               *)
Record(i) ==
  /\ up /\ job[i] = "recording"
  /\ \E outcome \in Outcomes :
       /\ Write(i, mem[i], outcome)
       /\ mem' = [mem EXCEPT ![i] = IF outcome = "refused" THEN NoEntry ELSE @]
       /\ CASE outcome = "done" -> job' = [job EXCEPT ![i] = "admitted"] /\ UNCHANGED call
            [] outcome = "refused" -> Finish(i, "refused")
            [] outcome = "unknown" -> Finish(i, "unsure")
  /\ UNCHANGED <<ran, pageVars, clock, up, shared, raced>>

Execute(i) ==
  /\ up /\ job[i] = "admitted" /\ ~fenced
  /\ ran' = [ran EXCEPT ![i] = @ + 1]
  /\ job' = [job EXCEPT ![i] = "completing"]
  /\ UNCHANGED <<mem, row, fenced, call, pageVars, worldVars>>

(* The work is refused before it started, with proof or by its status      *)
(* alone, or fails without saying how far it came.                         *)
ExecuteFails(i) ==
  /\ up /\ job[i] = "admitted"
  /\ \/ /\ fenced /\ Finish(i, "unsure") /\ UNCHANGED <<ran, faults>>
     \/ /\ ~fenced /\ faults < MaxFaults /\ faults' = faults + 1
        /\ \/ job' = [job EXCEPT ![i] = "withdrawing"] /\ UNCHANGED <<ran, call>>
           \/ Finish(i, "refused") /\ UNCHANGED ran
           \/ Finish(i, "unsure") /\ ran' \in {ran, [ran EXCEPT ![i] = @ + 1]}
  /\ UNCHANGED <<mem, row, fenced, pageVars, clock, up, shared, raced>>

(* Nothing ran: the intent is removed, and only then forgotten.            *)
Withdraw(i) ==
  /\ up /\ job[i] = "withdrawing"
  /\ \E outcome \in Outcomes :
       /\ Write(i, NoEntry, outcome)
       /\ mem' = [mem EXCEPT ![i] = IF outcome = "done" THEN NoEntry ELSE @]
       /\ Finish(i, IF outcome = "done" THEN "refused" ELSE "unsure")
  /\ UNCHANGED <<ran, pageVars, clock, up, shared, raced>>

(* Variant: a receipt that was not saved withdraws the intent.             *)
CompleteWithdraws(i) ==
  /\ up /\ job[i] = "completing"
  /\ LET done == [mem[i] EXCEPT !.state = "done"] IN
     \E outcome \in Outcomes :
       /\ Write(i, done, outcome)
       /\ mem' = [mem EXCEPT ![i] = IF outcome = "done" THEN done ELSE NoEntry]
       /\ Finish(i, IF outcome = "done" THEN "ok" ELSE "unsure")
  /\ UNCHANGED <<ran, pageVars, clock, up, shared, raced>>

Complete(i) ==
  /\ up /\ job[i] = "completing"
  /\ LET done == [mem[i] EXCEPT !.state = "done"] IN
     \E outcome \in Outcomes :
       /\ Write(i, done, outcome)
       /\ mem' = [mem EXCEPT ![i] = IF outcome = "done" THEN done ELSE @]
       /\ Finish(i, IF outcome = "done" THEN "ok" ELSE "unsure")
  /\ UNCHANGED <<ran, pageVars, clock, up, shared, raced>>

---------------------------------------------------------------------------
(* The world around it.                                                    *)

(* The worker stops: its calls are answered as lost, its rows stay.        *)
Stop ==
  /\ up /\ faults < MaxFaults /\ faults' = faults + 1
  /\ up' = FALSE
  /\ job' = [i \in Ids |-> "none"]
  /\ mem' = [i \in Ids |-> NoEntry]
  /\ call' = [c \in Calls |-> IF call[c].stage \in Waiting \ {"sent"} THEN [call[c] EXCEPT !.stage = "unsure"] ELSE call[c]]
  /\ UNCHANGED <<row, fenced, ran, pageVars, clock, shared, raced>>

(* start(): the rows are loaded and pruned.                                *)
Start ==
  /\ ~up /\ up' = TRUE /\ fenced' = FALSE
  /\ row' = [i \in Ids |-> IF Expired(i, row[i], clock) THEN NoEntry ELSE row[i]]
  /\ mem' = row'
  /\ UNCHANGED <<job, ran, pageVars, call, clock, shared, raced, faults>>

AtWork(c) == call[c].stage \in {"checked", "pruning"}

(* Work takes less than the retention of its entry. A call that `once` let  *)
(* in may grow too old before prune() and the lookup: they read the clock  *)
(* again, after two awaits.                                                *)
Tick ==
  /\ clock < MaxTime /\ clock' = clock + 1
  /\ \A i \in Ids : job[i] # "none" => ~Expired(i, mem[i], clock')
  /\ raced' = raced \cup {i \in Ids : issued[i].time + Retention < clock' /\ \E c \in Calls : call[c].id = i /\ AtWork(c)}
  /\ UNCHANGED <<ledgerVars, pageVars, call, up, shared, faults>>

(* The owner of this computer changes what it shares, also while a call is *)
(* handled that was let in before.                                         *)
Share ==
  /\ faults < MaxFaults
  /\ shared' = ~shared /\ faults' = faults + 1
  /\ raced' = raced \cup {i \in Ids : \E c \in Calls : call[c].id = i /\ (AtWork(c) \/ call[c].stage = "joined")}
  /\ UNCHANGED <<ledgerVars, pageVars, call, clock, up>>

CallSteps == \E c \in Calls : Arrive(c) \/ Gate(c) \/ Lookup(c) \/ \E i \in Ids : Prune(c, i)
JobSteps == \E i \in Ids : Record(i) \/ Execute(i) \/ ExecuteFails(i) \/ Withdraw(i) \/ Complete(i)

Next ==
  \/ \E p \in Pages : Send(p) \/ Receive(p) \/ LoseLink(p) \/ Offline(p)
  \/ CallSteps \/ JobSteps
  \/ Stop \/ Start \/ Tick \/ Share

Spec == Init /\ [][Next]_vars

(* The worker's code goes on with what it has begun, and it is started     *)
(* again when it stopped.                                                  *)
FairSpec == Spec /\ WF_vars(CallSteps) /\ WF_vars(JobSteps) /\ WF_vars(Start)

---------------------------------------------------------------------------
(* Properties.                                                             *)

(* Two races of the code end in what these properties deny: prune() and    *)
(* the lookup judge a call by a later clock than the check that let it in, *)
(* so that the entry of work that ran may be gone; and a folder that is    *)
(* withdrawn while a call is handled has its work answered `not found`,    *)
(* which the page takes for a refusal. IDs they caught (`raced`) are       *)
(* excluded; of all the others, also those sent or handled meanwhile, the  *)
(* properties speak.                                                       *)

(* An ID the page gave up, so that the next send is new, never ran and     *)
(* never will, unless one of the two races caught it.                      *)
GivenUpNeverRan == \A i \in given \ raced : ran[i] = 0

(* How often the instruction of a page ran under all its IDs: never, once, *)
(* or more often (2).                                                      *)
RanUnder(p) == {i \in Ids : issued[i].page = p /\ ran[i] > 0}
Times(p) ==
  IF RanUnder(p) = {} THEN 0
  ELSE IF \E i \in RanUnder(p) : RanUnder(p) = {i} /\ ran[i] = 1 THEN 1 ELSE 2

Kept == {p \in Pages : \A i \in raced : issued[i].page # p}

(* An instruction none of whose IDs was caught by one of the two races     *)
(* runs once at most across all the IDs it was sent under, and counts as   *)
(* sent only if it ran. A race releases its own instruction only.          *)
Once == INSTANCE OnceDelivery WITH
  Instructions <- Pages,
  run <- [p \in Kept |-> Times(p)],
  told <- {p \in Kept : page[p].sent}
OnceSpec == Once!Spec

(* Every call that reached this computer is answered.                      *)
CallsAreAnswered == \A c \in Calls : (call[c].stage = "sent") ~> (call[c].stage \notin Waiting)
=============================================================================
