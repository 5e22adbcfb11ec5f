------------------------ MODULE RequestLedgerProofs ------------------------
(***************************************************************************)
(* Proofs about RequestLedger, for any number of pages, IDs, sends, ticks  *)
(* and faults: an ID a page gave up never ran, and ledger and page         *)
(* together run an instruction at most once (OnceDelivery).                *)
(*                                                                         *)
(* Two races of the code take that from the IDs they catch (`raced`). The  *)
(* invariant speaks of each of the other IDs by itself, and of the raced   *)
(* ones only what the others need.                                         *)
(***************************************************************************)
EXTENDS RequestLedger, TLAPS

Stages == Waiting \cup {"unused", "ok", "refused", "unsure", "over"}
Jobs == {"none", "recording", "admitted", "withdrawing", "completing"}
EntryStates == {"none", "intent", "done"}
PageRecords == [id: Ids \cup {None}, uncertain: BOOLEAN, call: Calls \cup {NoCall}, sent: BOOLEAN]
CallRecords == [id: Ids \cup {None}, stage: Stages, now: Nat, cutoff: Nat]
EntryRecords == [state: EntryStates, at: Nat]

TypeOK ==
  /\ clock \in Nat /\ faults \in Nat
  /\ up \in BOOLEAN /\ shared \in BOOLEAN /\ fenced \in BOOLEAN
  /\ issued \in [Ids -> [page: Pages \cup {NoPage}, time: Nat]]
  /\ page \in [Pages -> PageRecords]
  /\ call \in [Calls -> CallRecords]
  /\ job \in [Ids -> Jobs]
  /\ mem \in [Ids -> EntryRecords] /\ row \in [Ids -> EntryRecords]
  /\ ran \in [Ids -> Nat]
  /\ given \subseteq Ids /\ raced \subseteq Ids

(* The only send of its ID.                                                *)
Alone(c) == \A d \in Calls : call[d].id = call[c].id => d = c

(* An ID a page holds is its own and not given up; unless it may have run, *)
(* it was sent once. The others were given up, but the one that succeeded. *)
PageOK == \A p \in Pages :
  /\ page[p].id = None => page[p].call = NoCall /\ ~page[p].uncertain
  /\ page[p].id # None =>
       /\ issued[page[p].id].page = p /\ page[p].id \notin given /\ ~page[p].sent
       /\ page[p].call = NoCall => page[p].uncertain
       /\ page[p].call # NoCall => call[page[p].call].id = page[p].id
       /\ ~page[p].uncertain => Alone(page[p].call)
  /\ page[p].sent /\ p \in Kept
       => \E i \in Ids : /\ issued[i].page = p /\ ran[i] = 1
                         /\ \A k \in Ids \ {i} : issued[k].page = p => k \in given
  /\ ~page[p].sent => \A i \in Ids : issued[i].page = p => i \in given \cup {page[p].id}

Untouched(i) == job[i] = "none" /\ ran[i] = 0

(* A send that passed the check of its age still does, and the only send   *)
(* of an ID that is not at work or was refused has not run.                *)
CallClear(c) ==
  /\ AtWork(c) => issued[call[c].id].time + Retention >= clock
  /\ AtWork(c) \/ call[c].stage = "joined" => up /\ shared
  /\ call[c].stage = "ok" => ran[call[c].id] = 1
  /\ call[c].id # None /\ Alone(c) /\ call[c].stage \in {"sent", "checked", "pruning", "refused"}
       => Untouched(call[c].id)
CallRest(c) ==
  /\ call[c].now <= clock /\ call[c].cutoff <= clock
  /\ call[c].id \notin raced => CallClear(c)
CallOK == \A c \in Calls :
  /\ call[c].stage = "unused" <=> call[c].id = None
  /\ call[c].id # None => issued[call[c].id].page # NoPage
  /\ CallRest(c)

GivenOK == \A i \in given :
  /\ issued[i].page # NoPage
  /\ \A c \in Calls : call[c].id = i => call[c].stage \notin Waiting
  /\ i \notin raced => Untouched(i)

(* What ran is in a row until no send of its ID is accepted any more; what *)
(* is in a row is known while the worker is there.                         *)
EntryAt(i) ==
  /\ ran[i] \in {0, 1}
  /\ (\A c \in Calls : call[c].id # i) => Untouched(i) /\ mem[i].state = "none" /\ row[i].state = "none"
  /\ up => (row[i].state # "none" => mem[i].state # "none")
  /\ ~up => job[i] = "none" /\ mem[i].state = "none"
  /\ job[i] # "none" => mem[i].state = "intent" /\ ~Expired(i, mem[i], clock)
  /\ job[i] = "recording" => row[i].state = "none"
  /\ job[i] \in {"admitted", "withdrawing", "completing"} => row[i].state = "intent"
  /\ job[i] \in {"recording", "admitted", "withdrawing"} => ran[i] = 0
  /\ job[i] = "completing" => ran[i] = 1
  /\ mem[i].state = "done" \/ row[i].state = "done" => ran[i] = 1
  /\ ran[i] = 1 => row[i].state # "none" \/ issued[i].time + Retention < clock
EntryOK == \A i \in Ids \ raced : EntryAt(i)

LedgerOK == TypeOK /\ PageOK /\ CallOK /\ GivenOK /\ EntryOK
---------------------------------------------------------------------------
(* What the helpers of the actions do.                                     *)

LEMMA Bounds ==
  /\ Retention \in Nat /\ Capacity \in Nat /\ MaxIds \in Nat /\ MaxCalls \in Nat
  /\ Ids \subseteq Nat \ {0} /\ Calls \subseteq Nat \ {0} /\ None = 0 /\ NoCall = 0
  /\ None \notin Ids /\ NoCall \notin Calls /\ NoPage \notin Pages
  BY LedgerAssumption DEF Ids, Calls, None

LEMMA WriteWrites ==
  ASSUME TypeOK, NEW i \in Ids, NEW entry \in EntryRecords, NEW outcome \in Outcomes, Write(i, entry, outcome)
  PROVE  /\ row' \in [Ids -> EntryRecords] /\ fenced' \in BOOLEAN /\ faults' \in Nat
         /\ \A k \in Ids \ {i} : row'[k] = row[k]
         /\ row'[i] \in {row[i], entry}
         /\ outcome = "done" => row'[i] = entry
         /\ outcome = "refused" => row'[i] = row[i]
<1>1. CASE outcome = "done"
  BY <1>1 DEF Write, TypeOK
<1>2. CASE outcome = "refused"
  BY <1>2 DEF Write, TypeOK
<1>3. CASE outcome = "unknown"
  <2>1. /\ row' = row \/ row' = [row EXCEPT ![i] = entry]
        /\ fenced' = TRUE \/ fenced' = fenced
        /\ faults' = faults + 1 \/ faults' = faults
    BY <1>3 DEF Write
  <2>2. fenced' \in BOOLEAN /\ faults' \in Nat
    <3>1. fenced \in BOOLEAN /\ faults \in Nat
      BY DEF TypeOK
    <3>2. fenced' \in BOOLEAN
      BY <2>1, <3>1, Zenon
    <3> QED
      BY <2>1, <3>1, <3>2
  <2>3. row' \in [Ids -> EntryRecords] /\ row'[i] \in {row[i], entry} /\ \A k \in Ids \ {i} : row'[k] = row[k]
    <3>1. row \in [Ids -> EntryRecords]
      BY DEF TypeOK
    <3>2. CASE row' = row
      BY <3>1, <3>2
    <3>3. CASE row' = [row EXCEPT ![i] = entry]
      BY <3>1, <3>3
    <3> QED
      BY <2>1, <3>2, <3>3
  <2> QED
    BY <1>3, <2>2, <2>3
<1> QED
  BY <1>1, <1>2, <1>3 DEF Outcomes

(* One call changes its stage.                                             *)
LEMMA AnsweredMoves ==
  ASSUME TypeOK, NEW c \in Calls, NEW answer \in Stages, Answered(c, answer)
  PROVE  /\ call' \in [Calls -> CallRecords]
         /\ \A d \in Calls \ {c} : call'[d] = call[d]
         /\ call'[c].id = call[c].id /\ call'[c].now = call[c].now /\ call'[c].cutoff = call[c].cutoff
         /\ call'[c].stage = answer
  BY DEF Answered, TypeOK, CallRecords

LEMMA ShownIs ==
  ASSUME NEW answer \in {"ok", "refused", "unsure"}
  PROVE  /\ Shown(answer) \in {"ok", "refused", "unsure"}
         /\ shared => Shown(answer) = answer
         /\ Shown(answer) # "refused" => Shown(answer) = answer
  BY DEF Shown

(* The calls that wait for an ID are answered with it.                     *)
LEMMA FinishAnswers ==
  ASSUME TypeOK, shared \in BOOLEAN, NEW i \in Ids, NEW answer \in {"ok", "refused", "unsure"}, Finish(i, answer)
  PROVE  /\ job' \in [Ids -> Jobs] /\ job'[i] = "none" /\ \A k \in Ids \ {i} : job'[k] = job[k]
         /\ call' \in [Calls -> CallRecords]
         /\ \A c \in Calls :
              /\ call'[c].id = call[c].id /\ call'[c].now = call[c].now /\ call'[c].cutoff = call[c].cutoff
              /\ call'[c].stage = IF call[c].id = i /\ call[c].stage = "joined" THEN Shown(answer) ELSE call[c].stage
<1>1. job' \in [Ids -> Jobs] /\ job'[i] = "none" /\ \A k \in Ids \ {i} : job'[k] = job[k]
  BY DEF Finish, TypeOK, Jobs
<1>2. Shown(answer) \in Stages
  BY ShownIs DEF Stages
<1>3. ASSUME NEW c \in Calls
      PROVE  /\ call'[c] \in CallRecords
             /\ call'[c].id = call[c].id /\ call'[c].now = call[c].now /\ call'[c].cutoff = call[c].cutoff
             /\ call'[c].stage = IF call[c].id = i /\ call[c].stage = "joined" THEN Shown(answer) ELSE call[c].stage
  <2>1. call[c] \in CallRecords
    BY DEF TypeOK
  <2>2. call'[c] = IF call[c].id = i /\ call[c].stage = "joined"
                   THEN [call[c] EXCEPT !.stage = Shown(answer)] ELSE call[c]
    BY DEF Finish, Joined
  <2> QED
    BY <1>2, <2>1, <2>2 DEF CallRecords
<1>4. call' \in [Calls -> CallRecords]
  BY <1>3 DEF Finish
<1> QED
  BY <1>1, <1>3, <1>4
---------------------------------------------------------------------------
(* Steps of the ledger and of the world around it: they answer calls and   *)
(* work on jobs, and leave to the pages what is theirs.                    *)

Moves ==
  /\ page' = page /\ issued' = issued /\ given' = given /\ raced \subseteq raced'
  /\ \A c \in Calls : /\ call'[c].id = call[c].id
                      /\ call'[c].stage = "unused" <=> call[c].stage = "unused"
                      /\ call'[c].stage \in Waiting => call[c].stage \in Waiting
  /\ \A i \in Ids \ raced :
       /\ ran[i] = 1 => ran'[i] = 1
       /\ (\A c \in Calls : call[c].id = i => call[c].stage \notin Waiting) /\ Untouched(i) => Untouched(i)'

LEMMA MovesKeep ==
  ASSUME LedgerOK, Moves
  PROVE  /\ PageOK' /\ GivenOK'
         /\ \A c \in Calls : /\ Alone(c)' <=> Alone(c)
                             /\ call'[c].stage = "unused" <=> call'[c].id = None
                             /\ call'[c].id # None => issued'[call'[c].id].page # NoPage
<1>1. \A c \in Calls : call'[c].id = call[c].id
  BY DEF Moves
<1>2. \A c \in Calls : Alone(c)' <=> Alone(c)
  BY <1>1 DEF Alone
<1>3. PageOK'
  <2>1. \A i \in Ids \ raced : ran[i] = 1 => ran'[i] = 1
    BY DEF Moves
  <2>2. page' = page /\ issued' = issued /\ given' = given
    BY DEF Moves
  <2>3. \A p \in Pages : page[p].call \in Calls \cup {NoCall}
    BY DEF LedgerOK, TypeOK, PageRecords
  <2>4. \A p \in Pages : page[p].id # None /\ ~page[p].uncertain => page[p].call \in Calls
    BY <2>3 DEF LedgerOK, PageOK
  <2>5. ASSUME NEW p \in Pages, page[p].sent, p \in Kept'
        PROVE  \E i \in Ids : /\ issued[i].page = p /\ ran'[i] = 1
                              /\ \A k \in Ids \ {i} : issued[k].page = p => k \in given
    <3>1. p \in Kept /\ \A i \in raced : issued[i].page # p
      BY <2>2, <2>5 DEF Kept, Moves
    <3> QED
      BY <2>1, <2>5, <3>1 DEF LedgerOK, PageOK
  <2> QED
    BY <1>1, <1>2, <2>2, <2>3, <2>4, <2>5 DEF LedgerOK, PageOK
<1>4. GivenOK'
  BY <1>1 DEF LedgerOK, GivenOK, Moves, TypeOK
<1> QED
  BY <1>1, <1>2, <1>3, <1>4 DEF Moves, LedgerOK, CallOK

(* One call changes its stage, and no job.                                 *)
LEMMA OneCallMoves ==
  ASSUME LedgerOK, pageVars' = pageVars, raced' = raced, job' = job, ran' = ran, NEW c \in Calls,
         call[c].stage \in Waiting,
         \A d \in Calls : IF d = c THEN call'[d].id = call[d].id /\ call'[d].stage # "unused"
                          ELSE call'[d] = call[d]
  PROVE  Moves
  BY DEF Moves, pageVars, Untouched, Waiting

(* What a call may become without a job.                                   *)
LEMMA OneCallKeeps ==
  ASSUME LedgerOK, TypeOK', Moves, job' = job, ran' = ran, UNCHANGED <<clock, up, shared, raced>>, NEW c \in Calls,
         \A d \in Calls \ {c} : call'[d] = call[d],
         \/ call[c].id \in raced
         \/ call'[c].stage = "unsure"
         \/ call'[c].stage = "joined" /\ up /\ shared
         \/ call'[c].stage = "ok" /\ ran[call[c].id] = 1
         \/ call'[c].stage = "refused" /\ call[c].stage \in {"sent", "checked", "pruning"}
         \/ /\ AtWork(c)' /\ call[c].stage \in {"sent", "checked", "pruning"} /\ up /\ shared
            /\ issued[call[c].id].time + Retention >= clock,
         call'[c].now <= clock, call'[c].cutoff <= clock
  PROVE  CallOK'
<1>1. \A d \in Calls : /\ Alone(d)' <=> Alone(d)
                       /\ call'[d].stage = "unused" <=> call'[d].id = None
                       /\ call'[d].id # None => issued'[call'[d].id].page # NoPage
                       /\ call'[d].id = call[d].id
  BY MovesKeep DEF Moves
<1>2. issued' = issued /\ \A i \in Ids : Untouched(i)' <=> Untouched(i)
  BY DEF Moves, Untouched
<1>3. ASSUME NEW d \in Calls, d # c
      PROVE  CallRest(d)'
  <2>1. /\ call'[d] = call[d] /\ call[d].id \in Ids \cup {None} /\ CallRest(d)
        /\ UNCHANGED <<clock, up, shared, raced, issued, ran>>
    BY <1>2, <1>3 DEF LedgerOK, TypeOK, CallRecords, CallOK
  <2>2. CASE call[d].id \in raced
    BY <2>1, <2>2 DEF CallRest
  <2>3. CASE call[d].id \notin raced
    <3>1. call'[d].id # None /\ Alone(d)' /\ call'[d].stage \in {"sent", "checked", "pruning", "refused"}
            => Untouched(call[d].id)'
      BY <1>1, <1>2, <2>1, <2>3 DEF CallRest, CallClear
    <3>2. CallClear(d)'
      BY <2>1, <2>3, <3>1 DEF CallRest, CallClear, AtWork
    <3> QED
      BY <2>1, <3>2 DEF CallRest
  <2> QED
    BY <2>2, <2>3
<1>4. CallRest(c)'
  <2>1. /\ call'[c].id = call[c].id /\ call[c].id \in Ids \cup {None} /\ CallRest(c)
        /\ UNCHANGED <<clock, up, shared, raced, issued, ran>>
    BY <1>1, <1>2 DEF LedgerOK, TypeOK, CallRecords, CallOK
  <2>2. CASE call[c].id \in raced
    BY <2>1, <2>2 DEF CallRest
  <2>3. CASE call[c].id \notin raced
    <3>1. call'[c].id # None /\ Alone(c)' /\ call'[c].stage \in {"sent", "checked", "pruning", "refused"}
            => Untouched(call[c].id)'
      BY <1>1, <1>2, <2>1, <2>3 DEF CallRest, CallClear, AtWork
    <3>2. CallClear(c)'
      BY <2>1, <2>3, <3>1 DEF CallRest, CallClear, AtWork
    <3> QED
      BY <2>1, <3>2 DEF CallRest
  <2> QED
    BY <2>2, <2>3
<1> QED
  BY <1>1, <1>3, <1>4 DEF CallOK

(* Entries that a step does not touch.                                     *)
LEMMA EntryFrame ==
  ASSUME LedgerOK, Moves, UNCHANGED <<clock, up>>, NEW i \in Ids \ raced,
         job'[i] = job[i], mem'[i] = mem[i], row'[i] = row[i], ran'[i] = ran[i]
  PROVE  EntryAt(i)'
<1>1. (\A c \in Calls : call'[c].id # i) => \A c \in Calls : call[c].id # i
  BY DEF Moves
<1>2. /\ Untouched(i)' <=> Untouched(i)
      /\ Expired(i, mem[i], clock)' <=> Expired(i, mem[i], clock)
      /\ issued' = issued
  BY DEF Untouched, Expired, Moves
<1>3. EntryAt(i)
  BY DEF LedgerOK, EntryOK
<1> QED
  BY <1>1, <1>2, <1>3 DEF EntryAt

LEMMA EntriesFrame ==
  ASSUME LedgerOK, Moves, UNCHANGED <<job, mem, row, ran, clock, up>>
  PROVE  EntryOK'
<1>1. \A i \in Ids : i \notin raced' => i \notin raced
  BY DEF Moves
<1> QED
  BY <1>1, EntryFrame DEF EntryOK

(* A step for an ID that a race caught, and what it leaves to the others.  *)
LEMMA RacedKeeps ==
  ASSUME LedgerOK, TypeOK', UNCHANGED <<page, issued, given, clock, up, shared, raced>>, NEW i \in raced,
         \A k \in Ids \ {i} : job'[k] = job[k] /\ mem'[k] = mem[k] /\ row'[k] = row[k] /\ ran'[k] = ran[k],
         \A c \in Calls : /\ call[c].id # i => call'[c] = call[c]
                          /\ call'[c].id = call[c].id /\ call'[c].now <= clock /\ call'[c].cutoff <= clock
                          /\ call'[c].stage = "unused" <=> call[c].stage = "unused"
                          /\ call'[c].stage \in Waiting => call[c].stage \in Waiting
  PROVE  LedgerOK'
<1>1. \A k \in Ids \ raced : k # i /\ (Untouched(k)' <=> Untouched(k))
  BY DEF Untouched
<1>2. Moves
  BY <1>1 DEF Moves
<1>3. ASSUME NEW c \in Calls PROVE CallRest(c)'
  <2>1. CallRest(c) /\ call[c].id \in Ids \cup {None} /\ call'[c].id = call[c].id /\ (Alone(c)' <=> Alone(c))
    BY <1>2, MovesKeep DEF LedgerOK, CallOK, TypeOK, CallRecords
  <2>2. CASE call[c].id \in raced
    BY <2>1, <2>2 DEF CallRest
  <2>3. CASE call[c].id \notin raced
    <3>1. call'[c] = call[c] /\ UNCHANGED <<clock, up, shared, raced, issued>>
      BY <2>3
    <3>2. call[c].id # None => ran'[call[c].id] = ran[call[c].id] /\ (Untouched(call[c].id)' <=> Untouched(call[c].id))
      BY <1>1, <2>1, <2>3
    <3>3. call[c].id = None => call[c].stage = "unused"
      BY DEF LedgerOK, CallOK
    <3>4. call'[c].id # None /\ Alone(c)' /\ call'[c].stage \in {"sent", "checked", "pruning", "refused"}
            => Untouched(call[c].id)'
      BY <2>1, <2>3, <3>1, <3>2 DEF CallRest, CallClear
    <3>5. CallClear(c)'
      BY <2>1, <2>3, <3>1, <3>2, <3>3, <3>4 DEF CallRest, CallClear, AtWork
    <3> QED
      BY <2>1, <3>1, <3>5 DEF CallRest
  <2> QED
    BY <2>2, <2>3
<1>4. EntryOK'
  <2>1. ASSUME NEW k \in Ids, k \notin raced' PROVE EntryAt(k)'
    BY <1>1, <1>2, <2>1, EntryFrame
  <2> QED
    BY <2>1 DEF EntryOK
<1> QED
  BY <1>2, <1>3, <1>4, MovesKeep DEF LedgerOK, CallOK

LEMMA ArriveStep ==
  ASSUME LedgerOK, NEW c \in Calls, Arrive(c)
  PROVE  LedgerOK'
<1> USE DEF Arrive, ledgerVars, pageVars, worldVars
<1>1. call[c].id \in Ids /\ call[c] \in CallRecords
  BY DEF LedgerOK, TypeOK, CallRecords, CallOK
<1>2. /\ call' \in [Calls -> CallRecords]
      /\ \A d \in Calls \ {c} : call'[d] = call[d]
      /\ call'[c].id = call[c].id
      /\ \/ /\ call'[c].stage \in {"refused", "unsure"}
            /\ call'[c].now = call[c].now /\ call'[c].cutoff = call[c].cutoff
         \/ /\ call'[c].stage = "checked" /\ call'[c].now = clock /\ call'[c].cutoff = call[c].cutoff
            /\ shared /\ ~TooOld(call[c].id)
  <2>1. CASE Answered(c, "refused") \/ Answered(c, "unsure")
    BY <2>1, AnsweredMoves DEF LedgerOK, Stages
  <2>2. CASE /\ call' = [call EXCEPT ![c].stage = "checked", ![c].now = clock]
             /\ shared /\ ~TooOld(call[c].id)
    <3>1. PICK r : r = [call[c] EXCEPT !.stage = "checked", !.now = clock]
      OBVIOUS
    <3>2. r \in CallRecords /\ r.id = call[c].id /\ r.stage = "checked" /\ r.now = clock /\ r.cutoff = call[c].cutoff
      BY <1>1, <3>1 DEF CallRecords, Stages, Waiting, LedgerOK, TypeOK
    <3>3. call' = [call EXCEPT ![c] = r]
      BY <2>2, <3>1 DEF LedgerOK, TypeOK
    <3> QED
      BY <2>2, <3>2, <3>3 DEF LedgerOK, TypeOK
  <2> QED
    BY <2>1, <2>2
<1>3. TypeOK'
  BY <1>2 DEF LedgerOK, TypeOK
<1>4. Moves
  BY <1>2, OneCallMoves DEF Waiting
<1>5. CallOK'
  <2>1. call'[c].now <= clock /\ call'[c].cutoff <= clock
    BY <1>2 DEF LedgerOK, CallOK, CallRest, TypeOK
  <2>2. call'[c].stage = "checked" =>
          AtWork(c)' /\ up /\ shared /\ issued[call[c].id].time + Retention >= clock
    BY <1>1, <1>2, Bounds DEF TooOld, LedgerOK, TypeOK, AtWork
  <2>3. job' = job /\ ran' = ran /\ UNCHANGED <<clock, up, shared, raced>> /\ call[c].stage = "sent"
    OBVIOUS
  <2> QED
    BY <1>2, <1>3, <1>4, <2>1, <2>2, <2>3, OneCallKeeps
<1> QED
  BY <1>3, <1>4, <1>5, MovesKeep, EntriesFrame DEF LedgerOK

LEMMA GateStep ==
  ASSUME LedgerOK, NEW c \in Calls, Gate(c)
  PROVE  LedgerOK'
<1> USE DEF Gate, ledgerVars, pageVars
<1>1. call[c].id \in Ids /\ call[c] \in CallRecords
  BY DEF LedgerOK, TypeOK, CallRecords, CallOK
<1>2. /\ call' \in [Calls -> CallRecords]
      /\ \A d \in Calls \ {c} : call'[d] = call[d]
      /\ call'[c].id = call[c].id /\ call'[c].now = call[c].now
      /\ \/ call'[c].stage = "unsure" /\ call'[c].cutoff = call[c].cutoff
         \/ call'[c].stage = "pruning" /\ call'[c].cutoff = clock
  <2>1. CASE Answered(c, "unsure")
    BY <2>1, AnsweredMoves DEF LedgerOK, Stages
  <2>2. CASE call' = [call EXCEPT ![c].stage = "pruning", ![c].cutoff = clock]
    <3>1. PICK r : r = [call[c] EXCEPT !.stage = "pruning", !.cutoff = clock]
      OBVIOUS
    <3>2. r \in CallRecords /\ r.id = call[c].id /\ r.stage = "pruning" /\ r.now = call[c].now /\ r.cutoff = clock
      BY <1>1, <3>1 DEF CallRecords, Stages, Waiting, LedgerOK, TypeOK
    <3>3. call' = [call EXCEPT ![c] = r]
      BY <2>2, <3>1 DEF LedgerOK, TypeOK
    <3> QED
      BY <2>2, <3>2, <3>3 DEF LedgerOK, TypeOK
  <2> QED
    BY <2>1, <2>2
<1>3. TypeOK'
  <2>1. faults' \in Nat
    BY DEF LedgerOK, TypeOK
  <2> QED
    BY <1>2, <2>1 DEF LedgerOK, TypeOK
<1>4. Moves
  BY <1>2, OneCallMoves DEF Waiting
<1>5. CallOK'
  <2>1. call'[c].now <= clock /\ call'[c].cutoff <= clock
    BY <1>2 DEF LedgerOK, CallOK, CallRest, TypeOK
  <2>2. job' = job /\ ran' = ran /\ UNCHANGED <<clock, up, shared, raced>> /\ call[c].stage = "checked"
    OBVIOUS
  <2>3. call[c].id \in raced \/ (up /\ shared /\ issued[call[c].id].time + Retention >= clock)
    BY <2>2 DEF LedgerOK, CallOK, CallRest, CallClear, AtWork
  <2>4. call'[c].stage = "pruning" => AtWork(c)'
    BY DEF AtWork
  <2> QED
    BY <1>2, <1>3, <1>4, <2>1, <2>2, <2>3, <2>4, OneCallKeeps
<1> QED
  BY <1>3, <1>4, <1>5, MovesKeep, EntriesFrame DEF LedgerOK

(* An entry that is pruned by a clock read before is one no send of which  *)
(* is accepted any more, and not one that is being worked on.              *)
LEMMA ExpiredIsOld ==
  ASSUME LedgerOK, NEW i \in Ids, NEW time \in Nat, time <= clock, NEW entry \in EntryRecords,
         Expired(i, entry, time)
  PROVE  /\ Expired(i, entry, clock) /\ issued[i].time + Retention < clock
         /\ entry = mem[i] /\ i \notin raced => job[i] = "none"
<1>1. clock \in Nat /\ entry.at \in Nat /\ issued[i].time \in Nat
  BY DEF LedgerOK, TypeOK, EntryRecords
<1>2. Expired(i, entry, clock) /\ issued[i].time + Retention < clock
  BY <1>1, Bounds DEF Expired
<1> QED
  BY <1>2 DEF LedgerOK, EntryOK, EntryAt

LEMMA PruneStep ==
  ASSUME LedgerOK, NEW c \in Calls, NEW i \in Ids, Prune(c, i)
  PROVE  LedgerOK'
<1> USE DEF Prune, pageVars
<1>1. PICK outcome \in Outcomes :
         /\ Write(i, NoEntry, outcome)
         /\ mem' = [mem EXCEPT ![i] = IF outcome = "done" THEN NoEntry ELSE @]
         /\ IF outcome = "done" THEN UNCHANGED call ELSE Answered(c, "unsure")
  OBVIOUS
<1>2. NoEntry \in EntryRecords /\ NoEntry.state = "none"
  BY DEF NoEntry, EntryRecords, EntryStates
<1>3. /\ row' \in [Ids -> EntryRecords] /\ fenced' \in BOOLEAN /\ faults' \in Nat
      /\ \A k \in Ids \ {i} : row'[k] = row[k]
      /\ row'[i] \in {row[i], NoEntry}
      /\ outcome = "done" => row'[i] = NoEntry
  BY <1>1, <1>2, WriteWrites DEF LedgerOK
<1>4. /\ mem' \in [Ids -> EntryRecords]
      /\ \A k \in Ids \ {i} : mem'[k] = mem[k]
      /\ mem'[i] = IF outcome = "done" THEN NoEntry ELSE mem[i]
  BY <1>1, <1>2 DEF LedgerOK, TypeOK
<1>5. /\ call' \in [Calls -> CallRecords]
      /\ \A d \in Calls \ {c} : call'[d] = call[d]
      /\ call'[c].id = call[c].id /\ call'[c].now = call[c].now /\ call'[c].cutoff = call[c].cutoff
      /\ call'[c].stage \in {call[c].stage, "unsure"}
  BY <1>1, AnsweredMoves DEF LedgerOK, TypeOK, Stages
<1>6. TypeOK'
  BY <1>3, <1>4, <1>5 DEF LedgerOK, TypeOK
<1>7. Moves
  BY <1>5, OneCallMoves DEF Waiting
<1>8. CallOK'
  <2>1. /\ call'[c].now <= clock /\ call'[c].cutoff <= clock
        /\ call[c].id \in raced \/ (up /\ shared /\ issued[call[c].id].time + Retention >= clock)
    BY <1>5 DEF LedgerOK, CallOK, CallRest, CallClear, AtWork
  <2>2. call'[c].stage = call[c].stage => AtWork(c)'
    BY DEF AtWork
  <2> QED
    BY <1>5, <1>6, <1>7, <2>1, <2>2, OneCallKeeps
<1>9. ASSUME i \notin raced PROVE EntryAt(i)'
  <2>1. call[c].cutoff \in Nat /\ call[c].cutoff <= clock /\ Expired(i, mem[i], call[c].cutoff) /\ mem[i] \in EntryRecords
    BY DEF LedgerOK, TypeOK, CallOK, CallRest, CallRecords
  <2>2. job[i] = "none" /\ issued[i].time + Retention < clock
    BY <1>9, <2>1, ExpiredIsOld
  <2>3. /\ (\A d \in Calls : call'[d].id # i) => \A d \in Calls : call[d].id # i
        /\ Untouched(i)' <=> Untouched(i)
        /\ EntryAt(i)
    BY <1>7, <1>9 DEF Moves, LedgerOK, EntryOK, Untouched
  <2> QED
    BY <1>2, <1>3, <1>4, <2>2, <2>3 DEF EntryAt
<1>10. EntryOK'
  BY <1>3, <1>4, <1>7, <1>9, EntryFrame DEF EntryOK
<1> QED
  BY <1>6, <1>7, <1>8, <1>10, MovesKeep DEF LedgerOK

(* The lookup of an entry that is there, of a job that runs, or of a full  *)
(* ledger answers the call; otherwise the call starts the job of its ID.   *)
LEMMA LookupClear ==
  ASSUME LedgerOK, NEW c \in Calls, Lookup(c), call[c].id \notin raced
  PROVE  LedgerOK'
<1> USE DEF Lookup, pageVars, worldVars
<1>1. PICK i \in Ids : i = call[c].id
  BY DEF LedgerOK, TypeOK, CallRecords, CallOK
<1>2. /\ up /\ shared /\ call[c].stage = "pruning" /\ issued[i].time + Retention >= clock
      /\ call[c].now <= clock /\ call[c].cutoff <= clock /\ call[c] \in CallRecords
  BY <1>1 DEF LedgerOK, TypeOK, CallOK, CallRest, CallClear, AtWork
<1>3. row' = row /\ ran' = ran /\ UNCHANGED <<clock, up, shared, raced, page, issued, given>>
  OBVIOUS
<1>4. CASE job' = job /\ mem' = mem
  <2>1. \/ Answered(c, "joined") \/ Answered(c, "refused") \/ Answered(c, "unsure")
        \/ mem[i].state = "done" /\ Answered(c, "ok")
    <3>1. \/ Answered(c, "joined") \/ Answered(c, "refused") \/ Answered(c, "unsure")
          \/ mem[i].state = "done" /\ \E answer \in {"ok", "unsure"} : Answered(c, Shown(answer))
      BY <1>1, <1>4
    <3>2. Shown("ok") = "ok" /\ Shown("unsure") = "unsure"
      BY <1>2, ShownIs
    <3> QED
      BY <3>1, <3>2
  <2>2. /\ call' \in [Calls -> CallRecords]
        /\ \A d \in Calls \ {c} : call'[d] = call[d]
        /\ call'[c].id = call[c].id /\ call'[c].now = call[c].now /\ call'[c].cutoff = call[c].cutoff
        /\ \/ call'[c].stage \in {"joined", "refused", "unsure"}
           \/ mem[i].state = "done" /\ call'[c].stage = "ok"
    BY <2>1, AnsweredMoves DEF LedgerOK, Stages, Waiting
  <2>3. TypeOK'
    BY <1>4, <2>2 DEF LedgerOK, TypeOK
  <2>4. Moves
    BY <1>2, <1>4, <2>2, OneCallMoves DEF Waiting
  <2>5. mem[i].state = "done" => ran[i] = 1
    BY <1>1 DEF LedgerOK, EntryOK, EntryAt
  <2>6. CallOK'
    <3>1. call'[c].now <= clock /\ call'[c].cutoff <= clock
      BY <1>2, <2>2
    <3> QED
      BY <1>1, <1>2, <1>3, <1>4, <2>2, <2>3, <2>4, <2>5, <3>1, OneCallKeeps
  <2> QED
    BY <1>3, <1>4, <2>3, <2>4, <2>6, MovesKeep, EntriesFrame DEF LedgerOK
<1>5. CASE ~(job' = job /\ mem' = mem)
  <2>1. /\ job[i] = "none" /\ mem[i].state = "none"
        /\ Answered(c, "joined")
        /\ job' = [job EXCEPT ![i] = "recording"]
        /\ mem' = [mem EXCEPT ![i] = [state |-> "intent", at |-> call[c].now]]
    BY <1>1, <1>5
  <2>2. /\ call' \in [Calls -> CallRecords]
        /\ \A d \in Calls \ {c} : call'[d] = call[d]
        /\ call'[c].id = i /\ call'[c].now = call[c].now /\ call'[c].cutoff = call[c].cutoff
        /\ call'[c].stage = "joined"
    BY <1>1, <2>1, AnsweredMoves DEF LedgerOK, Stages, Waiting
  <2>3. /\ job' \in [Ids -> Jobs] /\ job'[i] = "recording" /\ \A k \in Ids \ {i} : job'[k] = job[k]
    BY <2>1 DEF LedgerOK, TypeOK, Jobs
  <2>4. /\ mem' \in [Ids -> EntryRecords] /\ mem'[i].state = "intent" /\ \A k \in Ids \ {i} : mem'[k] = mem[k]
    <3>1. PICK r : r = [state |-> "intent", at |-> call[c].now]
      OBVIOUS
    <3>2. r \in EntryRecords /\ r.state = "intent"
      BY <1>2, <3>1 DEF EntryRecords, EntryStates, CallRecords
    <3> QED
      BY <2>1, <3>1, <3>2 DEF LedgerOK, TypeOK
  <2>5. TypeOK'
    BY <1>3, <2>2, <2>3, <2>4 DEF LedgerOK, TypeOK
  <2>6. Moves
    <3>1. \A d \in Calls : /\ call'[d].id = call[d].id
                           /\ call'[d].stage = "unused" <=> call[d].stage = "unused"
                           /\ call'[d].stage \in Waiting => call[d].stage \in Waiting
      BY <1>1, <1>2, <2>2 DEF Waiting
    <3>2. ~\A d \in Calls : call[d].id = i => call[d].stage \notin Waiting
      BY <1>1, <1>2 DEF Waiting
    <3>3. \A k \in Ids : k # i => (Untouched(k)' <=> Untouched(k))
      BY <1>3, <2>3 DEF Untouched
    <3> QED
      BY <1>3, <3>1, <3>2, <3>3 DEF Moves
  <2>7. ran[i] = 0 /\ row[i].state = "none"
    <3>1. row[i].state = "none"
      BY <1>1, <1>2, <2>1 DEF LedgerOK, EntryOK, EntryAt, TypeOK, EntryRecords
    <3>2. clock \in Nat /\ issued[i].time \in Nat /\ ran[i] \in {0, 1}
      BY <1>1 DEF LedgerOK, TypeOK, EntryOK, EntryAt
    <3> QED
      BY <1>1, <1>2, <3>1, <3>2, Bounds DEF LedgerOK, EntryOK, EntryAt
  <2>8. CallOK'
    <3>1. ASSUME NEW d \in Calls PROVE CallRest(d)'
      <4>1. CASE d = c
        BY <1>2, <1>3, <2>2, <4>1 DEF CallRest, CallClear, AtWork
      <4>2. CASE d # c
        <5>1. call'[d] = call[d] /\ call[d].id \in Ids \cup {None} /\ CallRest(d) /\ (Alone(d)' <=> Alone(d))
          BY <2>2, <2>6, <4>2, MovesKeep DEF LedgerOK, TypeOK, CallRecords, CallOK
        <5>2. Alone(d) => call[d].id # i
          BY <1>1, <4>2 DEF Alone
        <5>3. call[d].id \in Ids \ {i} /\ Untouched(call[d].id) => Untouched(call[d].id)'
          BY <1>3, <2>3, <5>1 DEF Untouched
        <5>4. CASE call[d].id \notin raced
          <6>1. ASSUME call'[d].id # None, Alone(d)', call'[d].stage \in {"sent", "checked", "pruning", "refused"}
                PROVE  call[d].id \in Ids \ {i} /\ Untouched(call[d].id)
            BY <5>1, <5>2, <5>4, <6>1 DEF CallRest, CallClear
          <6>2. call'[d].id # None /\ Alone(d)' /\ call'[d].stage \in {"sent", "checked", "pruning", "refused"}
                  => Untouched(call[d].id)'
            BY <5>3, <6>1
          <6>3. CallClear(d)'
            BY <1>3, <5>1, <5>4, <6>2 DEF CallRest, CallClear, AtWork
          <6> QED
            BY <1>3, <5>1, <6>3 DEF CallRest
        <5>5. CASE call[d].id \in raced
          BY <1>3, <5>1, <5>5 DEF CallRest
        <5> QED
          BY <5>4, <5>5
      <4> QED
        BY <4>1, <4>2
    <3> QED
      BY <2>6, <3>1, MovesKeep DEF CallOK
  <2>9. EntryAt(i)'
    <3>1. ~Expired(i, mem[i], clock)'
      <4>1. clock \in Nat /\ issued[i].time \in Nat
        BY DEF LedgerOK, TypeOK
      <4> QED
        BY <1>2, <1>3, <4>1, Bounds DEF Expired
    <3> QED
      BY <1>2, <1>3, <2>2, <2>3, <2>4, <2>7, <3>1 DEF EntryAt
  <2>10. EntryOK'
    BY <1>3, <2>3, <2>4, <2>6, <2>9, EntryFrame DEF EntryOK
  <2> QED
    BY <2>5, <2>6, <2>8, <2>10, MovesKeep DEF LedgerOK
<1> QED
  BY <1>4, <1>5
LEMMA LookupStep ==
  ASSUME LedgerOK, NEW c \in Calls, Lookup(c)
  PROVE  LedgerOK'
<1> USE DEF Lookup, pageVars, worldVars
<1>1. CASE call[c].id \notin raced
  BY <1>1, LookupClear
<1>2. CASE call[c].id \in raced
  <2>1. PICK i \in raced : i = call[c].id /\ i \in Ids
    BY <1>2 DEF LedgerOK, TypeOK
  <2>2. PICK answer \in {"joined", "ok", "refused", "unsure"} : Answered(c, answer)
    <3>1. \/ Answered(c, "joined") \/ Answered(c, "refused") \/ Answered(c, "unsure")
          \/ Answered(c, Shown("ok")) \/ Answered(c, Shown("unsure"))
      BY DEF Answered
    <3>2. Shown("ok") \in {"ok", "refused", "unsure"} /\ Shown("unsure") \in {"ok", "refused", "unsure"}
      BY ShownIs
    <3> QED
      BY <3>1, <3>2
  <2>3. /\ call' \in [Calls -> CallRecords]
        /\ \A d \in Calls \ {c} : call'[d] = call[d]
        /\ call'[c].id = i /\ call'[c].now = call[c].now /\ call'[c].cutoff = call[c].cutoff
        /\ call'[c].stage # "unused"
    BY <2>1, <2>2, AnsweredMoves DEF LedgerOK, Stages, Waiting
  <2>4. call[c] \in CallRecords /\ \A d \in Calls : call[d].now <= clock /\ call[d].cutoff <= clock
    BY DEF LedgerOK, TypeOK, CallOK, CallRest
  <2>5. /\ job' \in [Ids -> Jobs] /\ \A k \in Ids \ {i} : job'[k] = job[k]
        /\ mem' \in [Ids -> EntryRecords] /\ \A k \in Ids \ {i} : mem'[k] = mem[k]
    <3>1. PICK r : r = [state |-> "intent", at |-> call[c].now]
      OBVIOUS
    <3>2. r \in EntryRecords
      BY <2>4, <3>1 DEF EntryRecords, EntryStates, CallRecords
    <3>3. job' = job \/ job' = [job EXCEPT ![i] = "recording"]
      BY <2>1
    <3>4. mem' = mem \/ mem' = [mem EXCEPT ![i] = r]
      BY <2>1, <3>1
    <3>5. job \in [Ids -> Jobs] /\ mem \in [Ids -> EntryRecords]
      BY DEF LedgerOK, TypeOK
    <3>6. job' \in [Ids -> Jobs] /\ \A k \in Ids \ {i} : job'[k] = job[k]
      <4>1. CASE job' = job
        BY <3>5, <4>1
      <4>2. CASE job' = [job EXCEPT ![i] = "recording"]
        BY <3>5, <4>2 DEF Jobs
      <4> QED
        BY <3>3, <4>1, <4>2
    <3>7. mem' \in [Ids -> EntryRecords] /\ \A k \in Ids \ {i} : mem'[k] = mem[k]
      <4>1. CASE mem' = mem
        BY <3>5, <4>1
      <4>2. CASE mem' = [mem EXCEPT ![i] = r]
        BY <3>2, <3>5, <4>2
      <4> QED
        BY <3>4, <4>1, <4>2
    <3> QED
      BY <3>6, <3>7
  <2>6. /\ row' = row /\ ran' = ran /\ fenced' = fenced
        /\ UNCHANGED <<clock, up, shared, raced, faults, page, issued, given>>
    OBVIOUS
  <2>7. TypeOK'
    BY <2>3, <2>5, <2>6 DEF LedgerOK, TypeOK
  <2>8. \A d \in Calls : /\ call[d].id # i => call'[d] = call[d]
                         /\ call'[d].id = call[d].id /\ call'[d].now <= clock /\ call'[d].cutoff <= clock
                         /\ call'[d].stage = "unused" <=> call[d].stage = "unused"
                         /\ call'[d].stage \in Waiting => call[d].stage \in Waiting
    BY <2>1, <2>3, <2>4 DEF Waiting
  <2> QED
    BY <2>5, <2>6, <2>7, <2>8, RacedKeeps
<1> QED
  BY <1>1, <1>2
---------------------------------------------------------------------------
(* Steps of a job.                                                         *)

LEMMA WorkedOn ==
  ASSUME LedgerOK, NEW i \in Ids \ raced, job[i] # "none"
  PROVE  /\ up /\ i \notin given /\ \E c \in Calls : call[c].id = i
         /\ \A c \in Calls : call[c].id = i /\ Alone(c)
                => call[c].stage \notin {"sent", "checked", "pruning", "refused"}
         /\ mem[i].state = "intent" /\ ~Expired(i, mem[i], clock)
<1>1. ~Untouched(i)
  BY DEF Untouched
<1>2. EntryAt(i) /\ \A c \in Calls : (call[c].id = i => CallClear(c)) /\ (call[c].id = i => call[c].id # None)
  BY Bounds DEF LedgerOK, EntryOK, CallOK, CallRest
<1>3. up \in BOOLEAN
  BY DEF LedgerOK, TypeOK
<1> QED
  BY <1>1, <1>2, <1>3 DEF LedgerOK, GivenOK, EntryAt, CallClear

(* A job that goes on.                                                     *)
LEMMA GoesOnKeeps ==
  ASSUME LedgerOK, UNCHANGED <<call, page, issued, given, clock, up, shared, raced>>,
         NEW i \in Ids \ raced, job[i] # "none", job'[i] # "none", ran[i] = 1 => ran'[i] = 1,
         \A k \in Ids \ {i} : job'[k] = job[k] /\ ran'[k] = ran[k]
  PROVE  Moves /\ CallOK'
<1>1. i \notin given /\ \A c \in Calls : call[c].id = i /\ Alone(c)
                          => call[c].stage \notin {"sent", "checked", "pruning", "refused"}
  BY WorkedOn
<1>2. \A k \in Ids : k # i => (Untouched(k)' <=> Untouched(k))
  BY DEF Untouched
<1>3. ~Untouched(i)
  BY DEF Untouched
<1>4. Moves
  BY <1>2, <1>3 DEF Moves
<1>5. ASSUME NEW c \in Calls PROVE CallRest(c)'
  <2>1. CallRest(c) /\ call[c].id \in Ids \cup {None} /\ call'[c] = call[c] /\ (Alone(c)' <=> Alone(c))
    BY DEF LedgerOK, CallOK, TypeOK, CallRecords, Alone
  <2>2. CASE call[c].id \in raced
    BY <2>1, <2>2 DEF CallRest
  <2>3. CASE call[c].id \notin raced
    <3>1. call[c].id \in Ids \ {i} /\ Untouched(call[c].id) => Untouched(call[c].id)'
      BY <2>1 DEF Untouched
    <3>2. call'[c].id # None /\ Alone(c)' /\ call'[c].stage \in {"sent", "checked", "pruning", "refused"}
            => Untouched(call[c].id)'
      <4>1. ASSUME call'[c].id # None, Alone(c)', call'[c].stage \in {"sent", "checked", "pruning", "refused"}
            PROVE  call[c].id \in Ids \ {i} /\ Untouched(call[c].id)
        BY <1>1, <2>1, <2>3, <4>1 DEF CallRest, CallClear
      <4> QED
        BY <3>1, <4>1
    <3>3. call'[c].stage = "ok" => ran'[call'[c].id] = 1
      BY <2>1, <2>3 DEF CallRest, CallClear, LedgerOK, CallOK
    <3>4. CallClear(c)'
      BY <2>1, <2>3, <3>2, <3>3 DEF CallRest, CallClear, AtWork
    <3> QED
      BY <2>1, <3>4 DEF CallRest
  <2> QED
    BY <2>2, <2>3
<1> QED
  BY <1>4, <1>5, MovesKeep DEF CallOK

(* A job that ends answers its calls: `ok` only when the work was done,    *)
(* `refused` only when it was not.                                         *)
LEMMA FinishKeeps ==
  ASSUME LedgerOK, UNCHANGED <<page, issued, given, clock, up, shared, raced>>,
         NEW i \in Ids \ raced, job[i] # "none", NEW answer \in {"ok", "refused", "unsure"}, Finish(i, answer),
         \A k \in Ids \ {i} : ran'[k] = ran[k],
         ran[i] = 1 => ran'[i] = 1,
         answer = "ok" => ran'[i] = 1,
         answer = "refused" => ran'[i] = 0
  PROVE  Moves /\ CallOK'
<1>1. /\ job'[i] = "none" /\ \A k \in Ids \ {i} : job'[k] = job[k]
      /\ \A c \in Calls :
           /\ call'[c].id = call[c].id /\ call'[c].now = call[c].now /\ call'[c].cutoff = call[c].cutoff
           /\ call'[c].stage = IF call[c].id = i /\ call[c].stage = "joined" THEN Shown(answer) ELSE call[c].stage
  BY FinishAnswers DEF LedgerOK, TypeOK
<1>2. \A c \in Calls : call[c].id = i /\ Alone(c)
         => call[c].stage \notin {"sent", "checked", "pruning", "refused"}
  BY WorkedOn
<1>3. \A k \in Ids : k # i => (Untouched(k)' <=> Untouched(k))
  BY <1>1 DEF Untouched
<1>4. ~Untouched(i)
  BY DEF Untouched
<1>5. Shown(answer) \in {"ok", "refused", "unsure"} /\ (shared => Shown(answer) = answer)
  BY ShownIs
<1>6. Moves
  BY <1>1, <1>3, <1>4, <1>5 DEF Moves, Waiting
<1>7. ASSUME NEW c \in Calls PROVE CallRest(c)'
  <2>1. CallRest(c) /\ call[c].id \in Ids \cup {None} /\ (Alone(c)' <=> Alone(c))
    BY <1>6, MovesKeep DEF LedgerOK, CallOK, TypeOK, CallRecords
  <2>2. CASE call[c].id = i /\ call[c].stage = "joined"
    <3>1. call'[c].id = i /\ call'[c].stage = answer
      BY <1>1, <1>5, <2>1, <2>2 DEF CallRest, CallClear
    <3>2. answer = "refused" => Untouched(i)'
      BY <1>1 DEF Untouched
    <3>3. answer = "refused" => Untouched(call[c].id)'
      BY <2>2, <3>1, <3>2
    <3>4. CallClear(c)'
      BY <1>1, <2>1, <2>2, <3>1, <3>3 DEF CallRest, CallClear, AtWork
    <3> QED
      BY <1>1, <2>1, <3>4 DEF CallRest
  <2>3. CASE ~(call[c].id = i /\ call[c].stage = "joined") /\ call[c].id \notin raced
    <3>1. call'[c].id = call[c].id /\ call'[c].stage = call[c].stage
      BY <1>1, <2>3
    <3>2. call[c].id \in Ids \ {i} /\ Untouched(call[c].id) => Untouched(call[c].id)'
      BY <1>1, <3>1 DEF Untouched
    <3>3. call'[c].id # None /\ Alone(c)' /\ call'[c].stage \in {"sent", "checked", "pruning", "refused"}
            => Untouched(call[c].id)'
      <4>1. ASSUME call'[c].id # None, Alone(c)', call'[c].stage \in {"sent", "checked", "pruning", "refused"}
            PROVE  call[c].id \in Ids \ {i} /\ Untouched(call[c].id)
        BY <1>2, <2>1, <2>3, <3>1, <4>1 DEF CallRest, CallClear
      <4> QED
        BY <3>2, <4>1
    <3>4. call'[c].stage = "ok" => ran'[call'[c].id] = 1
      BY <2>1, <2>3, <3>1 DEF CallRest, CallClear, LedgerOK, CallOK
    <3>5. CallClear(c)'
      BY <1>1, <2>1, <2>3, <3>1, <3>3, <3>4 DEF CallRest, CallClear, AtWork
    <3> QED
      BY <1>1, <2>1, <3>5 DEF CallRest
  <2>4. CASE call[c].id \in raced
    BY <1>1, <2>1, <2>4 DEF CallRest
  <2> QED
    BY <2>2, <2>3, <2>4
<1> QED
  BY <1>6, <1>7, MovesKeep DEF CallOK

(* What a step of a job leaves to prove: the entry it works on.            *)
LEMMA JobKeeps ==
  ASSUME LedgerOK, TypeOK', Moves, CallOK', UNCHANGED <<issued, clock, up, raced>>, NEW i \in Ids \ raced, job[i] # "none",
         \A k \in Ids \ {i} : job'[k] = job[k] /\ mem'[k] = mem[k] /\ row'[k] = row[k] /\ ran'[k] = ran[k],
         row'[i].state # "none" => mem'[i].state # "none",
         job'[i] # "none" => mem'[i] = mem[i],
         job'[i] = "recording" => row'[i].state = "none",
         job'[i] \in {"admitted", "withdrawing", "completing"} => row'[i].state = "intent",
         job'[i] \in {"recording", "admitted", "withdrawing"} => ran'[i] = 0,
         job'[i] = "completing" => ran'[i] = 1,
         mem'[i].state = "done" \/ row'[i].state = "done" => ran'[i] = 1,
         ran'[i] \in {0, 1}, ran'[i] = 1 => row'[i].state # "none"
  PROVE  LedgerOK'
<1>1. /\ up /\ \E c \in Calls : call[c].id = i
      /\ mem[i].state = "intent" /\ ~Expired(i, mem[i], clock)
  BY WorkedOn
<1>2. \E c \in Calls : call'[c].id = i
  BY <1>1 DEF Moves
<1>3. job'[i] # "none" => ~Expired(i, mem[i], clock)'
  BY <1>1 DEF Expired
<1>4. EntryAt(i)'
  <2>1. up'
    BY <1>1
  <2>2. job'[i] # "none" => mem'[i].state = "intent"
    BY <1>1
  <2> QED
    BY <1>2, <1>3, <2>1, <2>2 DEF EntryAt
<1>5. EntryOK'
  BY <1>4, EntryFrame DEF EntryOK
<1> QED
  BY <1>5, MovesKeep DEF LedgerOK

LEMMA JobTypes ==
  ASSUME LedgerOK, NEW i \in Ids
  PROVE  /\ mem[i] \in EntryRecords /\ row[i] \in EntryRecords /\ job[i] \in Jobs /\ ran[i] \in Nat
         /\ i \notin raced => EntryAt(i)
         /\ NoEntry \in EntryRecords /\ NoEntry.state = "none"
         /\ up \in BOOLEAN /\ shared \in BOOLEAN /\ raced \subseteq Ids /\ TypeOK
  BY DEF LedgerOK, TypeOK, EntryOK, NoEntry, EntryRecords, EntryStates

(* What an entry may become in a step of its job.                          *)
LEMMA DoneEntry ==
  ASSUME LedgerOK, NEW i \in Ids
  PROVE  [mem[i] EXCEPT !.state = "done"] \in EntryRecords /\ [mem[i] EXCEPT !.state = "done"].state = "done"
  BY JobTypes DEF EntryRecords, EntryStates

(* A step of a job that a race caught.                                     *)
LEMMA RacedJob ==
  ASSUME LedgerOK, NEW i \in raced, NEW entry \in EntryRecords, NEW kept \in EntryRecords, NEW outcome \in Outcomes,
         Write(i, entry, outcome) \/ (row' = row /\ fenced' = fenced /\ faults' \in {faults, faults + 1}),
         mem' = [mem EXCEPT ![i] = kept],
         ran' = ran \/ ran' = [ran EXCEPT ![i] = @ + 1],
         \/ \E stage \in Jobs : job' = [job EXCEPT ![i] = stage] /\ UNCHANGED call
         \/ \E answer \in {"ok", "refused", "unsure"} : Finish(i, answer),
         UNCHANGED <<page, issued, given, clock, up, shared, raced>>
  PROVE  LedgerOK'
<1>1. i \in Ids /\ TypeOK /\ shared \in BOOLEAN
  BY DEF LedgerOK, TypeOK
<1>2. /\ row' \in [Ids -> EntryRecords] /\ fenced' \in BOOLEAN /\ faults' \in Nat
      /\ \A k \in Ids \ {i} : row'[k] = row[k]
  <2>1. CASE Write(i, entry, outcome)
    BY <1>1, <2>1, WriteWrites
  <2>2. CASE row' = row /\ fenced' = fenced /\ faults' \in {faults, faults + 1}
    BY <1>1, <2>2 DEF TypeOK
  <2> QED
    BY <2>1, <2>2
<1>3. mem' \in [Ids -> EntryRecords] /\ \A k \in Ids \ {i} : mem'[k] = mem[k]
  BY <1>1 DEF TypeOK
<1>4. ran' \in [Ids -> Nat] /\ \A k \in Ids \ {i} : ran'[k] = ran[k]
  BY <1>1 DEF TypeOK
<1>5. /\ job' \in [Ids -> Jobs] /\ \A k \in Ids \ {i} : job'[k] = job[k]
      /\ call' \in [Calls -> CallRecords]
      /\ \A c \in Calls : /\ call[c].id # i => call'[c] = call[c]
                          /\ call'[c].id = call[c].id /\ call'[c].now = call[c].now /\ call'[c].cutoff = call[c].cutoff
                          /\ call'[c].stage = "unused" <=> call[c].stage = "unused"
                          /\ call'[c].stage \in Waiting => call[c].stage \in Waiting
  <2>1. CASE \E stage \in Jobs : job' = [job EXCEPT ![i] = stage] /\ UNCHANGED call
    BY <1>1, <2>1 DEF TypeOK
  <2>2. ASSUME NEW answer \in {"ok", "refused", "unsure"}, Finish(i, answer)
        PROVE  /\ job' \in [Ids -> Jobs] /\ \A k \in Ids \ {i} : job'[k] = job[k]
               /\ call' \in [Calls -> CallRecords]
               /\ \A c \in Calls :
                    /\ call[c].id # i => call'[c] = call[c]
                    /\ call'[c].id = call[c].id /\ call'[c].now = call[c].now /\ call'[c].cutoff = call[c].cutoff
                    /\ call'[c].stage = "unused" <=> call[c].stage = "unused"
                    /\ call'[c].stage \in Waiting => call[c].stage \in Waiting
    <3>1. Shown(answer) \in {"ok", "refused", "unsure"}
      BY ShownIs
    <3>2. \A c \in Calls : call[c].id # i => call'[c] = call[c]
      BY <2>2 DEF Finish, Joined
    <3> QED
      BY <1>1, <2>2, <3>1, <3>2, FinishAnswers DEF Waiting
  <2> QED
    BY <2>1, <2>2
<1>6. \A c \in Calls : call'[c].now <= clock /\ call'[c].cutoff <= clock
  BY <1>5 DEF LedgerOK, CallOK, CallRest
<1>7. TypeOK'
  BY <1>1, <1>2, <1>3, <1>4, <1>5 DEF TypeOK
<1> QED
  BY <1>2, <1>3, <1>4, <1>5, <1>6, <1>7, RacedKeeps

LEMMA RacedSteps ==
  ASSUME LedgerOK, NEW i \in raced, Record(i) \/ Execute(i) \/ ExecuteFails(i) \/ Withdraw(i) \/ Complete(i)
  PROVE  LedgerOK'
<1> USE DEF pageVars
<1>1. i \in Ids /\ mem[i] \in EntryRecords /\ NoEntry \in EntryRecords /\ TypeOK
  BY JobTypes DEF LedgerOK, TypeOK
<1>2. {"none", "admitted", "withdrawing", "completing"} \subseteq Jobs
  BY DEF Jobs
<1>3. CASE Record(i)
  <2>1. PICK outcome \in Outcomes :
          /\ Write(i, mem[i], outcome)
          /\ mem' = [mem EXCEPT ![i] = IF outcome = "refused" THEN NoEntry ELSE @]
          /\ CASE outcome = "done" -> job' = [job EXCEPT ![i] = "admitted"] /\ UNCHANGED call
               [] outcome = "refused" -> Finish(i, "refused")
               [] outcome = "unknown" -> Finish(i, "unsure")
    BY <1>3 DEF Record
  <2>2. ran' = ran /\ UNCHANGED <<page, issued, given, clock, up, shared, raced>>
    BY <1>3 DEF Record
  <2>3. \/ job' = [job EXCEPT ![i] = "admitted"] /\ UNCHANGED call
        \/ \E answer \in {"ok", "refused", "unsure"} : Finish(i, answer)
    BY <2>1 DEF Outcomes
  <2>4. PICK kept \in EntryRecords : mem' = [mem EXCEPT ![i] = kept]
    BY <1>1, <2>1
  <2> QED
    BY <1>1, <1>2, <2>1, <2>2, <2>3, <2>4, RacedJob
<1>4. CASE Execute(i) \/ ExecuteFails(i)
  <2>1. /\ mem' = mem /\ row' = row /\ fenced' = fenced /\ faults' \in {faults, faults + 1}
        /\ UNCHANGED <<page, issued, given, clock, up, shared, raced>>
        /\ ran' = ran \/ ran' = [ran EXCEPT ![i] = @ + 1]
    BY <1>4 DEF Execute, ExecuteFails, worldVars
  <2>2. \/ \E stage \in Jobs : job' = [job EXCEPT ![i] = stage] /\ UNCHANGED call
        \/ \E answer \in {"ok", "refused", "unsure"} : Finish(i, answer)
    BY <1>2, <1>4 DEF Execute, ExecuteFails
  <2>3. mem' = [mem EXCEPT ![i] = mem[i]]
    BY <1>1, <2>1 DEF TypeOK
  <2>4. "done" \in Outcomes
    BY DEF Outcomes
  <2> QED
    BY <1>1, <2>1, <2>2, <2>3, <2>4, RacedJob
<1>5. CASE Withdraw(i)
  <2>1. PICK outcome \in Outcomes :
          /\ Write(i, NoEntry, outcome)
          /\ mem' = [mem EXCEPT ![i] = IF outcome = "done" THEN NoEntry ELSE @]
          /\ Finish(i, IF outcome = "done" THEN "refused" ELSE "unsure")
    BY <1>5 DEF Withdraw
  <2>2. ran' = ran /\ UNCHANGED <<page, issued, given, clock, up, shared, raced>>
    BY <1>5 DEF Withdraw
  <2>3. \E answer \in {"ok", "refused", "unsure"} : Finish(i, answer)
    BY <2>1
  <2>4. PICK kept \in EntryRecords : mem' = [mem EXCEPT ![i] = kept]
    BY <1>1, <2>1
  <2> QED
    BY <1>1, <2>1, <2>2, <2>3, <2>4, RacedJob
<1>6. CASE Complete(i)
  <2>1. PICK done : done = [mem[i] EXCEPT !.state = "done"]
    OBVIOUS
  <2>2. done \in EntryRecords
    BY <1>1, <2>1, DoneEntry
  <2>3. PICK outcome \in Outcomes :
          /\ Write(i, done, outcome)
          /\ mem' = [mem EXCEPT ![i] = IF outcome = "done" THEN done ELSE @]
          /\ Finish(i, IF outcome = "done" THEN "ok" ELSE "unsure")
    BY <1>6, <2>1 DEF Complete
  <2>4. ran' = ran /\ UNCHANGED <<page, issued, given, clock, up, shared, raced>>
    BY <1>6 DEF Complete
  <2>5. \E answer \in {"ok", "refused", "unsure"} : Finish(i, answer)
    BY <2>3
  <2>6. PICK kept \in EntryRecords : mem' = [mem EXCEPT ![i] = kept]
    BY <1>1, <2>2, <2>3
  <2> QED
    BY <2>2, <2>3, <2>4, <2>5, <2>6, RacedJob
<1> QED
  BY <1>3, <1>4, <1>5, <1>6

LEMMA RecordStep ==
  ASSUME LedgerOK, NEW i \in Ids \ raced, Record(i)
  PROVE  LedgerOK'
<1> USE DEF pageVars
<1>1. PICK outcome \in Outcomes :
         /\ Write(i, mem[i], outcome)
         /\ mem' = [mem EXCEPT ![i] = IF outcome = "refused" THEN NoEntry ELSE @]
         /\ CASE outcome = "done" -> job' = [job EXCEPT ![i] = "admitted"] /\ UNCHANGED call
              [] outcome = "refused" -> Finish(i, "refused")
              [] outcome = "unknown" -> Finish(i, "unsure")
  BY DEF Record
<1>2. /\ up /\ job[i] = "recording" /\ ran' = ran /\ UNCHANGED <<page, issued, given, clock, up, shared, raced>>
      /\ mem[i].state = "intent" /\ row[i].state = "none" /\ ran[i] = 0
  BY JobTypes DEF Record, EntryAt
<1>3. /\ row' \in [Ids -> EntryRecords] /\ fenced' \in BOOLEAN /\ faults' \in Nat
      /\ \A k \in Ids \ {i} : row'[k] = row[k]
      /\ row'[i] \in {row[i], mem[i]}
      /\ outcome = "done" => row'[i] = mem[i]
      /\ outcome = "refused" => row'[i] = row[i]
  BY <1>1, JobTypes, WriteWrites
<1>4. /\ mem' \in [Ids -> EntryRecords]
      /\ \A k \in Ids \ {i} : mem'[k] = mem[k]
      /\ mem'[i] = IF outcome = "refused" THEN NoEntry ELSE mem[i]
  BY <1>1, JobTypes DEF TypeOK
<1>5. CASE outcome = "done"
  <2>1. call' = call /\ job' \in [Ids -> Jobs] /\ job'[i] = "admitted" /\ \A k \in Ids \ {i} : job'[k] = job[k]
    BY <1>1, <1>5, JobTypes DEF TypeOK, Jobs
  <2>2. TypeOK'
    BY <1>2, <1>3, <1>4, <2>1, JobTypes DEF TypeOK
  <2>3. Moves /\ CallOK'
    BY <1>2, <2>1, GoesOnKeeps
  <2> QED
    BY <1>2, <1>3, <1>4, <1>5, <2>1, <2>2, <2>3, JobKeeps
<1>6. CASE outcome # "done"
  <2>1. PICK answer \in {"ok", "refused", "unsure"} : Finish(i, answer) /\ answer \in {"refused", "unsure"}
    BY <1>1, <1>6 DEF Outcomes
  <2>2. /\ job' \in [Ids -> Jobs] /\ job'[i] = "none" /\ \A k \in Ids \ {i} : job'[k] = job[k]
        /\ call' \in [Calls -> CallRecords]
    BY <2>1, JobTypes, FinishAnswers
  <2>3. TypeOK'
    BY <1>2, <1>3, <1>4, <2>2, JobTypes DEF TypeOK
  <2>4. Moves /\ CallOK'
    BY <1>2, <2>1, FinishKeeps
  <2> QED
    BY <1>2, <1>3, <1>4, <2>2, <2>3, <2>4, JobTypes, JobKeeps
<1> QED
  BY <1>5, <1>6

LEMMA ExecuteStep ==
  ASSUME LedgerOK, NEW i \in Ids \ raced, Execute(i) \/ ExecuteFails(i)
  PROVE  LedgerOK'
<1> USE DEF pageVars, worldVars
<1>1. /\ up /\ job[i] = "admitted" /\ mem' = mem /\ row' = row /\ fenced' = fenced
      /\ UNCHANGED <<page, issued, given, clock, up, shared, raced>>
      /\ mem[i].state = "intent" /\ row[i].state = "intent" /\ ran[i] = 0
  BY JobTypes DEF Execute, ExecuteFails, EntryAt
<1>2. faults' \in Nat
  BY JobTypes DEF Execute, ExecuteFails, TypeOK
<1>3. /\ ran' \in [Ids -> Nat] /\ ran'[i] \in {0, 1} /\ \A k \in Ids \ {i} : ran'[k] = ran[k]
  <2>1. ran' = ran \/ ran' = [ran EXCEPT ![i] = @ + 1]
    BY DEF Execute, ExecuteFails
  <2>2. CASE ran' = ran
    BY <1>1, <2>2, JobTypes DEF TypeOK
  <2>3. CASE ran' = [ran EXCEPT ![i] = @ + 1]
    BY <1>1, <2>3, JobTypes DEF TypeOK
  <2> QED
    BY <2>1, <2>2, <2>3
<1>4. CASE job'[i] # "none"
  <2>1. /\ call' = call /\ job' \in [Ids -> Jobs] /\ \A k \in Ids \ {i} : job'[k] = job[k]
        /\ \/ job'[i] = "completing" /\ ran'[i] = 1
           \/ job'[i] = "withdrawing" /\ ran'[i] = 0
    <3>1. CASE Execute(i)
      BY <1>1, <3>1, JobTypes DEF Execute, TypeOK, Jobs
    <3>2. CASE ExecuteFails(i) /\ job' = [job EXCEPT ![i] = "withdrawing"] /\ UNCHANGED <<ran, call>>
      BY <1>1, <3>2, JobTypes DEF TypeOK, Jobs
    <3>3. CASE \E answer : Finish(i, answer)
      BY <1>4, <3>3, JobTypes DEF Finish, TypeOK
    <3> QED
      BY <3>1, <3>2, <3>3 DEF ExecuteFails
  <2>2. TypeOK'
    BY <1>1, <1>2, <1>3, <2>1, JobTypes DEF TypeOK
  <2>3. Moves /\ CallOK'
    BY <1>1, <1>3, <1>4, <2>1, GoesOnKeeps
  <2> QED
    BY <1>1, <1>3, <2>1, <2>2, <2>3, JobKeeps
<1>5. CASE job'[i] = "none"
  <2>1. PICK answer \in {"ok", "refused", "unsure"} : /\ Finish(i, answer) /\ answer # "ok"
                                                      /\ answer = "refused" => ran' = ran
    <3>1. ~(job' = [job EXCEPT ![i] = "completing"]) /\ ~(job' = [job EXCEPT ![i] = "withdrawing"])
      BY <1>5, JobTypes DEF TypeOK
    <3> QED
      BY <3>1 DEF Execute, ExecuteFails
  <2>2. /\ job' \in [Ids -> Jobs] /\ \A k \in Ids \ {i} : job'[k] = job[k]
        /\ call' \in [Calls -> CallRecords]
    BY <2>1, JobTypes, FinishAnswers
  <2>3. TypeOK'
    BY <1>1, <1>2, <1>3, <2>2, JobTypes DEF TypeOK
  <2>4. Moves /\ CallOK'
    BY <1>1, <1>3, <2>1, FinishKeeps
  <2> QED
    BY <1>1, <1>3, <1>5, <2>2, <2>3, <2>4, JobKeeps
<1> QED
  BY <1>4, <1>5

LEMMA WithdrawStep ==
  ASSUME LedgerOK, NEW i \in Ids \ raced, Withdraw(i)
  PROVE  LedgerOK'
<1> USE DEF pageVars
<1>1. PICK outcome \in Outcomes :
         /\ Write(i, NoEntry, outcome)
         /\ mem' = [mem EXCEPT ![i] = IF outcome = "done" THEN NoEntry ELSE @]
         /\ Finish(i, IF outcome = "done" THEN "refused" ELSE "unsure")
  BY DEF Withdraw
<1>2. /\ up /\ job[i] = "withdrawing" /\ ran' = ran /\ UNCHANGED <<page, issued, given, clock, up, shared, raced>>
      /\ mem[i].state = "intent" /\ row[i].state = "intent" /\ ran[i] = 0
  BY JobTypes DEF Withdraw, EntryAt
<1>3. /\ row' \in [Ids -> EntryRecords] /\ fenced' \in BOOLEAN /\ faults' \in Nat
      /\ \A k \in Ids \ {i} : row'[k] = row[k]
      /\ row'[i] \in {row[i], NoEntry}
      /\ outcome = "done" => row'[i] = NoEntry
  BY <1>1, JobTypes, WriteWrites
<1>4. /\ mem' \in [Ids -> EntryRecords]
      /\ \A k \in Ids \ {i} : mem'[k] = mem[k]
      /\ mem'[i] = IF outcome = "done" THEN NoEntry ELSE mem[i]
  BY <1>1, JobTypes DEF TypeOK
<1>5. PICK answer \in {"ok", "refused", "unsure"} : Finish(i, answer) /\ answer \in {"refused", "unsure"}
  BY <1>1
<1>6. /\ job' \in [Ids -> Jobs] /\ job'[i] = "none" /\ \A k \in Ids \ {i} : job'[k] = job[k]
      /\ call' \in [Calls -> CallRecords]
  BY <1>5, JobTypes, FinishAnswers
<1>7. TypeOK'
  BY <1>2, <1>3, <1>4, <1>6, JobTypes DEF TypeOK
<1>8. Moves /\ CallOK'
  BY <1>2, <1>5, FinishKeeps
<1> QED
  BY <1>2, <1>3, <1>4, <1>6, <1>7, <1>8, JobTypes, JobKeeps

LEMMA CompleteStep ==
  ASSUME LedgerOK, NEW i \in Ids \ raced, Complete(i)
  PROVE  LedgerOK'
<1> USE DEF pageVars
<1>1. PICK done : done = [mem[i] EXCEPT !.state = "done"]
  OBVIOUS
<1>2. done \in EntryRecords /\ done.state = "done"
  BY <1>1, JobTypes DEF EntryRecords, EntryStates
<1>3. PICK outcome \in Outcomes :
         /\ Write(i, done, outcome)
         /\ mem' = [mem EXCEPT ![i] = IF outcome = "done" THEN done ELSE @]
         /\ Finish(i, IF outcome = "done" THEN "ok" ELSE "unsure")
  BY <1>1 DEF Complete
<1>4. /\ up /\ job[i] = "completing" /\ ran' = ran /\ UNCHANGED <<page, issued, given, clock, up, shared, raced>>
      /\ mem[i].state = "intent" /\ row[i].state = "intent" /\ ran[i] = 1
  BY JobTypes DEF Complete, EntryAt
<1>5. /\ row' \in [Ids -> EntryRecords] /\ fenced' \in BOOLEAN /\ faults' \in Nat
      /\ \A k \in Ids \ {i} : row'[k] = row[k]
      /\ row'[i] \in {row[i], done}
  BY <1>2, <1>3, JobTypes, WriteWrites
<1>6. /\ mem' \in [Ids -> EntryRecords]
      /\ \A k \in Ids \ {i} : mem'[k] = mem[k]
      /\ mem'[i] \in {done, mem[i]}
  BY <1>2, <1>3, JobTypes DEF TypeOK
<1>7. PICK answer \in {"ok", "refused", "unsure"} : Finish(i, answer) /\ answer \in {"ok", "unsure"}
  BY <1>3
<1>8. /\ job' \in [Ids -> Jobs] /\ job'[i] = "none" /\ \A k \in Ids \ {i} : job'[k] = job[k]
      /\ call' \in [Calls -> CallRecords]
  BY <1>7, JobTypes, FinishAnswers
<1>9. TypeOK'
  BY <1>4, <1>5, <1>6, <1>8, JobTypes DEF TypeOK
<1>10. Moves /\ CallOK'
  BY <1>4, <1>7, FinishKeeps
<1> QED
  BY <1>2, <1>4, <1>5, <1>6, <1>8, <1>9, <1>10, JobKeeps
---------------------------------------------------------------------------
(* Steps of the world.                                                     *)

LEMMA StopStep ==
  ASSUME LedgerOK, Stop
  PROVE  LedgerOK'
<1> USE DEF Stop, pageVars
<1>1. /\ up' = FALSE /\ row' = row /\ fenced' = fenced /\ ran' = ran /\ faults' = faults + 1
      /\ UNCHANGED <<page, issued, given, clock, shared, raced>>
  OBVIOUS
<1>2. \A i \in Ids : job'[i] = "none" /\ mem'[i] = NoEntry
  OBVIOUS
<1>3. ASSUME NEW c \in Calls
      PROVE  /\ call'[c] \in CallRecords
             /\ call'[c].id = call[c].id /\ call'[c].now = call[c].now /\ call'[c].cutoff = call[c].cutoff
             /\ call'[c].stage = IF call[c].stage \in Waiting \ {"sent"} THEN "unsure" ELSE call[c].stage
  <2>1. call[c] \in CallRecords
    BY DEF LedgerOK, TypeOK
  <2>2. call'[c] = IF call[c].stage \in Waiting \ {"sent"} THEN [call[c] EXCEPT !.stage = "unsure"] ELSE call[c]
    OBVIOUS
  <2> QED
    BY <2>1, <2>2 DEF CallRecords, Stages
<1>4. TypeOK'
  <2>1. job' \in [Ids -> Jobs] /\ mem' \in [Ids -> EntryRecords]
    BY DEF NoEntry, EntryRecords, EntryStates, Jobs
  <2>2. call' \in [Calls -> CallRecords]
    BY <1>3
  <2>3. up' \in BOOLEAN
    BY <1>1
  <2>4. faults' \in Nat
    BY <1>1 DEF LedgerOK, TypeOK
  <2> QED
    BY <1>1, <2>1, <2>2, <2>3, <2>4 DEF LedgerOK, TypeOK
<1>5. Moves
  <2>1. \A c \in Calls : /\ call'[c].id = call[c].id
                         /\ call'[c].stage = "unused" <=> call[c].stage = "unused"
                         /\ call'[c].stage \in Waiting => call[c].stage \in Waiting
    BY <1>3 DEF Waiting
  <2> QED
    BY <1>1, <1>2, <2>1 DEF Moves, Untouched
<1>6. CallOK'
  <2>1. ASSUME NEW c \in Calls PROVE CallRest(c)'
    <3>1. CallRest(c) /\ call[c].id \in Ids \cup {None} /\ (Alone(c)' <=> Alone(c))
      BY <1>5, MovesKeep DEF LedgerOK, CallOK, TypeOK, CallRecords
    <3>2. ~AtWork(c)' /\ call'[c].stage # "joined"
      BY <1>3 DEF AtWork, Waiting
    <3>3. call[c].id \in Ids /\ Untouched(call[c].id) => Untouched(call[c].id)'
      BY <1>1, <1>2, <1>3 DEF Untouched
    <3>4. call'[c].stage \in {"ok", "sent", "checked", "pruning", "refused"} => call'[c].stage = call[c].stage
      BY <1>3
    <3>5. CASE call[c].id \notin raced
      <4>1. call'[c].id # None /\ Alone(c)' /\ call'[c].stage \in {"sent", "checked", "pruning", "refused"}
              => Untouched(call[c].id)'
        BY <1>3, <3>1, <3>3, <3>4, <3>5 DEF CallRest, CallClear
      <4>2. CallClear(c)'
        BY <1>1, <1>3, <3>1, <3>2, <3>4, <3>5, <4>1 DEF CallRest, CallClear
      <4> QED
        BY <1>1, <1>3, <3>1, <4>2 DEF CallRest
    <3>6. CASE call[c].id \in raced
      BY <1>1, <1>3, <3>1, <3>6 DEF CallRest
    <3> QED
      BY <3>5, <3>6
  <2> QED
    BY <1>5, <2>1, MovesKeep DEF CallOK
<1>7. EntryOK'
  <2>1. ASSUME NEW i \in Ids, i \notin raced' PROVE EntryAt(i)'
    <3>1. (\A c \in Calls : call'[c].id # i) => \A c \in Calls : call[c].id # i
      BY <1>3
    <3>2. EntryAt(i) /\ NoEntry.state = "none" /\ (Untouched(i) => Untouched(i)')
      BY <1>1, <1>2, <2>1, JobTypes DEF Untouched
    <3> QED
      BY <1>1, <1>2, <3>1, <3>2 DEF EntryAt
  <2> QED
    BY <2>1 DEF EntryOK
<1> QED
  BY <1>4, <1>5, <1>6, <1>7, MovesKeep DEF LedgerOK

(* The calls of a step that only moves the clock on, or what is shared     *)
(* while nobody is at work.                                                *)
LEMMA CallFrame ==
  ASSUME LedgerOK, UNCHANGED <<call, page, issued, given, job, ran>>,
         clock' >= clock, clock' \in Nat, raced \subseteq raced',
         \A c \in Calls : call[c].id \notin raced' =>
                          /\ AtWork(c) => issued[call[c].id].time + Retention >= clock'
                          /\ AtWork(c) \/ call[c].stage = "joined" => up' /\ shared'
  PROVE  Moves /\ CallOK'
<1>1. \A i \in Ids : Untouched(i)' <=> Untouched(i)
  BY DEF Untouched
<1>2. Moves
  BY <1>1 DEF Moves
<1>3. ASSUME NEW c \in Calls PROVE CallRest(c)'
  <2>1. /\ CallRest(c) /\ call[c].id \in Ids \cup {None} /\ (Alone(c)' <=> Alone(c)) /\ clock \in Nat
        /\ call[c].now \in Nat /\ call[c].cutoff \in Nat
    BY <1>2, MovesKeep DEF LedgerOK, CallOK, TypeOK, CallRecords
  <2>2. call'[c].now <= clock' /\ call'[c].cutoff <= clock'
    BY <2>1 DEF CallRest
  <2>3. CASE call[c].id \notin raced'
    <3>1. CallClear(c)
      BY <2>1, <2>3 DEF CallRest
    <3>2. call[c].id # None /\ Alone(c)' /\ call'[c].stage \in {"sent", "checked", "pruning", "refused"}
            => Untouched(call[c].id)'
      BY <1>1, <2>1, <3>1 DEF CallClear
    <3>3. call'[c].stage = "ok" => ran'[call'[c].id] = 1
      BY <3>1 DEF CallClear
    <3>4. /\ AtWork(c)' => issued'[call'[c].id].time + Retention >= clock'
          /\ AtWork(c)' \/ call'[c].stage = "joined" => up' /\ shared'
      BY <2>3 DEF AtWork
    <3>5. CallClear(c)'
      BY <3>2, <3>3, <3>4 DEF CallClear
    <3> QED
      BY <2>2, <3>5 DEF CallRest
  <2>4. CASE call[c].id \in raced'
    BY <2>2, <2>4 DEF CallRest
  <2> QED
    BY <2>3, <2>4
<1> QED
  BY <1>2, <1>3, MovesKeep DEF CallOK

LEMMA StartStep ==
  ASSUME LedgerOK, Start
  PROVE  LedgerOK'
<1> USE DEF Start, pageVars
<1>1. /\ ~up /\ up' = TRUE /\ fenced' = FALSE /\ mem' = row'
      /\ UNCHANGED <<job, ran, page, issued, given, call, clock, shared, raced, faults>>
  OBVIOUS
<1>2. ASSUME NEW i \in Ids
      PROVE  /\ row'[i] \in EntryRecords
             /\ row'[i] = row[i] \/ (row'[i].state = "none" /\ issued[i].time + Retention < clock)
  <2>1. row'[i] = IF Expired(i, row[i], clock) THEN NoEntry ELSE row[i]
    OBVIOUS
  <2> QED
    BY <2>1, JobTypes DEF Expired
<1>3. TypeOK'
  <2>1. row' \in [Ids -> EntryRecords]
    BY <1>2
  <2> QED
    BY <1>1, <2>1 DEF LedgerOK, TypeOK
<1>4. Moves /\ CallOK'
  <2>1. clock' >= clock /\ clock' \in Nat
    BY <1>1 DEF LedgerOK, TypeOK
  <2>2. \A c \in Calls : call[c].id \notin raced' => ~AtWork(c) /\ call[c].stage # "joined"
    BY <1>1 DEF LedgerOK, CallOK, CallRest, CallClear
  <2> QED
    BY <1>1, <2>1, <2>2, CallFrame
<1>5. EntryOK'
  <2>1. ASSUME NEW i \in Ids, i \notin raced' PROVE EntryAt(i)'
    <3>1. EntryAt(i) /\ job'[i] = "none" /\ (Untouched(i)' <=> Untouched(i))
      BY <1>1, <2>1, JobTypes DEF EntryAt, Untouched
    <3>2. mem'[i] = row'[i] /\ ran'[i] = ran[i]
      BY <1>1
    <3>3. row'[i].state = "done" => ran[i] = 1
      BY <1>2, <3>1 DEF EntryAt
    <3>4. (\A c \in Calls : call'[c].id # i) => Untouched(i) /\ row'[i].state = "none"
      BY <1>1, <1>2, <3>1 DEF EntryAt
    <3>5. ran[i] = 1 => row'[i].state # "none" \/ issued[i].time + Retention < clock
      BY <1>2, <3>1 DEF EntryAt
    <3> QED
      BY <1>1, <3>1, <3>2, <3>3, <3>4, <3>5 DEF EntryAt
  <2> QED
    BY <2>1 DEF EntryOK
<1> QED
  BY <1>3, <1>4, <1>5, MovesKeep DEF LedgerOK

LEMMA TickStep ==
  ASSUME LedgerOK, Tick
  PROVE  LedgerOK'
<1> USE DEF Tick, pageVars, ledgerVars
<1>1. /\ clock' = clock + 1 /\ clock \in Nat /\ clock' \in Nat /\ clock' >= clock
      /\ raced \subseteq raced' /\ raced' \subseteq Ids
      /\ UNCHANGED <<job, mem, row, fenced, ran, page, issued, given, call, up, shared, faults>>
  BY DEF LedgerOK, TypeOK
<1>2. TypeOK'
  BY <1>1 DEF LedgerOK, TypeOK
<1>3. Moves /\ CallOK'
  <2>1. ASSUME NEW c \in Calls, call[c].id \notin raced'
        PROVE  /\ AtWork(c) => issued[call[c].id].time + Retention >= clock'
               /\ AtWork(c) \/ call[c].stage = "joined" => up /\ shared
    <3>1. CallClear(c)
      BY <1>1, <2>1 DEF LedgerOK, CallOK, CallRest
    <3>2. AtWork(c) => issued[call[c].id].time + Retention >= clock'
      <4>1. AtWork(c) => call[c].id \in Ids /\ issued[call[c].id].time \in Nat
        BY DEF AtWork, LedgerOK, TypeOK, CallRecords, CallOK
      <4> QED
        BY <1>1, <2>1, <4>1, Bounds
    <3> QED
      BY <3>1, <3>2 DEF CallClear
  <2> QED
    BY <1>1, <2>1, CallFrame
<1>4. EntryOK'
  <2>1. ASSUME NEW i \in Ids, i \notin raced' PROVE EntryAt(i)'
    <3>1. EntryAt(i) /\ (Untouched(i)' <=> Untouched(i)) /\ issued[i].time \in Nat
      BY <1>1, <2>1, JobTypes DEF Untouched, LedgerOK, TypeOK
    <3>2. job'[i] # "none" => ~Expired(i, mem[i], clock)'
      BY <1>1 DEF Expired
    <3>3. issued[i].time + Retention < clock => issued'[i].time + Retention < clock'
      BY <1>1, <3>1, Bounds
    <3> QED
      BY <1>1, <3>1, <3>2, <3>3 DEF EntryAt
  <2> QED
    BY <2>1 DEF EntryOK
<1> QED
  BY <1>2, <1>3, <1>4, MovesKeep DEF LedgerOK

LEMMA ShareStep ==
  ASSUME LedgerOK, Share
  PROVE  LedgerOK'
<1> USE DEF Share, pageVars, ledgerVars
<1>1. /\ shared' = ~shared /\ faults' = faults + 1
      /\ raced \subseteq raced' /\ (raced \subseteq Ids => raced' \subseteq Ids)
      /\ UNCHANGED <<job, mem, row, fenced, ran, page, issued, given, call, up, clock>>
  OBVIOUS
<1>2. TypeOK'
  <2>1. shared' \in BOOLEAN
    BY <1>1
  <2>2. faults' \in Nat
    BY <1>1 DEF LedgerOK, TypeOK
  <2> QED
    BY <1>1, <2>1, <2>2 DEF LedgerOK, TypeOK
<1>3. Moves /\ CallOK'
  <2>1. clock' >= clock /\ clock' \in Nat
    BY <1>1 DEF LedgerOK, TypeOK
  <2>2. \A c \in Calls : call[c].id \notin raced' => ~AtWork(c) /\ call[c].stage # "joined"
    <3>1. \A c \in Calls : AtWork(c) \/ call[c].stage = "joined" => call[c].id \in Ids
      BY DEF AtWork, LedgerOK, TypeOK, CallRecords, CallOK
    <3> QED
      BY <3>1
  <2> QED
    BY <1>1, <2>1, <2>2, CallFrame
<1> QED
  BY <1>1, <1>2, <1>3, MovesKeep, EntriesFrame DEF LedgerOK
---------------------------------------------------------------------------
(* Steps of a page.                                                        *)

LEMMA PageTypes ==
  ASSUME LedgerOK, NEW p \in Pages
  PROVE  /\ page[p] \in PageRecords /\ page[p].id \in Ids \cup {None} /\ page[p].uncertain \in BOOLEAN
         /\ page[p].call \in Calls \cup {NoCall} /\ page[p].sent \in BOOLEAN
         /\ Idle \in PageRecords /\ Idle.id = None /\ ~Idle.uncertain /\ Idle.call = NoCall /\ ~Idle.sent
         /\ TypeOK /\ PageOK /\ CallOK /\ GivenOK /\ EntryOK
  BY DEF LedgerOK, TypeOK, PageRecords, Idle

(* What becomes of a page that is told an answer.                          *)
LEMMA SettledPage ==
  ASSUME LedgerOK, NEW p \in Pages, page[p].id # None, NEW answer \in {"ok", "refused", "unsure"}, Settle(p, answer)
  PROVE  /\ page' \in [Pages -> PageRecords]
         /\ \A q \in Pages \ {p} : page'[q] = page[q]
         /\ \/ /\ answer = "ok" /\ given' = given
               /\ page'[p].id = None /\ ~page'[p].uncertain /\ page'[p].call = NoCall /\ page'[p].sent
            \/ /\ answer = "refused" /\ ~page[p].uncertain /\ given' = given \cup {page[p].id}
               /\ page'[p].id = None /\ ~page'[p].uncertain /\ page'[p].call = NoCall /\ ~page'[p].sent
            \/ /\ given' = given
               /\ page'[p].id = page[p].id /\ page'[p].uncertain /\ page'[p].call = NoCall
               /\ page'[p].sent = page[p].sent
<1>1. PICK r : r = Settled(p, answer)
  OBVIOUS
<1>2. r \in PageRecords
      /\ \/ /\ answer = "ok"
            /\ r.id = None /\ ~r.uncertain /\ r.call = NoCall /\ r.sent
         \/ /\ answer = "refused" /\ ~page[p].uncertain
            /\ r.id = None /\ ~r.uncertain /\ r.call = NoCall /\ ~r.sent
         \/ /\ ~(answer = "refused" /\ ~page[p].uncertain)
            /\ r.id = page[p].id /\ r.uncertain /\ r.call = NoCall /\ r.sent = page[p].sent
  <2>1. CASE answer = "ok"
    <3>1. r = [Idle EXCEPT !.sent = TRUE]
      BY <1>1, <2>1 DEF Settled
    <3> QED
      BY <2>1, <3>1, PageTypes DEF PageRecords
  <2>2. CASE answer = "refused" /\ ~page[p].uncertain
    <3>1. r = Idle
      BY <1>1, <2>2 DEF Settled
    <3> QED
      BY <2>2, <3>1, PageTypes
  <2>3. CASE answer = "refused" /\ page[p].uncertain
    <3>1. r = [page[p] EXCEPT !.call = NoCall]
      BY <1>1, <2>3 DEF Settled
    <3> QED
      BY <2>3, <3>1, PageTypes DEF PageRecords
  <2>4. CASE answer = "unsure"
    <3>1. r = [page[p] EXCEPT !.call = NoCall, !.uncertain = TRUE]
      BY <1>1, <2>4 DEF Settled
    <3> QED
      BY <2>4, <3>1, PageTypes DEF PageRecords
  <2> QED
    BY <2>1, <2>2, <2>3, <2>4, PageTypes
<1>3. page' = [page EXCEPT ![p] = r]
  BY <1>1 DEF Settle
<1>4. /\ answer = "refused" /\ ~page[p].uncertain => given' = given \cup {page[p].id}
      /\ ~(answer = "refused" /\ ~page[p].uncertain) => given' = given
  BY DEF Settle
<1>5. page' \in [Pages -> PageRecords] /\ page'[p] = r /\ \A q \in Pages \ {p} : page'[q] = page[q]
  BY <1>2, <1>3, PageTypes DEF TypeOK
<1> QED
  BY <1>2, <1>4, <1>5

(* An answer that is true of the ledger keeps the pages right.             *)
LEMMA SettleKeeps ==
  ASSUME LedgerOK, NEW p \in Pages, page[p].id # None, NEW answer \in {"ok", "refused", "unsure"}, Settle(p, answer),
         UNCHANGED <<issued, job, mem, row, ran, clock, up, raced>>,
         \A c \in Calls : /\ call'[c].id = call[c].id
                          /\ call'[c].stage \in Waiting => call[c].stage \in Waiting,
         answer = "ok" /\ page[p].id \notin raced => ran[page[p].id] = 1,
         answer = "refused" /\ ~page[p].uncertain
           => /\ page[p].id \notin raced => Untouched(page[p].id)
              /\ \A c \in Calls : call[c].id = page[p].id => call'[c].stage \notin Waiting
  PROVE  PageOK' /\ GivenOK' /\ EntryOK'
<1>1. PICK i \in Ids : i = page[p].id
  BY PageTypes
<1>2. /\ issued[i].page = p /\ i \notin given /\ ~page[p].sent
      /\ \A k \in Ids : issued[k].page = p => k \in given \cup {i}
  BY <1>1, PageTypes DEF PageOK
<1>3. /\ \A q \in Pages \ {p} : page'[q] = page[q]
      /\ \/ /\ answer = "ok" /\ given' = given
            /\ page'[p].id = None /\ ~page'[p].uncertain /\ page'[p].call = NoCall /\ page'[p].sent
         \/ /\ answer = "refused" /\ ~page[p].uncertain /\ given' = given \cup {i}
            /\ page'[p].id = None /\ ~page'[p].uncertain /\ page'[p].call = NoCall /\ ~page'[p].sent
         \/ /\ given' = given
            /\ page'[p].id = page[p].id /\ page'[p].uncertain /\ page'[p].call = NoCall
            /\ page'[p].sent = page[p].sent
  BY <1>1, SettledPage
<1>4. /\ \A c \in Calls : Alone(c)' <=> Alone(c)
      /\ Kept' = Kept /\ (p \in Kept => i \notin raced)
  BY <1>2 DEF Alone, Kept
<1>5. PageOK'
  <2>1. ASSUME NEW q \in Pages, q # p
        PROVE  /\ page'[q].id = None => page'[q].call = NoCall /\ ~page'[q].uncertain
               /\ page'[q].id # None =>
                    /\ issued'[page'[q].id].page = q /\ page'[q].id \notin given' /\ ~page'[q].sent
                    /\ page'[q].call = NoCall => page'[q].uncertain
                    /\ page'[q].call # NoCall => call'[page'[q].call].id = page'[q].id
                    /\ ~page'[q].uncertain => Alone(page[q].call)'
               /\ page'[q].sent /\ q \in Kept' => \E k \in Ids : /\ issued'[k].page = q /\ ran'[k] = 1
                                                  /\ \A l \in Ids \ {k} : issued'[l].page = q => l \in given'
               /\ ~page'[q].sent => \A k \in Ids : issued'[k].page = q => k \in given' \cup {page'[q].id}
    <3>1. page'[q] = page[q] /\ given \subseteq given' /\ given' \subseteq given \cup {i}
      BY <1>3, <2>1
    <3>2. page[q].id # None => page[q].id # i
      BY <1>2, <2>1, PageTypes DEF PageOK
    <3>3. page[q].id # None /\ ~page[q].uncertain => (Alone(page[q].call)' <=> Alone(page[q].call))
      <4>1. page[q].id # None /\ ~page[q].uncertain => page[q].call \in Calls
        BY PageTypes DEF PageOK
      <4> QED
        BY <1>4, <3>1, <4>1
    <3>4. page[q].call # NoCall => page[q].call \in Calls
      BY PageTypes
    <3> QED
      BY <1>4, <3>1, <3>2, <3>3, <3>4, PageTypes DEF PageOK
  <2>2. /\ page'[p].id = None => page'[p].call = NoCall /\ ~page'[p].uncertain
        /\ page'[p].id # None =>
             /\ issued'[page'[p].id].page = p /\ page'[p].id \notin given' /\ ~page'[p].sent
             /\ page'[p].call = NoCall => page'[p].uncertain
             /\ page'[p].call # NoCall => call'[page'[p].call].id = page'[p].id
             /\ page'[p].uncertain
        /\ page'[p].sent /\ p \in Kept' => \E k \in Ids : /\ issued'[k].page = p /\ ran'[k] = 1
                                           /\ \A l \in Ids \ {k} : issued'[l].page = p => l \in given'
        /\ ~page'[p].sent => \A k \in Ids : issued'[k].page = p => k \in given' \cup {page'[p].id}
    <3>1. CASE answer = "ok" /\ given' = given /\ page'[p].sent /\ page'[p].id = None
      BY <1>1, <1>2, <1>3, <1>4, <3>1
    <3>2. CASE ~(answer = "ok" /\ given' = given /\ page'[p].sent /\ page'[p].id = None)
      BY <1>1, <1>2, <1>3, <3>2
    <3> QED
      BY <3>1, <3>2
  <2>3. \A q \in Pages : page'[q].id # None /\ ~page'[q].uncertain => page'[q] = page[q]
    BY <1>3, <2>2
  <2> QED
    BY <2>1, <2>2, <2>3 DEF PageOK
<1>6. GivenOK'
  <2>1. ASSUME NEW k \in given'
        PROVE  /\ issued'[k].page # NoPage /\ (k \notin raced' => Untouched(k)')
               /\ \A c \in Calls : call'[c].id = k => call'[c].stage \notin Waiting
    <3>1. Untouched(k)' <=> Untouched(k)
      BY DEF Untouched
    <3>2. CASE k \in given
      BY <3>1, <3>2, PageTypes DEF GivenOK
    <3>3. CASE k \notin given
      <4>1. k = i /\ answer = "refused" /\ ~page[p].uncertain
        BY <1>3, <3>3
      <4> QED
        BY <1>1, <1>2, <3>1, <4>1, Bounds
    <3> QED
      BY <3>2, <3>3
  <2> QED
    BY <2>1 DEF GivenOK
<1>7. EntryOK'
  <2>1. ASSUME NEW k \in Ids, k \notin raced' PROVE EntryAt(k)'
    <3>1. /\ (\A c \in Calls : call'[c].id # k) => \A c \in Calls : call[c].id # k
          /\ Untouched(k)' <=> Untouched(k)
          /\ Expired(k, mem[k], clock)' <=> Expired(k, mem[k], clock)
          /\ EntryAt(k)
      BY <2>1, PageTypes DEF Untouched, Expired, EntryOK
    <3> QED
      BY <3>1 DEF EntryAt
  <2> QED
    BY <2>1 DEF EntryOK
<1> QED
  BY <1>5, <1>6, <1>7

LEMMA ReceiveStep ==
  ASSUME LedgerOK, NEW p \in Pages, Receive(p)
  PROVE  LedgerOK'
<1> USE DEF Receive, ledgerVars, worldVars
<1>1. PICK c \in Calls : c = page[p].call
  BY PageTypes
<1>2. PICK answer \in {"ok", "refused", "unsure"} : answer = call[c].stage
  BY <1>1
<1>3. /\ Settle(p, answer) /\ Answered(c, "over")
      /\ UNCHANGED <<job, mem, row, fenced, ran, clock, up, shared, raced, faults, issued>>
  BY <1>1, <1>2 DEF Answered
<1>4. page[p].id # None /\ call[c].id = page[p].id /\ (~page[p].uncertain => Alone(c))
  BY <1>1, PageTypes DEF PageOK, Receive
<1>5. /\ call' \in [Calls -> CallRecords]
      /\ \A d \in Calls \ {c} : call'[d] = call[d]
      /\ call'[c].id = call[c].id /\ call'[c].now = call[c].now /\ call'[c].cutoff = call[c].cutoff
      /\ call'[c].stage = "over"
  BY <1>3, AnsweredMoves, PageTypes DEF Stages
<1>6. /\ page' \in [Pages -> PageRecords] /\ given' \subseteq Ids
  BY <1>3, <1>4, SettledPage, PageTypes DEF TypeOK
<1>7. TypeOK'
  BY <1>3, <1>5, <1>6, PageTypes DEF TypeOK
<1>8. answer = "ok" /\ page[p].id \notin raced => ran[page[p].id] = 1
  BY <1>2, <1>4, PageTypes DEF CallOK, CallRest, CallClear
<1>9. answer = "refused" /\ ~page[p].uncertain
        => /\ page[p].id \notin raced => Untouched(page[p].id)
           /\ \A d \in Calls : call[d].id = page[p].id => call'[d].stage \notin Waiting
  <2>1. ASSUME answer = "refused", ~page[p].uncertain
        PROVE  /\ call[c].id \notin raced => Untouched(call[c].id)
               /\ \A d \in Calls : call[d].id = call[c].id => d = c
    BY <1>2, <1>4, <2>1, PageTypes DEF CallOK, CallRest, CallClear, Alone
  <2> QED
    BY <1>4, <1>5, <2>1 DEF Waiting
<1>10. PageOK' /\ GivenOK' /\ EntryOK'
  <2>1. \A d \in Calls : call'[d].id = call[d].id /\ (call'[d].stage \in Waiting => call[d].stage \in Waiting)
    BY <1>5 DEF Waiting
  <2> QED
    BY <1>3, <1>4, <1>8, <1>9, <2>1, SettleKeeps
<1>11. CallOK'
  <2>1. ASSUME NEW d \in Calls PROVE CallRest(d)' /\ (call'[d].stage = "unused" <=> call'[d].id = None)
                                     /\ (call'[d].id # None => issued'[call'[d].id].page # NoPage)
    <3>1. CallRest(d) /\ (call[d].stage = "unused" <=> call[d].id = None)
          /\ (call[d].id # None => issued[call[d].id].page # NoPage)
      BY PageTypes DEF CallOK
    <3>2. Alone(d)' <=> Alone(d)
      BY <1>5 DEF Alone
    <3>3. CASE d = c
      <4>1. /\ call'[d].id = call[d].id /\ call'[d].stage = "over" /\ issued' = issued
            /\ call'[d].now <= clock' /\ call'[d].cutoff <= clock'
        BY <1>3, <1>5, <3>1, <3>3 DEF CallRest
      <4>2. call[d].stage # "unused" /\ call[d].id # None
        BY <1>2, <3>1, <3>3, <1>4, PageTypes
      <4>3. CallRest(d)'
        BY <4>1 DEF CallRest, CallClear, AtWork
      <4> QED
        BY <3>1, <4>1, <4>2, <4>3
    <3>4. CASE d # c
      <4>1. call'[d] = call[d]
        BY <1>5, <3>4
      <4>2. Untouched(call[d].id)' <=> Untouched(call[d].id)
        BY <1>3, <4>1 DEF Untouched
      <4>3. call[d].id \notin raced /\ call'[d].id # None /\ Alone(d)'
              /\ call'[d].stage \in {"sent", "checked", "pruning", "refused"} => Untouched(call[d].id)'
        BY <3>1, <3>2, <4>1, <4>2 DEF CallRest, CallClear
      <4>4. /\ issued'[call'[d].id].time = issued[call[d].id].time /\ issued'[call'[d].id].page = issued[call[d].id].page
            /\ ran'[call'[d].id] = ran[call[d].id] /\ job'[call'[d].id] = job[call[d].id]
            /\ clock' = clock /\ up' = up /\ shared' = shared /\ raced' = raced
        BY <1>3, <4>1
      <4>5. AtWork(d)' <=> AtWork(d)
        BY <4>1, <4>4 DEF AtWork
      <4>6. call'[d].now <= clock' /\ call'[d].cutoff <= clock'
        BY <3>1, <4>1, <4>4 DEF CallRest
      <4>7. call[d].id \notin raced =>
              /\ call'[d].stage = "ok" => ran'[call'[d].id] = 1
              /\ AtWork(d)' => issued'[call'[d].id].time + Retention >= clock'
              /\ AtWork(d)' \/ call'[d].stage = "joined" => up' /\ shared'
        BY <3>1, <4>1, <4>4, <4>5 DEF CallRest, CallClear
      <4>8. call[d].id \notin raced => CallClear(d)'
        BY <4>1, <4>3, <4>7, Zenon DEF CallClear
      <4>9. call'[d].id \notin raced' => call[d].id \notin raced
        BY <4>1, <4>4
      <4>10. CallRest(d)'
        BY <4>6, <4>8, <4>9, Zenon DEF CallRest
      <4>11. /\ call'[d].stage = "unused" <=> call'[d].id = None
             /\ call'[d].id # None => issued'[call'[d].id].page # NoPage
        BY <3>1, <4>1, <4>4
      <4> QED
        BY <4>10, <4>11, Zenon
    <3> QED
      BY <3>3, <3>4
  <2> QED
    BY <2>1 DEF CallOK
<1> QED
  BY <1>7, <1>10, <1>11 DEF LedgerOK

LEMMA LoseLinkStep ==
  ASSUME LedgerOK, NEW p \in Pages, LoseLink(p)
  PROVE  LedgerOK'
<1> USE DEF LoseLink, ledgerVars
<1>1. /\ Settle(p, "unsure") /\ faults' = faults + 1
      /\ UNCHANGED <<job, mem, row, fenced, ran, clock, up, shared, raced, issued, call>>
  OBVIOUS
<1>2. page[p].id # None
  BY PageTypes DEF PageOK
<1>3. page' \in [Pages -> PageRecords] /\ given' \subseteq Ids /\ faults' \in Nat
  BY <1>1, <1>2, SettledPage, PageTypes DEF TypeOK
<1>4. TypeOK'
  BY <1>1, <1>3, PageTypes DEF TypeOK
<1>5. PageOK' /\ GivenOK' /\ EntryOK'
  BY <1>1, <1>2, SettleKeeps
<1>6. CallOK'
  <2>1. \A c \in Calls : Alone(c)' <=> Alone(c)
    BY <1>1 DEF Alone
  <2>2. ASSUME NEW c \in Calls PROVE CallRest(c)'
    <3>1. CallRest(c)
      BY PageTypes DEF CallOK
    <3>2. Untouched(call[c].id)' <=> Untouched(call[c].id)
      BY <1>1 DEF Untouched
    <3>3. CASE call[c].id \notin raced
      <4>1. call'[c].id # None /\ Alone(c)' /\ call'[c].stage \in {"sent", "checked", "pruning", "refused"}
              => Untouched(call[c].id)'
        BY <1>1, <2>1, <3>1, <3>2, <3>3 DEF CallRest, CallClear
      <4>2. CallClear(c)'
        BY <1>1, <3>1, <3>3, <4>1 DEF CallRest, CallClear, AtWork
      <4> QED
        BY <1>1, <3>1, <4>2 DEF CallRest
    <3>4. CASE call[c].id \in raced
      BY <1>1, <3>1, <3>4 DEF CallRest
    <3> QED
      BY <3>3, <3>4
  <2> QED
    BY <1>1, <2>2, PageTypes DEF CallOK
<1> QED
  BY <1>4, <1>5, <1>6 DEF LedgerOK

(* The ID of a send: one that may have run, or a new one.                  *)
LEMMA HeadersName ==
  ASSUME LedgerOK, NEW p \in Pages, NEW i \in Ids, page[p].call = NoCall, ~page[p].sent, Headers(p, i)
  PROVE  /\ issued' \in [Ids -> [page: Pages \cup {NoPage}, time: Nat]]
         /\ issued'[i].page = p /\ \A k \in Ids \ {i} : issued'[k] = issued[k]
         /\ i \notin given
         /\ \A k \in Ids \ {i} : issued[k].page = p => k \in given
         /\ \/ page[p].id = i /\ issued' = issued /\ page[p].uncertain
            \/ /\ page[p].id = None /\ ~page[p].uncertain /\ issued[i].page = NoPage
               /\ \A c \in Calls : call[c].id # i
               /\ i \notin raced => Untouched(i) /\ mem[i].state = "none" /\ row[i].state = "none"
<1>1. CASE page[p].id = i /\ issued' = issued
  <2>1. issued[i].page = p /\ i \notin given /\ page[p].uncertain
    BY <1>1, Bounds, PageTypes DEF PageOK
  <2> QED
    BY <1>1, <2>1, PageTypes DEF PageOK, TypeOK
<1>2. CASE /\ page[p].id = None /\ Fresh(i)
           /\ issued' = [issued EXCEPT ![i] = [page |-> p, time |-> clock + Ahead]]
  <2>1. PICK r : r = [page |-> p, time |-> clock + Ahead]
    OBVIOUS
  <2>2. clock + Ahead \in Nat
    BY PageTypes, LedgerAssumption DEF TypeOK
  <2>3. r \in [page: Pages \cup {NoPage}, time: Nat] /\ r.page = p
    BY <2>1, <2>2
  <2>4. /\ issued' \in [Ids -> [page: Pages \cup {NoPage}, time: Nat]]
        /\ issued'[i].page = p /\ \A k \in Ids \ {i} : issued'[k] = issued[k]
    BY <1>2, <2>1, <2>3, PageTypes DEF TypeOK
  <2>5. issued[i].page = NoPage
    BY <1>2 DEF Fresh
  <2>6. \A c \in Calls : call[c].id # i
    BY <2>5, Bounds, PageTypes DEF CallOK
  <2>7. i \notin raced => EntryAt(i)
    BY PageTypes DEF EntryOK
  <2>8. i \notin raced => Untouched(i) /\ mem[i].state = "none" /\ row[i].state = "none"
    BY <2>6, <2>7 DEF EntryAt
  <2>9. i \notin given /\ ~page[p].uncertain /\ \A k \in Ids : issued[k].page = p => k \in given
    BY <1>2, <2>5, Bounds, PageTypes DEF GivenOK, PageOK
  <2> QED
    BY <1>2, <2>4, <2>5, <2>6, <2>8, <2>9
<1> QED
  BY <1>1, <1>2 DEF Headers

(* A page that takes an ID: what the other pages and the entries hold.     *)
LEMMA NamedOthers ==
  ASSUME LedgerOK, NEW p \in Pages, NEW i \in Ids, page[p].call = NoCall, ~page[p].sent, Headers(p, i),
         \A q \in Pages \ {p} : page'[q] = page[q],
         given' = given \/ given' = given \cup {i},
         ran' = ran, raced' = raced,
         \A c \in Calls : call'[c].id = call[c].id \/ (call[c].id = None /\ call'[c].id = i),
         NEW q \in Pages, q # p
  PROVE  /\ page'[q].id = None => page'[q].call = NoCall /\ ~page'[q].uncertain
         /\ page'[q].id # None =>
              /\ issued'[page'[q].id].page = q /\ page'[q].id \notin given' /\ ~page'[q].sent
              /\ page'[q].call = NoCall => page'[q].uncertain
              /\ page'[q].call # NoCall => call'[page'[q].call].id = page'[q].id
              /\ ~page'[q].uncertain => Alone(page[q].call)'
         /\ page'[q].sent /\ q \in Kept' => \E k \in Ids : /\ issued'[k].page = q /\ ran'[k] = 1
                                            /\ \A l \in Ids \ {k} : issued'[l].page = q => l \in given'
         /\ ~page'[q].sent => \A k \in Ids : issued'[k].page = q => k \in given' \cup {page'[q].id}
<1>1. /\ issued'[i].page = p /\ \A k \in Ids \ {i} : issued'[k] = issued[k]
      /\ issued[i].page \in {p, NoPage}
  BY HeadersName, PageTypes DEF PageOK
<1>2. page'[q] = page[q] /\ q # NoPage
  BY Bounds
<1>3. page[q].id # None => page[q].id \in Ids \ {i} /\ issued[page[q].id].page = q
  BY <1>1, <1>2, PageTypes DEF PageOK
<1>4. page[q].id # None /\ page[q].call # NoCall => call'[page[q].call].id = page[q].id
  <2>1. ASSUME page[q].id # None, page[q].call # NoCall
        PROVE  page[q].call \in Calls /\ call[page[q].call].id = page[q].id
    BY <2>1, PageTypes DEF PageOK
  <2> QED
    BY <2>1
<1>5. page[q].id # None /\ ~page[q].uncertain => Alone(page[q].call)'
  <2>1. ASSUME page[q].id # None, ~page[q].uncertain
        PROVE  /\ page[q].call \in Calls /\ call[page[q].call].id = page[q].id /\ Alone(page[q].call)
               /\ call'[page[q].call].id = page[q].id
    BY <1>4, <2>1, PageTypes DEF PageOK
  <2>2. ASSUME page[q].id # None, ~page[q].uncertain, NEW d \in Calls, call'[d].id = page[q].id
        PROVE  d = page[q].call
    <3>1. call[d].id = page[q].id
      BY <1>3, <2>2
    <3> QED
      BY <2>1, <2>2, <3>1 DEF Alone
  <2> QED
    BY <1>2, <2>1, <2>2 DEF Alone
<1>6. \A k \in Ids : issued'[k].page = q => k # i /\ issued[k].page = q
  BY <1>1
<1>7. page[q].sent /\ q \in Kept' => \E k \in Ids : /\ issued'[k].page = q /\ ran'[k] = 1
                                                     /\ \A l \in Ids \ {k} : issued'[l].page = q => l \in given'
  <2>1. ASSUME page[q].sent, q \in Kept'
        PROVE  \E k \in Ids : /\ issued'[k].page = q /\ ran'[k] = 1
                              /\ \A l \in Ids \ {k} : issued'[l].page = q => l \in given'
    <3>1. q \in Kept
      <4>1. ASSUME NEW k \in raced PROVE issued[k].page # q
        <5>1. k \in Ids /\ issued'[k].page # q
          BY <2>1, PageTypes DEF Kept, TypeOK
        <5> QED
          BY <1>1, <1>2, <5>1
      <4> QED
        BY <4>1 DEF Kept
    <3>2. PICK k \in Ids : /\ issued[k].page = q /\ ran[k] = 1
                           /\ \A l \in Ids \ {k} : issued[l].page = q => l \in given
      BY <2>1, <3>1, PageTypes DEF PageOK
    <3> QED
      BY <1>1, <1>2, <1>6, <3>2
  <2> QED
    BY <2>1
<1> QED
  BY <1>1, <1>2, <1>3, <1>4, <1>5, <1>6, <1>7, PageTypes DEF PageOK

LEMMA NamedEntries ==
  ASSUME LedgerOK, NEW p \in Pages, NEW i \in Ids, page[p].call = NoCall, ~page[p].sent, Headers(p, i),
         UNCHANGED <<job, mem, row, ran, clock, up, raced>>,
         \A c \in Calls : call'[c].id = call[c].id \/ (call[c].id = None /\ call'[c].id = i)
  PROVE  EntryOK'
<1>1. ASSUME NEW k \in Ids, k \notin raced' PROVE EntryAt(k)'
  <2>1. EntryAt(k) /\ (Untouched(k)' <=> Untouched(k))
    BY <1>1, PageTypes DEF Untouched, EntryOK
  <2>2. (\A c \in Calls : call'[c].id # k) => \A c \in Calls : call[c].id # k
    BY Bounds
  <2>3. CASE issued'[k] = issued[k]
    <3>1. Expired(k, mem[k], clock)' <=> Expired(k, mem[k], clock)
      BY <2>3 DEF Expired
    <3> QED
      BY <2>1, <2>2, <2>3, <3>1 DEF EntryAt
  <2>4. CASE issued'[k] # issued[k]
    <3>1. Untouched(k) /\ mem[k].state = "none" /\ row[k].state = "none"
      BY <1>1, <2>4, HeadersName
    <3> QED
      BY <2>1, <2>2, <3>1 DEF EntryAt, Untouched
  <2> QED
    BY <2>3, <2>4
<1> QED
  BY <1>1 DEF EntryOK

(* The calls that were there, when a page takes an ID.                     *)
LEMMA NamedCalls ==
  ASSUME LedgerOK, NEW p \in Pages, NEW i \in Ids, page[p].call = NoCall, ~page[p].sent, Headers(p, i),
         UNCHANGED <<job, ran, clock, up, shared, raced>>,
         \A c \in Calls : call'[c].id = call[c].id \/ (call[c].id = None /\ call'[c].id = i),
         NEW c \in Calls, call'[c] = call[c]
  PROVE  /\ CallRest(c)'
         /\ call'[c].stage = "unused" <=> call'[c].id = None
         /\ call'[c].id # None => issued'[call'[c].id].page # NoPage
<1>1. /\ CallRest(c) /\ (call[c].stage = "unused" <=> call[c].id = None)
      /\ call[c].id # None => call[c].id \in Ids /\ issued[call[c].id].page # NoPage
  BY PageTypes DEF CallOK, TypeOK, CallRecords
<1>2. call[c].id # None => issued'[call[c].id] = issued[call[c].id]
  BY <1>1, HeadersName
<1>3. call[c].id # None /\ Alone(c)' => Alone(c)
  <2>1. ASSUME call[c].id # None, Alone(c)', NEW d \in Calls, call[d].id = call[c].id PROVE d = c
    <3>1. call'[d].id = call'[c].id
      BY <2>1
    <3> QED
      BY <2>1, <3>1 DEF Alone
  <2> QED
    BY <2>1 DEF Alone
<1>4. Untouched(call[c].id)' <=> Untouched(call[c].id)
  BY DEF Untouched
<1>5. CASE call[c].id \notin raced
  <2>1. call'[c].id # None /\ Alone(c)' /\ call'[c].stage \in {"sent", "checked", "pruning", "refused"}
          => Untouched(call[c].id)'
    BY <1>1, <1>3, <1>4, <1>5 DEF CallRest, CallClear
  <2>2. AtWork(c)' => AtWork(c) /\ call[c].id # None
    BY <1>1 DEF AtWork
  <2>3. AtWork(c)' => issued'[call'[c].id].time + Retention >= clock'
    BY <1>1, <1>2, <1>5, <2>2 DEF CallRest, CallClear
  <2>4. CallClear(c)'
    BY <1>1, <1>5, <2>1, <2>2, <2>3 DEF CallRest, CallClear
  <2> QED
    BY <1>1, <1>2, <2>4 DEF CallRest
<1>6. CASE call[c].id \in raced
  BY <1>1, <1>2, <1>6 DEF CallRest
<1> QED
  BY <1>5, <1>6

LEMMA OfflineStep ==
  ASSUME LedgerOK, NEW p \in Pages, Offline(p)
  PROVE  LedgerOK'
<1> USE DEF Offline, ledgerVars
<1>1. PICK i \in Ids :
        /\ page[p].call = NoCall /\ ~page[p].sent /\ Headers(p, i)
        /\ page' = [page EXCEPT ![p] = IF @.uncertain THEN @ ELSE Idle]
        /\ given' = IF page[p].uncertain THEN given ELSE given \cup {i}
  OBVIOUS
<1>2. /\ faults' = faults + 1 /\ UNCHANGED <<job, mem, row, fenced, ran, clock, up, shared, raced, call>>
  OBVIOUS
<1>3. /\ issued' \in [Ids -> [page: Pages \cup {NoPage}, time: Nat]]
      /\ issued'[i].page = p /\ \A k \in Ids \ {i} : issued'[k] = issued[k]
      /\ i \notin given
      /\ \A k \in Ids \ {i} : issued[k].page = p => k \in given
      /\ \/ page[p].id = i /\ issued' = issued /\ page[p].uncertain
         \/ /\ page[p].id = None /\ ~page[p].uncertain /\ issued[i].page = NoPage
            /\ \A c \in Calls : call[c].id # i
            /\ i \notin raced => Untouched(i) /\ mem[i].state = "none" /\ row[i].state = "none"
  BY <1>1, HeadersName
<1>4. /\ page' \in [Pages -> PageRecords] /\ given' \subseteq Ids /\ faults' \in Nat
      /\ page'[p] = IF page[p].uncertain THEN page[p] ELSE Idle
      /\ \A q \in Pages \ {p} : page'[q] = page[q]
  BY <1>1, <1>2, PageTypes DEF TypeOK
<1>5. TypeOK'
  BY <1>2, <1>3, <1>4, PageTypes DEF TypeOK
<1>6. EntryOK'
  BY <1>1, <1>2, NamedEntries
<1>7. CallOK'
  BY <1>1, <1>2, NamedCalls DEF CallOK
<1>8. GivenOK'
  <2>1. ASSUME NEW k \in given'
        PROVE  /\ issued'[k].page # NoPage /\ (k \notin raced' => Untouched(k)')
               /\ \A c \in Calls : call'[c].id = k => call'[c].stage \notin Waiting
    <3>1. Untouched(k)' <=> Untouched(k)
      BY <1>2 DEF Untouched
    <3>2. CASE k \in given
      BY <1>2, <1>3, <3>1, <3>2, PageTypes DEF GivenOK, TypeOK
    <3>3. CASE k \notin given
      <4>1. k = i /\ ~page[p].uncertain
        BY <1>1, <3>3
      <4> QED
        BY <1>2, <1>3, <3>1, <4>1, Bounds
    <3> QED
      BY <3>2, <3>3
  <2> QED
    BY <2>1 DEF GivenOK
<1>9. PageOK'
  <2>1. \A q \in Pages \ {p} :
          /\ page'[q].id = None => page'[q].call = NoCall /\ ~page'[q].uncertain
          /\ page'[q].id # None =>
               /\ issued'[page'[q].id].page = q /\ page'[q].id \notin given' /\ ~page'[q].sent
               /\ page'[q].call = NoCall => page'[q].uncertain
               /\ page'[q].call # NoCall => call'[page'[q].call].id = page'[q].id
               /\ ~page'[q].uncertain => Alone(page[q].call)'
          /\ page'[q].sent /\ q \in Kept' => \E k \in Ids : /\ issued'[k].page = q /\ ran'[k] = 1
                                             /\ \A l \in Ids \ {k} : issued'[l].page = q => l \in given'
          /\ ~page'[q].sent => \A k \in Ids : issued'[k].page = q => k \in given' \cup {page'[q].id}
    BY <1>1, <1>2, <1>4, NamedOthers
  <2>2. /\ page'[p].id = None => page'[p].call = NoCall /\ ~page'[p].uncertain
        /\ page'[p].id # None =>
             /\ issued'[page'[p].id].page = p /\ page'[p].id \notin given' /\ page'[p].uncertain
             /\ page'[p].call = NoCall
        /\ ~page'[p].sent
        /\ \A k \in Ids : issued'[k].page = p => k \in given' \cup {page'[p].id}
    <3>1. CASE page[p].uncertain
      <4>1. page'[p] = page[p] /\ page[p].id = i /\ given' = given
        BY <1>1, <1>3, <1>4, <3>1
      <4> QED
        BY <1>1, <1>3, <3>1, <4>1, Bounds
    <3>2. CASE ~page[p].uncertain
      BY <1>1, <1>3, <1>4, <3>2, PageTypes
    <3> QED
      BY <3>1, <3>2
  <2>3. \A q \in Pages : page'[q].id # None /\ ~page'[q].uncertain => page'[q] = page[q]
    BY <1>4, <2>2
  <2> QED
    BY <2>1, <2>2, <2>3 DEF PageOK
<1> QED
  BY <1>5, <1>6, <1>7, <1>8, <1>9 DEF LedgerOK

LEMMA SendStep ==
  ASSUME LedgerOK, NEW p \in Pages, Send(p)
  PROVE  LedgerOK'
<1> USE DEF Send, ledgerVars, worldVars
<1>1. PICK i \in Ids, c \in Calls :
        /\ page[p].call = NoCall /\ ~page[p].sent /\ call[c].stage = "unused" /\ Headers(p, i)
        /\ page' = [page EXCEPT ![p].id = i, ![p].call = c]
        /\ call' = [call EXCEPT ![c] = [Unsent EXCEPT !.id = i, !.stage = "sent"]]
  OBVIOUS
<1>2. given' = given /\ UNCHANGED <<job, mem, row, fenced, ran, clock, up, shared, raced, faults>>
  OBVIOUS
<1>3. /\ issued' \in [Ids -> [page: Pages \cup {NoPage}, time: Nat]]
      /\ issued'[i].page = p /\ \A k \in Ids \ {i} : issued'[k] = issued[k]
      /\ i \notin given
      /\ \A k \in Ids \ {i} : issued[k].page = p => k \in given
      /\ \/ page[p].id = i /\ issued' = issued /\ page[p].uncertain
         \/ /\ page[p].id = None /\ ~page[p].uncertain /\ issued[i].page = NoPage
            /\ \A d \in Calls : call[d].id # i
            /\ i \notin raced => Untouched(i) /\ mem[i].state = "none" /\ row[i].state = "none"
  BY <1>1, HeadersName
<1>4. /\ page' \in [Pages -> PageRecords]
      /\ page'[p].id = i /\ page'[p].call = c /\ page'[p].sent = page[p].sent
      /\ page'[p].uncertain = page[p].uncertain
      /\ \A q \in Pages \ {p} : page'[q] = page[q]
  <2>1. PICK r : r = [page[p] EXCEPT !.id = i, !.call = c]
    OBVIOUS
  <2>2. r \in PageRecords /\ r.id = i /\ r.call = c /\ r.sent = page[p].sent /\ r.uncertain = page[p].uncertain
    BY <2>1, PageTypes DEF PageRecords
  <2>3. page' = [page EXCEPT ![p] = r]
    BY <1>1, <2>1, PageTypes DEF TypeOK
  <2> QED
    BY <2>2, <2>3, PageTypes DEF TypeOK
<1>5. /\ call' \in [Calls -> CallRecords]
      /\ call'[c].id = i /\ call'[c].stage = "sent" /\ call'[c].now = 0 /\ call'[c].cutoff = 0
      /\ \A d \in Calls \ {c} : call'[d] = call[d]
  <2>1. PICK r : r = [Unsent EXCEPT !.id = i, !.stage = "sent"]
    OBVIOUS
  <2>2. r \in CallRecords /\ r.id = i /\ r.stage = "sent" /\ r.now = 0 /\ r.cutoff = 0
    BY <2>1 DEF Unsent, CallRecords, Stages, Waiting
  <2>3. call' = [call EXCEPT ![c] = r]
    BY <1>1, <2>1
  <2> QED
    BY <2>2, <2>3, PageTypes DEF TypeOK
<1>6. call[c].id = None
  BY <1>1, PageTypes DEF CallOK
<1>7. \A d \in Calls : call'[d].id = call[d].id \/ (call[d].id = None /\ call'[d].id = i)
  BY <1>5, <1>6
<1>8. TypeOK'
  BY <1>2, <1>3, <1>4, <1>5, PageTypes DEF TypeOK
<1>9. EntryOK'
  BY <1>1, <1>2, <1>7, NamedEntries
<1>10. CallOK'
  <2>1. \A d \in Calls \ {c} : /\ CallRest(d)'
                               /\ call'[d].stage = "unused" <=> call'[d].id = None
                               /\ call'[d].id # None => issued'[call'[d].id].page # NoPage
    BY <1>1, <1>2, <1>5, <1>7, NamedCalls
  <2>2. Alone(c)' /\ call'[c].id \notin raced' => job'[call'[c].id] = "none" /\ ran'[call'[c].id] = 0
    <3>1. ASSUME Alone(c)', NEW d \in Calls PROVE call[d].id # i
      <4>1. CASE d = c
        BY <1>6, <4>1, Bounds
      <4>2. CASE d # c
        BY <1>5, <3>1, <4>2 DEF Alone
      <4> QED
        BY <4>1, <4>2
    <3>2. (\A d \in Calls : call[d].id # i) /\ i \notin raced => Untouched(i)
      BY PageTypes DEF EntryOK, EntryAt
    <3> QED
      BY <1>2, <1>5, <3>1, <3>2 DEF Untouched
  <2>3. CallRest(c)'
    <3>1. ~AtWork(c)' /\ call'[c].stage # "joined" /\ call'[c].stage # "ok"
      BY <1>5 DEF AtWork
    <3>2. call'[c].now <= clock' /\ call'[c].cutoff <= clock'
      BY <1>2, <1>5, PageTypes DEF TypeOK
    <3> QED
      BY <2>2, <3>1, <3>2 DEF CallRest, CallClear, Untouched
  <2>4. /\ call'[c].stage = "unused" <=> call'[c].id = None
        /\ call'[c].id # None => issued'[call'[c].id].page # NoPage
    BY <1>3, <1>5, Bounds
  <2> QED
    BY <2>1, <2>3, <2>4 DEF CallOK
<1>11. GivenOK'
  <2>1. ASSUME NEW k \in given
        PROVE  /\ issued'[k].page # NoPage /\ (k \notin raced' => Untouched(k)')
               /\ \A d \in Calls : call'[d].id = k => call'[d].stage \notin Waiting
    <3>1. (Untouched(k)' <=> Untouched(k)) /\ k # i /\ k \in Ids /\ raced' = raced
      BY <1>2, <1>3, PageTypes DEF Untouched, TypeOK
    <3>2. issued[k].page # NoPage /\ (k \notin raced => Untouched(k)) /\ \A d \in Calls : call[d].id = k => call[d].stage \notin Waiting
      BY PageTypes DEF GivenOK
    <3>3. \A d \in Calls : call'[d].id = k => call'[d] = call[d]
      BY <1>5, <3>1
    <3> QED
      BY <1>3, <3>1, <3>2, <3>3
  <2> QED
    BY <1>2, <2>1 DEF GivenOK
<1>12. PageOK'
  <2>1. \A q \in Pages \ {p} :
          /\ page'[q].id = None => page'[q].call = NoCall /\ ~page'[q].uncertain
          /\ page'[q].id # None =>
               /\ issued'[page'[q].id].page = q /\ page'[q].id \notin given' /\ ~page'[q].sent
               /\ page'[q].call = NoCall => page'[q].uncertain
               /\ page'[q].call # NoCall => call'[page'[q].call].id = page'[q].id
               /\ ~page'[q].uncertain => Alone(page[q].call)'
          /\ page'[q].sent /\ q \in Kept' => \E k \in Ids : /\ issued'[k].page = q /\ ran'[k] = 1
                                             /\ \A l \in Ids \ {k} : issued'[l].page = q => l \in given'
          /\ ~page'[q].sent => \A k \in Ids : issued'[k].page = q => k \in given' \cup {page'[q].id}
    BY <1>1, <1>2, <1>4, <1>7, NamedOthers
  <2>2. /\ page'[p].id # None
        /\ issued'[page'[p].id].page = p /\ page'[p].id \notin given' /\ ~page'[p].sent
        /\ page'[p].call # NoCall /\ call'[page'[p].call].id = page'[p].id
        /\ \A k \in Ids : issued'[k].page = p => k \in given' \cup {page'[p].id}
    BY <1>1, <1>2, <1>3, <1>4, <1>5, Bounds
  <2>3. ~page'[p].uncertain => \A d \in Calls : call'[d].id = call'[c].id => d = c
    BY <1>3, <1>4, <1>5
  <2>4. \A q \in Pages \ {p} : page'[q] = page[q]
    BY <1>4
  <2> QED
    BY <1>4, <2>1, <2>2, <2>3, <2>4 DEF PageOK, Alone
<1> QED
  BY <1>8, <1>9, <1>10, <1>11, <1>12 DEF LedgerOK
---------------------------------------------------------------------------
(* The invariant holds.                                                    *)

LEMMA LedgerStarts == ASSUME Init PROVE LedgerOK
<1> USE DEF Init
<1>1. /\ NoEntry \in EntryRecords /\ NoEntry.state = "none" /\ Idle \in PageRecords /\ Idle.id = None
      /\ ~Idle.uncertain /\ Idle.call = NoCall /\ ~Idle.sent
      /\ Unsent \in CallRecords /\ Unsent.id = None /\ Unsent.stage = "unused" /\ Unsent.now = 0 /\ Unsent.cutoff = 0
  BY DEF NoEntry, EntryRecords, EntryStates, Idle, PageRecords, Unsent, CallRecords, Stages
<1>2. \A p \in Pages : page[p] = Idle
  OBVIOUS
<1>3. \A c \in Calls : call[c] = Unsent
  OBVIOUS
<1>4. \A i \in Ids : job[i] = "none" /\ mem[i] = NoEntry /\ row[i] = NoEntry /\ ran[i] = 0 /\ issued[i].page = NoPage
  OBVIOUS
<1>5. TypeOK
  <2>1. issued \in [Ids -> [page: Pages \cup {NoPage}, time: Nat]]
    OBVIOUS
  <2>2. page \in [Pages -> PageRecords] /\ call \in [Calls -> CallRecords]
    BY <1>1
  <2>3. job \in [Ids -> Jobs] /\ mem \in [Ids -> EntryRecords] /\ row \in [Ids -> EntryRecords] /\ ran \in [Ids -> Nat]
    BY <1>1 DEF Jobs
  <2>4. up \in BOOLEAN /\ shared \in BOOLEAN /\ fenced \in BOOLEAN
    OBVIOUS
  <2>5. clock \in Nat /\ faults \in Nat /\ given \subseteq Ids /\ raced \subseteq Ids
    BY Bounds
  <2> QED
    BY <2>1, <2>2, <2>3, <2>4, <2>5 DEF TypeOK
<1>6. PageOK
  BY <1>1, <1>2, <1>4, Bounds DEF PageOK
<1>7. CallOK
  BY <1>1, <1>3, Bounds DEF CallOK, CallRest, CallClear, AtWork
<1>8. EntryOK
  BY <1>1, <1>4 DEF EntryOK, EntryAt, Untouched
<1> QED
  BY <1>5, <1>6, <1>7, <1>8 DEF LedgerOK, GivenOK

LEMMA LedgerStep ==
  ASSUME LedgerOK, [Next]_vars
  PROVE  LedgerOK'
<1>1. ASSUME NEW p \in Pages, Send(p) \/ Receive(p) \/ LoseLink(p) \/ Offline(p) PROVE LedgerOK'
  BY <1>1, SendStep, ReceiveStep, LoseLinkStep, OfflineStep
<1>2. CASE CallSteps
  BY <1>2, ArriveStep, GateStep, LookupStep, PruneStep DEF CallSteps
<1>3. ASSUME NEW i \in Ids, Record(i) \/ Execute(i) \/ ExecuteFails(i) \/ Withdraw(i) \/ Complete(i)
      PROVE  LedgerOK'
  <2>1. CASE i \in raced
    BY <1>3, <2>1, RacedSteps
  <2>2. CASE i \notin raced
    BY <1>3, <2>2, RecordStep, ExecuteStep, WithdrawStep, CompleteStep
  <2> QED
    BY <2>1, <2>2
<1>4. CASE Stop \/ Start \/ Tick \/ Share
  BY <1>4, StopStep, StartStep, TickStep, ShareStep
<1>5. CASE UNCHANGED vars
  <2>1. /\ UNCHANGED <<call, job, mem, row, ran, clock, up, shared, raced, page, issued, given, fenced, faults>>
    BY <1>5 DEF vars, ledgerVars, pageVars, worldVars
  <2>2. TypeOK'
    BY <2>1 DEF LedgerOK, TypeOK
  <2>3. Moves /\ CallOK'
    <3>1. clock' >= clock /\ clock' \in Nat
      BY <2>1 DEF LedgerOK, TypeOK
    <3> QED
      BY <2>1, <3>1, CallFrame DEF LedgerOK, CallOK, CallRest, CallClear
  <2> QED
    BY <2>1, <2>2, <2>3, MovesKeep, EntriesFrame DEF LedgerOK
<1> QED
  BY <1>1, <1>2, <1>3, <1>4, <1>5 DEF Next, JobSteps

(* An ID a page gave up, after a refusal or without a link, never ran and  *)
(* never will: the page may send its instruction under a new ID (scope.ts  *)
(* settleRequest, request-ledger.ts once, admit), unless its age passed    *)
(* the limit, or its folder was withdrawn, while one of its calls was      *)
(* handled.                                                                *)
THEOREM GivenUpNeverRanHolds == Spec => []GivenUpNeverRan
<1>1. Init => LedgerOK
  BY LedgerStarts
<1>2. LedgerOK /\ [Next]_vars => LedgerOK'
  BY LedgerStep
<1>3. LedgerOK => GivenUpNeverRan
  BY DEF LedgerOK, GivenOK, GivenUpNeverRan, Untouched
<1> QED
  BY <1>1, <1>2, <1>3, PTL DEF Spec
---------------------------------------------------------------------------
(* The ledger and the page implement OnceDelivery.                         *)

Run == [p \in Kept |-> Times(p)]
Told == {p \in Kept : page[p].sent}

(* At most one ID of an instruction ran, and once.                         *)
OneRun(p) ==
  /\ \A i, k \in RanUnder(p) : i = k
  /\ \A i \in RanUnder(p) : ran[i] = 1
  /\ Times(p) = IF RanUnder(p) = {} THEN 0 ELSE 1
  /\ page[p].sent => RanUnder(p) # {}

LEMMA RanUnderOne == LedgerOK => \A p \in Kept : OneRun(p)
<1> SUFFICES ASSUME LedgerOK, NEW p \in Kept PROVE OneRun(p)
  OBVIOUS
<1>1. p \in Pages /\ \A i \in Ids : issued[i].page = p => i \notin raced
  BY DEF Kept
<1>2. \A i \in RanUnder(p) : i \in Ids /\ ran[i] = 1 /\ issued[i].page = p /\ i \notin given
  <2>1. ASSUME NEW i \in RanUnder(p)
        PROVE  i \in Ids /\ ran[i] = 1 /\ issued[i].page = p /\ i \notin given
    <3>1. i \in Ids /\ issued[i].page = p /\ ran[i] > 0 /\ i \notin raced
      BY <1>1 DEF RanUnder
    <3>2. EntryAt(i)
      BY <3>1, PageTypes DEF LedgerOK, EntryOK
    <3> QED
      BY <3>1, <3>2 DEF EntryAt, LedgerOK, GivenOK, Untouched
  <2> QED
    BY <2>1
<1>3. \A i, k \in RanUnder(p) : i = k
  <2>1. CASE page[p].sent
    <3>1. PICK j \in Ids : \A k \in Ids \ {j} : issued[k].page = p => k \in given
      BY <1>1, <2>1, PageTypes DEF PageOK
    <3> QED
      BY <1>2, <3>1
  <2>2. CASE ~page[p].sent
    <3>1. \A i \in Ids : issued[i].page = p => i \in given \cup {page[p].id}
      BY <1>1, <2>2, PageTypes DEF PageOK
    <3> QED
      BY <1>2, <3>1
  <2> QED
    BY <2>1, <2>2
<1>4. page[p].sent => RanUnder(p) # {}
  <2>1. ASSUME page[p].sent PROVE \E i \in Ids : issued[i].page = p /\ ran[i] = 1
    BY <1>1, <2>1, PageTypes DEF PageOK
  <2> QED
    BY <2>1 DEF RanUnder
<1>5. Times(p) = IF RanUnder(p) = {} THEN 0 ELSE 1
  BY <1>2, <1>3 DEF Times
<1> QED
  BY <1>2, <1>3, <1>4, <1>5 DEF OneRun

LEMMA RanUnderOneNext == (LedgerOK => \A p \in Kept : OneRun(p))'
  BY RanUnderOne, PTL

(* A step without work, that tells no page, releases at most.              *)
LEMMA QuietStep ==
  ASSUME LedgerOK, LedgerOK', ran' = ran, Kept' \subseteq Kept, raced \subseteq raced',
         \A p \in Pages : page'[p].sent = page[p].sent,
         \A i \in Ids : issued'[i].page = issued[i].page \/ ran[i] = 0 \/ i \in raced
  PROVE  \E kept \in SUBSET DOMAIN Run : Once!Release(kept)
<1>1. ASSUME NEW p \in Kept' PROVE Times(p)' = Times(p)
  <2>1. \A i \in raced : issued[i].page # p /\ issued'[i].page # p
    BY <1>1 DEF Kept
  <2>2. RanUnder(p)' = RanUnder(p)
    BY <2>1 DEF RanUnder
  <2> QED
    BY <2>2 DEF Times
<1>2. Kept \subseteq Pages /\ DOMAIN Run = Kept
  BY DEF Kept, Run
<1>3. Run' = [p \in Kept' |-> Run[p]]
  BY <1>1 DEF Run
<1>4. Told' = Told \cap Kept'
  BY <1>2 DEF Told
<1>5. PICK kept : kept = Kept'
  OBVIOUS
<1>6. kept \in SUBSET DOMAIN Run
  BY <1>2, <1>5
<1>7. Once!Release(kept)
  BY <1>3, <1>4, <1>5 DEF Once!Release, Run, Told
<1> QED
  BY <1>6, <1>7

LEMMA WorkStep ==
  ASSUME LedgerOK, LedgerOK', NEW i \in Ids, Execute(i) \/ ExecuteFails(i)
  PROVE  Told' = Told /\ (Run' = Run \/ \E p \in DOMAIN Run : Once!Run(p))
<1> USE DEF pageVars, worldVars
<1>1. /\ page' = page /\ issued' = issued /\ raced' = raced
      /\ ran' = ran \/ ran' = [ran EXCEPT ![i] = @ + 1]
      /\ i \notin raced => ran[i] = 0
  BY JobTypes DEF Execute, ExecuteFails, EntryAt
<1>2. Told' = Told /\ Kept' = Kept
  BY <1>1 DEF Told, Kept
<1>3. ran \in [Ids -> Nat]
  BY DEF LedgerOK, TypeOK
<1>4. \A k \in Ids \ {i} : ran'[k] = ran[k]
  BY <1>1, <1>3
<1>5. ASSUME NEW q \in Kept, ran'[i] = ran[i] \/ issued[i].page # q PROVE Times(q)' = Times(q)
  <2>1. RanUnder(q)' = RanUnder(q)
    BY <1>1, <1>4, <1>5 DEF RanUnder
  <2>2. \A k \in RanUnder(q) : ran'[k] = ran[k]
    BY <1>4, <1>5 DEF RanUnder
  <2> QED
    BY <2>1, <2>2 DEF Times
<1>6. CASE ran'[i] = ran[i] \/ issued[i].page \notin Kept
  BY <1>2, <1>5, <1>6 DEF Run
<1>7. CASE ran'[i] # ran[i] /\ issued[i].page \in Kept
  <2>1. PICK p \in Kept : p = issued[i].page
    BY <1>7
  <2>2. i \notin raced
    BY <2>1 DEF Kept
  <2>3. ran[i] = 0 /\ ran'[i] = 1
    BY <1>1, <1>3, <1>7, <2>2
  <2>4. i \in RanUnder(p)' /\ i \notin RanUnder(p) /\ RanUnder(p) \subseteq RanUnder(p)'
    BY <1>1, <1>4, <2>1, <2>3 DEF RanUnder
  <2>5. RanUnder(p) = {} /\ Times(p) = 0
    BY <1>2, <2>4, RanUnderOne, RanUnderOneNext DEF OneRun
  <2>6. Times(p)' = 1
    BY <1>2, <2>4, RanUnderOneNext DEF OneRun
  <2>7. \A q \in Kept : q # p => Times(q)' = Times(q)
    BY <1>5, <2>1
  <2>8. Run' = [Run EXCEPT ![p] = 1] /\ Run[p] = 0 /\ DOMAIN Run = Kept
    BY <1>2, <2>5, <2>6, <2>7 DEF Run
  <2> QED
    BY <1>2, <2>8 DEF Once!Run, Run, Told
<1> QED
  BY <1>2, <1>6, <1>7

LEMMA ToldStep ==
  ASSUME LedgerOK, LedgerOK', NEW p \in Pages, Receive(p)
  PROVE  Run' = Run /\ (Told' = Told \/ \E q \in DOMAIN Run : Once!Tell(q))
<1> USE DEF Receive, ledgerVars, worldVars
<1>1. ran' = ran /\ issued' = issued /\ raced' = raced
  OBVIOUS
<1>2. ASSUME NEW q \in Pages PROVE Times(q)' = Times(q)
  BY <1>1 DEF Times, RanUnder
<1>3. Kept' = Kept /\ Kept \subseteq Pages
  BY <1>1 DEF Kept
<1>4. Run' = Run
  BY <1>2, <1>3 DEF Run
<1>5. page[p].id # None /\ ~page[p].sent /\ \A q \in Pages \ {p} : page'[q] = page[q]
  <2>1. page[p].id # None
    BY PageTypes DEF PageOK
  <2>2. PICK answer \in {"ok", "refused", "unsure"} : Settle(p, answer)
    OBVIOUS
  <2> QED
    BY <2>1, <2>2, SettledPage, PageTypes DEF PageOK
<1>6. CASE page'[p].sent /\ p \in Kept
  <2>1. Told' = Told \cup {p} /\ p \notin Told
    BY <1>3, <1>5, <1>6 DEF Told
  <2>2. Times(p) = 1
    <3>1. RanUnder(p)' # {} /\ Times(p)' = IF RanUnder(p)' = {} THEN 0 ELSE 1
      BY <1>3, <1>6, RanUnderOneNext DEF OneRun
    <3> QED
      BY <1>2, <3>1
  <2>3. Run[p] = 1 /\ p \in DOMAIN Run
    BY <1>6, <2>2 DEF Run
  <2> QED
    BY <1>4, <2>1, <2>3 DEF Once!Tell, Run, Told
<1>7. CASE ~page'[p].sent \/ p \notin Kept
  BY <1>3, <1>4, <1>5, <1>7 DEF Told
<1> QED
  BY <1>6, <1>7

(* So is a send, or an attempt of it, that takes a new ID.                 *)
LEMMA NamedQuiet ==
  ASSUME LedgerOK, LedgerOK', NEW p \in Pages, NEW i \in Ids, page[p].call = NoCall, ~page[p].sent, Headers(p, i),
         ran' = ran, raced' = raced, \A q \in Pages : page'[q].sent = page[q].sent
  PROVE  \E kept \in SUBSET DOMAIN Run : Once!Release(kept)
<1>1. /\ issued'[i].page = p /\ \A k \in Ids \ {i} : issued'[k] = issued[k]
      /\ issued' = issued \/ (issued[i].page = NoPage /\ (i \notin raced => ran[i] = 0))
  BY HeadersName DEF Untouched
<1>2. Kept' \subseteq Kept
  <2>1. ASSUME NEW q \in Kept', NEW k \in raced PROVE issued[k].page # q
    <3>1. q \in Pages /\ q # NoPage /\ issued'[k].page # q /\ k \in Ids
      BY <2>1, Bounds, PageTypes DEF Kept, LedgerOK, TypeOK
    <3> QED
      BY <1>1, <3>1
  <2> QED
    BY <2>1 DEF Kept
<1>3. \A k \in Ids : issued'[k].page = issued[k].page \/ ran[k] = 0 \/ k \in raced
  BY <1>1
<1> QED
  BY <1>2, <1>3, QuietStep

LEMMA OnceStep ==
  ASSUME LedgerOK, LedgerOK', [Next]_vars
  PROVE  [Once!Next]_<<Run, Told>>
<1> USE DEF ledgerVars, pageVars, worldVars
<1>1. ASSUME NEW i \in Ids, Execute(i) \/ ExecuteFails(i) PROVE [Once!Next]_<<Run, Told>>
  BY <1>1, WorkStep DEF Once!Next, Run, Told
<1>2. ASSUME NEW p \in Pages, Receive(p) PROVE [Once!Next]_<<Run, Told>>
  BY <1>2, ToldStep DEF Once!Next, Run, Told
<1> DEFINE Releases == \E kept \in SUBSET DOMAIN Run : Once!Release(kept)
<1>3. ASSUME NEW p \in Pages, Send(p) PROVE Releases
  <2>1. PICK i \in Ids, c \in Calls :
          /\ page[p].call = NoCall /\ ~page[p].sent /\ Headers(p, i)
          /\ page' = [page EXCEPT ![p].id = i, ![p].call = c]
    BY <1>3 DEF Send
  <2>2. ran' = ran /\ raced' = raced
    BY <1>3 DEF Send
  <2>3. \A q \in Pages : page'[q].sent = page[q].sent
    <3>1. PICK r : r = [page[p] EXCEPT !.id = i, !.call = c]
      OBVIOUS
    <3>2. r.sent = page[p].sent
      BY <3>1, PageTypes DEF PageRecords
    <3>3. page' = [page EXCEPT ![p] = r]
      BY <2>1, <3>1, PageTypes DEF TypeOK
    <3> QED
      BY <3>2, <3>3, PageTypes DEF TypeOK
  <2> QED
    BY <2>1, <2>2, <2>3, NamedQuiet
<1>4. ASSUME NEW p \in Pages, LoseLink(p) PROVE Releases
  <2>1. Settle(p, "unsure") /\ ran' = ran /\ issued' = issued /\ raced' = raced
    BY <1>4 DEF LoseLink
  <2>2. page[p].id # None
    BY <1>4, PageTypes DEF LoseLink, PageOK
  <2>3. \A q \in Pages : page'[q].sent = page[q].sent
    BY <2>1, <2>2, SettledPage
  <2>4. Kept' \subseteq Kept
    BY <2>1 DEF Kept
  <2> QED
    BY <2>1, <2>3, <2>4, QuietStep
<1>5. ASSUME NEW p \in Pages, Offline(p) PROVE Releases
  <2>1. PICK i \in Ids :
          /\ page[p].call = NoCall /\ ~page[p].sent /\ Headers(p, i)
          /\ page' = [page EXCEPT ![p] = IF @.uncertain THEN @ ELSE Idle]
    BY <1>5 DEF Offline
  <2>2. ran' = ran /\ raced' = raced
    BY <1>5 DEF Offline
  <2>3. \A q \in Pages : page'[q].sent = page[q].sent
    <3>1. ~page[p].sent /\ ~Idle.sent
      BY <2>1 DEF Idle
    <3>2. page'[p] = page[p] \/ page'[p] = Idle
      BY <2>1, PageTypes DEF TypeOK
    <3>3. page[p].sent \in BOOLEAN /\ Idle.sent \in BOOLEAN
      BY PageTypes DEF PageRecords, Idle
    <3>4. page'[p].sent = page[p].sent
      BY <3>1, <3>2, <3>3
    <3>5. \A q \in Pages \ {p} : page'[q] = page[q]
      BY <2>1, PageTypes DEF TypeOK
    <3> QED
      BY <3>4, <3>5
  <2> QED
    BY <2>1, <2>2, <2>3, NamedQuiet
<1>6. ASSUME CallSteps \/ Stop \/ Start \/ Tick \/ Share PROVE Releases
  <2>1. ran' = ran /\ page' = page /\ issued' = issued
    BY <1>6 DEF CallSteps, Arrive, Gate, Lookup, Prune, Stop, Start, Tick, Share
  <2>2. raced \subseteq raced'
    BY <1>6 DEF CallSteps, Arrive, Gate, Lookup, Prune, Stop, Start, Tick, Share
  <2>3. Kept' \subseteq Kept
    BY <2>1, <2>2 DEF Kept
  <2> QED
    BY <2>1, <2>2, <2>3, QuietStep
<1>7. ASSUME NEW i \in Ids, Record(i) \/ Withdraw(i) \/ Complete(i) PROVE Releases
  <2>1. ran' = ran /\ page' = page /\ issued' = issued /\ raced' = raced
    BY <1>7 DEF Record, Withdraw, Complete
  <2>2. Kept' \subseteq Kept
    BY <2>1 DEF Kept
  <2> QED
    BY <2>1, <2>2, QuietStep
<1>8. CASE UNCHANGED vars
  <2>1. ran' = ran /\ page' = page /\ issued' = issued /\ raced' = raced
    BY <1>8 DEF vars
  <2>2. Kept' = Kept /\ \A p \in Kept : Times(p)' = Times(p)
    BY <2>1 DEF Kept, Times, RanUnder
  <2>3. Run' = Run /\ Told' = Told
    BY <2>1, <2>2 DEF Run, Told
  <2> QED
    BY <2>3
<1>9. Releases => [Once!Next]_<<Run, Told>>
  BY DEF Once!Next, Run, Told
<1> HIDE DEF Releases
<1> QED
  BY <1>1, <1>2, <1>3, <1>4, <1>5, <1>6, <1>7, <1>8, <1>9 DEF Next, JobSteps

(* Every behaviour of pages and ledger is one of OnceDelivery: an          *)
(* instruction runs at most once across all the IDs it was sent under, and *)
(* counts as sent only after it ran (request-ledger.ts, scope.ts). One of  *)
(* the two races releases the instruction whose ID it caught, and no other.*)
THEOREM ImplementsOnce == Spec => OnceSpec
<1>1. Init => LedgerOK
  BY LedgerStarts
<1>2. LedgerOK /\ [Next]_vars => LedgerOK'
  BY LedgerStep
<1>3. Init => Once!Init
  <2>1. ASSUME Init PROVE Run = [p \in Pages |-> 0] /\ Told = {}
    <3>1. Kept = Pages /\ \A p \in Pages : page[p].sent = FALSE /\ RanUnder(p) = {}
      BY <2>1 DEF Init, Idle, RanUnder, Kept
    <3> QED
      BY <3>1 DEF Run, Told, Times
  <2> QED
    BY <2>1 DEF Once!Init, Run, Told
<1>4. LedgerOK /\ LedgerOK' /\ [Next]_vars => [Once!Next]_<<Run, Told>>
  BY OnceStep
<1> QED
  BY <1>1, <1>2, <1>3, <1>4, PTL DEF Spec, OnceSpec, Once!Spec, Run, Told
=============================================================================
