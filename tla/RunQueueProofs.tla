--------------------------- MODULE RunQueueProofs ---------------------------
(***************************************************************************)
(* Proofs about the run queue, for every number of runs, conversations,    *)
(* faults, crashes and updates: a conversation has one turn with a         *)
(* provider, no provider is given an instruction twice, an instruction     *)
(* that was answered with success is in the database from then on, one     *)
(* whose cancel was confirmed is not started, and a worker that hands over *)
(* with all saved takes nothing with it that waits for the new version.    *)
(*                                                                         *)
(* The invariant says of each run what its request, its insertion, the     *)
(* pump and the turns that hold it rely on across their awaits, and of the *)
(* chain of saves what it will make of the database. Most actions are a    *)
(* change of a few rows, the save of it, and a move of one task; what such *)
(* a step leaves of the invariant is shown once (RunStays, StepKeeps), and *)
(* each action then only says what it does to the runs that act in it.     *)
(* A second invariant, on top of the first, says that memory, the last     *)
(* save of a run and the database agree, and what a cancel waits for.      *)
(***************************************************************************)
EXTENDS RunQueue, WellFoundedInduction, TLAPS

(* The rows as the actions build them.                                     *)
Raw == Rows \cup {Gone}
(* The rows as changed() leaves them: only a queued row is marked to be    *)
(* carried.                                                                *)
Slots == {row \in Rows : row.keep => row.st = "queued"} \cup {Gone}
(* The saves: each maps some runs to their rows.                           *)
Batches == UNION {[S -> Slots] : S \in SUBSET Runs}
(* The statuses of a run.                                                  *)
Statuses == {"queued", "running"} \cup Finished

(* The tasks of one run, the pump and the recovery are different tasks.    *)
LEMMA TaskFacts ==
  /\ Pump \in Tasks /\ Resolve \in Tasks /\ Pump # Resolve
  /\ \A r \in Runs :
       /\ Admit(r) \in Tasks /\ Insert(r) \in Tasks /\ Stop(r) \in Tasks
       /\ Admit(r) \notin {Pump, Resolve} /\ Insert(r) \notin {Pump, Resolve} /\ Stop(r) \notin {Pump, Resolve}
       /\ \A q \in Runs : /\ Admit(r) # Insert(q) /\ Admit(r) # Stop(q) /\ Insert(r) # Stop(q)
                          /\ Stop(r) # Insert(q) /\ Stop(r) # Admit(q) /\ Insert(r) # Admit(q)
                          /\ Admit(r) = Admit(q) => r = q
                          /\ Insert(r) = Insert(q) => r = q
                          /\ Stop(r) = Stop(q) => r = q
BY DEF Tasks, Admit, Insert, Stop, Pump, Resolve

(* No row is the mark of a run that is not there.                          *)
LEMMA RowFacts ==
  /\ Gone.st = "gone" /\ Gone \in Slots /\ Gone \in Raw /\ Slots \subseteq Raw /\ Unread \notin Slots
  /\ \A row \in Raw : row # Gone => /\ row \in Rows /\ row.st \in Statuses /\ row.session \in Sessions
                                    /\ row.planned \in BOOLEAN /\ row.keep \in BOOLEAN
                                    /\ row.target \in Runs \cup {NoRun}
                                    /\ row.steer \in {"none", "sending", "delivered", "uncertain"}
  /\ \A row \in Rows : row # Gone /\ row.st # "gone"
BY DEF Gone, Unread, Slots, Raw, Rows, Statuses, Finished

(* Appending to a sequence.                                                *)
LEMMA AppendFacts ==
  ASSUME NEW S, NEW s \in Seq(S), NEW e \in S
  PROVE  /\ Append(s, e) \in Seq(S) /\ Len(Append(s, e)) = Len(s) + 1
         /\ \A i \in 1 .. Len(s) : Append(s, e)[i] = s[i]
         /\ Append(s, e)[Len(s) + 1] = e
OBVIOUS

(* The rest of a sequence.                                                 *)
LEMMA TailFacts ==
  ASSUME NEW S, NEW s \in Seq(S), s # <<>>
  PROVE  /\ Tail(s) \in Seq(S) /\ Len(Tail(s)) = Len(s) - 1 /\ Len(s) \in Nat \ {0}
         /\ \A i \in 1 .. Len(s) - 1 : Tail(s)[i] = s[i + 1]
         /\ Head(s) = s[1] /\ s[1] \in S
OBVIOUS

(* How changed() leaves a row: the same, or ended with the turn it went    *)
(* into (Mirrored).                                                        *)
From(a, b) ==
  /\ a = Gone <=> b = Gone
  /\ a # Gone => /\ b.session = a.session /\ b.planned = a.planned
                 /\ b.steer = a.steer /\ b.target = a.target
                 /\ \/ b.st = a.st
                    \/ a.st = "running" /\ a.steer = "delivered" /\ b.st \in Finished

(* Mirroring ends instructions that were delivered and touches nothing     *)
(* else.                                                                   *)
LEMMA MirroredRow ==
  ASSUME NEW m \in [Runs -> Raw], NEW r \in Runs
  PROVE  /\ Mirrored(m) \in [Runs -> Raw]
         /\ From(m[r], Mirrored(m)[r])
         /\ m[r] # Gone => Mirrored(m)[r].keep = m[r].keep
         /\ r \notin Mirrors(m) => Mirrored(m)[r] = m[r]
<1>1. ASSUME NEW q \in Runs
      PROVE  /\ q \in Mirrors(m) => /\ m[q] \in Rows /\ m[q].st = "running" /\ m[q].steer = "delivered"
                                    /\ m[m[q].target].st \in Finished
             /\ q \notin Mirrors(m) => Mirrored(m)[q] = m[q]
             /\ q \in Mirrors(m) => Mirrored(m)[q] = [m[q] EXCEPT !.st = m[m[q].target].st]
  BY RowFacts DEF Mirrored, Mirrors, Running, Ended
<1>2. ASSUME NEW q \in Mirrors(m)
      PROVE  /\ Mirrored(m)[q] \in Rows /\ Mirrored(m)[q].st \in Finished
             /\ Mirrored(m)[q].session = m[q].session /\ Mirrored(m)[q].planned = m[q].planned
             /\ Mirrored(m)[q].steer = m[q].steer /\ Mirrored(m)[q].target = m[q].target
             /\ Mirrored(m)[q].keep = m[q].keep
  <2>1. q \in Runs
    BY DEF Mirrors
  <2>2. PICK x : x = m[m[q].target].st
    OBVIOUS
  <2>3. m[q] \in Rows /\ x \in Finished /\ Mirrored(m)[q] = [m[q] EXCEPT !.st = x]
    BY <1>1, <2>1, <2>2
  <2>4. PICK row : row = m[q]
    OBVIOUS
  <2>5. row \in Rows /\ Mirrored(m)[q] = [row EXCEPT !.st = x]
    BY <2>3, <2>4
  <2>6. Finished \subseteq {"queued", "running"} \cup Finished
    OBVIOUS
  <2> QED
    BY <2>3, <2>4, <2>5, <2>6 DEF Rows
<1>3. Mirrored(m) \in [Runs -> Raw]
  BY <1>1, <1>2 DEF Raw, Mirrored
<1> QED
  BY <1>1, <1>2, <1>3, RowFacts DEF From

(* What changed() makes of a row, and that the rows it does not save are   *)
(* as they were.                                                           *)
LEMMA AfterRow ==
  ASSUME NEW m \in [Runs -> Raw], NEW h, NEW r \in Runs
  PROVE  /\ After(m, h)[r] \in Slots
         /\ From(m[r], After(m, h)[r])
         /\ (r \notin Mirrors(m) /\ r \notin Carries(Mirrored(m), h) /\ m[r] \in Slots) => After(m, h)[r] = m[r]
<1> DEFINE rows == Mirrored(m)
           k == Queued(rows, r) /\ (rows[r].keep \/ r \in Carries(rows, h))
<1>1. /\ rows[r] \in Raw /\ From(m[r], rows[r])
      /\ m[r] # Gone => rows[r].keep = m[r].keep
      /\ r \notin Mirrors(m) => rows[r] = m[r]
  BY MirroredRow
<1>2. CASE rows[r] = Gone
  <2>1. After(m, h)[r] = Gone
    BY <1>2 DEF After
  <2> QED
    BY <1>1, <1>2, <2>1, RowFacts DEF From
<1>3. CASE rows[r] # Gone
  <2>1. After(m, h)[r] = [rows[r] EXCEPT !.keep = k]
    BY <1>3 DEF After
  <2>2. rows[r] \in Rows /\ rows[r].keep \in BOOLEAN
    BY <1>1, <1>3, RowFacts
  <2>3. k \in BOOLEAN
    OBVIOUS
  <2> HIDE DEF k
  <2>4. PICK row : row = rows[r]
    OBVIOUS
  <2>5. PICK b \in BOOLEAN : b = k
    BY <2>3
  <2>6. After(m, h)[r] = [row EXCEPT !.keep = b]
    BY <2>1, <2>4, <2>5
  <2>7. row \in Rows
    BY <2>2, <2>4
  <2>8. /\ [row EXCEPT !.keep = b] \in Rows /\ [row EXCEPT !.keep = b].st = row.st
        /\ [row EXCEPT !.keep = b].session = row.session /\ [row EXCEPT !.keep = b].planned = row.planned
        /\ [row EXCEPT !.keep = b].steer = row.steer /\ [row EXCEPT !.keep = b].target = row.target
        /\ [row EXCEPT !.keep = b].keep = b
    BY <2>7 DEF Rows
  <2>9. b => row.st = "queued"
    BY <2>4, <2>5 DEF k, Queued
  <2>10. After(m, h)[r] \in Slots /\ After(m, h)[r] # Gone /\ From(row, After(m, h)[r])
    BY <2>6, <2>7, <2>8, <2>9, RowFacts DEF Slots, From
  <2>11. From(m[r], After(m, h)[r])
    BY <1>1, <1>3, <2>4, <2>8, <2>6, <2>10 DEF From
  <2>12. ASSUME r \notin Mirrors(m), r \notin Carries(rows, h), m[r] \in Slots PROVE After(m, h)[r] = m[r]
    <3>1. row = m[r] /\ (row.keep => row.st = "queued")
      BY <1>1, <1>3, <2>4, <2>12 DEF Slots
    <3>2. b = row.keep
      BY <3>1, <2>4, <2>5, <2>12, <2>2 DEF k, Queued
    <3>3. [row EXCEPT !.keep = row.keep] = row
      BY <2>7 DEF Rows
    <3> QED
      BY <2>6, <3>1, <3>2, <3>3
  <2> QED
    BY <2>10, <2>11, <2>12
<1> QED
  BY <1>2, <1>3

-----------------------------------------------------------------------------
(* The invariant.                                                          *)

(* The rows of the database, of the saves and of the map.                  *)
RowTypes ==
  /\ disk \in [Runs -> Slots] /\ mem \in [Runs -> Slots] /\ chain \in Seq(Batches)
  /\ unknown \in BOOLEAN /\ failed \in SUBSET Runs /\ newAdm \in SUBSET Runs
(* Where a task can be.                                                    *)
Places ==
  {"idle", "saving", "trusting", "creating", "failing", "flush", "files", "putting", "backing", "sent", "answered", "noted",
   "stopping", "refresh", "loop", "look", "looked", "preparing", "writes", "receipt", "rows", "settling"}
(* What a request can be told.                                             *)
Answers == {"none", "accepted", "refused", "created", "failed", "uncertain"}

(* Tasks, the saves they wait for and the runs they picked.                *)
TaskTypes == at \in [Tasks -> Places] /\ left \in [Tasks -> Nat] /\ pick \in [Tasks -> Runs \cup {NoRun}]
(* What is kept of a run beside its row.                                   *)
MarkTypes ==
  /\ next \in Nat /\ admissions \in SUBSET Runs /\ uncertain \in SUBSET Runs /\ detached \in SUBSET Runs
  /\ unsent \in [Runs -> Runs \cup {NoRun}]
  /\ told \in [Runs -> Answers] /\ sent \in [Runs -> Nat] /\ torn \in SUBSET Runs /\ stopped \in SUBSET Runs
(* The turns, the pump's pass and the objects they hold.                   *)
TurnTypes ==
  /\ live \in SUBSET Runs /\ todo \in SUBSET Runs /\ reserved \in SUBSET Sessions
  /\ old \in [Runs -> Raw] /\ stale \in SUBSET Runs
(* What a recovery keeps while it settles the runs of a receipt.           *)
RestTypes == rest \in SUBSET Runs /\ resave \in SUBSET Runs /\ found \in [Runs -> Slots \cup {Unread}]
(* Every variable has its type.                                            *)
TypeOK == RowTypes /\ TaskTypes /\ MarkTypes /\ TurnTypes /\ RestTypes

(* A task waits for no more saves than there are.                          *)
LeftOK == \A t \in Tasks : left[t] <= Len(chain)

(* The i-th save holds the row of r.                                       *)
Holds(i, r) == r \in DOMAIN chain[i]

(* No save removes r.                                                      *)
NoneGone(r) == \A i \in 1 .. Len(chain) : Holds(i, r) => chain[i][r] # Gone
(* No save removes r, and only one no save confirmed is not in the         *)
(* database.                                                               *)
Clean(r) == NoneGone(r) /\ (r \notin newAdm => disk[r] # Gone)
(* The row of r is still to be saved by a recovery or the next change, or  *)
(* the recovery waits for a save that has it.                              *)
Returning(r) ==
  \/ r \in failed \cup resave /\ NoneGone(r)
  \/ /\ at[Resolve] = "settling"
     /\ \E j \in 1 .. left[Resolve] :
          Holds(j, r) /\ \A i \in 1 .. Len(chain) : i >= j /\ Holds(i, r) => chain[i][r] # Gone
(* A recovery has still to say what becomes of r, or to save it.           *)
Unsure(r) == New(r) \/ Returning(r)

(* In the database and in memory, and no admission can take it away.       *)
Known(r) ==
  /\ mem[r] # Gone /\ disk[r] # Gone /\ r \notin newAdm /\ at[Admit(r)] # "saving"
  /\ ~New(r) /\ NoneGone(r)
(* No save confirmed r yet, and no recovery will save it.                  *)
Pending(r) == mem[r] # Gone /\ r \in newAdm /\ ~Unsure(r)
(* Queued and pending.                                                     *)
Fresh(r) == Queued(mem, r) /\ Pending(r)
(* The insertion of r is between the mark in its row and the answer.       *)
Delivers(r) == at[Insert(r)] \in {"putting", "sent"}

(* A number no run has yet is nowhere.                                     *)
UnusedOK(r) == r > next =>
  /\ mem[r] = Gone /\ disk[r] = Gone /\ old[r] = Gone
  /\ r \notin failed /\ r \notin newAdm /\ r \notin resave /\ \A i \in 1 .. Len(chain) : ~Holds(i, r)
  /\ at[Admit(r)] = "idle" /\ at[Insert(r)] = "idle" /\ at[Stop(r)] = "idle"
  /\ r \notin uncertain /\ r \notin detached /\ told[r] = "none" /\ sent[r] = 0

(* What is saved of a run in the map is a row; a run no save confirmed is  *)
(* the only one the database may lack, unless a recovery will save it.     *)
SavedOK(r) == mem[r] # Gone => Clean(r) \/ Unsure(r)

(* The files of r are settled.                                             *)
Files(r) == at[Resolve] = "files" /\ pick[Resolve] = r

(* A request that waits for its save holds its run back from the pump, and *)
(* one that was answered with success has a run nothing can remove.        *)
AdmitOK(r) ==
  /\ at[Admit(r)] = "saving" /\ r \in newAdm => r \in failed \/ \E i \in 1 .. left[Admit(r)] : Holds(i, r)
  /\ at[Admit(r)] = "creating" /\ Pending(r) /\ r \notin detached =>
       r \in failed \/ \E i \in 1 .. left[Admit(r)] : Holds(i, r)
  /\ at[Admit(r)] = "trusting" /\ Pending(r) /\ r \notin detached => r \in failed \/ \E i \in 1 .. Len(chain) : Holds(i, r)
  /\ at[Admit(r)] = "saving" => r \in admissions /\ mem[r] # Gone /\ Clean(r) /\ ~New(r)
  /\ Fresh(r) /\ ~mem[r].planned => r \in admissions
  /\ r \in detached \/ at[Admit(r)] = "failing" => ~Fresh(r)
  /\ at[Admit(r)] = "saving" \/ (at[Admit(r)] \in {"trusting", "creating"} /\ r \notin detached) =>
       r \in admissions /\ at[Insert(r)] = "idle" /\ r \notin uncertain /\ ~Files(r)
  /\ unsent[r] # NoRun => (unknown \/ r \in rest) /\ r \in uncertain
  /\ told[r] = "accepted" => Known(r)

(* What a recovery settles is new or uncertain, and is saved then.         *)
RestOK(r) ==
  /\ r \in rest => r \in resave /\ (New(r) \/ r \in uncertain)
  /\ New(r) => r \in resave
  /\ Files(r) => r \in rest

(* An insertion goes on only with a run the database has, and is marked in *)
(* its row from the saved mark to the answer.                              *)
InsertOK(r) ==
  /\ at[Insert(r)] \in {"files", "putting", "sent"} => Known(r) /\ unsent[r] = NoRun
  /\ at[Insert(r)] = "files" => mem[r].steer = "none"
  /\ Delivers(r) => mem[r].st = "running" /\ mem[r].steer = "sending" /\ at[Stop(r)] # "noted"

(* A run given to a provider is in the database and neither queued nor on  *)
(* its way to a provider again.                                            *)
GivenOK(r) ==
  /\ old[r] # Gone => r \in stale
  /\ r \notin stale /\ sent[r] > 0 => Known(r)
  /\ r \notin stale /\ r \notin torn => sent[r] <= 1 /\ (sent[r] = 1 => ~Queued(mem, r) /\ ~Delivers(r))

(* What holds of each run.                                                 *)
RunOK(r) == UnusedOK(r) /\ SavedOK(r) /\ AdmitOK(r) /\ RestOK(r) /\ InsertOK(r) /\ GivenOK(r)

(* A turn with a provider holds its conversation, and its row is no longer *)
(* queued.                                                                 *)
LiveOK(r) == r \in live =>
  /\ old[r] # Gone \/ (Known(r) /\ ~Delivers(r))
  /\ Object(r).session \in reserved /\ Object(r).st # "queued"

(* The run the pump looks at is no turn yet, and the conversation of the   *)
(* run it prepares is reserved for it alone.                               *)
PumpOK ==
  /\ at[Pump] \in {"look", "looked", "preparing"} =>
       /\ pick[Pump] \in Runs /\ pick[Pump] <= next /\ pick[Pump] \in todo /\ pick[Pump] \notin live
       /\ old[pick[Pump]] # Gone \/ ~Pending(pick[Pump])
  /\ at[Pump] = "preparing" =>
       /\ old[pick[Pump]] # Gone \/ Known(pick[Pump])
       /\ Object(pick[Pump]).session \in reserved
       /\ \A q \in live : Object(q).session # Object(pick[Pump]).session
  /\ OneTurnPerSession

(* A receipt settles its runs.                                             *)
Window == at[Resolve] \in {"rows", "files"}
(* A receipt is read of an unknown write only, nothing starts meanwhile,   *)
(* and what it settles is forgotten once it is to be saved.                *)
ResolveOK ==
  /\ at[Resolve] = "receipt" => unknown
  /\ at[Resolve] # "idle" => held /\ ready
  /\ ~Window => rest = {} /\ resave = {} /\ \A r \in Runs : ~New(r)

(* The inductive invariant.                                                *)
CoreInv ==
  /\ TypeOK /\ LeftOK /\ PumpOK /\ ResolveOK
  /\ \A r \in Runs : RunOK(r) /\ LiveOK(r)

-----------------------------------------------------------------------------
(* What a change does to the rows.                                         *)

(* A change to m that saves the rows ids.                                  *)
WritesOf(m, ids) ==
  /\ mem' \in [Runs -> Slots]
  /\ \A r \in Runs : From(m[r], mem'[r])
  /\ \A r \in Runs \ ids : m[r] \in Slots => mem'[r] = m[r]
  /\ chain' = IF ids = {} THEN chain ELSE Append(chain, Restrict(mem', ids))
  /\ newAdm' = newAdm \cup {r \in ids : mem'[r] # Gone /\ disk[r] = Gone}
  /\ disk' = disk /\ unknown' = unknown /\ failed' = failed
(* A change to m saves the rows it touched, and maybe those of failed      *)
(* saves and of mirrored or carried runs.                                  *)
Writes(m, touched) ==
  \E ids \in SUBSET Runs : /\ WritesOf(m, ids) /\ touched \subseteq ids
                           /\ ids \subseteq touched \cup failed \cup {r \in Runs : m[r] # Gone}

(* changed() is such a change.                                             *)
LEMMA ChangedWrites ==
  ASSUME RowTypes, NEW m \in [Runs -> Raw], NEW touched \in SUBSET Runs, NEW h, ChangedWhile(m, touched, h)
  PROVE  Writes(m, touched)
<1> DEFINE ids == Touches(m, touched, h) \cup Retried
<1>1. Mirrors(m) \subseteq {r \in Runs : m[r] # Gone}
  BY RowFacts DEF Mirrors, Running
<1>2. Carries(Mirrored(m), h) \subseteq {r \in Runs : m[r] # Gone}
  <2>1. ASSUME NEW r \in Carries(Mirrored(m), h) PROVE r \in Runs /\ m[r] # Gone
    <3>1. r \in Runs /\ Mirrored(m)[r].st = "queued"
      BY <2>1 DEF Carries, Queued
    <3> QED
      BY <3>1, MirroredRow, RowFacts DEF From
  <2> QED
    BY <2>1
<1>3. Retried \subseteq failed /\ failed \subseteq Runs
  BY DEF Retried, RowTypes
<1>4. ids \in SUBSET Runs /\ touched \subseteq ids /\ ids \subseteq touched \cup failed \cup {r \in Runs : m[r] # Gone}
  BY <1>1, <1>2, <1>3 DEF Touches
<1>5. mem' = After(m, h)
  BY DEF ChangedWhile
<1>6. \A r \in Runs : /\ mem'[r] \in Slots /\ From(m[r], mem'[r])
                      /\ r \notin ids /\ m[r] \in Slots => mem'[r] = m[r]
  BY <1>5, AfterRow DEF Touches
<1>7. mem' \in [Runs -> Slots]
  <2>1. DOMAIN mem' = Runs /\ mem' = [r \in Runs |-> mem'[r]]
    BY <1>5 DEF After
  <2> QED
    BY <2>1, <1>6
<1>8. /\ chain' = IF ids = {} THEN chain ELSE Append(chain, Restrict(mem', ids))
      /\ newAdm' = newAdm \cup {r \in ids : mem'[r] # Gone /\ disk[r] = Gone}
      /\ disk' = disk /\ unknown' = unknown /\ failed' = failed
  BY <1>5 DEF ChangedWhile
<1> QED
  BY <1>4, <1>6, <1>7, <1>8 DEF Writes, WritesOf

(* So is a step that leaves the rows alone.                                *)
LEMMA StillWrites ==
  ASSUME RowTypes, UNCHANGED <<rowVars, mem>>
  PROVE  Writes(mem, {})
<1>1. UNCHANGED <<disk, chain, unknown, failed, newAdm, mem>>
  BY DEF rowVars
<1>2. WritesOf(mem, {})
  BY <1>1 DEF WritesOf, RowTypes, From
<1> QED
  BY <1>2 DEF Writes

(* What was saved or waits to be saved of one run stays; what is added is  *)
(* the row as it now is.                                                   *)
Wrote(r, touched) ==
  /\ disk'[r] = disk[r] /\ unknown' = unknown /\ (r \in failed' <=> r \in failed)
  /\ Len(chain) <= Len(chain') /\ \A i \in 1 .. Len(chain) : chain'[i] = chain[i]
  /\ \A i \in Len(chain) + 1 .. Len(chain') :
       r \in DOMAIN chain'[i] => chain'[i][r] = mem'[r] /\ (r \in touched \/ r \in failed \/ mem'[r] # Gone)
  /\ r \in newAdm => r \in newAdm'
  /\ r \in newAdm' /\ r \notin newAdm => disk[r] = Gone /\ mem'[r] # Gone

(* What a change does, run by run.                                         *)
LEMMA WritesFacts ==
  ASSUME RowTypes, NEW m, NEW touched \in SUBSET Runs, Writes(m, touched)
  PROVE  /\ RowTypes' /\ Len(chain) \in Nat /\ Len(chain') \in Nat /\ Len(chain) <= Len(chain')
         /\ \A r \in Runs : Wrote(r, touched) /\ From(m[r], mem'[r])
         /\ \A r \in touched : /\ Len(chain') = Len(chain) + 1 /\ r \in DOMAIN chain'[Len(chain')]
                               /\ mem'[r] # Gone /\ disk[r] = Gone => r \in newAdm'
<1>1. PICK ids \in SUBSET Runs : /\ WritesOf(m, ids) /\ touched \subseteq ids
                                 /\ ids \subseteq touched \cup failed \cup {r \in Runs : m[r] # Gone}
  BY DEF Writes
<1> DEFINE save == Restrict(mem', ids)
<1>2. /\ DOMAIN save = ids /\ \A r \in ids : save[r] = mem'[r]
      /\ save \in Batches
  <2>1. mem' \in [Runs -> Slots]
    BY <1>1 DEF WritesOf
  <2>2. save = [r \in ids |-> mem'[r]]
    BY DEF Restrict
  <2>3. save \in [ids -> Slots]
    BY <2>1, <2>2
  <2> QED
    BY <2>2, <2>3 DEF Batches
<1> HIDE DEF save
<1>3. chain \in Seq(Batches) /\ Len(chain) \in Nat
  BY DEF RowTypes
<1>4. /\ mem' \in [Runs -> Slots] /\ \A r \in Runs : From(m[r], mem'[r])
      /\ chain' = IF ids = {} THEN chain ELSE Append(chain, save)
      /\ newAdm' = newAdm \cup {r \in ids : mem'[r] # Gone /\ disk[r] = Gone}
      /\ disk' = disk /\ unknown' = unknown /\ failed' = failed
  BY <1>1 DEF WritesOf, save
<1>5. ids # {} => /\ chain' \in Seq(Batches) /\ Len(chain') = Len(chain) + 1
                  /\ \A i \in 1 .. Len(chain) : chain'[i] = chain[i]
                  /\ chain'[Len(chain) + 1] = save
  BY <1>2, <1>3, <1>4, AppendFacts
<1>6. /\ chain' \in Seq(Batches) /\ Len(chain') \in Nat /\ Len(chain) <= Len(chain')
      /\ \A i \in 1 .. Len(chain) : chain'[i] = chain[i]
  BY <1>3, <1>4, <1>5
<1>7. RowTypes'
  BY <1>4, <1>6 DEF RowTypes
<1>8. ASSUME NEW r \in Runs PROVE Wrote(r, touched)
  <2>1. ASSUME NEW i \in Len(chain) + 1 .. Len(chain'), r \in DOMAIN chain'[i]
        PROVE  chain'[i][r] = mem'[r] /\ (r \in touched \/ r \in failed \/ mem'[r] # Gone)
    <3>1. ids # {} /\ i = Len(chain) + 1
      BY <1>3, <1>4, <1>5, <2>1
    <3>2. r \in ids /\ chain'[i][r] = mem'[r]
      BY <1>2, <1>5, <2>1, <3>1
    <3> QED
      BY <1>1, <1>4, <3>2 DEF From
  <2> QED
    BY <1>4, <1>6, <2>1 DEF Wrote
<1>9. ASSUME NEW r \in touched
      PROVE  /\ Len(chain') = Len(chain) + 1 /\ r \in DOMAIN chain'[Len(chain')]
             /\ mem'[r] # Gone /\ disk[r] = Gone => r \in newAdm'
  BY <1>1, <1>2, <1>4, <1>5
<1> QED
  BY <1>3, <1>4, <1>6, <1>7, <1>8, <1>9

-----------------------------------------------------------------------------
(* What a step leaves alone.                                               *)

(* One task at most moves.                                                 *)
Moves(t, place) ==
  /\ at' = [at EXCEPT ![t] = place]
  /\ left' = left \/ left' = [left EXCEPT ![t] = Len(chain')]

(* A task that moves waits for no more saves than there are; the others    *)
(* are as they were.                                                       *)
LEMMA MoveFacts ==
  ASSUME TaskTypes, LeftOK, NEW t \in Tasks, NEW place \in Places, Moves(t, place),
         Len(chain) \in Nat, Len(chain') \in Nat, Len(chain) <= Len(chain')
  PROVE  /\ at' \in [Tasks -> Places] /\ left' \in [Tasks -> Nat] /\ LeftOK'
         /\ at'[t] = place
         /\ \A u \in Tasks \ {t} : at'[u] = at[u] /\ left'[u] = left[u]
<1>1. /\ at' \in [Tasks -> Places] /\ at'[t] = place
      /\ \A u \in Tasks \ {t} : at'[u] = at[u]
  BY DEF TaskTypes, Moves
<1>2. PICK n \in Nat : n = Len(chain')
  OBVIOUS
<1>3. /\ left' \in [Tasks -> Nat]
      /\ left'[t] = left[t] \/ left'[t] = n
      /\ \A u \in Tasks \ {t} : left'[u] = left[u]
  <2>1. CASE left' = left
    BY <2>1 DEF TaskTypes
  <2>2. CASE left' = [left EXCEPT ![t] = n]
    BY <2>2 DEF TaskTypes
  <2> QED
    BY <1>2, <2>1, <2>2 DEF Moves
<1>4. LeftOK'
  <2>1. ASSUME NEW u \in Tasks PROVE left'[u] <= n
    <3>1. left[u] <= Len(chain) /\ left[u] \in Nat /\ left'[u] \in Nat
      BY <1>3 DEF LeftOK, TaskTypes
    <3> QED
      BY <1>2, <1>3, <3>1
  <2> QED
    BY <1>2, <2>1 DEF LeftOK
<1> QED
  BY <1>1, <1>3, <1>4

(* A step that moves no task is one that moves any task to where it is.    *)
LEMMA NoMove ==
  ASSUME TaskTypes, LeftOK, at' = at, left' = left,
         Len(chain) \in Nat, Len(chain') \in Nat, Len(chain) <= Len(chain')
  PROVE  at' \in [Tasks -> Places] /\ left' \in [Tasks -> Nat] /\ LeftOK'
BY DEF TaskTypes, LeftOK

(* A row keeps its conversation, and may only end; not while it is sent.   *)
Kept(r) ==
  /\ mem'[r] = Gone <=> mem[r] = Gone
  /\ mem[r] # Gone => /\ mem'[r].session = mem[r].session /\ mem'[r].planned = mem[r].planned
                      /\ mem'[r].steer = mem[r].steer
                      /\ mem'[r].st = mem[r].st \/ (mem'[r].st \in Finished /\ ~Delivers(r))

(* A row that changed() leaves is kept.                                    *)
LEMMA KeptSame ==
  ASSUME NEW r \in Runs, InsertOK(r), From(mem[r], mem'[r])
  PROVE  Kept(r)
BY DEF InsertOK, From, Kept, Delivers

(* A row that ends is kept.                                                *)
LEMMA KeptEnds ==
  ASSUME NEW r \in Runs, mem[r] \in Rows, ~Delivers(r), NEW x \in Finished,
         From([mem[r] EXCEPT !.st = x], mem'[r])
  PROVE  Kept(r) /\ mem'[r].st = x
<1>1. PICK row : row = [mem[r] EXCEPT !.st = x]
  OBVIOUS
<1>2. /\ row \in Rows /\ row.st = x /\ row.session = mem[r].session /\ row.planned = mem[r].planned
      /\ row.steer = mem[r].steer
  BY <1>1 DEF Rows
<1>3. row # Gone /\ mem[r] # Gone /\ x # "running"
  BY <1>2, RowFacts DEF Finished
<1> QED
  BY <1>1, <1>2, <1>3 DEF From, Kept

(* The request and the insertion of r do not move.                         *)
SameTasks(r) == at'[Admit(r)] = at[Admit(r)] /\ left'[Admit(r)] = left[Admit(r)] /\ at'[Insert(r)] = at[Insert(r)]
(* A cancel begins only with a run that has a number and is not sent.      *)
StopStays(r) ==
  /\ at'[Stop(r)] = "noted" => at[Stop(r)] = "noted" \/ ~Delivers(r)
  /\ at'[Stop(r)] # "idle" => at[Stop(r)] # "idle" \/ r <= next
(* What a recovery does with r goes on.                                    *)
SameSettling(r) ==
  /\ r \in rest' <=> r \in rest
  /\ r \in resave' <=> r \in resave
  /\ found'[r] = found[r]
  /\ Files(r)' => Files(r)
  /\ at[Resolve] = "settling" /\ left[Resolve] > 0 => at'[Resolve] = "settling" /\ left'[Resolve] = left[Resolve]
(* What is kept of r beside its row does not change.                       *)
SameMarks(r) ==
  /\ r \in admissions' <=> r \in admissions
  /\ r \in uncertain' <=> r \in uncertain
  /\ r \in detached' <=> r \in detached
  /\ unsent'[r] = unsent[r] /\ told'[r] = told[r] /\ sent'[r] = sent[r]
  /\ r \in torn => r \in torn'
(* Only the row of the map becomes an object the pump holds, and then the  *)
(* run has left the map.                                                   *)
OldStays(r) ==
  /\ r \in stale => r \in stale'
  /\ old'[r] \in {old[r], Gone} \/ (r \in stale' /\ mem[r] # Gone)
(* A run that does not act in a step.                                      *)
Bystander(r, touched) ==
  /\ Kept(r) /\ SameTasks(r) /\ SameMarks(r) /\ StopStays(r) /\ SameSettling(r)
  /\ r \in touched => r <= next

(* What the pump and the turns rely on.                                    *)
Firm(r) ==
  /\ Known(r) => Known(r)' /\ mem'[r].session = mem[r].session
  /\ r <= next /\ Pending(r)' => Pending(r)
  /\ r \in live /\ old[r] = Gone => mem'[r].st # "queued" /\ ~Delivers(r)'

(* What a change makes of the saves of a run that it does not bring back.  *)
LEMMA SavedStays ==
  ASSUME NEW r \in Runs, SavedOK(r), NEW touched, Wrote(r, touched), SameSettling(r), mem'[r] # Gone => mem[r] # Gone,
         Len(chain) \in Nat, Len(chain') \in Nat, left[Resolve] \in Nat, left[Resolve] <= Len(chain)
  PROVE  /\ SavedOK(r)' /\ (New(r)' <=> New(r)) /\ (Pending(r)' => Pending(r))
         /\ mem'[r] # Gone /\ NoneGone(r) => NoneGone(r)'
         /\ mem'[r] # Gone /\ Clean(r) => Clean(r)' /\ (r \in newAdm' <=> r \in newAdm)
         /\ mem'[r] # Gone /\ Unsure(r) => Unsure(r)'
         /\ Known(r) /\ mem'[r] # Gone /\ at'[Admit(r)] # "saving" => Known(r)'
         /\ mem'[r] = Gone => (r \in newAdm' <=> r \in newAdm)
         /\ disk'[r] = disk[r] /\ unknown' = unknown /\ (r \in failed' <=> r \in failed)
<1>1. New(r)' <=> New(r)
  BY DEF New, SameSettling
<1>2. ASSUME mem'[r] # Gone, NEW k \in Nat, \A i \in 1 .. Len(chain) : i >= k /\ Holds(i, r) => chain[i][r] # Gone,
             NEW i \in 1 .. Len(chain'), i >= k, r \in DOMAIN chain'[i]
      PROVE  chain'[i][r] # Gone
  <2>1. CASE i \in 1 .. Len(chain)
    BY <2>1, <1>2 DEF Wrote, Holds
  <2>2. CASE i \in Len(chain) + 1 .. Len(chain')
    BY <2>2, <1>2 DEF Wrote
  <2> QED
    BY <2>1, <2>2, <1>2
<1>3. ASSUME mem'[r] # Gone, NoneGone(r) PROVE NoneGone(r)'
  <2>1. \A i \in 1 .. Len(chain) : i >= 0 /\ Holds(i, r) => chain[i][r] # Gone
    BY <1>3 DEF NoneGone
  <2>2. \A i \in 1 .. Len(chain') : i >= 0 /\ r \in DOMAIN chain'[i] => chain'[i][r] # Gone
    BY <1>2, <1>3, <2>1
  <2> QED
    BY <2>2 DEF NoneGone, Holds
<1>4. ASSUME mem'[r] # Gone, Clean(r) PROVE Clean(r)' /\ (r \in newAdm' <=> r \in newAdm)
  BY <1>3, <1>4 DEF Clean, Wrote
<1>5. ASSUME mem'[r] # Gone, Returning(r) PROVE Returning(r)'
  <2>1. CASE r \in failed \cup resave /\ NoneGone(r)
    BY <1>3, <1>5, <2>1 DEF Returning, Wrote, SameSettling
  <2>2. CASE ~(r \in failed \cup resave /\ NoneGone(r))
    <3>1. at[Resolve] = "settling"
      BY <1>5, <2>2 DEF Returning
    <3>2. PICK j \in 1 .. left[Resolve] :
            Holds(j, r) /\ \A i \in 1 .. Len(chain) : i >= j /\ Holds(i, r) => chain[i][r] # Gone
      BY <1>5, <2>2 DEF Returning
    <3>3. left[Resolve] > 0 /\ j \in Nat /\ j \in 1 .. Len(chain)
      OBVIOUS
    <3>4. at'[Resolve] = "settling" /\ j \in 1 .. left'[Resolve]
      BY <3>1, <3>2, <3>3 DEF SameSettling
    <3>5. r \in DOMAIN chain'[j]
      BY <3>2, <3>3 DEF Wrote, Holds
    <3>6. \A i \in 1 .. Len(chain') : i >= j /\ r \in DOMAIN chain'[i] => chain'[i][r] # Gone
      BY <1>2, <1>5, <3>2, <3>3
    <3> QED
      BY <3>4, <3>5, <3>6 DEF Returning, Holds
  <2> QED
    BY <2>1, <2>2
<1>6. mem'[r] # Gone /\ Unsure(r) => Unsure(r)'
  BY <1>1, <1>5 DEF Unsure
<1>7. SavedOK(r)'
  BY <1>4, <1>6 DEF SavedOK
<1>8. ASSUME Pending(r)' PROVE Pending(r)
  BY <1>4, <1>6, <1>8 DEF Pending, SavedOK
<1>9. ASSUME Known(r), mem'[r] # Gone, at'[Admit(r)] # "saving" PROVE Known(r)'
  BY <1>1, <1>3, <1>9 DEF Known, Wrote
<1> QED
  BY <1>1, <1>3, <1>4, <1>6, <1>7, <1>8, <1>9 DEF Wrote

(* What holds of a run holds after a step in which it does not act.        *)
LEMMA RunStays ==
  ASSUME NEW r \in Runs, RunOK(r), LiveOK(r), NEW touched, Wrote(r, touched), Bystander(r, touched), OldStays(r),
         next \in Nat, next' \in Nat, next <= next', Len(chain) \in Nat, Len(chain') \in Nat, left[Admit(r)] \in Nat,
         left[Admit(r)] <= Len(chain), left[Resolve] \in Nat, left[Resolve] <= Len(chain)
  PROVE  RunOK(r)' /\ Firm(r)
<1> USE DEF Bystander
<1>1. /\ SavedOK(r)' /\ (New(r)' <=> New(r)) /\ (Pending(r)' => Pending(r))
      /\ mem'[r] # Gone /\ Clean(r) => Clean(r)' /\ (r \in newAdm' <=> r \in newAdm)
      /\ Known(r) /\ mem'[r] # Gone /\ at'[Admit(r)] # "saving" => Known(r)'
      /\ mem'[r] = Gone => (r \in newAdm' <=> r \in newAdm)
      /\ disk'[r] = disk[r] /\ unknown' = unknown /\ (r \in failed' <=> r \in failed)
  BY SavedStays DEF RunOK, Kept
<1>2. /\ Queued(mem, r)' => Queued(mem, r)
      /\ Fresh(r)' => Fresh(r)
      /\ Known(r) => Known(r)'
      /\ Delivers(r)' <=> Delivers(r)
  BY <1>1, RowFacts DEF Kept, SameTasks, Queued, Fresh, Known, Delivers, Finished
<1>3. UnusedOK(r)'
  <2>1. ASSUME r > next' PROVE r > next
    BY <2>1 DEF Runs
  <2>2. ASSUME r > next', NEW i \in 1 .. Len(chain') PROVE r \notin DOMAIN chain'[i]
    <3>1. CASE i \in 1 .. Len(chain)
      BY <3>1, <2>1, <2>2 DEF RunOK, UnusedOK, Wrote, Holds
    <3>2. CASE i \in Len(chain) + 1 .. Len(chain')
      <4>1. r \notin failed /\ mem'[r] = Gone /\ r \notin touched
        BY <2>1, <2>2 DEF RunOK, UnusedOK, Kept, Runs
      <4> QED
        BY <3>2, <4>1 DEF Wrote
    <3> QED
      BY <3>1, <3>2, <2>2
  <2>3. r > next' => /\ mem'[r] = Gone /\ disk'[r] = Gone /\ r \notin failed' /\ r \notin newAdm' /\ r \notin resave'
    BY <2>1, <1>1 DEF RunOK, UnusedOK, SameSettling, Kept
  <2>4. r > next' => /\ at'[Admit(r)] = "idle" /\ at'[Insert(r)] = "idle"
                     /\ r \notin uncertain' /\ r \notin detached' /\ told'[r] = "none" /\ sent'[r] = 0
    BY <2>1 DEF RunOK, UnusedOK, SameTasks, SameMarks
  <2>5. r > next' => old'[r] = Gone
    BY <2>1 DEF RunOK, UnusedOK, OldStays
  <2>6. r > next' => at'[Stop(r)] = "idle"
    BY <2>1 DEF RunOK, UnusedOK, StopStays, Runs
  <2> QED
    BY <2>2, <2>3, <2>4, <2>5, <2>6 DEF UnusedOK, Holds
<1>4. AdmitOK(r)'
  <2>1. at'[Admit(r)] = "saving" => /\ r \in admissions' /\ mem'[r] # Gone /\ Clean(r)' /\ ~New(r)'
                                    /\ (r \in newAdm' <=> r \in newAdm)
    BY <1>1 DEF RunOK, AdmitOK, SameTasks, SameMarks, Kept
  <2>2. at'[Admit(r)] = "saving" /\ r \in newAdm' => r \in failed' \/ \E i \in 1 .. left'[Admit(r)] : r \in DOMAIN chain'[i]
    BY <1>1, <2>1 DEF RunOK, AdmitOK, SameTasks, Wrote, Holds
  <2>3. at'[Admit(r)] = "creating" /\ Pending(r)' /\ r \notin detached' =>
          r \in failed' \/ \E i \in 1 .. left'[Admit(r)] : r \in DOMAIN chain'[i]
    BY <1>1 DEF RunOK, AdmitOK, SameTasks, SameMarks, Wrote, Holds
  <2>4. at'[Admit(r)] = "trusting" /\ Pending(r)' /\ r \notin detached' =>
          r \in failed' \/ \E i \in 1 .. Len(chain') : r \in DOMAIN chain'[i]
    BY <1>1 DEF RunOK, AdmitOK, SameTasks, SameMarks, Wrote, Holds
  <2>5. Fresh(r)' /\ ~mem'[r].planned => r \in admissions'
    BY <1>2 DEF RunOK, AdmitOK, SameMarks, Kept, Fresh, Pending
  <2>6. /\ r \in detached' \/ at'[Admit(r)] = "failing" => ~Fresh(r)'
        /\ at'[Admit(r)] = "saving" \/ (at'[Admit(r)] \in {"trusting", "creating"} /\ r \notin detached') =>
             r \in admissions' /\ at'[Insert(r)] = "idle" /\ r \notin uncertain' /\ ~Files(r)'
        /\ unsent'[r] # NoRun => (unknown' \/ r \in rest') /\ r \in uncertain'
        /\ told'[r] = "accepted" => Known(r)'
    BY <1>1, <1>2 DEF RunOK, AdmitOK, SameTasks, SameMarks, SameSettling
  <2> QED
    BY <2>1, <2>2, <2>3, <2>4, <2>5, <2>6 DEF AdmitOK, Holds
<1>5. RestOK(r)'
  BY <1>1 DEF RunOK, RestOK, SameSettling, SameMarks
<1>6. InsertOK(r)'
  BY <1>2 DEF RunOK, InsertOK, SameTasks, SameMarks, StopStays, Kept, Known, Delivers
<1>7. GivenOK(r)'
  BY <1>2 DEF RunOK, GivenOK, SameMarks, OldStays
<1>8. Firm(r)
  <2>1. Known(r) => Known(r)' /\ mem'[r].session = mem[r].session
    BY <1>2 DEF Known, Kept
  <2>2. ASSUME r \in live, old[r] = Gone PROVE mem'[r].st # "queued" /\ ~Delivers(r)'
    <3>1. mem[r].st # "queued" /\ Known(r) /\ ~Delivers(r)
      BY <2>2 DEF LiveOK, Object
    <3> QED
      BY <3>1, <1>2 DEF Kept, Known, Finished
  <2> QED
    BY <1>1, <2>1, <2>2 DEF Firm
<1> QED
  BY <1>1, <1>3, <1>5, <1>4, <1>6, <1>7, <1>8 DEF RunOK

(* The turns that go on, and the run the pump prepares.                    *)
SameObject(r) == old'[r] = old[r] \/ (old[r] = Gone /\ old'[r] = mem[r] /\ mem[r].st = "queued")

(* A firm run is the same object for the pump and the turns: same          *)
(* conversation, and queued only if it was.                                *)
LEMMA ObjectStays ==
  ASSUME NEW r \in Runs, Firm(r), SameObject(r), old[r] # Gone \/ Known(r)
  PROVE  /\ Object(r)'.session = Object(r).session
         /\ old'[r] # Gone \/ Known(r)'
BY RowFacts DEF Firm, SameObject, Object, Known

(* A turn stays one that holds its conversation.                           *)
LEMMA LiveStays ==
  ASSUME \A r \in Runs : LiveOK(r) /\ Firm(r), OneTurnPerSession, live \in SUBSET Runs, live' \in SUBSET live,
         \A r \in live' : SameObject(r) /\ Object(r).session \in reserved'
  PROVE  /\ \A r \in Runs : LiveOK(r)'
         /\ OneTurnPerSession'
         /\ \A r \in live' : Object(r)'.session = Object(r).session
<1>1. ASSUME NEW r \in live'
      PROVE  /\ Object(r)'.session = Object(r).session
             /\ old'[r] # Gone \/ (Known(r)' /\ ~Delivers(r)')
             /\ Object(r)'.st # "queued"
  <2>1. r \in Runs /\ r \in live /\ LiveOK(r) /\ Firm(r) /\ SameObject(r)
    OBVIOUS
  <2>2. old[r] # Gone \/ Known(r)
    BY <2>1 DEF LiveOK
  <2>3. Object(r)'.session = Object(r).session /\ (old'[r] # Gone \/ Known(r)')
    BY <2>1, <2>2, ObjectStays
  <2>4. Object(r).st # "queued"
    BY <2>1 DEF LiveOK
  <2>5. old'[r] = old[r]
    BY <2>1, <2>4 DEF SameObject, Object
  <2> QED
    BY <2>1, <2>3, <2>4, <2>5 DEF Firm, Object
<1>2. \A r \in Runs : LiveOK(r)'
  BY <1>1 DEF LiveOK
<1>3. OneTurnPerSession'
  BY <1>1 DEF OneTurnPerSession
<1> QED
  BY <1>1, <1>2, <1>3

(* What the pump relies on stays while it does not move.                   *)
LEMMA PumpStays ==
  ASSUME \A r \in Runs : LiveOK(r) /\ Firm(r), PumpOK, live \in SUBSET Runs, live' \in SUBSET live,
         \A r \in live' : SameObject(r) /\ Object(r).session \in reserved',
         next \in Nat, next' \in Nat, next <= next',
         at'[Pump] = at[Pump], pick'[Pump] = pick[Pump], todo' = todo,
         at[Pump] \in {"look", "looked", "preparing"} => SameObject(pick[Pump]),
         at[Pump] = "preparing" => Object(pick[Pump]).session \in reserved'
  PROVE  PumpOK' /\ \A r \in Runs : LiveOK(r)'
<1>1. /\ \A r \in Runs : LiveOK(r)'
      /\ OneTurnPerSession'
      /\ \A r \in live' : Object(r)'.session = Object(r).session
  BY LiveStays DEF PumpOK
<1>2. ASSUME at[Pump] \in {"look", "looked", "preparing"}
      PROVE  /\ pick[Pump] \in Runs /\ pick[Pump] <= next' /\ pick[Pump] \in todo /\ pick[Pump] \notin live'
             /\ old'[pick[Pump]] # Gone \/ ~Pending(pick[Pump])'
             /\ at[Pump] = "preparing" => /\ Object(pick[Pump])'.session = Object(pick[Pump]).session
                                          /\ old'[pick[Pump]] # Gone \/ Known(pick[Pump])'
  <2>1. PICK p : p = pick[Pump]
    OBVIOUS
  <2>2. /\ p \in Runs /\ p <= next /\ p \in todo /\ p \notin live' /\ (old[p] # Gone \/ ~Pending(p)) /\ SameObject(p) /\ Firm(p)
        /\ at[Pump] = "preparing" => old[p] # Gone \/ Known(p)
    BY <1>2, <2>1 DEF PumpOK
  <2>3. at[Pump] = "preparing" => Object(p)'.session = Object(p).session /\ (old'[p] # Gone \/ Known(p)')
    BY <2>2, ObjectStays
  <2>4. old'[p] # Gone \/ ~Pending(p)'
    BY <2>2 DEF SameObject, Firm
  <2>5. p <= next'
    BY <2>2 DEF Runs
  <2> QED
    BY <2>1, <2>2, <2>3, <2>4, <2>5
<1> QED
  BY <1>1, <1>2 DEF PumpOK

-----------------------------------------------------------------------------
(* One step: a change is saved, one task moves, and the runs that do not   *)
(* act stand by.                                                           *)

(* What the invariant says, in one place.                                  *)
LEMMA CoreFacts ==
  ASSUME CoreInv
  PROVE  /\ RowTypes /\ TaskTypes /\ MarkTypes /\ TurnTypes /\ RestTypes /\ LeftOK /\ PumpOK /\ ResolveOK
         /\ Len(chain) \in Nat /\ next \in Nat /\ left[Resolve] \in Nat /\ left[Resolve] <= Len(chain)
         /\ mem \in [Runs -> Raw]
         /\ \A r \in Runs : /\ RunOK(r) /\ LiveOK(r) /\ left[Admit(r)] \in Nat /\ left[Admit(r)] <= Len(chain)
                            /\ r \in Nat /\ mem[r] \in Slots /\ disk[r] \in Slots /\ old[r] \in Raw
<1>1. RowTypes /\ TaskTypes /\ MarkTypes /\ TurnTypes /\ RestTypes /\ LeftOK /\ PumpOK /\ ResolveOK
  BY DEF CoreInv, TypeOK
<1>2. left[Resolve] \in Nat /\ left[Resolve] <= Len(chain)
  BY <1>1, TaskFacts DEF TaskTypes, LeftOK
<1>3. /\ Len(chain) \in Nat /\ next \in Nat
      /\ mem \in [Runs -> Slots] /\ disk \in [Runs -> Slots] /\ old \in [Runs -> Raw]
  BY <1>1 DEF RowTypes, MarkTypes, TurnTypes
<1>4. mem \in [Runs -> Raw]
  BY <1>3, RowFacts
<1>5. ASSUME NEW r \in Runs
      PROVE  /\ RunOK(r) /\ LiveOK(r) /\ left[Admit(r)] \in Nat /\ left[Admit(r)] <= Len(chain)
             /\ r \in Nat
  BY <1>1, TaskFacts DEF CoreInv, TaskTypes, LeftOK, Runs
<1> QED
  BY <1>1, <1>3, <1>4, <1>5, <1>2

(* A task that moves leaves a recovery as it is, or the recovery moves to  *)
(* where it settles no run; and a cancel begins as it may.                 *)
Fits(t, place) ==
  /\ UNCHANGED recovery /\ pick'[Resolve] = pick[Resolve] /\ (ready => ready')
  /\ \/ (t # Resolve \/ UNCHANGED <<at, left>>) /\ (at[Resolve] # "idle" => held')
     \/ /\ t = Resolve /\ ~Window /\ place \in {"idle", "writes", "receipt"}
        /\ place = "receipt" => unknown
        /\ place # "idle" => held' /\ ready'
        /\ at[Resolve] = "settling" => left[Resolve] = 0
  /\ \A r \in Runs : t = Stop(r) => r <= next /\ (place = "noted" => ~Delivers(r))

(* A request, an insertion and the pump do.                                *)
LEMMA FitsOther ==
  ASSUME NEW t, t # Resolve, \A r \in Runs : t # Stop(r), UNCHANGED recovery, pick'[Resolve] = pick[Resolve],
         ready => ready', held => held', ResolveOK
  PROVE  \A place : Fits(t, place)
BY DEF Fits, ResolveOK

(* What a change and a move do, in one place.                              *)
LEMMA ActFacts ==
  ASSUME CoreInv, NEW m, NEW touched \in SUBSET Runs, Writes(m, touched),
         NEW t \in Tasks, NEW place \in Places, Moves(t, place), Fits(t, place), pick' \in [Tasks -> Runs \cup {NoRun}]
  PROVE  /\ RowTypes' /\ TaskTypes' /\ LeftOK' /\ RestTypes'
         /\ Len(chain) \in Nat /\ Len(chain') \in Nat /\ Len(chain) <= Len(chain')
         /\ at'[t] = place
         /\ \A u \in Tasks \ {t} : at'[u] = at[u] /\ left'[u] = left[u]
         /\ \A r \in Runs : /\ Wrote(r, touched) /\ From(m[r], mem'[r]) /\ mem'[r] \in Slots
                            /\ t \notin {Admit(r), Insert(r)} => SameTasks(r)
                            /\ StopStays(r) /\ SameSettling(r)
         /\ \A r \in touched : /\ Len(chain') = Len(chain) + 1 /\ r \in DOMAIN chain'[Len(chain')]
                               /\ mem'[r] # Gone /\ disk[r] = Gone => r \in newAdm'
         /\ ResolveOK'
         /\ t # Pump => at'[Pump] = at[Pump]
<1>1. /\ RowTypes' /\ Len(chain) \in Nat /\ Len(chain') \in Nat /\ Len(chain) <= Len(chain')
      /\ \A r \in Runs : Wrote(r, touched) /\ From(m[r], mem'[r])
      /\ \A r \in touched : /\ Len(chain') = Len(chain) + 1 /\ r \in DOMAIN chain'[Len(chain')]
                            /\ mem'[r] # Gone /\ disk[r] = Gone => r \in newAdm'
  BY CoreFacts, WritesFacts
<1>2. /\ at' \in [Tasks -> Places] /\ left' \in [Tasks -> Nat] /\ LeftOK'
      /\ at'[t] = place
      /\ \A u \in Tasks \ {t} : at'[u] = at[u] /\ left'[u] = left[u]
  BY <1>1, CoreFacts, MoveFacts
<1>3. ASSUME NEW r \in Runs, t \notin {Admit(r), Insert(r)} PROVE SameTasks(r)
  BY <1>2, <1>3, TaskFacts DEF SameTasks
<1>4. unknown' = unknown /\ UNCHANGED <<rest, resave, found>> /\ pick'[Resolve] = pick[Resolve]
  BY DEF Writes, WritesOf, Fits, recovery
<1>5. \A r \in Runs : mem'[r] \in Slots
  BY <1>1 DEF RowTypes
<1>6. TaskTypes' /\ (t # Pump => at'[Pump] = at[Pump])
  BY <1>2, TaskFacts DEF TaskTypes
<1>7. ASSUME NEW r \in Runs PROVE StopStays(r)
  <2>1. CASE t = Stop(r)
    BY <1>2, <2>1 DEF Fits, StopStays
  <2>2. CASE t # Stop(r)
    BY <1>2, <2>2, TaskFacts DEF StopStays
  <2> QED
    BY <2>1, <2>2
<1>8. ASSUME t # Resolve \/ UNCHANGED <<at, left>> PROVE at'[Resolve] = at[Resolve] /\ left'[Resolve] = left[Resolve]
  BY <1>2, <1>8, TaskFacts
<1>9. \/ at'[Resolve] = at[Resolve] /\ left'[Resolve] = left[Resolve] /\ (at[Resolve] # "idle" => held')
      \/ /\ ~Window /\ at'[Resolve] \in {"idle", "writes", "receipt"}
         /\ at'[Resolve] = "receipt" => unknown
         /\ at'[Resolve] # "idle" => held' /\ ready'
         /\ at[Resolve] = "settling" => left[Resolve] = 0
  BY <1>2, <1>8 DEF Fits
<1>10. ASSUME NEW r \in Runs PROVE SameSettling(r)
  BY <1>4, <1>9 DEF SameSettling, Files
<1>11. ResolveOK /\ RestTypes /\ (ready => ready')
  BY CoreFacts DEF Fits
<1>12. ResolveOK' /\ RestTypes'
  BY <1>4, <1>9, <1>11 DEF ResolveOK, Window, New, RestTypes
<1> QED
  BY <1>1, <1>2, <1>3, <1>12, <1>5, <1>6, <1>7, <1>10

(* A step that ends r.                                                     *)
Ends(m, r) == mem[r] # Gone /\ ~Delivers(r) /\ \E x \in Finished : m[r] = [mem[r] EXCEPT !.st = x]
(* A run that at most ends in the step.                                    *)
Stands(r, m, touched, t) ==
  /\ SameMarks(r) /\ OldStays(r)
  /\ r \in touched => r <= next
  /\ t \notin {Admit(r), Insert(r)}
  /\ m[r] = mem[r] \/ Ends(m, r)

(* A run that ends keeps its row otherwise.                                *)
LEMMA EndsKept ==
  ASSUME NEW r \in Runs, NEW m, mem[r] \in Slots, InsertOK(r), From(m[r], mem'[r]), m[r] = mem[r] \/ Ends(m, r)
  PROVE  Kept(r)
<1>1. CASE m[r] = mem[r]
  BY <1>1, KeptSame
<1>2. CASE Ends(m, r)
  <2>1. PICK x \in Finished : m[r] = [mem[r] EXCEPT !.st = x]
    BY <1>2 DEF Ends
  <2>2. mem[r] \in Rows /\ ~Delivers(r)
    BY <1>2 DEF Ends, Slots
  <2>3. From([mem[r] EXCEPT !.st = x], mem'[r])
    BY <2>1
  <2> QED
    BY <2>2, <2>3, KeptEnds
<1> QED
  BY <1>1, <1>2

(* What holds of a run holds after a step in which it at most ends.        *)
LEMMA StandsStays ==
  ASSUME CoreInv, NEW m, NEW touched \in SUBSET Runs, Writes(m, touched),
         NEW t \in Tasks, NEW place \in Places, Moves(t, place), Fits(t, place), pick' \in [Tasks -> Runs \cup {NoRun}],
         next' \in Nat, next <= next', NEW r \in Runs, Stands(r, m, touched, t)
  PROVE  RunOK(r)' /\ Firm(r)
<1>1. /\ Len(chain) \in Nat /\ Len(chain') \in Nat
      /\ Wrote(r, touched) /\ From(m[r], mem'[r]) /\ StopStays(r) /\ SameSettling(r)
      /\ t \notin {Admit(r), Insert(r)} => SameTasks(r)
  BY ActFacts
<1>2. /\ RunOK(r) /\ LiveOK(r) /\ left[Admit(r)] \in Nat /\ left[Admit(r)] <= Len(chain) /\ mem[r] \in Slots
      /\ next \in Nat /\ left[Resolve] \in Nat /\ left[Resolve] <= Len(chain)
  BY CoreFacts
<1>3. Kept(r)
  BY <1>1, <1>2, EndsKept DEF Stands, RunOK
<1>4. Bystander(r, touched) /\ OldStays(r)
  BY <1>1, <1>3 DEF Stands, Bystander
<1> QED
  BY <1>1, <1>2, <1>4, RunStays

(* The pump and the turns are left alone.                                  *)
SamePump == live' = live /\ reserved' = reserved /\ todo' = todo /\ pick'[Pump] = pick[Pump]

(* A step of a request or an insertion: only the runs that act in it are   *)
(* left to show.                                                           *)
LEMMA StepKeeps ==
  ASSUME CoreInv, NEW m, NEW touched \in SUBSET Runs, Writes(m, touched),
         NEW t \in Tasks, NEW place \in Places, Moves(t, place), Fits(t, place), pick' \in [Tasks -> Runs \cup {NoRun}],
         MarkTypes', TurnTypes', next <= next', t # Pump,
         SamePump, \A r \in Runs : SameObject(r), NEW actors,
         \A r \in Runs \ actors : Stands(r, m, touched, t),
         \A r \in Runs \cap actors : RunOK(r)' /\ Firm(r)
  PROVE  CoreInv'
<1>1. TypeOK' /\ LeftOK' /\ ResolveOK' /\ at'[Pump] = at[Pump]
  BY ActFacts DEF TypeOK
<1>2. next' \in Nat
  BY DEF MarkTypes
<1>3. \A r \in Runs : RunOK(r)' /\ Firm(r)
  <2>1. ASSUME NEW r \in Runs \ actors PROVE RunOK(r)' /\ Firm(r)
    BY <1>2, StandsStays
  <2> QED
    BY <2>1
<1>4. /\ \A r \in Runs : LiveOK(r) /\ Firm(r)
      /\ PumpOK /\ live \in SUBSET Runs /\ next \in Nat
  BY <1>3, CoreFacts DEF TurnTypes
<1>5. /\ live' \in SUBSET live /\ todo' = todo /\ pick'[Pump] = pick[Pump]
      /\ \A r \in live' : SameObject(r) /\ Object(r).session \in reserved'
  BY <1>4 DEF SamePump, LiveOK
<1>6. /\ at[Pump] \in {"look", "looked", "preparing"} => SameObject(pick[Pump])
      /\ at[Pump] = "preparing" => Object(pick[Pump]).session \in reserved'
  BY <1>4 DEF SamePump, PumpOK
<1>7. PumpOK' /\ \A r \in Runs : LiveOK(r)'
  BY <1>1, <1>2, <1>4, <1>5, <1>6, PumpStays
<1> QED
  BY <1>1, <1>3, <1>7 DEF CoreInv

(* Steps in which no run acts.                                             *)
SameRunMarks == UNCHANGED <<next, admissions, uncertain, unsent, detached, told, sent, torn>>
(* The turns, the pass and the objects are left alone.                     *)
SameTurns == UNCHANGED <<live, reserved, todo, old, stale>>

(* Marks that do not change are those of every run.                        *)
LEMMA Unmarked ==
  ASSUME MarkTypes, SameRunMarks, stopped' \in SUBSET Runs
  PROVE  MarkTypes' /\ \A r \in Runs : SameMarks(r)
BY DEF MarkTypes, SameRunMarks, SameMarks

(* Objects that do not change are those of every run.                      *)
LEMMA Unturned ==
  ASSUME TurnTypes, SameTurns
  PROVE  TurnTypes' /\ \A r \in Runs : OldStays(r) /\ SameObject(r)
BY DEF TurnTypes, SameTurns, OldStays, SameObject

(* A step in which no run does more than end.                              *)
LEMMA StandKeeps ==
  ASSUME CoreInv, NEW m, NEW touched \in SUBSET Runs, Writes(m, touched),
         NEW t \in Tasks, NEW place \in Places, Moves(t, place), pick' = pick,
         SameRunMarks, stopped' \in SUBSET Runs, SameTurns, t # Pump, Fits(t, place),
         \A r \in Runs : /\ t \notin {Admit(r), Insert(r)}
                         /\ r \in touched => r <= next
                         /\ m[r] = mem[r] \/ Ends(m, r)
  PROVE  CoreInv'
<1>1. MarkTypes' /\ TurnTypes' /\ \A r \in Runs : SameMarks(r) /\ OldStays(r) /\ SameObject(r)
  BY CoreFacts, Unmarked, Unturned
<1>2. next <= next' /\ pick' \in [Tasks -> Runs \cup {NoRun}] /\ SamePump
  BY CoreFacts DEF SameRunMarks, SameTurns, SamePump, TaskTypes
<1>3. \A r \in Runs : Stands(r, m, touched, t)
  BY <1>1 DEF Stands
<1>4. \A r \in Runs \cap {} : RunOK(r)' /\ Firm(r)
  OBVIOUS
<1> QED
  BY <1>1, <1>2, <1>3, <1>4, StepKeeps

(* A step that changes no row and moves no run's task.                     *)
LEMMA Stays ==
  ASSUME CoreInv, UNCHANGED <<at, left, pick, recovery>>, ready => ready', at[Resolve] # "idle" => held'
  PROVE  Moves(Resolve, at[Resolve]) /\ at[Resolve] \in Places /\ Resolve \in Tasks /\ Resolve # Pump
         /\ Fits(Resolve, at[Resolve])
         /\ \A r \in Runs : Resolve \notin {Admit(r), Insert(r)}
<1>1. at \in [Tasks -> Places] /\ Resolve \in Tasks
  BY CoreFacts, TaskFacts DEF TaskTypes
<1> QED
  BY <1>1, TaskFacts DEF Moves, Fits

(* A turn of the map has a row that is not queued.                         *)
LEMMA LiveRow ==
  ASSUME CoreInv, NEW r \in Runs
  PROVE  /\ mem[r] # Gone \/ disk[r] # Gone \/ old[r] # Gone \/ r \in failed \/ r \in newAdm => r <= next
         /\ at[Admit(r)] # "idle" \/ at[Insert(r)] # "idle" \/ at[Stop(r)] # "idle" => r <= next
         /\ r \in live => r <= next
<1>1. RunOK(r) /\ LiveOK(r) /\ r \in Nat /\ next \in Nat
  BY CoreFacts
<1> QED
  BY <1>1 DEF RunOK, UnusedOK, LiveOK, Known

(* A cancel of runs that ends their rows.                                  *)
LEMMA CancellingEnds ==
  ASSUME CoreInv, NEW r \in Runs, ~Delivers(r)
  PROVE  /\ Cancelling({r}) \in [Runs -> Raw]
         /\ \A q \in Runs : Cancelling({r})[q] = mem[q] \/ Ends(Cancelling({r}), q)
<1> DEFINE m == Cancelling({r})
<1>1. mem \in [Runs -> Raw]
  BY CoreFacts
<1>2. \A q \in Runs : q # r \/ mem[r] = Gone => m[q] = mem[q]
  BY DEF Cancelling
<1>3. mem[r] # Gone => m[r] = [mem[r] EXCEPT !.st = "cancelled"]
  BY DEF Cancelling
<1>4. mem[r] # Gone => Ends(m, r)
  BY <1>3 DEF Ends, Finished
<1>5. m[r] \in Raw
  <2>1. CASE mem[r] = Gone
    BY <1>1, <1>2, <2>1
  <2>2. CASE mem[r] # Gone
    <3>1. PICK row \in Rows : row = mem[r]
      BY <1>1, <2>2 DEF Raw
    <3>2. [row EXCEPT !.st = "cancelled"] \in Rows
      BY <3>1 DEF Rows, Finished
    <3> QED
      BY <1>3, <2>2, <3>1, <3>2 DEF Raw
  <2> QED
    BY <2>1, <2>2
<1>6. m \in [Runs -> Raw]
  <2>1. \A q \in Runs : m[q] \in Raw
    BY <1>1, <1>2, <1>5
  <2>2. m = [q \in Runs |-> m[q]]
    BY DEF Cancelling
  <2> HIDE DEF m
  <2> QED
    BY <2>1, <2>2
<1> QED
  BY <1>2, <1>4, <1>6

(* A cancel begins and ends its run, and keeps the invariant.              *)
LEMMA CancelKeeps ==
  ASSUME CoreInv, Cancel \/ \E r \in Runs : CancelEnds(r)
  PROVE  CoreInv'
<1>1. PICK r \in Runs, place \in {"noted", "stopping"}, m \in [Runs -> Raw], touched \in SUBSET Runs :
        /\ touched \subseteq {r} /\ Writes(m, touched) /\ Moves(Stop(r), place) /\ ~Delivers(r) /\ r <= next
        /\ \A q \in Runs : m[q] = mem[q] \/ Ends(m, q)
  <2>1. CASE Cancel
    <3>1. PICK r \in Runs : /\ mem[r] # Gone /\ mem[r].steer = "none" /\ Go(Stop(r), "noted")
                            /\ Changed(mem, {r}) \/ UNCHANGED <<rowVars, mem>>
      BY <2>1 DEF Cancel
    <3>2. \E touched \in SUBSET Runs : touched \subseteq {r} /\ Writes(mem, touched)
      <4>1. CASE Changed(mem, {r})
        <5>1. Writes(mem, {r})
          BY <4>1, CoreFacts, ChangedWrites DEF Changed
        <5> QED
          BY <5>1
      <4>2. CASE UNCHANGED <<rowVars, mem>>
        <5>1. Writes(mem, {})
          BY <4>2, CoreFacts, StillWrites
        <5> QED
          BY <5>1
      <4> QED
        BY <3>1, <4>1, <4>2
    <3>3. ~Delivers(r) /\ r <= next
      BY <3>1, CoreFacts, LiveRow DEF RunOK, InsertOK
    <3>4. Moves(Stop(r), "noted")
      BY <3>1 DEF Go, Moves
    <3> QED
      BY <3>2, <3>3, <3>4, CoreFacts
  <2>2. CASE \E r \in Runs : CancelEnds(r)
    <3>1. PICK r \in Runs : CancelEnds(r)
      BY <2>2
    <3>2. at[Stop(r)] = "noted" /\ Changed(Cancelling({r}), {r}) /\ Await(Stop(r), "stopping", chain')
      BY <3>1 DEF CancelEnds
    <3>3. ~Delivers(r) /\ r <= next
      BY <3>2, CoreFacts, LiveRow DEF RunOK, InsertOK
    <3>4. /\ Cancelling({r}) \in [Runs -> Raw]
          /\ \A q \in Runs : Cancelling({r})[q] = mem[q] \/ Ends(Cancelling({r}), q)
      BY <3>3, CancellingEnds
    <3>5. Writes(Cancelling({r}), {r})
      BY <3>2, <3>4, CoreFacts, ChangedWrites DEF Changed
    <3>6. Moves(Stop(r), "stopping")
      BY <3>2 DEF Await, Moves
    <3> QED
      BY <3>3, <3>4, <3>5, <3>6
  <2> QED
    BY <2>1, <2>2
<1>2. Stop(r) \in Tasks /\ Stop(r) # Pump /\ Stop(r) # Resolve /\ \A q \in Runs : Stop(r) \notin {Admit(q), Insert(q)}
  BY TaskFacts
<1>3. SameRunMarks /\ SameTurns /\ pick' = pick /\ stopped' = stopped /\ UNCHANGED <<recovery, ready, held>>
  BY DEF Cancel, CancelEnds, Steady, SameRunMarks, SameTurns, history
<1>4. Fits(Stop(r), place)
  <2>1. \A q \in Runs : Stop(r) = Stop(q) => q = r
    BY TaskFacts
  <2>2. ResolveOK
    BY CoreFacts
  <2> QED
    BY <1>1, <1>2, <1>3, <2>1, <2>2 DEF Fits, ResolveOK
<1>5. place \in Places /\ stopped' \in SUBSET Runs
  BY <1>1, <1>3, CoreFacts DEF Places, MarkTypes
<1>6. \A q \in Runs : /\ Stop(r) \notin {Admit(q), Insert(q)}
                      /\ q \in touched => q <= next
                      /\ m[q] = mem[q] \/ Ends(m, q)
  BY <1>1, <1>2
<1>7. touched \in SUBSET Runs
  BY <1>1
<1> QED
  BY <1>1, <1>2, <1>3, <1>4, <1>5, <1>6, <1>7, StandKeeps

(* The confirmation of a cancel keeps the invariant.                       *)
LEMMA CancelDoneKeeps ==
  ASSUME CoreInv, NEW r \in Runs, CancelDone(r)
  PROVE  CoreInv'
<1>1. Writes(mem, {})
  BY CoreFacts, StillWrites DEF CancelDone
<1>2. "idle" \in Places
  BY DEF Places
<1>3. Moves(Stop(r), "idle") /\ Stop(r) \in Tasks /\ \A q \in Runs : Stop(r) \notin {Admit(q), Insert(q)}
  BY TaskFacts DEF CancelDone, Go, Moves
<1>4. SameRunMarks /\ SameTurns /\ pick' = pick /\ UNCHANGED <<recovery, ready, held>>
  BY DEF CancelDone, Steady, SameRunMarks, SameTurns
<1>5. Fits(Stop(r), "idle")
  <2>1. at[Stop(r)] = "stopping" /\ r <= next
    BY LiveRow DEF CancelDone, Saves
  <2>2. \A q \in Runs : Stop(r) = Stop(q) => q = r
    BY TaskFacts
  <2>3. ResolveOK /\ Stop(r) # Resolve
    BY CoreFacts, TaskFacts
  <2> QED
    BY <1>4, <2>1, <2>2, <2>3 DEF Fits, ResolveOK
<1>6. stopped' \in SUBSET Runs /\ Stop(r) # Pump /\ Stop(r) # Resolve
  BY CoreFacts, TaskFacts DEF MarkTypes, CancelDone
<1>7. \A q \in Runs : Stop(r) \notin {Admit(q), Insert(q)} /\ (q \in {} => q <= next) /\ (mem[q] = mem[q] \/ Ends(mem, q))
  BY <1>3
<1> QED
  BY <1>1, <1>3, <1>4, <1>6, <1>7, <1>2, <1>5, StandKeeps

(* The begin and the end of an update keep the invariant.                  *)
LEMMA UpdateKeeps ==
  ASSUME CoreInv, BeginUpdate \/ EndUpdate
  PROVE  CoreInv'
<1>1. PICK h : ChangedWhile(mem, {}, h)
  BY DEF BeginUpdate, EndUpdate
<1>2. Writes(mem, {})
  BY <1>1, CoreFacts, ChangedWrites
<1>3. SameRunMarks /\ SameTurns /\ pick' = pick /\ stopped' = stopped /\ UNCHANGED <<at, left, recovery, ready, held>>
  BY DEF BeginUpdate, EndUpdate, Steady, Working, SameRunMarks, SameTurns, history
<1>4. stopped' \in SUBSET Runs /\ (at[Resolve] # "idle" => held')
  BY <1>3, CoreFacts DEF MarkTypes, ResolveOK
<1> QED
  BY <1>2, <1>3, <1>4, Stays, StandKeeps

(* The loss of the storage and the start of the worker keep the invariant. *)
LEMMA StillKeeps ==
  ASSUME CoreInv, HoldStorage \/ Ready
  PROVE  CoreInv'
<1>1. Writes(mem, {})
  BY CoreFacts, StillWrites DEF HoldStorage, Ready
<1>2. /\ SameRunMarks /\ SameTurns /\ pick' = pick /\ stopped' = stopped /\ UNCHANGED <<at, left, recovery>>
      /\ (ready => ready') /\ (ready => held')
  BY DEF HoldStorage, Ready, SameRunMarks, SameTurns, history, objects
<1>3. stopped' \in SUBSET Runs /\ (at[Resolve] # "idle" => held')
  BY <1>2, CoreFacts DEF MarkTypes, ResolveOK
<1> QED
  BY <1>1, <1>2, <1>3, Stays, StandKeeps

(* The steps of a recovery that settle nothing keep the invariant.         *)
LEMMA RecoveryKeeps ==
  ASSUME CoreInv, Recover \/ RecoverWaited \/ RecoverUnread \/ RecoverFlushed
  PROVE  CoreInv'
<1>1. PICK place \in {"writes", "receipt", "idle"} :
        /\ Moves(Resolve, place) /\ (place = "receipt" => unknown)
        /\ place = "writes" => held' = TRUE /\ ready
        /\ place = "receipt" => held' = held /\ at[Resolve] = "writes"
        /\ at[Resolve] \in {"idle", "writes", "receipt"} \/ (at[Resolve] = "settling" /\ left[Resolve] = 0)
  <2>1. CASE Recover
    BY <2>1 DEF Recover, Await, Moves, rowVars, Unsettled
  <2>2. CASE RecoverWaited
    BY <2>2 DEF RecoverWaited, Released, Go, Moves, Follows, Saves
  <2>3. CASE RecoverUnread \/ RecoverFlushed
    BY <2>3 DEF RecoverUnread, RecoverFlushed, Released, Go, Moves, Saves
  <2> QED
    BY <2>1, <2>2, <2>3
<1>2. UNCHANGED <<rowVars, mem>> /\ UNCHANGED <<recovery, ready>>
  BY DEF Recover, RecoverWaited, RecoverUnread, RecoverFlushed, Released, Unsettled, Recovering
<1>3. Writes(mem, {})
  BY <1>2, CoreFacts, StillWrites
<1>4. SameRunMarks /\ SameTurns /\ pick' = pick /\ stopped' = stopped
  BY DEF Recover, RecoverWaited, RecoverUnread, RecoverFlushed, Released, Unsettled, Recovering, SameObjects,
         SameRunMarks, SameTurns, objects
<1>5. stopped' \in SUBSET Runs
  BY <1>4, CoreFacts DEF MarkTypes
<1>6. Resolve \in Tasks /\ Resolve # Pump /\ \A q \in Runs : Resolve \notin {Admit(q), Insert(q)} /\ Resolve # Stop(q)
  BY TaskFacts
<1>7. place \in Places
  BY <1>1 DEF Places
<1>8. Fits(Resolve, place)
  <2>1. ResolveOK
    BY CoreFacts
  <2> QED
    BY <1>1, <1>2, <1>4, <1>6, <2>1 DEF Fits, ResolveOK, Window
<1>9. \A q \in Runs : Resolve \notin {Admit(q), Insert(q)} /\ (q \in {} => q <= next) /\ (mem[q] = mem[q] \/ Ends(mem, q))
  BY <1>6
<1> QED
  BY <1>1, <1>3, <1>4, <1>5, <1>6, <1>7, <1>8, <1>9, StandKeeps

-----------------------------------------------------------------------------
(* The first save of the chain is done: it may have committed, and its     *)
(* runs count as failed unless it surely did.                              *)
Popped(S, head) ==
  /\ chain # <<>> /\ head = Head(chain) /\ S = DOMAIN head /\ HeadDone
  /\ \/ disk' = Saved(head) /\ failed' = failed \ S /\ newAdm' = newAdm \ S
     \/ (disk' = disk \/ disk' = Saved(head)) /\ failed' = failed \cup S /\ newAdm' = newAdm
  /\ unknown => unknown'
  /\ unknown' \in BOOLEAN

(* What the end of a save does to the rows: each run as the database has   *)
(* it, or one that failed.                                                 *)
LEMMA PoppedRows ==
  ASSUME CoreInv, NEW S, NEW head, Popped(S, head)
  PROVE  /\ RowTypes' /\ Len(chain') = Len(chain) - 1 /\ Len(chain) \in Nat \ {0} /\ S \subseteq Runs
         /\ \A i \in 1 .. Len(chain') : chain'[i] = chain[i + 1]
         /\ head = chain[1]
         /\ \A r \in Runs : disk'[r] = disk[r] \/ (r \in S /\ disk'[r] = head[r])
         /\ \A r \in S : newAdm' = newAdm \/ (r \notin newAdm' /\ disk'[r] = head[r])
         /\ \A r \in S : r \in failed' \/ (r \notin newAdm' /\ disk'[r] = head[r])
<1>1. /\ disk \in [Runs -> Slots] /\ mem \in [Runs -> Slots] /\ chain \in Seq(Batches)
      /\ failed \in SUBSET Runs /\ newAdm \in SUBSET Runs
  BY CoreFacts DEF RowTypes
<1>2. chain # <<>> /\ chain' = Tail(chain) /\ head = Head(chain) /\ mem' = mem
  BY DEF Popped, HeadDone
<1>3. /\ chain' \in Seq(Batches) /\ Len(chain') = Len(chain) - 1 /\ Len(chain) \in Nat \ {0}
      /\ \A i \in 1 .. Len(chain) - 1 : chain'[i] = chain[i + 1]
      /\ head = chain[1] /\ head \in Batches
  BY <1>1, <1>2, TailFacts
<1>4. PICK T \in SUBSET Runs : head \in [T -> Slots]
  BY <1>3 DEF Batches
<1>5. S = T
  BY <1>4 DEF Popped
<1>6. /\ Saved(head) \in [Runs -> Slots]
      /\ \A r \in S : Saved(head)[r] = head[r]
      /\ \A r \in Runs \ S : Saved(head)[r] = disk[r]
  BY <1>1, <1>4, <1>5 DEF Saved
<1>7. disk' = disk \/ disk' = Saved(head)
  BY DEF Popped
<1>8. failed' \in SUBSET Runs /\ newAdm' \in SUBSET Runs /\ unknown' \in BOOLEAN
  <2>1. /\ failed' = failed \ S \/ failed' = failed \cup S
        /\ newAdm' = newAdm \ S \/ newAdm' = newAdm
        /\ unknown' \in BOOLEAN
    BY DEF Popped
  <2>2. S \subseteq Runs
    BY <1>4, <1>5
  <2> QED
    BY <1>1, <2>1, <2>2
<1>9. disk' \in [Runs -> Slots]
  BY <1>1, <1>6, <1>7
<1>10. \A r \in S : newAdm' = newAdm \/ (r \notin newAdm' /\ disk' = Saved(head))
  BY DEF Popped
<1>11. ASSUME NEW r \in Runs PROVE disk'[r] = disk[r] \/ (r \in S /\ disk'[r] = head[r])
  BY <1>6, <1>7
<1>12. \A r \in S : newAdm' = newAdm \/ (r \notin newAdm' /\ disk'[r] = head[r])
  BY <1>6, <1>10
<1>13. \A r \in S : r \in failed' \/ (r \notin newAdm' /\ disk' = Saved(head))
  BY DEF Popped
<1>14. \A r \in S : r \in failed' \/ (r \notin newAdm' /\ disk'[r] = head[r])
  BY <1>6, <1>13
<1>15. RowTypes'
  BY <1>1, <1>2, <1>3, <1>9, <1>8 DEF RowTypes
<1> QED
  BY <1>3, <1>4, <1>5, <1>11, <1>15, <1>12, <1>14

(* The end of a save keeps the invariant.                                  *)
LEMMA PoppedKeeps ==
  ASSUME CoreInv, NEW S, NEW head, Popped(S, head)
  PROVE  CoreInv'
<1>1. /\ RowTypes' /\ Len(chain') = Len(chain) - 1 /\ Len(chain) \in Nat \ {0} /\ S \subseteq Runs
      /\ \A i \in 1 .. Len(chain') : chain'[i] = chain[i + 1]
      /\ head = chain[1]
      /\ \A r \in Runs : disk'[r] = disk[r] \/ (r \in S /\ disk'[r] = head[r])
      /\ \A r \in S : newAdm' = newAdm \/ (r \notin newAdm' /\ disk'[r] = head[r])
      /\ \A r \in S : r \in failed' \/ (r \notin newAdm' /\ disk'[r] = head[r])
  BY PoppedRows
<1>2. /\ S = DOMAIN chain[1] /\ \A r \in Runs : r \in S <=> Holds(1, r)
      /\ \A r \in Runs : r \notin S => (r \in failed' <=> r \in failed) /\ (r \in newAdm' <=> r \in newAdm)
      /\ \A r \in newAdm' : r \in newAdm /\ (r \in failed \cup S => r \in failed')
  BY <1>1 DEF Popped, Holds
<1>3. /\ mem' = mem /\ next' = next /\ at' = at /\ pick' = pick
      /\ left' = [t \in Tasks |-> IF left[t] > 0 THEN left[t] - 1 ELSE 0]
      /\ UNCHANGED <<admissions, uncertain, unsent, detached, told, sent, torn, stopped>> /\ SameTurns
      /\ UNCHANGED <<rest, found, resave, ready, held>>
  BY DEF Popped, HeadDone, SameTurns, objects, history, recovery
<1>4. TaskTypes' /\ LeftOK'
  <2>1. ASSUME NEW t \in Tasks PROVE left'[t] \in Nat /\ left'[t] <= Len(chain')
    <3>1. left[t] \in Nat /\ left[t] <= Len(chain)
      BY CoreFacts DEF TaskTypes, LeftOK
    <3> QED
      BY <1>1, <1>3, <3>1
  <2> QED
    BY <1>3, <2>1, CoreFacts DEF TaskTypes, LeftOK
<1>5. MarkTypes' /\ TurnTypes' /\ \A r \in Runs : SameObject(r)
  BY <1>3, CoreFacts, Unmarked, Unturned DEF SameRunMarks, MarkTypes
<1>6. RestTypes' /\ ResolveOK'
  BY <1>3, CoreFacts DEF RestTypes, ResolveOK, Popped, Window, New
<1>7. ASSUME NEW r \in Runs PROVE RunOK(r)' /\ Firm(r)
  <2>1. /\ UnusedOK(r) /\ SavedOK(r) /\ AdmitOK(r) /\ RestOK(r) /\ InsertOK(r) /\ GivenOK(r) /\ LiveOK(r)
        /\ left[Admit(r)] \in Nat /\ left[Admit(r)] <= Len(chain)
        /\ left'[Admit(r)] = IF left[Admit(r)] > 0 THEN left[Admit(r)] - 1 ELSE 0
        /\ left[Resolve] \in Nat /\ left[Resolve] <= Len(chain)
        /\ left'[Resolve] = IF left[Resolve] > 0 THEN left[Resolve] - 1 ELSE 0
    BY <1>3, CoreFacts, TaskFacts DEF RunOK
  <2>2. ASSUME NEW i \in 1 .. Len(chain') PROVE i + 1 \in 1 .. Len(chain) /\ (Holds(i, r)' <=> Holds(i + 1, r))
    BY <1>1 DEF Holds
  <2>3. 1 \in 1 .. Len(chain)
    BY <1>1
  <2>4. UnusedOK(r)'
    <3>1. ASSUME r > next PROVE r \notin S /\ \A i \in 1 .. Len(chain') : ~Holds(i, r)'
      BY <1>2, <2>1, <2>2, <2>3, <3>1 DEF UnusedOK
    <3>2. r > next => disk'[r] = Gone /\ r \notin failed' /\ r \notin newAdm'
      BY <1>1, <1>2, <2>1, <3>1 DEF UnusedOK
    <3> QED
      BY <1>3, <2>1, <3>1, <3>2 DEF UnusedOK, SameTurns
  <2>5. New(r)' <=> New(r)
    BY <1>3 DEF New
  <2>6. NoneGone(r) => NoneGone(r)' /\ (r \in S => head[r] # Gone)
    BY <1>1, <1>2, <2>2, <2>3 DEF NoneGone
  <2>7. NoneGone(r) /\ r \in S /\ r \notin failed' => Clean(r)' /\ r \notin newAdm'
    BY <1>1, <2>6 DEF Clean
  <2>8. Clean(r) => Clean(r)'
    BY <1>1, <1>2, <2>6 DEF Clean
  <2>9. ASSUME Returning(r) PROVE Returning(r)' \/ (Clean(r)' /\ r \notin newAdm')
    <3>1. CASE r \in failed \cup resave /\ NoneGone(r)
      <4>1. CASE r \in resave \/ r \in failed'
        BY <1>3, <2>6, <3>1, <4>1 DEF Returning
      <4>2. CASE r \in failed /\ r \notin failed'
        BY <1>2, <2>7, <3>1, <4>2
      <4> QED
        BY <3>1, <4>1, <4>2
    <3>2. CASE ~(r \in failed \cup resave /\ NoneGone(r))
      <4>1. at[Resolve] = "settling"
        BY <2>9, <3>2 DEF Returning
      <4>2. PICK j \in 1 .. left[Resolve] :
              Holds(j, r) /\ \A i \in 1 .. Len(chain) : i >= j /\ Holds(i, r) => chain[i][r] # Gone
        BY <2>9, <3>2 DEF Returning
      <4>3. CASE j = 1
        <5>1. NoneGone(r) /\ r \in S
          BY <1>2, <4>2, <4>3 DEF NoneGone
        <5>2. r \in failed' => Returning(r)'
          BY <2>6, <5>1 DEF Returning
        <5> QED
          BY <2>7, <5>1, <5>2
      <4>4. CASE j # 1
        <5>1. /\ j - 1 \in 1 .. left'[Resolve] /\ j - 1 \in 1 .. Len(chain') /\ j - 1 + 1 = j
              /\ j \in Nat
          BY <1>1, <2>1, <4>2, <4>4
        <5>2. Holds(j - 1, r)'
          BY <2>2, <4>2, <5>1
        <5>3. ASSUME NEW i \in 1 .. Len(chain'), i >= j - 1, Holds(i, r)' PROVE chain'[i][r] # Gone
          <6>1. i + 1 \in 1 .. Len(chain) /\ i + 1 >= j /\ Holds(i + 1, r) /\ chain'[i] = chain[i + 1]
            BY <1>1, <2>2, <5>1, <5>3
          <6> QED
            BY <4>2, <6>1
        <5> QED
          BY <1>3, <4>1, <5>1, <5>2, <5>3 DEF Returning
      <4> QED
        BY <4>3, <4>4
    <3> QED
      BY <3>1, <3>2
  <2>10. Unsure(r) => Unsure(r)' \/ (Clean(r)' /\ r \notin newAdm')
    BY <2>5, <2>9 DEF Unsure
  <2>11. Pending(r)' => Pending(r)
    BY <1>2, <1>3, <2>10 DEF Pending
  <2>12. RestOK(r)'
    BY <1>3, <2>1, <2>5 DEF RestOK, Files
  <2>13. SavedOK(r)'
    BY <1>3, <2>1, <2>8, <2>10 DEF SavedOK
  <2>14. Known(r) => Known(r)'
    <3>1. Known(r) => Clean(r)' /\ r \notin newAdm'
      BY <1>2, <2>8 DEF Known, Clean
    <3> QED
      BY <1>3, <2>5, <3>1 DEF Known, Clean
  <2>15. Fresh(r)' => Fresh(r)
    BY <1>3, <2>11 DEF Fresh, Queued
  <2>16. AdmitOK(r)'
    <3>1. ASSUME NEW n \in Nat, n <= Len(chain), r \in newAdm', r \in failed \/ \E i \in 1 .. n : Holds(i, r)
          PROVE  r \in failed' \/ \E i \in 1 .. (IF n > 0 THEN n - 1 ELSE 0) : Holds(i, r)'
      <4>1. CASE r \in failed
        BY <1>2, <3>1, <4>1
      <4>2. CASE \E i \in 1 .. n : Holds(i, r)
        <5>1. PICK i \in 1 .. n : Holds(i, r)
          BY <4>2
        <5>2. CASE i = 1
          BY <1>2, <3>1, <5>1, <5>2
        <5>3. CASE i # 1
          <6>1. i - 1 \in 1 .. n - 1 /\ i - 1 \in 1 .. Len(chain') /\ i - 1 + 1 = i /\ n > 0
            BY <1>1, <3>1, <5>1, <5>3
          <6>2. Holds(i - 1, r)'
            BY <2>2, <5>1, <6>1
          <6> QED
            BY <6>1, <6>2
        <5> QED
          BY <5>2, <5>3
      <4> QED
        BY <3>1, <4>1, <4>2
    <3>2. at'[Admit(r)] = "saving" /\ r \in newAdm' => r \in failed' \/ \E i \in 1 .. left'[Admit(r)] : Holds(i, r)'
      BY <1>2, <1>3, <2>1, <3>1 DEF AdmitOK
    <3>3. r \in newAdm' /\ (r \in failed \/ \E i \in 1 .. left[Admit(r)] : Holds(i, r)) =>
            r \in failed' \/ \E i \in 1 .. left'[Admit(r)] : Holds(i, r)'
      BY <2>1, <3>1
    <3>4. at'[Admit(r)] = "creating" /\ Pending(r)' /\ r \notin detached' =>
            r \in failed' \/ \E i \in 1 .. left'[Admit(r)] : Holds(i, r)'
      <4>1. Pending(r)' => r \in newAdm'
        BY DEF Pending
      <4> QED
        BY <1>3, <2>1, <2>11, <3>3, <4>1 DEF AdmitOK
    <3>5. r \in newAdm' /\ (r \in failed \/ \E i \in 1 .. Len(chain) : Holds(i, r)) =>
            r \in failed' \/ \E i \in 1 .. Len(chain') : Holds(i, r)'
      BY <1>1, <3>1
    <3>6. at'[Admit(r)] = "trusting" /\ Pending(r)' /\ r \notin detached' => r \in failed' \/ \E i \in 1 .. Len(chain') : Holds(i, r)'
      <4>1. Pending(r)' => r \in newAdm'
        BY DEF Pending
      <4> QED
        BY <1>3, <2>1, <2>11, <3>5, <4>1 DEF AdmitOK
    <3>7. told'[r] = "accepted" => Known(r)'
      BY <1>3, <2>1, <2>14 DEF AdmitOK
    <3>8. unsent'[r] # NoRun => (unknown' \/ r \in rest') /\ r \in uncertain'
      BY <1>3, <2>1 DEF AdmitOK, Popped
    <3>9. /\ at'[Admit(r)] = "saving" => r \in admissions' /\ mem'[r] # Gone /\ Clean(r)' /\ ~New(r)'
          /\ Fresh(r)' /\ ~mem'[r].planned => r \in admissions'
          /\ r \in detached' \/ at'[Admit(r)] = "failing" => ~Fresh(r)'
          /\ at'[Admit(r)] = "saving" \/ (at'[Admit(r)] \in {"trusting", "creating"} /\ r \notin detached') =>
               r \in admissions' /\ at'[Insert(r)] = "idle" /\ r \notin uncertain' /\ ~Files(r)'
      BY <1>3, <2>1, <2>15, <2>5, <2>8 DEF AdmitOK, Files
    <3> QED
      BY <3>2, <3>6, <3>7, <3>8, <3>9, <3>4 DEF AdmitOK
  <2>17. InsertOK(r)'
    BY <1>3, <2>1, <2>14 DEF InsertOK, Delivers
  <2>18. GivenOK(r)'
    BY <1>3, <2>1, <2>14 DEF GivenOK, Delivers, Queued, SameTurns
  <2>19. Firm(r)
    BY <1>3, <2>1, <2>14, <2>11 DEF Firm, LiveOK, Object, Delivers
  <2> QED
    BY <2>4, <2>13, <2>16, <2>17, <2>18, <2>19, <2>12 DEF RunOK
<1>8. /\ \A r \in Runs : LiveOK(r) /\ Firm(r)
      /\ PumpOK /\ live \in SUBSET Runs /\ next \in Nat /\ next' \in Nat /\ next <= next'
  BY <1>3, <1>7, CoreFacts DEF TurnTypes
<1>9. /\ live' \in SUBSET live /\ todo' = todo /\ pick'[Pump] = pick[Pump] /\ at'[Pump] = at[Pump]
      /\ \A r \in live' : SameObject(r) /\ Object(r).session \in reserved'
  BY <1>3, <1>5, <1>8 DEF SameTurns, LiveOK
<1>10. /\ at[Pump] \in {"look", "looked", "preparing"} => SameObject(pick[Pump])
       /\ at[Pump] = "preparing" => Object(pick[Pump]).session \in reserved'
  BY <1>3, <1>5, <1>8 DEF SameTurns, PumpOK
<1>11. PumpOK' /\ \A r \in Runs : LiveOK(r)'
  BY <1>8, <1>9, <1>10, PumpStays
<1> QED
  BY <1>1, <1>4, <1>5, <1>7, <1>11, <1>6 DEF CoreInv, TypeOK

(* However a save ends, it is the first of the chain that is done.         *)
LEMMA SavePops ==
  ASSUME CoreInv, SaveEvent \/ SaveBlocked
  PROVE  \E S, head : Popped(S, head)
<1>1. PICK head : head = Head(chain)
  OBVIOUS
<1>2. PICK S : S = DOMAIN head
  OBVIOUS
<1>3. unknown \in BOOLEAN
  BY CoreFacts DEF RowTypes
<1>4. CASE SaveCommits
  BY <1>1, <1>2, <1>3, <1>4 DEF SaveCommits, Popped
<1>5. CASE SaveRefused \/ SaveBlocked
  BY <1>1, <1>2, <1>3, <1>5 DEF SaveRefused, SaveBlocked, Blocked, Popped
<1>6. CASE SaveUnknown
  BY <1>1, <1>2, <1>3, <1>6 DEF SaveUnknown, Popped
<1> QED
  BY <1>4, <1>5, <1>6 DEF SaveEvent

(* Every result of a save keeps the invariant.                             *)
LEMMA SaveKeeps ==
  ASSUME CoreInv, SaveEvent \/ SaveBlocked
  PROVE  CoreInv'
BY SavePops, PoppedKeeps

-----------------------------------------------------------------------------
(* Admission.                                                              *)

(* What lasts of a run that a request keeps, or lets end.                  *)
Lasts(r) ==
  /\ Fresh(r)' => Fresh(r)
  /\ Pending(r)' => Pending(r)
  /\ Known(r) => Known(r)'
  /\ New(r)' <=> New(r)
  /\ mem'[r] # Gone /\ Clean(r) => Clean(r)' /\ (r \in newAdm' <=> r \in newAdm)
  /\ Files(r)' => Files(r)
  /\ r \in rest' <=> r \in rest
  /\ r \in failed' <=> r \in failed
  /\ unknown' = unknown
  /\ disk'[r] = disk[r]
  /\ Kept(r)
  /\ Len(chain) <= Len(chain') /\ \A i \in 1 .. Len(chain) : chain'[i] = chain[i]

(* A request that is answered: only its own clauses are left to show.      *)
LEMMA AdmitActs ==
  ASSUME NEW r \in Runs, RunOK(r), LiveOK(r), NEW touched, Wrote(r, touched), Kept(r), OldStays(r),
         StopStays(r), SameSettling(r), left[Resolve] \in Nat, left[Resolve] <= Len(chain),
         Len(chain) \in Nat, Len(chain') \in Nat, r \in Nat, next \in Nat, r <= next, next' = next,
         at'[Insert(r)] = at[Insert(r)], at'[Admit(r)] # "saving",
         unsent'[r] = unsent[r], sent'[r] = sent[r], r \in torn => r \in torn', r \in uncertain => r \in uncertain'
  PROVE  /\ UnusedOK(r)' /\ SavedOK(r)' /\ RestOK(r)' /\ InsertOK(r)' /\ GivenOK(r)' /\ Firm(r)
         /\ Lasts(r)
<1>1. /\ SavedOK(r)' /\ (New(r)' <=> New(r)) /\ (Pending(r)' => Pending(r))
      /\ mem'[r] # Gone /\ Clean(r) => Clean(r)' /\ (r \in newAdm' <=> r \in newAdm)
      /\ Known(r) /\ mem'[r] # Gone /\ at'[Admit(r)] # "saving" => Known(r)'
      /\ disk'[r] = disk[r] /\ unknown' = unknown /\ (r \in failed' <=> r \in failed)
  BY SavedStays DEF Kept, RunOK
<1>2. UnusedOK(r)'
  BY DEF UnusedOK
<1>3. Queued(mem, r)' => Queued(mem, r)
  BY RowFacts DEF Kept, Queued, Finished
<1>4. (Fresh(r)' => Fresh(r)) /\ (Known(r) => Known(r)') /\ (Delivers(r)' <=> Delivers(r))
  BY <1>1, <1>3 DEF Fresh, Known, Delivers, Kept
<1>5. InsertOK(r)'
  BY <1>4 DEF RunOK, InsertOK, Kept, Known, Delivers, StopStays
<1>6. GivenOK(r)'
  BY <1>3, <1>4 DEF RunOK, GivenOK, OldStays
<1>7. Firm(r)
  <2>1. Known(r) => Known(r)' /\ mem'[r].session = mem[r].session
    BY <1>4 DEF Known, Kept
  <2>2. ASSUME r \in live, old[r] = Gone PROVE mem'[r].st # "queued" /\ ~Delivers(r)'
    <3>1. mem[r].st # "queued" /\ Known(r) /\ ~Delivers(r)
      BY <2>2 DEF LiveOK, Object
    <3> QED
      BY <3>1, <1>4 DEF Kept, Known, Finished
  <2> QED
    BY <1>1, <2>1, <2>2 DEF Firm
<1>8. RestOK(r)'
  BY <1>1 DEF RunOK, RestOK, SameSettling
<1>9. Lasts(r)
  BY <1>1, <1>4 DEF Lasts, Wrote, SameSettling
<1> QED
  BY <1>1, <1>2, <1>5, <1>6, <1>7, <1>8, <1>9

(* The step of a request: what is left to show is its run.                 *)
RequestOnly(r) ==
  /\ UNCHANGED <<next, unsent, sent, stopped, torn>> /\ SameTurns /\ pick' = pick
  /\ UNCHANGED <<recovery, ready, held>> /\ uncertain \subseteq uncertain'
  /\ admissions' \in SUBSET Runs /\ uncertain' \in SUBSET Runs /\ detached' \in SUBSET Runs
  /\ told' \in [Runs -> Answers]
  /\ \A q \in Runs \ {r} : /\ q \in admissions' <=> q \in admissions
                           /\ q \in uncertain' <=> q \in uncertain
                           /\ q \in detached' <=> q \in detached
                           /\ told'[q] = told[q]

(* A step of a request keeps the invariant if it does so for its run.      *)
LEMMA AdmitKeeps ==
  ASSUME CoreInv, NEW m, NEW touched \in SUBSET Runs, Writes(m, touched),
         NEW r \in Runs, NEW place \in Places, Moves(Admit(r), place), RequestOnly(r),
         r <= next, place # "saving",
         \A q \in Runs : /\ q \in touched => q <= next
                         /\ m[q] = mem[q] \/ Ends(m, q),
         Lasts(r) => AdmitOK(r)'
  PROVE  CoreInv'
<1>1. /\ Admit(r) \in Tasks /\ Admit(r) # Pump /\ Admit(r) # Resolve
      /\ \A q \in Runs : Admit(r) # Insert(q)
      /\ \A q \in Runs \ {r} : Admit(r) \notin {Admit(q), Insert(q)}
  BY TaskFacts
<1>2. pick' \in [Tasks -> Runs \cup {NoRun}]
  BY CoreFacts DEF TaskTypes, RequestOnly
<1>3. Fits(Admit(r), place)
  <2>1. ResolveOK /\ UNCHANGED <<recovery, ready, held>> /\ pick' = pick
    BY CoreFacts DEF RequestOnly
  <2>2. \A q \in Runs : Admit(r) # Stop(q)
    BY TaskFacts
  <2> QED
    BY <1>1, <2>1, <2>2, FitsOther
<1>4. /\ Len(chain) \in Nat /\ Len(chain') \in Nat /\ Len(chain) <= Len(chain')
      /\ at'[Admit(r)] = place
      /\ \A u \in Tasks \ {Admit(r)} : at'[u] = at[u]
      /\ Wrote(r, touched) /\ From(m[r], mem'[r]) /\ StopStays(r) /\ SameSettling(r)
  BY <1>1, <1>2, <1>3, ActFacts
<1>5. MarkTypes' /\ TurnTypes' /\ \A q \in Runs : OldStays(q) /\ SameObject(q)
  BY CoreFacts, Unturned DEF MarkTypes, RequestOnly
<1>6. /\ RunOK(r) /\ LiveOK(r) /\ mem[r] \in Slots /\ r \in Nat /\ next \in Nat
      /\ left[Resolve] \in Nat /\ left[Resolve] <= Len(chain)
  BY CoreFacts
<1>7. Kept(r)
  BY <1>4, <1>6, EndsKept DEF RunOK
<1>8. /\ at'[Insert(r)] = at[Insert(r)] /\ at'[Admit(r)] # "saving"
      /\ unsent'[r] = unsent[r] /\ sent'[r] = sent[r] /\ (r \in torn => r \in torn') /\ next' = next
      /\ (r \in uncertain => r \in uncertain')
  BY <1>1, <1>4, TaskFacts DEF RequestOnly
<1>9. /\ UnusedOK(r)' /\ SavedOK(r)' /\ RestOK(r)' /\ InsertOK(r)' /\ GivenOK(r)' /\ Firm(r)
      /\ Lasts(r)
  BY <1>4, <1>5, <1>6, <1>7, <1>8, AdmitActs
<1>10. AdmitOK(r)'
  BY <1>9
<1>11. \A q \in Runs \ {r} : Stands(q, m, touched, Admit(r))
  <2>1. ASSUME NEW q \in Runs \ {r} PROVE SameMarks(q)
    BY DEF RequestOnly, SameMarks
  <2> QED
    BY <2>1, <1>1, <1>5 DEF Stands
<1>12. SamePump /\ next <= next'
  BY <1>6 DEF SamePump, RequestOnly, SameTurns
<1>13. \A q \in Runs \cap {r} : RunOK(q)' /\ Firm(q)
  BY <1>9, <1>10 DEF RunOK
<1> QED
  BY <1>1, <1>2, <1>5, <1>11, <1>12, <1>13, <1>3, StepKeeps

(* The types of what a request keeps.                                      *)
LEMMA AskTypes ==
  ASSUME MarkTypes, NEW r \in Runs, NEW a \in Answers
  PROVE  /\ admissions \ {r} \in SUBSET Runs /\ uncertain \cup {r} \in SUBSET Runs /\ detached \ {r} \in SUBSET Runs
         /\ [told EXCEPT ![r] = a] \in [Runs -> Answers]
         /\ [told EXCEPT ![r] = a][r] = a
         /\ \A q \in Runs \ {r} : [told EXCEPT ![r] = a][q] = told[q]
         /\ admissions \in SUBSET Runs /\ uncertain \in SUBSET Runs /\ detached \in SUBSET Runs
         /\ told \in [Runs -> Answers]
BY DEF MarkTypes

(* The trust of a folder keeps the invariant.                              *)
LEMMA CreateTrustedKeeps ==
  ASSUME CoreInv, NEW r \in Runs, CreateTrusted(r)
  PROVE  CoreInv'
<1>1. Writes(mem, {}) /\ chain' = chain /\ mem' = mem
  BY CoreFacts, StillWrites DEF rowVars, CreateTrusted
<1>2. Moves(Admit(r), "creating") /\ left'[Admit(r)] = Len(chain)
  BY <1>1, CoreFacts, TaskFacts DEF Moves, Await, CreateTrusted, TaskTypes
<1>3. RequestOnly(r)
  BY CoreFacts DEF RequestOnly, CreateTrusted, Admitted, MarkTypes, SameTurns, objects, history
<1>4. "creating" \in Places /\ "creating" # "saving" /\ r <= next
  BY LiveRow DEF Places, CreateTrusted
<1>5. AdmitOK(r) /\ at[Admit(r)] = "trusting" /\ at'[Admit(r)] = "creating"
      /\ at'[Insert(r)] = at[Insert(r)]
  BY <1>2, CoreFacts, TaskFacts DEF RunOK, CreateTrusted, Moves, TaskTypes
<1>6. UNCHANGED <<admissions, uncertain, unsent, detached, told, mem>>
  BY DEF CreateTrusted, Admitted, objects, history
<1>7. ASSUME Lasts(r) PROVE AdmitOK(r)'
  <2>1. Pending(r)' /\ r \notin detached' => r \in failed' \/ \E i \in 1 .. left'[Admit(r)] : Holds(i, r)'
    BY <1>1, <1>2, <1>5, <1>6, <1>7 DEF AdmitOK, Holds, Lasts
  <2> QED
    BY <1>5, <1>6, <1>7, <2>1 DEF AdmitOK, Lasts
<1>8. \A q \in Runs : (q \in {} => q <= next) /\ (mem[q] = mem[q] \/ Ends(mem, q))
  OBVIOUS
<1> QED
  BY <1>1, <1>2, <1>3, <1>4, <1>7, <1>8, AdmitKeeps

(* A request whose save is unknown keeps the invariant.                    *)
LEMMA AdmissionUncertainKeeps ==
  ASSUME CoreInv, NEW r \in Runs, at[Admit(r)] \in {"saving", "creating", "failing"}, AdmissionUncertain(r)
  PROVE  CoreInv'
<1>1. Writes(mem, {}) /\ mem' = mem
  BY CoreFacts, StillWrites DEF rowVars, AdmissionUncertain
<1>2. Moves(Admit(r), "idle") /\ at'[Admit(r)] = "idle" /\ at'[Insert(r)] = at[Insert(r)]
  BY CoreFacts, TaskFacts DEF Moves, Go, AdmissionUncertain, TaskTypes
<1>3. "uncertain" \in Answers /\ "idle" \in Places /\ "idle" # "saving" /\ r <= next
  BY LiveRow DEF Places, Answers
<1>4. RequestOnly(r)
  BY <1>3, CoreFacts, AskTypes DEF RequestOnly, AdmissionUncertain, Admitted, Leaves, Tell, SameTurns
<1>5. AdmitOK(r) /\ unsent' = unsent /\ told'[r] = "uncertain" /\ r \in uncertain' /\ r \notin detached'
      /\ admissions' = admissions /\ unknown
  BY <1>3, CoreFacts, AskTypes
    DEF RunOK, AdmissionUncertain, FlushUncertain, Admitted, Leaves, Tell
<1>6. ASSUME Lasts(r) PROVE AdmitOK(r)'
  BY <1>1, <1>2, <1>5, <1>6 DEF AdmitOK, Lasts
<1>7. \A q \in Runs : (q \in {} => q <= next) /\ (mem[q] = mem[q] \/ Ends(mem, q))
  OBVIOUS
<1> QED
  BY <1>1, <1>2, <1>3, <1>4, <1>6, <1>7, AdmitKeeps

(* A save that is answered was the one of the run.                         *)
LEMMA SavedAdmission ==
  ASSUME CoreInv, NEW r \in Runs, at[Admit(r)] \in {"saving", "creating"}, left[Admit(r)] = 0, FlushOk
  PROVE  /\ ~Fresh(r)
         /\ at[Admit(r)] = "saving" => mem[r] # Gone /\ r \notin newAdm /\ Clean(r) /\ ~New(r)
<1>1. AdmitOK(r)
  BY CoreFacts DEF RunOK
<1>2. at[Admit(r)] = "saving" => r \notin newAdm
  BY <1>1 DEF AdmitOK, FlushOk
<1>3. at[Admit(r)] = "creating" => ~Pending(r) \/ r \in detached
  BY <1>1 DEF AdmitOK, FlushOk
<1>4. ~Fresh(r)
  BY <1>1, <1>2, <1>3 DEF AdmitOK, Fresh, Pending
<1> QED
  BY <1>1, <1>2, <1>4 DEF AdmitOK

(* An admission that is accepted keeps the invariant.                      *)
LEMMA AcceptedKeeps ==
  ASSUME CoreInv, NEW r \in Runs, NEW a \in {"accepted", "created"}, NEW m, NEW touched \in SUBSET Runs, Writes(m, touched),
         at[Admit(r)] \in {"saving", "creating"}, left[Admit(r)] = 0, Accepted(r, a),
         a = "accepted" => at[Admit(r)] = "saving",
         \A q \in Runs : /\ q \in touched => q <= next
                         /\ m[q] = mem[q] \/ Ends(m, q)
  PROVE  CoreInv'
<1>1. ~Fresh(r) /\ (at[Admit(r)] = "saving" => mem[r] # Gone /\ r \notin newAdm /\ Clean(r) /\ ~New(r))
  BY SavedAdmission DEF Accepted
<1>2. Moves(Admit(r), "idle") /\ at'[Admit(r)] = "idle" /\ at'[Insert(r)] = at[Insert(r)]
  BY CoreFacts, TaskFacts DEF Moves, Go, Accepted, TaskTypes
<1>3. a \in Answers /\ "idle" \in Places /\ "idle" # "saving" /\ r <= next
  BY LiveRow DEF Places, Answers
<1>4. RequestOnly(r)
  BY <1>3, CoreFacts, AskTypes DEF RequestOnly, Accepted, Admitted, Leaves, Tell, SameTurns
<1>5. AdmitOK(r) /\ unsent' = unsent /\ told'[r] = a /\ uncertain' = uncertain /\ r \notin detached'
  BY <1>3, CoreFacts, AskTypes
    DEF RunOK, Accepted, Admitted, Leaves, Tell
<1>6. ASSUME Lasts(r) PROVE AdmitOK(r)'
  <2>1. ~Fresh(r)'
    BY <1>1, <1>6 DEF Lasts
  <2>2. a = "accepted" => Known(r)'
    BY <1>1, <1>2, <1>6 DEF Known, Kept, Clean, Lasts
  <2> QED
    BY <1>2, <1>5, <1>6, <2>1, <2>2 DEF AdmitOK, Lasts
<1> QED
  BY <1>2, <1>3, <1>4, <1>6, AdmitKeeps

(* So does one that cancels what the agent planned.                        *)
LEMMA EnqueueAcceptedKeeps ==
  ASSUME CoreInv, NEW r \in Runs, EnqueueAccepted(r)
  PROVE  CoreInv'
<1>1. at[Admit(r)] = "saving" /\ left[Admit(r)] = 0 /\ Accepted(r, "accepted")
  BY DEF EnqueueAccepted, Saves
<1> DEFINE S == Superseded(r)
           m == Cancelling(S)
<1>2. S \in SUBSET Runs /\ \A q \in S : Queued(mem, q)
  BY DEF Superseded
<1>3. ASSUME NEW q \in Runs
      PROVE  /\ q \in S => mem[q] \in Rows /\ m[q] = [mem[q] EXCEPT !.st = "cancelled"] /\ Ends(m, q) /\ q <= next
             /\ q \notin S => m[q] = mem[q]
             /\ m[q] \in Raw
  <2>1. m[q] = IF q \in S /\ mem[q] # Gone THEN [mem[q] EXCEPT !.st = "cancelled"] ELSE mem[q]
    BY DEF Cancelling
  <2>2. InsertOK(q) /\ mem[q] \in Slots /\ (mem[q] # Gone => q <= next)
    BY LiveRow, CoreFacts DEF RunOK
  <2>3. ASSUME q \in S PROVE mem[q] \in Rows /\ ~Delivers(q) /\ mem[q] # Gone
    BY <1>2, <2>2, <2>3, RowFacts DEF InsertOK, Queued, Slots
  <2>4. q \in S => Ends(m, q)
    BY <2>1, <2>3 DEF Ends, Finished
  <2>5. q \in S => [mem[q] EXCEPT !.st = "cancelled"] \in Rows
    BY <2>3 DEF Rows, Finished
  <2> QED
    BY <2>1, <2>2, <2>3, <2>4, <2>5, RowFacts DEF Raw
<1>4. m \in [Runs -> Raw]
  BY <1>3 DEF Cancelling
<1> HIDE DEF m, S
<1>5. CASE S = {}
  <2>1. Writes(mem, {})
    BY <1>5, CoreFacts, StillWrites DEF EnqueueAccepted, S
  <2>2. \A q \in Runs : (q \in {} => q <= next) /\ (mem[q] = mem[q] \/ Ends(mem, q))
    OBVIOUS
  <2> QED
    BY <1>1, <2>1, <2>2, AcceptedKeeps
<1>6. CASE S # {}
  <2>1. Writes(m, S)
    BY <1>2, <1>4, <1>6, CoreFacts, ChangedWrites DEF EnqueueAccepted, Changed, S, m
  <2>2. \A q \in Runs : (q \in S => q <= next) /\ (m[q] = mem[q] \/ Ends(m, q))
    BY <1>3
  <2> QED
    BY <1>1, <1>2, <2>1, <2>2, AcceptedKeeps
<1> QED
  BY <1>5, <1>6

(* A conversation that is created keeps the invariant.                     *)
LEMMA CreateAcceptedKeeps ==
  ASSUME CoreInv, NEW r \in Runs, CreateAccepted(r)
  PROVE  CoreInv'
<1>1. at[Admit(r)] = "creating" /\ left[Admit(r)] = 0 /\ Accepted(r, "created")
  BY DEF CreateAccepted, Follows, Saves
<1>2. Writes(mem, {})
  BY CoreFacts, StillWrites DEF CreateAccepted
<1>3. \A q \in Runs : (q \in {} => q <= next) /\ (mem[q] = mem[q] \/ Ends(mem, q))
  OBVIOUS
<1> QED
  BY <1>1, <1>2, <1>3, AcceptedKeeps

(* How create shows its failure in a row.                                  *)
LEMMA FailingRow ==
  ASSUME CoreInv, NEW r \in Runs
  PROVE  /\ Failing(r) \in [Runs -> Raw]
         /\ \A q \in Runs \ {r} : Failing(r)[q] = mem[q]
         /\ \/ Failing(r) = mem /\ (mem[r].st \in {"cancelled", "gone"} \/ r \in detached)
            \/ /\ mem[r] # Gone /\ r \notin detached /\ Failing(r)[r].st = "error"
               /\ Failing(r)[r] = [mem[r] EXCEPT !.st = "error"]
<1>1. mem \in [Runs -> Raw] /\ mem[r] \in Slots
  BY CoreFacts
<1>2. CASE mem[r].st \in {"cancelled", "gone"} \/ r \in detached
  BY <1>1, <1>2 DEF Failing
<1>3. CASE ~(mem[r].st \in {"cancelled", "gone"} \/ r \in detached)
  <2>1. mem[r] \in Rows /\ mem[r] # Gone
    BY <1>1, <1>3, RowFacts DEF Slots
  <2>2. PICK row : row = [mem[r] EXCEPT !.st = "error"]
    OBVIOUS
  <2>3. row \in Rows /\ row.st = "error"
    BY <2>1, <2>2 DEF Rows, Finished
  <2>4. Failing(r) = [mem EXCEPT ![r] = row]
    BY <1>3, <2>2 DEF Failing
  <2> QED
    BY <1>1, <1>3, <2>1, <2>2, <2>3, <2>4 DEF Raw
<1> QED
  BY <1>2, <1>3

(* A conversation whose save was refused keeps the invariant.              *)
LEMMA CreateRefusedKeeps ==
  ASSUME CoreInv, NEW r \in Runs, CreateRefused(r)
  PROVE  CoreInv'
<1>1. at[Admit(r)] = "creating" /\ Changed(Failing(r), {r}) /\ Await(Admit(r), "failing", chain')
  BY DEF CreateRefused, Follows, Saves
<1>2. PICK m : m = Failing(r)
  OBVIOUS
<1>3. /\ m \in [Runs -> Raw]
      /\ \A q \in Runs \ {r} : m[q] = mem[q]
      /\ \/ m = mem /\ (mem[r].st \in {"cancelled", "gone"} \/ r \in detached)
         \/ /\ mem[r] # Gone /\ r \notin detached /\ m[r].st = "error"
            /\ m[r] = [mem[r] EXCEPT !.st = "error"]
  BY <1>2, FailingRow
<1>4. Writes(m, {r})
  BY <1>1, <1>2, <1>3, CoreFacts, ChangedWrites DEF Changed
<1>5. Moves(Admit(r), "failing") /\ at'[Admit(r)] = "failing" /\ at'[Insert(r)] = at[Insert(r)]
  BY <1>1, CoreFacts, TaskFacts DEF Moves, Await, TaskTypes
<1>6. "failing" \in Places /\ "failing" # "saving" /\ r <= next
  BY <1>1, LiveRow DEF Places
<1>7. RequestOnly(r)
  BY CoreFacts DEF RequestOnly, CreateRefused, Admitted, MarkTypes, SameTurns, objects, history
<1>8. AdmitOK(r) /\ UNCHANGED <<admissions, uncertain, unsent, detached, told>>
  BY CoreFacts DEF RunOK, CreateRefused, Admitted, objects, history
<1>9. m[r] = mem[r] \/ Ends(m, r)
  BY <1>1, <1>3, <1>8 DEF Ends, AdmitOK, Delivers, Finished
<1>10. \A q \in Runs : (q \in {r} => q <= next) /\ (m[q] = mem[q] \/ Ends(m, q))
  BY <1>3, <1>6, <1>9
<1>11. From(m[r], mem'[r])
  BY <1>4, CoreFacts, WritesFacts
<1>12. ASSUME Lasts(r) PROVE AdmitOK(r)'
  <2>1. ~Fresh(r)'
    <3>1. CASE r \in detached
      BY <1>8, <1>12, <3>1 DEF AdmitOK, Lasts
    <3>2. CASE r \notin detached
      BY <1>3, <1>11, <3>2, RowFacts DEF Fresh, Queued, From, Finished
    <3> QED
      BY <3>1, <3>2
  <2> QED
    BY <1>5, <1>8, <1>12, <2>1 DEF AdmitOK, Lasts
<1> QED
  BY <1>4, <1>5, <1>6, <1>7, <1>10, <1>12, AdmitKeeps

(* So does the end of its request.                                         *)
LEMMA CreateFailedKeeps ==
  ASSUME CoreInv, NEW r \in Runs, CreateFailed(r)
  PROVE  CoreInv'
<1>1. Writes(mem, {}) /\ mem' = mem /\ at[Admit(r)] = "failing"
  BY CoreFacts, StillWrites DEF rowVars, CreateFailed, Saves
<1>2. Moves(Admit(r), "idle") /\ at'[Admit(r)] = "idle" /\ at'[Insert(r)] = at[Insert(r)]
  BY CoreFacts, TaskFacts DEF Moves, Go, CreateFailed, TaskTypes
<1>3. "failed" \in Answers /\ "idle" \in Places /\ "idle" # "saving" /\ r <= next
  BY <1>1, LiveRow DEF Places, Answers
<1>4. RequestOnly(r)
  BY <1>3, CoreFacts, AskTypes DEF RequestOnly, CreateFailed, Admitted, Leaves, Tell, SameTurns
<1>5. AdmitOK(r) /\ unsent' = unsent /\ told'[r] = "failed" /\ uncertain' = uncertain /\ r \notin detached'
  BY <1>3, CoreFacts, AskTypes
    DEF RunOK, CreateFailed, Admitted, Leaves, Tell
<1>6. ASSUME Lasts(r) PROVE AdmitOK(r)'
  BY <1>1, <1>2, <1>5, <1>6 DEF AdmitOK, Lasts
<1>7. \A q \in Runs : (q \in {} => q <= next) /\ (mem[q] = mem[q] \/ Ends(mem, q))
  OBVIOUS
<1> QED
  BY <1>1, <1>2, <1>3, <1>4, <1>6, <1>7, AdmitKeeps

(* An instruction that leaves the map because its save was refused keeps   *)
(* the invariant: the database never had it.                               *)
LEMMA EnqueueRefusedKeeps ==
  ASSUME CoreInv, NEW r \in Runs, EnqueueRefused(r)
  PROVE  CoreInv'
<1>1. at[Admit(r)] = "saving" /\ Changed([mem EXCEPT ![r] = Gone], {r}) /\ Go(Admit(r), "idle") /\ Detach({r})
  BY DEF EnqueueRefused, Saves
<1>2. PICK m : m = [mem EXCEPT ![r] = Gone]
  OBVIOUS
<1>3. /\ m \in [Runs -> Raw] /\ m[r] = Gone
      /\ \A q \in Runs \ {r} : m[q] = mem[q]
  BY <1>2, CoreFacts, RowFacts
<1>4. Writes(m, {r})
  BY <1>1, <1>2, <1>3, CoreFacts, ChangedWrites DEF Changed
<1>5. Moves(Admit(r), "idle") /\ "idle" \in Places /\ Admit(r) \in Tasks
  BY <1>1, TaskFacts DEF Moves, Go, Places
<1>6. pick' = pick /\ pick' \in [Tasks -> Runs \cup {NoRun}]
  BY CoreFacts DEF TaskTypes, EnqueueRefused, Admitted
<1>7. UNCHANGED <<recovery, ready, held>>
  BY DEF EnqueueRefused, Admitted
<1>8. Fits(Admit(r), "idle")
  <2>1. \A q \in Runs : Admit(r) # Stop(q)
    BY TaskFacts
  <2> QED
    BY <1>6, <1>7, <2>1, TaskFacts, CoreFacts, FitsOther
<1>9. /\ Len(chain) \in Nat /\ Len(chain') \in Nat /\ at'[Admit(r)] = "idle"
      /\ \A u \in Tasks \ {Admit(r)} : at'[u] = at[u]
      /\ Wrote(r, {r}) /\ mem'[r] = Gone /\ SameSettling(r)
  BY <1>3, <1>4, <1>5, <1>6, <1>8, ActFacts DEF From
<1>10. UNCHANGED <<next, unsent, uncertain, sent, torn, stopped, live, reserved, todo>>
       /\ admissions' = admissions \ {r} /\ told' = [told EXCEPT ![r] = "refused"]
  BY DEF EnqueueRefused, Admitted, Tell
<1>11. /\ stale \subseteq stale' /\ stale' \in SUBSET Runs /\ detached' \in SUBSET Runs /\ old' \in [Runs -> Raw]
       /\ \A q \in Runs : /\ old'[q] = old[q] \/ (q = r /\ q \in stale' /\ old[q] = Gone /\ old'[q] = mem[q] /\ mem[q].st = "queued")
                          /\ q \in detached' <=> q \in detached
  <2>1. PICK D : D = {q \in {r} \cap todo : Queued(mem, q) /\ old[q] = Gone}
    OBVIOUS
  <2>2. D \subseteq {r} /\ \A q \in D : mem[q].st = "queued" /\ old[q] = Gone
    BY <2>1 DEF Queued
  <2>3. /\ old' = [q \in Runs |-> IF q \in D THEN mem[q] ELSE old[q]] /\ stale' = stale \cup D
        /\ detached' = detached \cup {q \in {r} : at[Admit(q)] \in {"trusting", "creating", "failing"}}
    BY <1>1, <2>1 DEF Detach
  <2>4. detached' = detached
    BY <1>1, <2>3
  <2>5. old' \in [Runs -> Raw]
    BY <2>3, CoreFacts DEF TurnTypes
  <2>6. stale' \in SUBSET Runs /\ detached' \in SUBSET Runs /\ stale \subseteq stale'
    BY <2>2, <2>3, <2>4, CoreFacts DEF TurnTypes, MarkTypes
  <2> QED
    BY <2>2, <2>3, <2>4, <2>5, <2>6
<1>12. "refused" \in Answers
  BY DEF Answers
<1>13. /\ admissions' \in SUBSET Runs /\ told' \in [Runs -> Answers] /\ told'[r] = "refused"
       /\ \A q \in Runs \ {r} : told'[q] = told[q]
  BY <1>10, <1>12, CoreFacts, AskTypes
<1>14. MarkTypes'
  BY <1>10, <1>11, <1>13, CoreFacts DEF MarkTypes
<1>15. TurnTypes'
  BY <1>10, <1>11, CoreFacts DEF TurnTypes
<1>16. \A q \in Runs : SameObject(q) /\ (q # r => SameMarks(q) /\ OldStays(q))
  BY <1>10, <1>11, <1>13 DEF SameObject, OldStays, SameMarks
<1>17. r <= next /\ r \in Nat /\ next \in Nat /\ RunOK(r) /\ LiveOK(r) /\ left[Resolve] \in Nat /\ left[Resolve] <= Len(chain)
  BY <1>1, LiveRow, CoreFacts
<1>18. RunOK(r)' /\ Firm(r)
  <2>1. /\ SavedOK(r)' /\ unknown' = unknown /\ (New(r)' <=> New(r)) /\ (Pending(r)' => Pending(r))
    BY <1>9, <1>17, SavedStays DEF RunOK
  <2>2. UnusedOK(r)'
    BY <1>10, <1>17 DEF UnusedOK
  <2>3. ~Known(r) /\ mem'[r] = Gone /\ ~Fresh(r)'
    BY <1>1, <1>9, RowFacts DEF Known, Fresh, Queued
  <2>4. AdmitOK(r)'
    BY <1>9, <1>10, <1>13, <1>17, <2>1, <2>3 DEF RunOK, AdmitOK, SameSettling
  <2>5. RestOK(r)'
    BY <1>9, <1>10, <1>17, <2>1 DEF RunOK, RestOK, SameSettling
  <2>6. at'[Insert(r)] \notin {"files", "putting", "sent"}
    BY <1>9, <1>17, <2>3, TaskFacts DEF RunOK, InsertOK
  <2>7. InsertOK(r)'
    BY <2>6 DEF InsertOK, Delivers
  <2>8. GivenOK(r)'
    <3>1. r \notin stale => sent[r] = 0
      BY <1>17, <2>3, CoreFacts DEF RunOK, GivenOK, MarkTypes
    <3>2. old'[r] # Gone => r \in stale'
      BY <1>11, <1>17 DEF RunOK, GivenOK
    <3> QED
      BY <1>10, <1>11, <3>1, <3>2 DEF GivenOK
  <2>9. Firm(r)
    BY <1>17, <2>1, <2>3 DEF Firm, LiveOK
  <2> QED
    BY <2>1, <2>2, <2>4, <2>7, <2>8, <2>9, <2>5 DEF RunOK
<1>19. \A q \in Runs \ {r} : Stands(q, m, {r}, Admit(r))
  BY <1>3, <1>16, TaskFacts DEF Stands
<1>20. SamePump /\ next <= next'
  BY <1>6, <1>10, <1>17 DEF SamePump
<1>21. \A q \in Runs \cap {r} : RunOK(q)' /\ Firm(q)
  BY <1>18
<1>22. Admit(r) # Pump /\ Admit(r) # Resolve
  BY TaskFacts
<1> QED
  BY <1>4, <1>5, <1>6, <1>14, <1>15, <1>16, <1>19, <1>20, <1>21, <1>22, <1>8, StepKeeps

(* A run that is new.                                                      *)
LEMMA BornOK ==
  ASSUME CoreInv, NEW m, NEW touched \in SUBSET Runs, Writes(m, touched),
         NEW t \in Tasks, NEW place \in Places, Moves(t, place), Fits(t, place), pick' \in [Tasks -> Runs \cup {NoRun}],
         NEW r \in touched, r = next + 1, next' = r, NEW s \in Sessions, NEW p \in BOOLEAN, m[r] = QueuedRun(s, p),
         old'[r] \in {old[r], Gone}, r \in stale => r \in stale',
         unsent'[r] = unsent[r], told'[r] = told[r], sent'[r] = sent[r],
         r \in uncertain' <=> r \in uncertain, r \in detached' <=> r \in detached,
         at'[Insert(r)] = at[Insert(r)], at'[Admit(r)] \in {"idle", "saving", "trusting"},
         at'[Admit(r)] = "saving" => left'[Admit(r)] = Len(chain'),
         p \/ r \in admissions', at'[Admit(r)] # "idle" => r \in admissions'
  PROVE  RunOK(r)' /\ Firm(r)
<1>1. r \in Runs /\ r \in Nat /\ next \in Nat /\ RunOK(r) /\ LiveOK(r) /\ r > next
  BY CoreFacts
<1>2. /\ mem[r] = Gone /\ disk[r] = Gone /\ old[r] = Gone
      /\ r \notin failed /\ r \notin newAdm /\ \A i \in 1 .. Len(chain) : ~Holds(i, r)
      /\ at[Admit(r)] = "idle" /\ at[Insert(r)] = "idle"
      /\ r \notin uncertain /\ r \notin detached /\ told[r] = "none" /\ sent[r] = 0
      /\ r \notin rest /\ r \notin resave /\ ~New(r) /\ ~Files(r)
  BY <1>1 DEF RunOK, UnusedOK, RestOK
<1>3. /\ Len(chain) \in Nat /\ Len(chain') \in Nat /\ Len(chain) <= Len(chain')
      /\ Wrote(r, touched) /\ From(m[r], mem'[r])
      /\ Len(chain') = Len(chain) + 1 /\ r \in DOMAIN chain'[Len(chain')]
      /\ mem'[r] # Gone /\ disk[r] = Gone => r \in newAdm'
      /\ SameSettling(r)
  BY <1>1, ActFacts
<1>4. r \notin rest' /\ ~New(r)' /\ ~Files(r)'
  BY <1>2, <1>3 DEF SameSettling, New
<1>5. m[r].planned = p /\ m[r].st = "queued" /\ m[r] # Gone
  BY RowFacts DEF QueuedRun, Gone
<1>6. mem'[r] # Gone /\ mem'[r].st = "queued" /\ mem'[r].planned = p /\ r \in newAdm' /\ disk'[r] = Gone
  BY <1>2, <1>3, <1>5 DEF From, Wrote
<1>7. UnusedOK(r)'
  BY <1>1 DEF UnusedOK
<1>8. Clean(r)'
  <2>1. ASSUME NEW i \in 1 .. Len(chain'), r \in DOMAIN chain'[i] PROVE chain'[i][r] # Gone
    <3>1. CASE i \in 1 .. Len(chain)
      BY <1>2, <1>3, <2>1, <3>1 DEF Wrote, Holds
    <3>2. CASE i \in Len(chain) + 1 .. Len(chain')
      BY <1>3, <1>6, <2>1, <3>2 DEF Wrote
    <3> QED
      BY <1>3, <2>1, <3>1, <3>2
  <2> QED
    BY <1>6, <2>1 DEF Clean, NoneGone, Holds
<1>9. SavedOK(r)' /\ RestOK(r)'
  BY <1>8, <1>4 DEF SavedOK, RestOK
<1>10. Len(chain') \in 1 .. Len(chain') /\ Holds(Len(chain), r)' \in BOOLEAN
  BY <1>3 DEF Holds
<1>11. AdmitOK(r)'
  <2>1. \E i \in 1 .. Len(chain') : r \in DOMAIN chain'[i]
    BY <1>3, <1>10
  <2>2. at'[Admit(r)] = "saving" => r \in failed' \/ \E i \in 1 .. left'[Admit(r)] : r \in DOMAIN chain'[i]
    BY <2>1
  <2>3. r \notin detached' /\ r \notin uncertain' /\ at'[Insert(r)] = "idle" /\ told'[r] # "accepted"
    BY <1>2
  <2>4. unsent'[r] = NoRun
    BY <1>1, <1>2 DEF RunOK, AdmitOK
  <2> QED
    BY <1>6, <1>8, <1>4, <2>1, <2>2, <2>3, <2>4 DEF AdmitOK, Holds
<1>12. InsertOK(r)' /\ GivenOK(r)'
  BY <1>2 DEF InsertOK, GivenOK, Delivers
<1>13. Firm(r)
  BY <1>1, <1>2 DEF Firm, Known, LiveOK
<1> QED
  BY <1>7, <1>11, <1>12, <1>13, <1>9 DEF RunOK

(* The registration of a request keeps the invariant.                      *)
LEMMA RegisterKeeps ==
  ASSUME CoreInv, NEW s \in Sessions, Register(QueuedRun(s, FALSE)), pick' = pick,
         NEW place \in {"saving", "trusting"}, at' = [at EXCEPT ![Admit(next')] = place],
         IF place = "saving" THEN left' = [left EXCEPT ![Admit(next')] = Len(chain')] ELSE left' = left
  PROVE  CoreInv'
<1>1. PICK r : r = next + 1
  OBVIOUS
<1>2. r \in Runs /\ r > next /\ next' = r /\ next \in Nat /\ Changed([mem EXCEPT ![r] = QueuedRun(s, FALSE)], {r})
      /\ admissions' = admissions \cup {r}
  BY <1>1, CoreFacts, RunQueueAssumption DEF Register, Runs
<1>3. PICK m : m = [mem EXCEPT ![r] = QueuedRun(s, FALSE)]
  OBVIOUS
<1>4. QueuedRun(s, FALSE) \in Raw
  BY DEF QueuedRun, Raw, Rows
<1>5. m \in [Runs -> Raw] /\ m[r] = QueuedRun(s, FALSE) /\ \A q \in Runs \ {r} : m[q] = mem[q]
  BY <1>2, <1>3, <1>4, CoreFacts
<1>6. Writes(m, {r})
  BY <1>2, <1>3, <1>5, CoreFacts, ChangedWrites DEF Changed
<1>7. Moves(Admit(r), place) /\ Admit(r) \in Tasks /\ place \in Places
  BY <1>2, TaskFacts DEF Moves, Places
<1>8. pick' \in [Tasks -> Runs \cup {NoRun}]
  BY CoreFacts DEF TaskTypes
<1>9. Fits(Admit(r), place)
  <2>1. UNCHANGED <<recovery, ready, held>> /\ ResolveOK
    BY CoreFacts DEF Register
  <2>2. Admit(r) # Resolve /\ \A q \in Runs : Admit(r) # Stop(q)
    BY <1>2, TaskFacts
  <2> QED
    BY <2>1, <2>2, FitsOther
<1>10. UNCHANGED <<uncertain, unsent, detached, told, sent, torn, stopped>> /\ SameTurns
  BY DEF Register, SameTurns, objects, history
<1>11. MarkTypes' /\ TurnTypes' /\ \A q \in Runs : OldStays(q) /\ SameObject(q)
  <2>1. next' \in Nat /\ admissions' \in SUBSET Runs
    BY <1>2, CoreFacts DEF MarkTypes, Runs
  <2>2. MarkTypes'
    BY <1>10, <2>1, CoreFacts DEF MarkTypes
  <2> QED
    BY <1>10, <2>2, CoreFacts, Unturned
<1>12. /\ at'[Admit(r)] = place
       /\ \A u \in Tasks \ {Admit(r)} : at'[u] = at[u]
       /\ place = "saving" => left'[Admit(r)] = Len(chain')
  BY <1>2, <1>7, CoreFacts DEF TaskTypes
<1>13. RunOK(r)' /\ Firm(r)
  <2>1. /\ at'[Insert(r)] = at[Insert(r)] /\ r \in admissions' /\ old'[r] = old[r] /\ stale' = stale
        /\ at'[Admit(r)] \in {"idle", "saving", "trusting"}
    BY <1>2, <1>10, <1>12, TaskFacts DEF SameTurns
  <2>2. /\ unsent'[r] = unsent[r] /\ told'[r] = told[r] /\ sent'[r] = sent[r]
        /\ r \in uncertain' <=> r \in uncertain
        /\ r \in detached' <=> r \in detached
    BY <1>10
  <2>3. r \in {r} /\ {r} \in SUBSET Runs /\ r = next + 1 /\ next' = r
    BY <1>1, <1>2
  <2>4. PICK p \in BOOLEAN : p = FALSE
    OBVIOUS
  <2>5. m[r] = QueuedRun(s, p) /\ (p \/ r \in admissions') /\ (at'[Admit(r)] # "idle" => r \in admissions')
    BY <1>5, <2>1, <2>4
  <2>6. /\ old'[r] \in {old[r], Gone}
        /\ r \in stale => r \in stale'
        /\ at'[Admit(r)] = "saving" => left'[Admit(r)] = Len(chain')
    BY <1>12, <2>1
  <2> QED
    BY <1>6, <1>7, <1>8, <1>9, <2>1, <2>2, <2>3, <2>5, <2>6, BornOK
<1>14. \A q \in Runs \ {r} : Stands(q, m, {r}, Admit(r))
  <2>1. ASSUME NEW q \in Runs \ {r} PROVE SameMarks(q)
    BY <1>2, <1>10 DEF SameMarks
  <2>2. \A q \in Runs \ {r} : OldStays(q) /\ m[q] = mem[q] /\ q \notin {r}
    BY <1>5, <1>11
  <2>3. \A q \in Runs \ {r} : Admit(r) \notin {Admit(q), Insert(q)}
    <3>1. r \in Runs
      BY <1>2
    <3> QED
      BY <3>1, TaskFacts
  <2> QED
    BY <2>1, <2>2, <2>3 DEF Stands
<1>15. SamePump /\ next <= next'
  BY <1>1, <1>2, <1>10 DEF SamePump, SameTurns
<1>16. \A q \in Runs \cap {r} : RunOK(q)' /\ Firm(q)
  BY <1>13
<1>17. Admit(r) # Pump /\ Admit(r) # Resolve /\ {r} \in SUBSET Runs
  BY <1>2, TaskFacts
<1> QED
  BY <1>6, <1>7, <1>8, <1>11, <1>14, <1>15, <1>16, <1>17, <1>9, StepKeeps

(* A request keeps the invariant.                                          *)
LEMMA RequestKeeps ==
  ASSUME CoreInv, Enqueue \/ Create
  PROVE  CoreInv'
<1>1. CASE Enqueue
  <2>1. PICK s \in Sessions : Register(QueuedRun(s, FALSE))
    BY <1>1 DEF Enqueue
  <2>2. PICK place \in {"saving", "trusting"} : place = "saving"
    OBVIOUS
  <2>3. pick' = pick /\ at' = [at EXCEPT ![Admit(next')] = place]
        /\ IF place = "saving" THEN left' = [left EXCEPT ![Admit(next')] = Len(chain')] ELSE left' = left
    BY <1>1, <2>1, <2>2 DEF Enqueue, Await, Register
  <2> QED
    BY <2>1, <2>3, RegisterKeeps
<1>2. CASE Create
  <2>1. PICK s \in Sessions : Register(QueuedRun(s, FALSE))
    BY <1>2 DEF Create
  <2>2. PICK place \in {"saving", "trusting"} : place = "trusting"
    OBVIOUS
  <2>3. pick' = pick /\ at' = [at EXCEPT ![Admit(next')] = place]
        /\ IF place = "saving" THEN left' = [left EXCEPT ![Admit(next')] = Len(chain')] ELSE left' = left
    BY <1>2, <2>1, <2>2 DEF Create, Go, Register
  <2> QED
    BY <2>1, <2>3, RegisterKeeps
<1> QED
  BY <1>1, <1>2

-----------------------------------------------------------------------------
(* Insertion.                                                              *)

(* A step of the insertion of r leaves the other runs alone.               *)
InsertOnly(r) ==
  /\ UNCHANGED <<next, detached, told, stopped, torn>> /\ SameTurns
  /\ UNCHANGED <<recovery, ready, held>> /\ uncertain \subseteq uncertain'
  /\ pick' \in [Tasks -> Runs \cup {NoRun}] /\ pick'[Pump] = pick[Pump] /\ pick'[Resolve] = pick[Resolve]
  /\ admissions' \in SUBSET Runs /\ uncertain' \in SUBSET Runs
  /\ unsent' \in [Runs -> Runs \cup {NoRun}] /\ sent' \in [Runs -> Nat]
  /\ \A q \in Runs \ {r} : /\ q \in admissions' <=> q \in admissions
                           /\ q \in uncertain' <=> q \in uncertain
                           /\ unsent'[q] = unsent[q] /\ sent'[q] = sent[q]

(* How the insertion of r to m and to place treats its request, what was   *)
(* given to a provider, and the turn of r.                                 *)
InsertMay(r, m, place) ==
  /\ m[r] = Gone <=> mem[r] = Gone
  /\ mem[r] # Gone => m[r].session = mem[r].session /\ m[r].planned = mem[r].planned
  /\ m[r].st = "queued" => mem[r].st = "queued" \/ Known(r)
  /\ r \in live /\ old[r] = Gone => m[r].st # "queued" /\ place \notin {"putting", "sent"}
  /\ at[Insert(r)] # "idle" \/ r \notin admissions
  /\ place \in {"files", "putting", "sent"} => Known(r)
  /\ place = "files" => m[r].steer = "none"
  /\ place \in {"putting", "sent"} => m[r].st = "running" /\ m[r].steer = "sending" /\ at[Stop(r)] # "noted"

(* What a step of the insertion of r keeps of it.                          *)
InsertMarks(r, m, place) ==
  /\ r \in admissions => r \in admissions' \/ Known(r)
  /\ unsent'[r] # NoRun => (unknown \/ r \in rest) /\ r \in uncertain'
  /\ place \in {"files", "putting", "sent"} => unsent'[r] = NoRun
  /\ sent'[r] > 0 => sent[r] > 0 \/ Known(r)
  /\ r \notin stale /\ r \notin torn => sent'[r] <= 1 /\ (sent'[r] = 1 => m[r].st # "queued" /\ place \notin {"putting", "sent"})

(* A step of an insertion keeps the invariant if it does so for its run.   *)
LEMMA InsertKeeps ==
  ASSUME CoreInv, NEW m, NEW touched \in SUBSET Runs, Writes(m, touched),
         NEW r \in Runs, NEW place \in Places, Moves(Insert(r), place), InsertOnly(r),
         InsertMay(r, m, place), InsertMarks(r, m, place), r <= next, touched \subseteq {r},
         \A q \in Runs \ {r} : m[q] = mem[q]
  PROVE  CoreInv'
<1>1. Insert(r) \in Tasks /\ Insert(r) # Pump /\ Insert(r) # Resolve /\ Admit(r) \in Tasks /\ Admit(r) # Insert(r)
      /\ \A q \in Runs \ {r} : Insert(r) \notin {Admit(q), Insert(q)}
  BY TaskFacts
<1>2. pick' \in [Tasks -> Runs \cup {NoRun}]
  BY DEF InsertOnly
<1>3. Fits(Insert(r), place)
  <2>1. UNCHANGED <<recovery, ready, held>> /\ ResolveOK /\ pick'[Resolve] = pick[Resolve]
    BY CoreFacts DEF InsertOnly
  <2>2. Insert(r) # Resolve /\ \A q \in Runs : Insert(r) # Stop(q)
    BY TaskFacts
  <2> QED
    BY <2>1, <2>2, FitsOther
<1>4. /\ Len(chain) \in Nat /\ Len(chain') \in Nat /\ Len(chain) <= Len(chain')
      /\ at'[Insert(r)] = place /\ at'[Admit(r)] = at[Admit(r)] /\ left'[Admit(r)] = left[Admit(r)]
      /\ at'[Stop(r)] = at[Stop(r)]
      /\ Wrote(r, touched) /\ From(m[r], mem'[r]) /\ SameSettling(r)
  <2>1. Stop(r) \in Tasks /\ Stop(r) # Insert(r)
    BY TaskFacts
  <2> QED
    BY <1>1, <1>2, <1>3, <2>1, ActFacts
<1>5. MarkTypes' /\ TurnTypes' /\ \A q \in Runs : OldStays(q) /\ SameObject(q)
  BY CoreFacts, Unturned DEF MarkTypes, InsertOnly
<1>6. /\ RunOK(r) /\ LiveOK(r) /\ mem[r] \in Slots /\ r \in Nat /\ next \in Nat
      /\ left[Admit(r)] \in Nat /\ left[Admit(r)] <= Len(chain) /\ left[Resolve] \in Nat /\ left[Resolve] <= Len(chain)
  BY CoreFacts
<1>7. /\ UnusedOK(r) /\ SavedOK(r) /\ AdmitOK(r) /\ RestOK(r) /\ InsertOK(r) /\ GivenOK(r)
  BY <1>6 DEF RunOK
<1>8. /\ mem'[r] = Gone <=> mem[r] = Gone
      /\ mem[r] # Gone => mem'[r].session = mem[r].session
      /\ m[r] # Gone => mem'[r].planned = m[r].planned /\ mem'[r].steer = m[r].steer
      /\ mem'[r].st = "queued" => m[r].st = "queued"
      /\ m[r] # Gone /\ m[r].st = "running" /\ m[r].steer = "sending" => mem'[r].st = "running"
      /\ m[r] # Gone /\ m[r].st # "queued" => mem'[r].st # "queued"
  BY <1>4, RowFacts DEF From, InsertMay, Finished
<1>9. /\ SavedOK(r)' /\ (New(r)' <=> New(r)) /\ (Pending(r)' => Pending(r))
      /\ mem'[r] # Gone /\ Clean(r) => Clean(r)' /\ (r \in newAdm' <=> r \in newAdm)
      /\ Known(r) /\ mem'[r] # Gone /\ at'[Admit(r)] # "saving" => Known(r)'
      /\ disk'[r] = disk[r] /\ unknown' = unknown /\ (r \in failed' <=> r \in failed)
  BY <1>4, <1>6, <1>7, <1>8, SavedStays
<1>10. UnusedOK(r)'
  BY <1>6 DEF UnusedOK, InsertOnly
<1>11. (Known(r) => Known(r)') /\ (Fresh(r)' => Fresh(r) /\ ~Known(r) /\ m[r] # Gone)
  <2>1. Known(r) => Known(r)'
    BY <1>4, <1>8, <1>9 DEF Known
  <2>2. ASSUME Fresh(r)' PROVE Fresh(r) /\ ~Known(r) /\ m[r] # Gone
    <3>1. Pending(r) /\ ~Known(r) /\ mem[r] # Gone /\ m[r] # Gone
      BY <1>9, <2>2 DEF Fresh, Pending, Known, InsertMay
    <3>2. m[r].st = "queued"
      BY <1>8, <2>2 DEF Fresh, Queued
    <3> QED
      BY <3>1, <3>2 DEF Fresh, Queued, InsertMay
  <2> QED
    BY <2>1, <2>2
<1>12. AdmitOK(r)'
  <2>1. at'[Admit(r)] = "saving" /\ r \in newAdm' => r \in failed' \/ \E i \in 1 .. left'[Admit(r)] : r \in DOMAIN chain'[i]
    <3>1. at'[Admit(r)] = "saving" => mem'[r] # Gone /\ Clean(r)
      BY <1>4, <1>7, <1>8 DEF AdmitOK
    <3>2. at'[Admit(r)] = "saving" /\ r \in newAdm' => r \in failed \/ \E i \in 1 .. left[Admit(r)] : Holds(i, r)
      BY <1>4, <1>7, <1>9, <3>1 DEF AdmitOK
    <3> QED
      BY <1>4, <1>6, <1>9, <3>2 DEF Wrote, Holds
  <2>2. at'[Admit(r)] = "saving" => r \in admissions' /\ mem'[r] # Gone /\ Clean(r)' /\ ~New(r)'
    BY <1>4, <1>7, <1>8, <1>9 DEF AdmitOK, InsertMarks, Known
  <2>3. Fresh(r)' /\ ~mem'[r].planned => r \in admissions'
    <3>1. ASSUME Fresh(r)' PROVE mem[r].planned = mem'[r].planned
      BY <1>8, <1>11, <3>1 DEF InsertMay
    <3> QED
      BY <1>7, <1>11, <3>1 DEF AdmitOK, InsertMarks
  <2>4. /\ r \in detached' \/ at'[Admit(r)] = "failing" => ~Fresh(r)'
        /\ told'[r] = "accepted" => Known(r)'
    BY <1>4, <1>7, <1>11 DEF AdmitOK, InsertOnly
  <2>5. ~(at'[Admit(r)] = "saving" \/ (at'[Admit(r)] \in {"trusting", "creating"} /\ r \notin detached'))
    BY <1>4, <1>7 DEF AdmitOK, InsertMay, InsertOnly
  <2>6. unsent'[r] # NoRun => (unknown' \/ r \in rest') /\ r \in uncertain'
    BY <1>4, <1>9 DEF InsertMarks, SameSettling
  <2> QED
    BY <2>1, <2>2, <2>3, <2>4, <2>5, <2>6 DEF AdmitOK, Holds
<1>13. RestOK(r)'
  BY <1>4, <1>7, <1>9 DEF RestOK, SameSettling, InsertOnly
<1>14. InsertOK(r)'
  BY <1>4, <1>8, <1>11 DEF InsertOK, Delivers, InsertMay, InsertMarks, Known
<1>15. GivenOK(r)'
  BY <1>4, <1>7, <1>8, <1>11 DEF GivenOK, Delivers, InsertMay, InsertMarks, Known, Queued, SameTurns, InsertOnly
<1>16. Firm(r)
  <2>1. Known(r) => Known(r)' /\ mem'[r].session = mem[r].session
    BY <1>8, <1>11 DEF Known
  <2>2. ASSUME r \in live, old[r] = Gone PROVE mem'[r].st # "queued" /\ ~Delivers(r)'
    BY <1>4, <1>8, <2>2 DEF InsertMay, Delivers
  <2> QED
    BY <1>9, <2>1, <2>2 DEF Firm
<1>17. \A q \in Runs \ {r} : Stands(q, m, touched, Insert(r))
  <2>1. ASSUME NEW q \in Runs \ {r} PROVE SameMarks(q)
    BY DEF InsertOnly, SameMarks
  <2> QED
    BY <2>1, <1>1, <1>5 DEF Stands
<1>18. SamePump /\ next <= next'
  BY <1>6 DEF SamePump, InsertOnly, SameTurns
<1>19. \A q \in Runs \cap {r} : RunOK(q)' /\ Firm(q)
  BY <1>9, <1>10, <1>12, <1>14, <1>15, <1>16, <1>13 DEF RunOK
<1> QED
  BY <1>1, <1>2, <1>5, <1>17, <1>18, <1>19, <1>3, StepKeeps

(* The types of what the tasks picked.                                     *)
LEMMA PickTypes ==
  ASSUME TaskTypes, MarkTypes, NEW r \in Runs, NEW q \in Runs \cup {NoRun}
  PROVE  /\ [pick EXCEPT ![Insert(r)] = q] \in [Tasks -> Runs \cup {NoRun}]
         /\ [pick EXCEPT ![Insert(r)] = q][Pump] = pick[Pump] /\ [pick EXCEPT ![Insert(r)] = q][Resolve] = pick[Resolve]
         /\ [unsent EXCEPT ![r] = q] \in [Runs -> Runs \cup {NoRun}]
         /\ [unsent EXCEPT ![r] = q][r] = q
         /\ \A k \in Runs \ {r} : [unsent EXCEPT ![r] = q][k] = unsent[k]
         /\ pick \in [Tasks -> Runs \cup {NoRun}] /\ pick[Insert(r)] \in Runs \cup {NoRun}
         /\ admissions \in SUBSET Runs /\ admissions \cup {r} \in SUBSET Runs /\ admissions \ {r} \in SUBSET Runs
         /\ uncertain \in SUBSET Runs /\ uncertain \cup {r} \in SUBSET Runs
         /\ unsent \in [Runs -> Runs \cup {NoRun}] /\ sent \in [Runs -> Nat]
BY TaskFacts DEF TaskTypes, MarkTypes

(* An insertion that moves on leaves the others alone.                     *)
LEMMA InsertFacts ==
  ASSUME CoreInv, NEW r \in Runs
  PROVE  /\ UnusedOK(r) /\ SavedOK(r) /\ AdmitOK(r) /\ RestOK(r) /\ InsertOK(r) /\ GivenOK(r) /\ LiveOK(r)
         /\ sent[r] \in Nat /\ mem[r] \in Slots
         /\ r \in live /\ old[r] = Gone => mem[r].st # "queued"
         /\ Known(r) => mem[r] \in Rows
BY CoreFacts DEF RunOK, MarkTypes, LiveOK, Object, Known, Slots

(* Without a hold and with every save done, no recovery has a run to settle*)
(* or to save: one that no request waits for, queued and not planned, is   *)
(* known.                                                                  *)
LEMMA NothingUnsure ==
  ASSUME CoreInv, NEW r \in Runs, FlushOk, ~held
  PROVE  /\ ~Unsure(r) /\ r \notin rest /\ ~unknown
         /\ mem[r] # Gone /\ ~Pending(r) /\ r \notin admissions => Known(r)
         /\ Queued(mem, r) /\ ~mem[r].planned /\ r \notin admissions => Known(r)
<1>1. SavedOK(r) /\ AdmitOK(r) /\ ResolveOK
  BY CoreFacts DEF RunOK
<1>2. at[Resolve] = "idle" /\ ~Window /\ failed = {} /\ ~unknown
  BY <1>1 DEF ResolveOK, Window, FlushOk
<1>3. ~Unsure(r) /\ ~New(r) /\ r \notin rest
  BY <1>1, <1>2 DEF ResolveOK, Unsure, Returning
<1>4. mem[r] # Gone /\ ~Pending(r) /\ r \notin admissions => Known(r)
  BY <1>1, <1>3 DEF SavedOK, AdmitOK, Pending, Clean, Known
<1>5. Queued(mem, r) => mem[r] # Gone
  BY RowFacts DEF Queued
<1>6. Queued(mem, r) /\ ~mem[r].planned /\ r \notin admissions => ~Pending(r)
  BY <1>1 DEF AdmitOK, Fresh
<1> QED
  BY <1>2, <1>3, <1>4, <1>5, <1>6

(* A request to insert keeps the invariant.                                *)
LEMMA SteerKeeps ==
  ASSUME CoreInv, Steer
  PROVE  CoreInv'
<1>1. PICK r \in Runs, q \in {NoRun} \cup live :
        /\ at[Insert(r)] = "idle" /\ Insertable(r) /\ r \notin admissions
        /\ Picked(r, q) /\ Await(Insert(r), "flush", chain)
  BY DEF Steer
<1>2. Writes(mem, {}) /\ chain' = chain
  BY CoreFacts, StillWrites DEF Steer, rowVars
<1>3. Moves(Insert(r), "flush") /\ "flush" \in Places
  BY <1>1, <1>2 DEF Moves, Await, Places
<1>4. UNCHANGED <<next, detached, told, stopped, torn, admissions, uncertain, unsent, sent, recovery, ready, held>> /\ SameTurns
  BY DEF Steer, NotSteering, objects, SameTurns
<1>5. q \in Runs \cup {NoRun}
  BY <1>1, CoreFacts DEF TurnTypes
<1>6. InsertOnly(r)
  <2>1. pick' \in [Tasks -> Runs \cup {NoRun}] /\ pick'[Pump] = pick[Pump] /\ pick'[Resolve] = pick[Resolve]
    BY <1>1, <1>5, CoreFacts, PickTypes DEF Picked
  <2>2. /\ admissions' = admissions /\ uncertain' = uncertain /\ unsent' = unsent /\ sent' = sent
        /\ admissions \in SUBSET Runs /\ uncertain \in SUBSET Runs
        /\ unsent \in [Runs -> Runs \cup {NoRun}] /\ sent \in [Runs -> Nat]
    BY <1>4, CoreFacts DEF MarkTypes
  <2> QED
    BY <1>4, <2>1, <2>2 DEF InsertOnly
<1>7. InsertMay(r, mem, "flush")
  BY <1>1, InsertFacts DEF InsertMay
<1>8. InsertMarks(r, mem, "flush")
  BY <1>1, <1>4, InsertFacts DEF InsertMarks, AdmitOK, GivenOK, Queued
<1>9. r <= next
  BY <1>1, LiveRow, RowFacts DEF Insertable, Queued
<1> QED
  BY <1>2, <1>3, <1>6, <1>7, <1>8, <1>9, InsertKeeps

(* The first look of an insertion keeps the invariant.                     *)
LEMMA SteerFlushedKeeps ==
  ASSUME CoreInv, NEW r \in Runs, SteerFlushed(r)
  PROVE  CoreInv'
<1>1. Writes(mem, {}) /\ at[Insert(r)] = "flush"
  BY CoreFacts, StillWrites DEF SteerFlushed, Follows, Saves
<1>2. UNCHANGED <<next, detached, told, stopped, torn, sent, recovery, ready, held>> /\ SameTurns
  BY DEF SteerFlushed, NotSteering, objects, SameTurns
<1>3. r <= next
  BY <1>1, LiveRow
<1>4. "idle" \in Places /\ "files" \in Places
  BY DEF Places
<1>5. CASE FlushOk /\ ~held /\ MayInsert(r) /\ admissions' = admissions \cup {r} /\ Go(Insert(r), "files") /\ UNCHANGED <<unsent, uncertain>>
           /\ \E q \in Target(r) : Picked(r, q)
  <2>1. PICK q \in Target(r) : Picked(r, q)
    BY <1>5
  <2>2. q \in Runs \cup {NoRun}
    BY <2>1, CoreFacts DEF Target, TurnTypes
  <2>3. InsertOnly(r)
    BY <1>2, <1>5, <2>1, <2>2, CoreFacts, PickTypes DEF InsertOnly, Picked
  <2>4. Queued(mem, r) /\ mem[r].steer = "none" /\ ~mem[r].planned /\ r \notin admissions
    BY <1>5 DEF MayInsert, Insertable
  <2>5. Known(r) /\ ~unknown /\ r \notin rest
    BY <1>5, <2>4, NothingUnsure
  <2>6. unsent[r] = NoRun
    BY <2>5, InsertFacts DEF AdmitOK
  <2>7. InsertMay(r, mem, "files")
    BY <1>1, <2>4, <2>5, InsertFacts DEF InsertMay
  <2>8. InsertMarks(r, mem, "files")
    BY <1>1, <1>2, <1>5, <2>6, InsertFacts DEF InsertMarks, AdmitOK, GivenOK, Queued
  <2>9. Moves(Insert(r), "files")
    BY <1>5 DEF Moves, Go
  <2> QED
    BY <1>1, <1>3, <1>4, <2>3, <2>7, <2>8, <2>9, InsertKeeps
<1>6. CASE Go(Insert(r), "idle") /\ Picked(r, NoRun) /\ UNCHANGED admissions
           /\ IF FlushUncertain /\ pick[Insert(r)] # NoRun /\ Queued(mem, r) /\ mem[r].steer = "none"
              THEN Unsent(r, pick[Insert(r)])
              ELSE UNCHANGED <<unsent, uncertain>>
  <2>1. NoRun \in Runs \cup {NoRun} /\ pick[Insert(r)] \in Runs \cup {NoRun}
    BY CoreFacts, TaskFacts DEF TaskTypes
  <2>2. UNCHANGED <<unsent, uncertain>> \/ (unknown /\ Unsent(r, pick[Insert(r)]))
    BY <1>6 DEF FlushUncertain
  <2>3. InsertOnly(r)
    <3>1. pick' \in [Tasks -> Runs \cup {NoRun}] /\ pick'[Pump] = pick[Pump] /\ pick'[Resolve] = pick[Resolve]
      <4>1. PICK k \in Runs \cup {NoRun} : k = NoRun
        BY <2>1
      <4>2. pick' = [pick EXCEPT ![Insert(r)] = k] /\ TaskTypes /\ MarkTypes
        BY <1>6, <4>1, CoreFacts DEF Picked
      <4> QED
        BY <4>2, PickTypes
    <3>2. /\ uncertain' \in SUBSET Runs /\ unsent' \in [Runs -> Runs \cup {NoRun}] /\ uncertain \subseteq uncertain'
          /\ \A q \in Runs \ {r} : (q \in uncertain' <=> q \in uncertain) /\ unsent'[q] = unsent[q]
      <4>1. PICK k \in Runs \cup {NoRun} : k = pick[Insert(r)]
        BY <2>1
      <4>2. CASE UNCHANGED <<unsent, uncertain>>
        BY <4>2, CoreFacts DEF MarkTypes
      <4>3. CASE unsent' = [unsent EXCEPT ![r] = k] /\ uncertain' = uncertain \cup {r}
        BY <4>3, CoreFacts DEF MarkTypes
      <4> QED
        BY <2>2, <4>1, <4>2, <4>3 DEF Unsent
    <3>3. admissions' \in SUBSET Runs /\ admissions' = admissions /\ sent' \in [Runs -> Nat] /\ sent' = sent
      BY <1>2, <1>6, CoreFacts DEF MarkTypes
    <3> QED
      BY <1>2, <3>1, <3>2, <3>3 DEF InsertOnly
  <2>4. InsertMay(r, mem, "idle")
    BY <1>1, InsertFacts DEF InsertMay
  <2>5. unsent'[r] # NoRun => (unknown \/ r \in rest) /\ r \in uncertain'
    BY <2>2, InsertFacts DEF AdmitOK, Unsent
  <2>6. InsertMarks(r, mem, "idle")
    BY <1>1, <1>2, <1>6, <2>5, InsertFacts DEF InsertMarks, GivenOK, Queued
  <2>7. Moves(Insert(r), "idle")
    BY <1>6 DEF Moves, Go
  <2> QED
    BY <1>1, <1>3, <1>4, <2>3, <2>4, <2>6, <2>7, InsertKeeps
<1> QED
  BY <1>5, <1>6 DEF SteerFlushed

(* The row of an instruction that goes back to the queue.                  *)
LEMMA BackRow ==
  ASSUME CoreInv, NEW r \in Runs, mem[r] # Gone
  PROVE  /\ BackInQueue(r) \in [Runs -> Raw]
         /\ BackInQueue(r)[r] # Gone /\ BackInQueue(r)[r].st = "queued" /\ BackInQueue(r)[r].steer = "none"
         /\ BackInQueue(r)[r].session = mem[r].session /\ BackInQueue(r)[r].planned = mem[r].planned
         /\ \A q \in Runs \ {r} : BackInQueue(r)[q] = mem[q]
<1>1. mem \in [Runs -> Raw] /\ mem[r] \in Rows
  BY CoreFacts DEF Slots
<1>2. PICK row : row = [mem[r] EXCEPT !.st = "queued", !.steer = "none", !.target = NoRun]
  OBVIOUS
<1>3. /\ row \in Rows /\ row.st = "queued" /\ row.steer = "none"
      /\ row.session = mem[r].session /\ row.planned = mem[r].planned
  BY <1>1, <1>2 DEF Rows
<1>4. BackInQueue(r) = [mem EXCEPT ![r] = row]
  BY <1>2 DEF BackInQueue
<1> QED
  BY <1>1, <1>3, <1>4, RowFacts DEF Raw

(* A change of the row of r by its insertion.                              *)
Marked(row, x, y, q) == [row EXCEPT !.st = x, !.steer = y, !.target = q]
(* How an insertion stands.                                                *)
Steers == {"none", "sending", "delivered", "uncertain"}

(* The row of an instruction that is marked.                               *)
LEMMA MarkRow ==
  ASSUME NEW row \in Rows, NEW x \in Statuses, NEW y \in Steers, NEW q \in Runs \cup {NoRun}
  PROVE  /\ Marked(row, x, y, q) \in Rows /\ Marked(row, x, y, q).st = x /\ Marked(row, x, y, q).steer = y
         /\ Marked(row, x, y, q).session = row.session /\ Marked(row, x, y, q).planned = row.planned
BY DEF Rows, Statuses, Marked, Steers


(* The instruction is put back, or was never marked.                       *)
LEMMA PutBackKeeps ==
  ASSUME CoreInv, NEW r \in Runs, at[Insert(r)] \in {"files", "putting"}, PutBack(r), UNCHANGED <<pick, sent>>, NotSteering
  PROVE  CoreInv'
<1>1. /\ Known(r) /\ unsent[r] = NoRun /\ r <= next
      /\ at[Insert(r)] = "files" => mem[r].steer = "none"
      /\ at[Insert(r)] = "putting" => mem[r].st = "running" /\ mem[r].steer = "sending"
  BY InsertFacts, LiveRow DEF InsertOK, Delivers
<1>2. UNCHANGED <<next, detached, told, stopped, torn, sent, unsent, uncertain, pick, recovery, ready, held>> /\ SameTurns
      /\ admissions' = admissions \ {r}
  BY DEF PutBack, NotSteering, objects, SameTurns
<1>3. InsertOnly(r)
  BY <1>2, NoRun \in Runs \cup {NoRun}, CoreFacts, PickTypes DEF InsertOnly
<1>4. "idle" \in Places /\ "backing" \in Places
  BY DEF Places
<1>5. CASE mem[r].steer # "none"
  <2>1. at[Insert(r)] = "putting" /\ Changed(BackInQueue(r), {r}) /\ Await(Insert(r), "backing", chain')
    BY <1>1, <1>5 DEF PutBack, Known
  <2>2. PICK m : m = BackInQueue(r)
    OBVIOUS
  <2>3. /\ m \in [Runs -> Raw] /\ m[r] # Gone /\ m[r].st = "queued"
        /\ m[r].session = mem[r].session /\ m[r].planned = mem[r].planned
        /\ \A q \in Runs \ {r} : m[q] = mem[q]
    BY <1>1, <2>2, BackRow DEF Known
  <2>4. Writes(m, {r})
    BY <2>1, <2>2, <2>3, CoreFacts, ChangedWrites DEF Changed
  <2>5. ~(r \in live /\ old[r] = Gone)
    BY <2>1, InsertFacts DEF LiveOK, Delivers
  <2>6. InsertMay(r, m, "backing")
    BY <1>1, <2>1, <2>3, <2>5 DEF InsertMay, Known
  <2>7. r \notin stale /\ r \notin torn => sent[r] = 0
    BY <2>1, InsertFacts DEF GivenOK, Delivers
  <2>8. InsertMarks(r, m, "backing")
    BY <1>1, <1>2, <2>7 DEF InsertMarks
  <2>9. Moves(Insert(r), "backing")
    BY <2>1 DEF Moves, Await
  <2> QED
    BY <1>1, <1>3, <1>4, <2>3, <2>4, <2>6, <2>8, <2>9, InsertKeeps
<1>6. CASE mem[r].steer = "none"
  <2>1. Go(Insert(r), "idle") /\ Writes(mem, {})
    BY <1>6, CoreFacts, StillWrites DEF PutBack
  <2>2. InsertMay(r, mem, "idle")
    BY <1>1, InsertFacts DEF InsertMay
  <2>3. InsertMarks(r, mem, "idle")
    BY <1>1, <1>2, InsertFacts DEF InsertMarks, GivenOK, Queued
  <2>4. Moves(Insert(r), "idle")
    BY <2>1 DEF Moves, Go
  <2> QED
    BY <1>1, <1>3, <1>4, <2>1, <2>2, <2>3, <2>4, InsertKeeps
<1> QED
  BY <1>5, <1>6

(* What the mark of an insertion does to the rows.                         *)
LEMMA MarksChange ==
  ASSUME CoreInv, NEW r \in Runs, SteerMarks(r), ~PutBack(r)
  PROVE  \E m \in [Runs -> Raw] :
           /\ Changed(m, {r}) /\ mem[r].st = "queued" /\ m[r] # Gone /\ m[r].st = "running" /\ m[r].steer = "sending"
           /\ m[r].session = mem[r].session /\ m[r].planned = mem[r].planned
           /\ \A k \in Runs \ {r} : m[k] = mem[k]
<1> DEFINE q == pick[Insert(r)]
<1>1. /\ Insertable(r) /\ at[Insert(r)] = "files"
      /\ Changed([mem EXCEPT ![r] = [@ EXCEPT !.st = "running", !.steer = "sending", !.target = q]], {r})
  BY DEF SteerMarks
<1>2. q \in Runs \cup {NoRun} /\ mem[r] # Gone
  <2>1. q \in Runs \cup {NoRun}
    BY NoRun \in Runs \cup {NoRun}, CoreFacts, PickTypes
  <2>2. Known(r)
    BY <1>1, InsertFacts DEF InsertOK
  <2> QED
    BY <2>1, <2>2 DEF Known
<1>3. mem[r] \in Rows
  BY <1>2, CoreFacts DEF Slots
<1>4. PICK row : row = Marked(mem[r], "running", "sending", q)
  OBVIOUS
<1>5. PICK m : m = [mem EXCEPT ![r] = row]
  OBVIOUS
<1>6. "running" \in Statuses /\ "sending" \in Steers
  BY DEF Statuses, Steers
<1>7. /\ row \in Rows /\ row.st = "running" /\ row.steer = "sending"
      /\ row.session = mem[r].session /\ row.planned = mem[r].planned
  BY <1>2, <1>3, <1>4, <1>6, MarkRow
<1>8. row \in Raw /\ row # Gone
  BY <1>7, RowFacts DEF Raw
<1>9. m \in [Runs -> Raw] /\ m[r] = row /\ \A k \in Runs \ {r} : m[k] = mem[k]
  BY <1>5, <1>8, CoreFacts
<1>10. Changed(m, {r})
  BY <1>1, <1>4, <1>5 DEF Marked
<1>11. mem[r].st = "queued"
  BY <1>1 DEF Insertable, Queued
<1> QED
  BY <1>7, <1>8, <1>9, <1>10, <1>11

(* The mark before the sending keeps the invariant.                        *)
LEMMA SteerMarksKeeps ==
  ASSUME CoreInv, NEW r \in Runs, SteerMarks(r)
  PROVE  CoreInv'
<1>1. at[Insert(r)] = "files" /\ UNCHANGED <<pick, sent>> /\ NotSteering
  BY DEF SteerMarks
<1>2. CASE PutBack(r)
  BY <1>1, <1>2, PutBackKeeps
<1>3. CASE ~PutBack(r)
  <2>1. Known(r) /\ unsent[r] = NoRun /\ r <= next
    BY <1>1, InsertFacts, LiveRow DEF InsertOK
  <2>2. /\ UNCHANGED <<next, detached, told, stopped, torn, sent, unsent, uncertain, pick, admissions, recovery, ready, held>>
        /\ SameTurns
        /\ Await(Insert(r), "putting", chain')
    BY <1>1, <1>3 DEF SteerMarks, NotSteering, objects, SameTurns
  <2>3. InsertOnly(r)
    BY <2>2, NoRun \in Runs \cup {NoRun}, CoreFacts, PickTypes DEF InsertOnly
  <2>4. PICK m \in [Runs -> Raw] :
           /\ Changed(m, {r}) /\ mem[r].st = "queued" /\ m[r] # Gone /\ m[r].st = "running" /\ m[r].steer = "sending"
           /\ m[r].session = mem[r].session /\ m[r].planned = mem[r].planned
           /\ \A k \in Runs \ {r} : m[k] = mem[k]
    BY <1>3, MarksChange
  <2>5. "putting" \in Places
    BY DEF Places
  <2>6. Writes(m, {r})
    BY <2>4, CoreFacts, ChangedWrites DEF Changed
  <2>7. ~(r \in live /\ old[r] = Gone)
    BY <2>4, InsertFacts
  <2>8. at[Stop(r)] # "noted"
    BY TaskFacts DEF SteerMarks, Room, Quiet
  <2>9. InsertMay(r, m, "putting")
    BY <1>1, <2>1, <2>4, <2>7, <2>8 DEF InsertMay, Known
  <2>10. r \notin stale /\ r \notin torn => sent[r] = 0
    BY <2>4, InsertFacts DEF GivenOK, Queued
  <2>11. InsertMarks(r, m, "putting")
    BY <2>1, <2>2, <2>10 DEF InsertMarks
  <2>12. Moves(Insert(r), "putting")
    BY <2>2 DEF Moves, Await
  <2> QED
    BY <2>1, <2>3, <2>4, <2>5, <2>6, <2>9, <2>11, <2>12, InsertKeeps
<1> QED
  BY <1>2, <1>3

(* A step of the insertion that leaves the rows alone.                     *)
LEMMA InsertStill ==
  ASSUME CoreInv, NEW r \in Runs, NEW place \in {"idle", "sent"}, Go(Insert(r), place), at[Insert(r)] # "idle",
         UNCHANGED <<rowVars, mem, admissions, pick, sent>>, NotSteering,
         UNCHANGED <<unsent, uncertain>> \/ (unknown /\ Unsent(r, pick[Insert(r)]) /\ place = "idle"),
         place = "sent" => at[Insert(r)] = "putting"
  PROVE  CoreInv'
<1>1. Writes(mem, {}) /\ r <= next /\ place \in Places /\ Moves(Insert(r), place)
  BY CoreFacts, StillWrites, LiveRow DEF Go, Moves, Places
<1>2. UNCHANGED <<next, detached, told, stopped, torn, sent, admissions, pick, recovery, ready, held>> /\ SameTurns
  BY DEF NotSteering, objects, SameTurns
<1>3. pick[Insert(r)] \in Runs \cup {NoRun}
  BY CoreFacts, TaskFacts DEF TaskTypes
<1>4. InsertOnly(r)
  <2>1. /\ uncertain' \in SUBSET Runs /\ unsent' \in [Runs -> Runs \cup {NoRun}] /\ uncertain \subseteq uncertain'
        /\ \A q \in Runs \ {r} : (q \in uncertain' <=> q \in uncertain) /\ unsent'[q] = unsent[q]
    <3>1. PICK k \in Runs \cup {NoRun} : k = pick[Insert(r)]
      BY <1>3
    <3>2. CASE UNCHANGED <<unsent, uncertain>>
      BY <3>2, CoreFacts DEF MarkTypes
    <3>3. CASE unsent' = [unsent EXCEPT ![r] = k] /\ uncertain' = uncertain \cup {r}
      BY <3>3, CoreFacts DEF MarkTypes
    <3> QED
      BY <3>1, <3>2, <3>3 DEF Unsent
  <2>2. pick' \in [Tasks -> Runs \cup {NoRun}] /\ admissions' \in SUBSET Runs /\ sent' \in [Runs -> Nat]
    BY <1>2, CoreFacts DEF MarkTypes, TaskTypes
  <2> QED
    BY <1>2, <2>1, <2>2 DEF InsertOnly
<1>5. place = "sent" => /\ Known(r) /\ at[Stop(r)] # "noted" /\ mem[r].st = "running" /\ mem[r].steer = "sending" /\ unsent[r] = NoRun
                        /\ ~(r \in live /\ old[r] = Gone)
                        /\ r \notin stale /\ r \notin torn => sent[r] = 0
  BY InsertFacts DEF InsertOK, Delivers, LiveOK, GivenOK
<1>6. InsertMay(r, mem, place)
  BY <1>5, InsertFacts DEF InsertMay
<1>7. unsent'[r] # NoRun => (unknown \/ r \in rest) /\ r \in uncertain'
  BY InsertFacts DEF AdmitOK, Unsent
<1>8. InsertMarks(r, mem, place)
  BY <1>2, <1>5, <1>7, InsertFacts DEF InsertMarks, GivenOK, Queued
<1> QED
  BY <1>1, <1>4, <1>6, <1>8, InsertKeeps

(* The sending keeps the invariant.                                        *)
LEMMA SteerSendsKeeps ==
  ASSUME CoreInv, NEW r \in Runs, SteerSends(r)
  PROVE  CoreInv'
<1>1. at[Insert(r)] = "putting" /\ UNCHANGED <<pick, sent>> /\ NotSteering
  BY DEF SteerSends, Saves
<1>2. CASE PutBack(r)
  BY <1>1, <1>2, PutBackKeeps
<1>3. CASE FlushUncertain /\ Unsent(r, pick[Insert(r)]) /\ Go(Insert(r), "idle") /\ UNCHANGED <<rowVars, mem, admissions>>
  <2>1. PICK place \in {"idle", "sent"} : place = "idle"
    OBVIOUS
  <2> QED
    BY <1>1, <1>3, <2>1, InsertStill DEF FlushUncertain
<1>4. CASE Go(Insert(r), "sent") /\ UNCHANGED <<rowVars, mem, admissions, uncertain, unsent>>
  <2>1. PICK place \in {"idle", "sent"} : place = "sent"
    OBVIOUS
  <2> QED
    BY <1>1, <1>4, <2>1, InsertStill
<1> QED
  BY <1>2, <1>3, <1>4 DEF SteerSends

(* The save of an instruction that is back in the queue keeps the          *)
(* invariant.                                                              *)
LEMMA SteerBackedKeeps ==
  ASSUME CoreInv, NEW r \in Runs, SteerBacked(r)
  PROVE  CoreInv'
<1>1. PICK place \in {"idle", "sent"} : place = "idle"
  OBVIOUS
<1>2. /\ Go(Insert(r), place) /\ at[Insert(r)] = "backing" /\ UNCHANGED <<rowVars, mem, admissions, pick, sent>> /\ NotSteering
      /\ UNCHANGED <<unsent, uncertain>> \/ (unknown /\ Unsent(r, pick[Insert(r)]) /\ place = "idle")
  BY <1>1 DEF SteerBacked, Saves, FlushUncertain
<1> QED
  BY <1>1, <1>2, InsertStill

(* What the answer makes of the row of r.                                  *)
Answered(row, x, y) == [row EXCEPT !.st = x, !.steer = y]
(* The row of an instruction the provider answered.                        *)
LEMMA AnsweredRow ==
  ASSUME NEW row \in Rows, NEW x \in Statuses, NEW y \in Steers
  PROVE  /\ Answered(row, x, y) \in Rows /\ Answered(row, x, y).st = x /\ Answered(row, x, y).steer = y
         /\ Answered(row, x, y).session = row.session /\ Answered(row, x, y).planned = row.planned
BY DEF Rows, Statuses, Steers, Answered

(* What the answer of a provider does to the rows.                         *)
LEMMA AnsweredChange ==
  ASSUME CoreInv, NEW r \in Runs, SteerAnswered(r)
  PROVE  /\ mem[r].st = "running" /\ mem[r] \in Rows
         /\ \E m \in [Runs -> Raw], taken \in BOOLEAN :
              /\ sent' = [sent EXCEPT ![r] = IF taken THEN @ + 1 ELSE @]
              /\ Changed(m, {r}) /\ m[r] # Gone
              /\ m[r].session = mem[r].session /\ m[r].planned = mem[r].planned
              /\ m[r].st = "queued" => ~taken
              /\ \A q \in Runs \ {r} : m[q] = mem[q]
<1>1. PICK taken \in BOOLEAN, sure \in BOOLEAN :
        /\ sent' = [sent EXCEPT ![r] = IF taken THEN @ + 1 ELSE @]
        /\ IF sure /\ ~taken
           THEN Changed(BackInQueue(r), {r})
           ELSE Changed([mem EXCEPT ![r] = IF sure THEN [@ EXCEPT !.steer = "delivered"]
                                           ELSE [@ EXCEPT !.steer = "uncertain", !.st = "error"]], {r})
  BY DEF SteerAnswered
<1>2. at[Insert(r)] = "sent"
  BY DEF SteerAnswered
<1>3. mem[r].st = "running" /\ mem[r] # Gone /\ mem[r] \in Rows
  BY <1>2, InsertFacts DEF InsertOK, Delivers, Known
<1>4. CASE sure /\ ~taken
  <2>1. PICK m : m = BackInQueue(r)
    OBVIOUS
  <2>2. /\ m \in [Runs -> Raw] /\ m[r] # Gone
        /\ m[r].session = mem[r].session /\ m[r].planned = mem[r].planned
        /\ \A q \in Runs \ {r} : m[q] = mem[q]
    BY <1>3, <2>1, BackRow
  <2>3. Changed(m, {r})
    BY <1>1, <1>4, <2>1
  <2> QED
    BY <1>1, <1>3, <1>4, <2>2, <2>3
<1>5. CASE ~(sure /\ ~taken)
  <2>1. PICK row : row = IF sure THEN Answered(mem[r], "running", "delivered") ELSE Answered(mem[r], "error", "uncertain")
    OBVIOUS
  <2>2. "running" \in Statuses /\ "error" \in Statuses /\ "delivered" \in Steers /\ "uncertain" \in Steers
    BY DEF Statuses, Steers, Finished
  <2>3. row \in Rows /\ row.st \in {"running", "error"} /\ row.session = mem[r].session /\ row.planned = mem[r].planned
    BY <1>3, <2>1, <2>2, AnsweredRow
  <2>4. row = IF sure THEN [mem[r] EXCEPT !.steer = "delivered"] ELSE [mem[r] EXCEPT !.steer = "uncertain", !.st = "error"]
    <3>1. PICK k \in Rows : k = mem[r]
      BY <1>3
    <3>2. k.st = "running" /\ [k EXCEPT !.st = "running", !.steer = "delivered"] = [k EXCEPT !.steer = "delivered"]
          /\ [k EXCEPT !.st = "error", !.steer = "uncertain"] = [k EXCEPT !.steer = "uncertain", !.st = "error"]
      BY <1>3, <3>1 DEF Rows
    <3> QED
      BY <2>1, <3>1, <3>2 DEF Answered
  <2>5. PICK m : m = [mem EXCEPT ![r] = row]
    OBVIOUS
  <2>6. Changed(m, {r})
    BY <1>1, <1>5, <2>4, <2>5
  <2>7. row \in Raw /\ row # Gone
    BY <2>3, RowFacts DEF Raw
  <2>8. m \in [Runs -> Raw] /\ m[r] = row /\ \A q \in Runs \ {r} : m[q] = mem[q]
    BY <2>5, <2>7, CoreFacts
  <2>9. m[r].st # "queued"
    BY <2>3, <2>8
  <2> QED
    BY <1>1, <1>3, <2>3, <2>6, <2>7, <2>8, <2>9
<1> QED
  BY <1>4, <1>5

(* The answer of the provider keeps the invariant.                         *)
LEMMA SteerAnsweredKeeps ==
  ASSUME CoreInv, NEW r \in Runs, SteerAnswered(r)
  PROVE  CoreInv'
<1>1. PICK m \in [Runs -> Raw], taken \in BOOLEAN :
        /\ sent' = [sent EXCEPT ![r] = IF taken THEN @ + 1 ELSE @]
        /\ Changed(m, {r}) /\ m[r] # Gone
        /\ m[r].session = mem[r].session /\ m[r].planned = mem[r].planned
        /\ m[r].st = "queued" => ~taken
        /\ \A q \in Runs \ {r} : m[q] = mem[q]
  BY AnsweredChange
<1>2. /\ at[Insert(r)] = "sent" /\ Await(Insert(r), "answered", chain') /\ NotSteering
      /\ UNCHANGED <<uncertain, unsent, pick>> /\ admissions' = admissions \ {r}
  BY DEF SteerAnswered
<1>3. UNCHANGED <<next, detached, told, stopped, torn, unsent, uncertain, pick, recovery, ready, held>> /\ SameTurns
  BY <1>2 DEF NotSteering, objects, SameTurns
<1>4. /\ Known(r) /\ unsent[r] = NoRun /\ r <= next /\ mem[r].st = "running" /\ mem[r].steer = "sending"
      /\ ~(r \in live /\ old[r] = Gone) /\ mem[r] # Gone
      /\ r \notin stale /\ r \notin torn => sent[r] = 0
  BY <1>2, InsertFacts, LiveRow DEF InsertOK, Delivers, LiveOK, GivenOK, Known
<1>5. /\ sent' \in [Runs -> Nat] /\ \A q \in Runs \ {r} : sent'[q] = sent[q]
      /\ r \notin stale /\ r \notin torn => sent'[r] <= 1 /\ (sent'[r] = 1 => taken)
  <2>1. PICK n : n = sent[r]
    OBVIOUS
  <2>2. n \in Nat /\ n + 1 \in Nat /\ (r \notin stale /\ r \notin torn => n = 0)
    BY <1>4, <2>1, InsertFacts
  <2>3. sent' = [sent EXCEPT ![r] = IF taken THEN n + 1 ELSE n]
    BY <1>1, <2>1
  <2> QED
    BY <2>2, <2>3, CoreFacts DEF MarkTypes
<1>6. InsertOnly(r)
  BY <1>2, <1>3, <1>5, CoreFacts DEF InsertOnly, MarkTypes, TaskTypes
<1>7. Writes(m, {r})
  BY <1>1, CoreFacts, ChangedWrites DEF Changed
<1>8. InsertMay(r, m, "answered")
  BY <1>1, <1>2, <1>4 DEF InsertMay
<1>9. InsertMarks(r, m, "answered")
  BY <1>1, <1>3, <1>4, <1>5 DEF InsertMarks
<1>10. Moves(Insert(r), "answered") /\ "answered" \in Places
  BY <1>2 DEF Moves, Await, Places
<1> QED
  BY <1>1, <1>4, <1>6, <1>7, <1>8, <1>9, <1>10, InsertKeeps

(* What an answer that could not be saved does to the rows.                *)
LEMMA SettledChange ==
  ASSUME CoreInv, NEW r \in Runs, SteerSettled(r), ~UNCHANGED <<rowVars, mem>>
  PROVE  \E m \in [Runs -> Raw] :
           /\ Changed(m, {r}) /\ m[r] # Gone /\ m[r].st = "error"
           /\ m[r].session = mem[r].session /\ m[r].planned = mem[r].planned
           /\ \A q \in Runs \ {r} : m[q] = mem[q]
<1>1. mem[r] # Gone /\ Changed([mem EXCEPT ![r] = [@ EXCEPT !.steer = "uncertain", !.st = "error"]], {r})
  BY DEF SteerSettled
<1>2. PICK row : row = Answered(mem[r], "error", "uncertain")
  OBVIOUS
<1>3. "error" \in Statuses /\ "uncertain" \in Steers /\ mem[r] \in Rows
  BY <1>1, CoreFacts DEF Statuses, Steers, Finished, Slots
<1>4. row \in Rows /\ row.st = "error" /\ row.session = mem[r].session /\ row.planned = mem[r].planned
  BY <1>2, <1>3, AnsweredRow
<1>5. row = [mem[r] EXCEPT !.steer = "uncertain", !.st = "error"]
  <2>1. PICK k \in Rows : k = mem[r]
    BY <1>3
  <2>2. [k EXCEPT !.st = "error", !.steer = "uncertain"] = [k EXCEPT !.steer = "uncertain", !.st = "error"]
    BY <2>1 DEF Rows
  <2> QED
    BY <1>2, <2>1, <2>2 DEF Answered
<1>6. PICK m : m = [mem EXCEPT ![r] = row]
  OBVIOUS
<1>7. Changed(m, {r})
  BY <1>1, <1>5, <1>6
<1>8. row \in Raw /\ row # Gone
  BY <1>4, RowFacts DEF Raw
<1>9. m \in [Runs -> Raw] /\ m[r] = row /\ \A q \in Runs \ {r} : m[q] = mem[q]
  BY <1>6, <1>8, CoreFacts
<1> QED
  BY <1>4, <1>7, <1>8, <1>9

(* The save of that answer keeps the invariant.                            *)
LEMMA SteerSettledKeeps ==
  ASSUME CoreInv, NEW r \in Runs, SteerSettled(r)
  PROVE  CoreInv'
<1>1. /\ at[Insert(r)] = "answered" /\ Go(Insert(r), "idle") /\ NotSteering
      /\ UNCHANGED <<admissions, uncertain, unsent, pick, sent>>
  BY DEF SteerSettled, Saves
<1>2. CASE UNCHANGED <<rowVars, mem>>
  <2>1. PICK place \in {"idle", "sent"} : place = "idle"
    OBVIOUS
  <2> QED
    BY <1>1, <1>2, <2>1, InsertStill
<1>3. CASE ~UNCHANGED <<rowVars, mem>>
  <2>1. PICK m \in [Runs -> Raw] :
           /\ Changed(m, {r}) /\ m[r] # Gone /\ m[r].st = "error"
           /\ m[r].session = mem[r].session /\ m[r].planned = mem[r].planned
           /\ \A q \in Runs \ {r} : m[q] = mem[q]
    BY <1>3, SettledChange
  <2>2. "idle" \in Places /\ r <= next /\ mem[r] # Gone
    BY <1>1, <1>3, LiveRow DEF Places, SteerSettled
  <2>3. Writes(m, {r})
    BY <2>1, CoreFacts, ChangedWrites DEF Changed
  <2>4. UNCHANGED <<next, detached, told, stopped, torn, admissions, uncertain, unsent, pick, sent, recovery, ready, held>> /\ SameTurns
    BY <1>1 DEF NotSteering, objects, SameTurns
  <2>5. InsertOnly(r)
    BY <2>4, CoreFacts DEF InsertOnly, MarkTypes, TaskTypes
  <2>6. InsertMay(r, m, "idle")
    BY <1>1, <2>1, <2>2 DEF InsertMay
  <2>7. InsertMarks(r, m, "idle")
    BY <2>1, <2>4, InsertFacts DEF InsertMarks, AdmitOK, GivenOK
  <2>8. Moves(Insert(r), "idle")
    BY <1>1 DEF Moves, Go
  <2> QED
    BY <2>1, <2>2, <2>3, <2>5, <2>6, <2>7, <2>8, InsertKeeps
<1> QED
  BY <1>2, <1>3

-----------------------------------------------------------------------------
(* A turn ends.                                                            *)

(* The row of a turn that ends.                                            *)
LEMMA EndingRow ==
  ASSUME CoreInv, NEW r \in live, NEW o \in {"completed", "error"}
  PROVE  /\ Ending(r, o) \in [Runs -> Raw]
         /\ \A q \in Runs \ {r} : Ending(r, o)[q] = mem[q]
         /\ Ending(r, o)[r] = mem[r] \/ Ends(Ending(r, o), r)
<1>1. r \in Runs /\ mem \in [Runs -> Raw] /\ mem[r] \in Slots
  BY CoreFacts DEF TurnTypes
<1>2. CASE mem[r].st = "cancelled" \/ old[r] # Gone
  BY <1>1, <1>2 DEF Ending, OfMap
<1>3. CASE mem[r].st # "cancelled" /\ old[r] = Gone
  <2>1. Known(r) /\ ~Delivers(r) /\ mem[r] # Gone /\ mem[r] \in Rows
    BY <1>1, <1>3, InsertFacts DEF LiveOK, Known
  <2>2. PICK row : row = [mem[r] EXCEPT !.st = o]
    OBVIOUS
  <2>3. row \in Rows
    BY <2>1, <2>2 DEF Rows, Finished
  <2>4. PICK m : m = [mem EXCEPT ![r] = row]
    OBVIOUS
  <2>5. m = Ending(r, o)
    BY <1>3, <2>2, <2>4 DEF Ending, OfMap
  <2>6. m \in [Runs -> Raw] /\ m[r] = row /\ \A q \in Runs \ {r} : m[q] = mem[q]
    BY <1>1, <2>3, <2>4 DEF Raw
  <2>7. Ends(m, r)
    BY <2>1, <2>2, <2>6 DEF Ends, Finished
  <2> QED
    BY <2>5, <2>6, <2>7
<1> QED
  BY <1>2, <1>3

(* The end of a turn keeps the invariant.                                  *)
LEMMA ExitedKeeps ==
  ASSUME CoreInv, Exited
  PROVE  CoreInv'
<1>1. PICK r \in live :
       /\ live' = live \ {r} /\ reserved' = reserved \ {Object(r).session}
       /\ old' = [old EXCEPT ![r] = Gone]
       /\ \/ \E outcome \in {"completed", "error"} : Changed(Ending(r, outcome), {r}) /\ UNCHANGED next
          \/ /\ MayPlan(r) /\ next' = next + 1
             /\ Changed([Ending(r, "completed") EXCEPT ![next + 1] = QueuedRun(Object(r).session, TRUE)], {r, next + 1})
  BY DEF Exited
<1>2. /\ UNCHANGED <<admissions, uncertain, unsent, detached, told, sent, torn, stopped>>
      /\ UNCHANGED <<pick, todo, stale>> /\ UNCHANGED <<at, left>> /\ UNCHANGED <<recovery, ready, held>>
  BY DEF Exited, Steady, Working, history
<1>3. r \in Runs /\ r <= next /\ r \in Nat /\ next \in Nat /\ LiveOK(r)
  BY CoreFacts, LiveRow DEF TurnTypes
<1>4. /\ old' \in [Runs -> Raw] /\ old'[r] = Gone /\ \A q \in Runs \ {r} : old'[q] = old[q]
  BY <1>1, <1>3, RowFacts, CoreFacts DEF TurnTypes
<1>5. TurnTypes'
  BY <1>1, <1>2, <1>4, CoreFacts DEF TurnTypes
<1>6. \A q \in Runs : OldStays(q) /\ SameMarks(q) /\ (q # r => SameObject(q))
  BY <1>2, <1>4 DEF OldStays, SameMarks, SameObject
<1>7. /\ Moves(Resolve, at[Resolve]) /\ at[Resolve] \in Places /\ Resolve \in Tasks
      /\ Fits(Resolve, at[Resolve])
      /\ \A q \in Runs : Resolve \notin {Admit(q), Insert(q)}
      /\ pick' \in [Tasks -> Runs \cup {NoRun}]
  <2>1. UNCHANGED <<at, left, pick, recovery>> /\ (ready => ready') /\ (at[Resolve] # "idle" => held')
    BY <1>2, CoreFacts DEF ResolveOK
  <2>2. pick' \in [Tasks -> Runs \cup {NoRun}]
    BY <2>1, CoreFacts DEF TaskTypes
  <2> QED
    BY <2>1, <2>2, Stays
<1>8. PICK m, touched, place :
        /\ m \in [Runs -> Raw] /\ touched \in SUBSET Runs /\ Writes(m, touched) /\ next' \in Nat /\ next <= next'
        /\ place = at[Resolve] /\ place \in Places /\ Fits(Resolve, place) /\ Moves(Resolve, place)
        /\ \A q \in Runs : RunOK(q)' /\ Firm(q)
  <2>1. PICK place \in Places : place = at[Resolve] /\ Fits(Resolve, place) /\ Moves(Resolve, place)
    BY <1>7
  <2>2. CASE \E outcome \in {"completed", "error"} : Changed(Ending(r, outcome), {r}) /\ UNCHANGED next
    <3>1. PICK o \in {"completed", "error"} : Changed(Ending(r, o), {r}) /\ UNCHANGED next
      BY <2>2
    <3>2. PICK m : m = Ending(r, o)
      OBVIOUS
    <3>3. /\ m \in [Runs -> Raw] /\ {r} \in SUBSET Runs
          /\ \A q \in Runs \ {r} : m[q] = mem[q]
          /\ m[r] = mem[r] \/ Ends(m, r)
      BY <1>3, <3>2, EndingRow
    <3>4. Writes(m, {r})
      BY <3>1, <3>2, <3>3, CoreFacts, ChangedWrites DEF Changed
    <3>5. \A q \in Runs : Stands(q, m, {r}, Resolve)
      BY <1>3, <1>6, <1>7, <3>3 DEF Stands
    <3>6. next' \in Nat /\ next <= next'
      BY <1>3, <3>1
    <3>7. \A q \in Runs : RunOK(q)' /\ Firm(q)
      BY <1>7, <2>1, <3>3, <3>4, <3>5, <3>6, StandsStays
    <3> QED
      BY <2>1, <3>3, <3>4, <3>6, <3>7
  <2>3. CASE /\ MayPlan(r) /\ next' = next + 1
             /\ Changed([Ending(r, "completed") EXCEPT ![next + 1] = QueuedRun(Object(r).session, TRUE)], {r, next + 1})
    <3>1. PICK b : b = next + 1
      OBVIOUS
    <3>2. b \in Runs /\ b # r /\ next' = b /\ next <= next' /\ next' \in Nat
      BY <1>3, <2>3, <3>1, RunQueueAssumption DEF MayPlan, Runs
    <3>3. PICK s \in Sessions : s = Object(r).session
      BY <1>3, CoreFacts, RowFacts DEF LiveOK, Object, Known
    <3>4. PICK e : e = Ending(r, "completed")
      OBVIOUS
    <3>5. /\ e \in [Runs -> Raw]
          /\ \A q \in Runs \ {r} : e[q] = mem[q]
          /\ e[r] = mem[r] \/ Ends(e, r)
      BY <3>4, EndingRow
    <3>6. PICK row : row = QueuedRun(s, TRUE)
      OBVIOUS
    <3>7. row \in Raw
      BY <3>6 DEF QueuedRun, Raw, Rows
    <3>8. PICK m : m = [e EXCEPT ![b] = row]
      OBVIOUS
    <3>9. m \in [Runs -> Raw] /\ m[b] = row /\ \A q \in Runs \ {b} : m[q] = e[q]
      BY <3>2, <3>5, <3>7, <3>8
    <3>10. Changed(m, {r, b})
      BY <2>3, <3>1, <3>3, <3>4, <3>6, <3>8
    <3>11. Writes(m, {r, b}) /\ {r, b} \in SUBSET Runs
      BY <1>3, <3>2, <3>9, <3>10, CoreFacts, ChangedWrites DEF Changed
    <3>12. Ends(e, r) => Ends(m, r)
      BY <1>3, <3>2, <3>9 DEF Ends
    <3>13. \A q \in Runs \ {b} : m[q] = mem[q] \/ Ends(m, q)
      BY <3>5, <3>9, <3>12
    <3>14. ASSUME NEW q \in Runs \ {b} PROVE Stands(q, m, {r, b}, Resolve)
      BY <1>3, <1>6, <1>7, <3>13 DEF Stands
    <3>15. ASSUME NEW q \in Runs \ {b} PROVE RunOK(q)' /\ Firm(q)
      BY <1>7, <2>1, <3>2, <3>11, <3>14, StandsStays
    <3>16. RunOK(b)' /\ Firm(b)
      <4>1. b \in {r, b} /\ b = next + 1 /\ next' = b
        BY <3>1, <3>2
      <4>2. PICK p \in BOOLEAN : p = TRUE
        OBVIOUS
      <4>3. m[b] = QueuedRun(s, p) /\ (p \/ b \in admissions')
        BY <3>6, <3>9, <4>2
      <4>4. at'[Admit(b)] = "idle" /\ at'[Insert(b)] = at[Insert(b)]
        BY <1>2, <1>3, <3>1, <3>2, CoreFacts DEF RunOK, UnusedOK
      <4>5. /\ at'[Admit(b)] \in {"idle", "saving", "trusting"}
            /\ at'[Admit(b)] = "saving" => left'[Admit(b)] = Len(chain')
            /\ at'[Admit(b)] # "idle" => b \in admissions'
        BY <4>4
      <4>6. /\ old'[b] \in {old[b], Gone}
            /\ b \in stale => b \in stale'
            /\ unsent'[b] = unsent[b] /\ told'[b] = told[b] /\ sent'[b] = sent[b]
            /\ b \in uncertain' <=> b \in uncertain
            /\ b \in detached' <=> b \in detached
        BY <1>2, <1>4, <3>2
      <4> QED
        BY <1>7, <2>1, <3>11, <4>1, <4>3, <4>4, <4>5, <4>6, BornOK
    <3>17. \A q \in Runs : RunOK(q)' /\ Firm(q)
      BY <3>15, <3>16
    <3> QED
      BY <2>1, <3>2, <3>9, <3>11, <3>17
  <2> QED
    BY <1>1, <2>2, <2>3
<1>9. RowTypes' /\ TaskTypes' /\ LeftOK' /\ ResolveOK' /\ RestTypes'
  BY <1>7, <1>8, ActFacts
<1>10. MarkTypes'
  BY <1>2, <1>8, CoreFacts DEF MarkTypes
<1>11. /\ \A q \in Runs : LiveOK(q) /\ Firm(q)
       /\ PumpOK /\ live \in SUBSET Runs /\ live' \in SUBSET live
       /\ next \in Nat /\ next' \in Nat /\ next <= next'
  BY <1>1, <1>8, CoreFacts DEF TurnTypes
<1>12. \A q \in live' : SameObject(q) /\ Object(q).session \in reserved'
  BY <1>1, <1>6, <1>11 DEF PumpOK, OneTurnPerSession, LiveOK
<1>13. /\ at'[Pump] = at[Pump] /\ pick'[Pump] = pick[Pump] /\ todo' = todo
       /\ at[Pump] \in {"look", "looked", "preparing"} => SameObject(pick[Pump])
       /\ at[Pump] = "preparing" => Object(pick[Pump]).session \in reserved'
  <2>1. PICK k : k = pick[Pump]
    OBVIOUS
  <2>2. /\ at[Pump] \in {"look", "looked", "preparing"} => k \in Runs /\ k # r
        /\ at[Pump] = "preparing" => Object(k).session \in reserved /\ Object(r).session # Object(k).session
    BY <1>11, <2>1 DEF PumpOK
  <2> QED
    BY <1>1, <1>2, <1>6, <2>1, <2>2
<1>14. PumpOK' /\ \A q \in Runs : LiveOK(q)'
  BY <1>11, <1>12, <1>13, PumpStays
<1> QED
  BY <1>5, <1>8, <1>9, <1>10, <1>14 DEF CoreInv, TypeOK

-----------------------------------------------------------------------------
(* The receipt of an unknown save is read.                                 *)

(* A run that leaves the map while a pass holds it goes on there as it     *)
(* was.                                                                    *)
LEMMA DetachFacts ==
  ASSUME CoreInv, NEW R \in SUBSET Runs, Detach(R)
  PROVE  /\ stale \subseteq stale' /\ stale' \in SUBSET Runs /\ detached' \in SUBSET Runs /\ old' \in [Runs -> Raw]
         /\ \A q \in Runs : SameObject(q) /\ OldStays(q)
         /\ \A q \in Runs : old'[q] = old[q] \/ q \in R
         /\ \A q \in Runs : q \in detached' <=> q \in detached \/ (q \in R /\ at[Admit(q)] \in {"trusting", "creating", "failing"})
<1>1. PICK D : D = {q \in R \cap todo : Queued(mem, q) /\ old[q] = Gone}
  OBVIOUS
<1>2. D \subseteq R /\ \A q \in D : mem[q].st = "queued" /\ old[q] = Gone /\ mem[q] # Gone
  BY <1>1, RowFacts DEF Queued
<1>3. /\ old' = [q \in Runs |-> IF q \in D THEN mem[q] ELSE old[q]] /\ stale' = stale \cup D
      /\ detached' = detached \cup {q \in R : at[Admit(q)] \in {"trusting", "creating", "failing"}}
  BY <1>1 DEF Detach
<1>4. old' \in [Runs -> Raw]
  BY <1>3, CoreFacts DEF TurnTypes
<1>5. stale' \in SUBSET Runs /\ detached' \in SUBSET Runs /\ stale \subseteq stale'
  BY <1>2, <1>3, CoreFacts DEF TurnTypes, MarkTypes
<1>6. \A q \in Runs : SameObject(q) /\ OldStays(q) /\ (old'[q] = old[q] \/ q \in R)
  BY <1>2, <1>3 DEF SameObject, OldStays
<1> QED
  BY <1>3, <1>4, <1>5, <1>6

(* How a run is settled: one that is not new keeps its row or ends, and    *)
(* only a new one may leave the map.                                       *)
LEMMA SettledRow ==
  ASSUME CoreInv, NEW r \in Runs
  PROVE  /\ Settled(r) \in Slots
         /\ ~New(r) => /\ ~Removed(r) /\ ~Replaced(r)
                       /\ Settled(r) = Gone <=> mem[r] = Gone
                       /\ Settled(r) # Gone => Settled(r).session = mem[r].session
                       /\ Settled(r) = mem[r] \/ Settled(r).st = "error"
                       /\ unsent[r] = NoRun => Settled(r) = mem[r]
<1>1. /\ mem[r] \in Slots /\ unsent[r] \in Runs \cup {NoRun} /\ found[r] \in Slots \cup {Unread}
      /\ mem[r] # Gone => mem[r].keep \in BOOLEAN
  BY CoreFacts, RowFacts DEF MarkTypes, RestTypes
<1>2. PICK row : row = IF Replaced(r) THEN [found[r] EXCEPT !.keep = Queued(found, r) /\ mem[r] # Gone /\ mem[r].keep] ELSE mem[r]
  OBVIOUS
<1>3. row \in Slots
  <2>1. CASE Replaced(r)
    <3>1. PICK w \in Rows : w = found[r]
      BY <1>1, <2>1 DEF Replaced, New, Slots
    <3>2. PICK b \in BOOLEAN : b = (Queued(found, r) /\ mem[r] # Gone /\ mem[r].keep)
      OBVIOUS
    <3>3. row = [w EXCEPT !.keep = b] /\ (b => w.st = "queued")
      BY <1>2, <2>1, <3>1, <3>2 DEF Queued
    <3>4. row \in Rows /\ row.st = w.st /\ row.keep = b
      BY <3>1, <3>3 DEF Rows
    <3> QED
      BY <3>3, <3>4 DEF Slots
  <2> QED
    BY <1>1, <1>2, <2>1
<1>4. Settled(r) = IF Removed(r) \/ row = Gone THEN Gone
                   ELSE IF unsent[r] # NoRun THEN NeverSent(row, unsent[r]) ELSE row
  BY <1>2 DEF Settled
<1>5. ASSUME row # Gone
      PROVE  /\ NeverSent(row, unsent[r]) \in Slots /\ NeverSent(row, unsent[r]) # Gone
             /\ NeverSent(row, unsent[r]).st = "error" /\ NeverSent(row, unsent[r]).session = row.session
  <2>1. PICK k \in Rows : k = row
    BY <1>3, <1>5 DEF Slots
  <2>2. PICK q \in Runs \cup {NoRun} : q = unsent[r]
    BY <1>1
  <2>3. PICK w : w = [k EXCEPT !.st = "error", !.steer = "uncertain", !.target = q, !.keep = FALSE]
    OBVIOUS
  <2>4. w \in Rows /\ w.st = "error" /\ w.session = k.session /\ w.keep = FALSE
    BY <2>1, <2>2, <2>3 DEF Rows, Finished
  <2>5. w \in Slots /\ w # Gone
    BY <2>4, RowFacts DEF Slots
  <2> QED
    BY <2>1, <2>2, <2>3, <2>4, <2>5 DEF NeverSent
<1>6. Settled(r) \in Slots
  BY <1>3, <1>4, <1>5, RowFacts
<1>7. ASSUME ~New(r)
      PROVE  /\ ~Removed(r) /\ ~Replaced(r)
             /\ Settled(r) = Gone <=> mem[r] = Gone
             /\ Settled(r) # Gone => Settled(r).session = mem[r].session
             /\ Settled(r) = mem[r] \/ Settled(r).st = "error"
             /\ unsent[r] = NoRun => Settled(r) = mem[r]
  <2>1. ~Removed(r) /\ ~Replaced(r)
    BY <1>7 DEF New, Removed, Replaced, Gone, Unread
  <2>2. row = mem[r]
    BY <1>2, <2>1
  <2> QED
    BY <1>4, <1>5, <2>1, <2>2
<1> QED
  BY <1>6, <1>7

-----------------------------------------------------------------------------
(* The pump.                                                               *)

(* What the pump leaves alone.                                             *)
PumpOther ==
  /\ UNCHANGED <<next, admissions, uncertain, unsent, detached, stale, told, sent, torn, stopped, live>>
  /\ UNCHANGED <<recovery, ready>> /\ pick'[Resolve] = pick[Resolve] /\ (held => held')
(* The pump is at one run.                                                 *)
Site(place) == place \in {"look", "looked", "preparing"}

(* A step of the pump that starts no turn.                                 *)
LEMMA PumpActs ==
  ASSUME CoreInv, NEW m, NEW touched \in SUBSET Runs, Writes(m, touched),
         NEW place \in Places, Moves(Pump, place), PumpOther,
         pick' \in [Tasks -> Runs \cup {NoRun}], todo' \in SUBSET Runs, reserved' \in SUBSET Sessions,
         old' \in [Runs -> Raw],
         \A r \in Runs : old'[r] \in {old[r], Gone},
         \A r \in Runs : (r \in touched => r <= next) /\ (m[r] = mem[r] \/ Ends(m, r)),
         \A r \in live : old'[r] = old[r] /\ Object(r).session \in reserved',
         NEW p, pick'[Pump] = p,
         Site(place) => /\ p \in Runs /\ p <= next /\ p \in todo' /\ p \notin live /\ old'[p] = old[p]
                        /\ old[p] # Gone \/ ~Pending(p),
         place = "preparing" => /\ old[p] # Gone \/ Known(p)
                                /\ Object(p).session \in reserved'
                                /\ \A q \in live : Object(q).session # Object(p).session
  PROVE  CoreInv'
<1>1. MarkTypes' /\ \A r \in Runs : SameMarks(r)
  BY CoreFacts DEF MarkTypes, PumpOther, SameMarks
<1>2. TurnTypes' /\ \A r \in Runs : OldStays(r)
  BY CoreFacts DEF TurnTypes, PumpOther, OldStays
<1>3. next' \in Nat /\ next <= next'
  BY CoreFacts DEF PumpOther
<1>4. Pump \in Tasks /\ Pump # Resolve /\ \A r \in Runs : Pump \notin {Admit(r), Insert(r)}
  BY TaskFacts
<1>5. Fits(Pump, place)
  <2>1. Pump # Resolve /\ (\A r \in Runs : Pump # Stop(r)) /\ ResolveOK
    BY CoreFacts, TaskFacts
  <2> QED
    BY <2>1, FitsOther DEF PumpOther
<1>6. ASSUME NEW r \in Runs PROVE Stands(r, m, touched, Pump)
  BY <1>1, <1>2, <1>4 DEF Stands
<1>7. ASSUME NEW r \in Runs PROVE RunOK(r)' /\ Firm(r)
  BY <1>3, <1>4, <1>6, <1>5, StandsStays
<1>8. TypeOK' /\ LeftOK' /\ ResolveOK' /\ at'[Pump] = place
  BY <1>1, <1>2, <1>4, <1>5, ActFacts DEF TypeOK
<1>9. \A r \in Runs : LiveOK(r) /\ Firm(r)
  BY <1>7, CoreFacts
<1>10. OneTurnPerSession /\ live \in SUBSET Runs /\ live' = live
  BY CoreFacts DEF PumpOK, TurnTypes, PumpOther
<1>11. \A r \in live' : SameObject(r) /\ Object(r).session \in reserved'
  BY <1>10 DEF SameObject
<1>12. /\ \A r \in Runs : LiveOK(r)'
       /\ OneTurnPerSession'
       /\ \A r \in live' : Object(r)'.session = Object(r).session
  BY <1>9, <1>10, <1>11, LiveStays
<1>13. ASSUME Site(place)
       PROVE  /\ old'[p] # Gone \/ ~Pending(p)'
              /\ place = "preparing" => /\ Object(p)'.session = Object(p).session
                                        /\ old'[p] # Gone \/ Known(p)'
  <2>1. p \in Runs /\ p <= next /\ old'[p] = old[p] /\ Firm(p) /\ (old[p] # Gone \/ ~Pending(p))
    BY <1>9, <1>13
  <2>2. old'[p] # Gone \/ ~Pending(p)'
    BY <2>1 DEF Firm
  <2> QED
    BY <2>1, <2>2, ObjectStays DEF SameObject
<1>14. PumpOK'
  <2>1. Site(place) => /\ p \in Runs /\ p <= next' /\ p \in todo' /\ p \notin live'
                       /\ old'[p] # Gone \/ ~Pending(p)'
    <3>1. CASE Site(place)
      <4>1. next' = next
        BY DEF PumpOther
      <4> QED
        BY <1>10, <1>13, <3>1, <4>1
    <3> QED
      BY <3>1
  <2>2. place = "preparing" => /\ old'[p] # Gone \/ Known(p)'
                               /\ Object(p)'.session \in reserved'
                               /\ \A q \in live' : Object(q)'.session # Object(p)'.session
    <3>1. CASE place = "preparing"
      <4>1. Object(p)'.session = Object(p).session /\ (old'[p] # Gone \/ Known(p)')
        BY <1>13, <3>1 DEF Site
      <4> QED
        BY <1>10, <1>12, <3>1, <4>1
    <3> QED
      BY <3>1
  <2>3. (at[Pump])' = place /\ (pick[Pump])' = p
    BY <1>8
  <2> QED
    BY <2>1, <2>2, <2>3, <1>12 DEF PumpOK, Site
<1> QED
  BY <1>7, <1>8, <1>12, <1>14 DEF CoreInv

(* The types of what the pump keeps.                                       *)
LEMMA PumpTypes ==
  ASSUME CoreInv
  PROVE  /\ \A r \in Runs : old[r] \in {old[r], Gone}
         /\ \A r \in live : r \in Runs /\ Object(r).session \in reserved
         /\ pick \in [Tasks -> Runs \cup {NoRun}] /\ todo \in SUBSET Runs /\ reserved \in SUBSET Sessions
         /\ old \in [Runs -> Raw] /\ {} \in SUBSET Runs
         /\ \A r \in Runs : (r \in {} => r <= next) /\ (mem[r] = mem[r] \/ Ends(mem, r))
BY CoreFacts DEF LiveOK, TurnTypes, TaskTypes

(* The pass ends.                                                          *)
LEMMA PassFacts ==
  ASSUME CoreInv, PassEnds
  PROVE  /\ old' \in [Runs -> Raw] /\ todo' = {} /\ detached' = detached /\ stale' = stale
         /\ \A r \in Runs : old'[r] \in {old[r], Gone}
         /\ \A r \in live : old'[r] = old[r]
BY CoreFacts, RowFacts DEF PassEnds, TurnTypes

(* The end of a pass keeps the invariant.                                  *)
LEMMA PassKeeps ==
  ASSUME CoreInv, PumpRefused \/ PumpUncertain \/ (PumpIdle /\ UNCHANGED <<rowVars, mem, held>> /\ NoTurn /\ NotPumping)
  PROVE  CoreInv'
<1>1. PumpIdle /\ NoTurn /\ NotPumping /\ PassEnds /\ (held => held')
  BY DEF PumpRefused, PumpUncertain, PumpIdle
<1>2. "idle" \in Places /\ ~Site("idle") /\ "idle" # "preparing"
  BY DEF Places, Site
<1>3. Moves(Pump, "idle") /\ pick' = pick
  BY <1>1 DEF PumpIdle, Moves
<1>4. PICK touched \in SUBSET Runs : Writes(mem, touched) /\ \A r \in touched : r <= next
  <2>1. CASE UNCHANGED <<rowVars, mem>>
    BY <2>1, CoreFacts, StillWrites
  <2>2. CASE Changed(mem, {r \in Runs : Queued(mem, r)})
    <3>1. PICK Q \in SUBSET Runs : Q = {r \in Runs : Queued(mem, r)}
      OBVIOUS
    <3>2. Writes(mem, Q)
      BY <2>2, <3>1, CoreFacts, ChangedWrites DEF Changed
    <3>3. \A r \in Q : r <= next
      BY <3>1, LiveRow, RowFacts DEF Queued
    <3> QED
      BY <3>1, <3>2, <3>3
  <2> QED
    BY <2>1, <2>2 DEF PumpRefused, PumpUncertain
<1>5. PumpOther /\ reserved' = reserved
  BY <1>1 DEF PumpOther, NoTurn, NotPumping, PassEnds, PumpIdle
<1>6. PICK p : p = pick'[Pump]
  OBVIOUS
<1>7. \A r \in Runs : (r \in touched => r <= next) /\ (mem[r] = mem[r] \/ Ends(mem, r))
  BY <1>4
<1>8. \A r \in live : old'[r] = old[r] /\ Object(r).session \in reserved'
  BY <1>1, <1>5, PassFacts, PumpTypes
<1>9. todo' \in SUBSET Runs /\ reserved' \in SUBSET Sessions /\ pick' \in [Tasks -> Runs \cup {NoRun}]
  BY <1>1, <1>3, <1>5, PassFacts, PumpTypes
<1> QED
  BY <1>1, <1>2, <1>3, <1>4, <1>5, <1>6, <1>7, <1>8, <1>9, PassFacts, PumpActs

(* The pump goes on, and no row changes.                                   *)
PumpGoes(place) ==
  /\ Moves(Pump, place) /\ UNCHANGED <<rowVars, mem>> /\ PumpOther /\ old' = old
  /\ pick' \in [Tasks -> Runs \cup {NoRun}] /\ todo' \in SUBSET Runs

(* A step of the pump that changes no row keeps the invariant.             *)
LEMMA PumpGoesKeeps ==
  ASSUME CoreInv, NEW place \in Places, PumpGoes(place), reserved' \in SUBSET Sessions, reserved \subseteq reserved',
         NEW p, pick'[Pump] = p,
         Site(place) => p \in Runs /\ p <= next /\ p \in todo' /\ p \notin live /\ (old[p] # Gone \/ ~Pending(p)),
         place = "preparing" => /\ old[p] # Gone \/ Known(p)
                                /\ Object(p).session \in reserved'
                                /\ \A q \in live : Object(q).session # Object(p).session
  PROVE  CoreInv'
<1>1. Writes(mem, {})
  BY CoreFacts, StillWrites DEF PumpGoes
<1>2. \A r \in live : old'[r] = old[r] /\ Object(r).session \in reserved'
  BY PumpTypes DEF PumpGoes
<1>3. \A r \in Runs : old'[r] \in {old[r], Gone}
  BY DEF PumpGoes
<1>4. /\ Moves(Pump, place) /\ PumpOther /\ old' \in [Runs -> Raw]
      /\ pick' \in [Tasks -> Runs \cup {NoRun}] /\ todo' \in SUBSET Runs
      /\ Site(place) => /\ p \in Runs /\ p <= next /\ p \in todo' /\ p \notin live /\ old'[p] = old[p]
                        /\ old[p] # Gone \/ ~Pending(p)
  BY PumpTypes DEF PumpGoes
<1> QED
  BY <1>1, <1>2, <1>3, <1>4, PumpTypes, PumpActs

(* The start of a pass keeps the invariant.                                *)
LEMMA PumpStartsKeeps ==
  ASSUME CoreInv, PumpStarts
  PROVE  CoreInv'
<1>1. "flush" \in Places /\ ~Site("flush") /\ "flush" # "preparing"
  BY DEF Places, Site
<1>2. PumpGoes("flush") /\ reserved' = reserved
  BY PumpTypes DEF PumpStarts, PumpGoes, Await, Moves, rowVars, PumpOther, NoTurn, NotPumping, SameObjects, objects
<1>3. PICK p : p = pick'[Pump]
  OBVIOUS
<1> QED
  BY <1>1, <1>2, <1>3, PumpTypes, PumpGoesKeeps

(* The flush before a pass keeps the invariant.                            *)
LEMMA PumpFlushedKeeps ==
  ASSUME CoreInv, PumpFlushed
  PROVE  CoreInv'
<1>1. CASE PumpUncertain \/ PumpRefused
  BY <1>1, PassKeeps
<1>2. CASE /\ Go(Pump, IF held \/ \A r \in Runs : ~Queued(mem, r) THEN "idle" ELSE "refresh")
           /\ UNCHANGED <<rowVars, mem, held, pick, todo>> /\ SameObjects /\ NoTurn /\ NotPumping
  <2>1. PICK place \in {"idle", "refresh"} : place = IF held \/ \A r \in Runs : ~Queued(mem, r) THEN "idle" ELSE "refresh"
    OBVIOUS
  <2>2. place \in Places /\ ~Site(place) /\ place # "preparing"
    BY <2>1 DEF Places, Site
  <2>3. Go(Pump, place)
    BY <1>2, <2>1
  <2>4. PumpGoes(place) /\ reserved' = reserved
    BY <1>2, <2>3, PumpTypes DEF PumpGoes, Go, Moves, PumpOther, NoTurn, NotPumping, SameObjects, objects
  <2>5. PICK p : p = pick'[Pump]
    OBVIOUS
  <2> QED
    BY <2>2, <2>4, <2>5, PumpTypes, PumpGoesKeeps
<1> QED
  BY <1>1, <1>2 DEF PumpFlushed

(* The look at the sessions keeps the invariant.                           *)
LEMMA PumpRefreshKeeps ==
  ASSUME CoreInv, PumpRefreshed \/ PumpRefreshFails
  PROVE  CoreInv'
<1>1. CASE PumpRefreshFails
  BY <1>1, PassKeeps DEF PumpRefreshFails
<1>2. CASE PumpRefreshed
  <2>1. PICK place \in {"idle", "loop"} : place = IF HoldsStarts THEN "idle" ELSE "loop"
    OBVIOUS
  <2>2. place \in Places /\ ~Site(place) /\ place # "preparing"
    BY <2>1 DEF Places, Site
  <2>3. Go(Pump, place)
    BY <1>2, <2>1 DEF PumpRefreshed
  <2>4. todo' \in SUBSET Runs /\ pick' \in [Tasks -> Runs \cup {NoRun}]
    BY <1>2, PumpTypes DEF PumpRefreshed
  <2>5. PumpGoes(place) /\ reserved' = reserved
    BY <1>2, <2>3, <2>4, PumpTypes DEF PumpRefreshed, PumpGoes, Go, Moves, PumpOther, NoTurn, NotPumping, SameObjects, objects
  <2>6. PICK p : p = pick'[Pump]
    OBVIOUS
  <2> QED
    BY <2>2, <2>5, <2>6, PumpTypes, PumpGoesKeeps
<1> QED
  BY <1>1, <1>2

(* The preparation of a run keeps the invariant.                           *)
LEMMA PumpLookedKeeps ==
  ASSUME CoreInv, PumpLooked
  PROVE  CoreInv'
<1>1. "looked" \in Places /\ "looked" # "preparing" /\ Site("look")
  BY DEF Places, Site
<1>2. PumpGoes("looked") /\ reserved' = reserved /\ pick' = pick /\ todo' = todo /\ at[Pump] = "look"
  BY PumpTypes DEF PumpLooked, PumpGoes, Await, Moves, rowVars, PumpOther, NoTurn, NotPumping, SameObjects, objects
<1>3. PICK p : p = pick[Pump]
  OBVIOUS
<1>4. p \in Runs /\ p <= next /\ p \in todo' /\ p \notin live /\ (old[p] # Gone \/ ~Pending(p))
  BY <1>2, <1>3, CoreFacts DEF PumpOK
<1> QED
  BY <1>1, <1>2, <1>3, <1>4, PumpTypes, PumpGoesKeeps

(* How the pump ends a run it does not start.                              *)
LEMMA DropRow ==
  ASSUME CoreInv, NEW r \in Runs, Object(r).st = "queued", NEW m,
         m \in {mem, OfMap(r, Cancelling({r})), OfMap(r, Failing(r))}
  PROVE  m \in [Runs -> Raw] /\ \A q \in Runs : m[q] = mem[q] \/ Ends(m, q)
<1>1. mem \in [Runs -> Raw] /\ mem[r] \in Slots /\ InsertOK(r)
  BY CoreFacts DEF RunOK
<1>2. CASE m = mem
  BY <1>1, <1>2
<1>3. CASE old[r] # Gone
  BY <1>1, <1>3 DEF OfMap
<1>4. CASE old[r] = Gone /\ m # mem
  <2>1. mem[r].st = "queued" /\ mem[r] # Gone /\ mem[r] \in Rows /\ ~Delivers(r)
    BY <1>1, <1>4, RowFacts DEF Object, InsertOK, Slots
  <2>2. PICK x \in {"cancelled", "error"} :
          /\ m[r] = [mem[r] EXCEPT !.st = x]
          /\ \A q \in Runs \ {r} : m[q] = mem[q]
          /\ DOMAIN m = Runs /\ m = [q \in Runs |-> m[q]]
    <3>1. CASE m = Cancelling({r})
      <4>1. m = [q \in Runs |-> IF q \in {r} /\ mem[q] # Gone THEN [mem[q] EXCEPT !.st = "cancelled"] ELSE mem[q]]
        BY <3>1 DEF Cancelling
      <4>2. m[r] = [mem[r] EXCEPT !.st = "cancelled"] /\ \A q \in Runs \ {r} : m[q] = mem[q]
        BY <2>1, <4>1
      <4>3. DOMAIN m = Runs /\ m = [q \in Runs |-> m[q]]
        BY <4>1
      <4> QED
        BY <4>2, <4>3
    <3>2. CASE m = Failing(r)
      <4>1. m \in [Runs -> Raw] /\ m[r] = [mem[r] EXCEPT !.st = "error"] /\ \A q \in Runs \ {r} : m[q] = mem[q]
        BY <1>4, <3>2, FailingRow
      <4> QED
        BY <4>1
    <3> QED
      BY <1>4, <3>1, <3>2 DEF OfMap
  <2>3. [mem[r] EXCEPT !.st = x] \in Rows /\ x \in Finished
    BY <2>1 DEF Rows, Finished
  <2>4. m \in [Runs -> Raw]
    BY <1>1, <2>2, <2>3 DEF Raw
  <2>5. Ends(m, r)
    BY <2>1, <2>2, <2>3 DEF Ends
  <2> QED
    BY <2>2, <2>4, <2>5
<1> QED
  BY <1>2, <1>3, <1>4

(* A run that is skipped keeps the invariant, whatever becomes of its row. *)
LEMMA SkipKeeps ==
  ASSUME CoreInv, NEW r \in Runs, Object(r).st = "queued" \/ r \notin live, Skip(r), NotPumping, UNCHANGED <<live, sent, held>>,
         NEW m, NEW touched \in SUBSET {r}, Writes(m, touched), \A q \in Runs : m[q] = mem[q] \/ Ends(m, q),
         touched # {} => r <= next,
         \/ reserved' = reserved
         \/ /\ reserved' = reserved \ {Object(r).session}
            /\ \A q \in live : Object(q).session # Object(r).session
  PROVE  CoreInv'
<1>1. r \notin live
  BY CoreFacts DEF LiveOK
<1>2. "loop" \in Places /\ ~Site("loop") /\ "loop" # "preparing"
  BY DEF Places, Site
<1>3. Moves(Pump, "loop") /\ PumpOther /\ pick' = pick /\ todo' = todo \ {r} /\ old' = [old EXCEPT ![r] = Gone]
  BY DEF Skip, Passes, Moves, PumpOther, NotPumping
<1>4. PICK p : p = pick'[Pump]
  OBVIOUS
<1>5. /\ old' \in [Runs -> Raw] /\ old'[r] = Gone
      /\ \A q \in Runs : q # r => old'[q] = old[q]
  BY <1>3, PumpTypes, RowFacts
<1>6. \A q \in Runs : old'[q] \in {old[q], Gone}
  BY <1>5
<1>7. \A q \in live : old'[q] = old[q] /\ Object(q).session \in reserved'
  BY <1>1, <1>5, PumpTypes
<1>8. todo' \in SUBSET Runs /\ reserved' \in SUBSET Sessions /\ pick' \in [Tasks -> Runs \cup {NoRun}]
  BY <1>3, PumpTypes
<1>9. touched \in SUBSET Runs /\ \A q \in Runs : (q \in touched => q <= next) /\ (m[q] = mem[q] \/ Ends(m, q))
  OBVIOUS
<1> QED
  BY <1>2, <1>3, <1>4, <1>5, <1>6, <1>7, <1>8, <1>9, PumpActs

(* A run left for a later pass keeps the invariant.                        *)
LEMMA SkippedKeeps ==
  ASSUME CoreInv, NEW r \in Runs, Object(r).st = "queued" \/ r \notin live, Skipped(r)
  PROVE  CoreInv'
<1>1. Writes(mem, {})
  BY CoreFacts, StillWrites DEF Skipped
<1>2. Skip(r) /\ NotPumping /\ UNCHANGED <<live, sent, held>> /\ reserved' = reserved
  BY DEF Skipped, NoTurn
<1>3. {} \in SUBSET {r}
  OBVIOUS
<1> QED
  BY <1>1, <1>2, <1>3, SkipKeeps

(* A run the pump may look at is queued.                                   *)
LEMMA QueuedNext ==
  ASSUME CoreInv, NEW r \in Runs, Object(r).st = "queued"
  PROVE  r <= next /\ r \notin live /\ (old[r] # Gone \/ mem[r].st = "queued")
BY LiveRow, RowFacts, CoreFacts DEF Object, LiveOK

(* A run that is dropped keeps the invariant.                              *)
LEMMA DroppedKeeps ==
  ASSUME CoreInv, NEW r \in Runs, Object(r).st = "queued", Dropped(r)
  PROVE  CoreInv'
<1>1. PICK m : m = OfMap(r, Cancelling({r}))
  OBVIOUS
<1>2. m \in [Runs -> Raw] /\ \A q \in Runs : m[q] = mem[q] \/ Ends(m, q)
  BY <1>1, DropRow
<1>3. Skip(r) /\ NotPumping /\ UNCHANGED <<live, sent, held>> /\ reserved' = reserved /\ Changed(m, {r})
  BY <1>1 DEF Dropped, NoTurn
<1>4. Writes(m, {r})
  BY <1>2, <1>3, CoreFacts, ChangedWrites DEF Changed
<1> QED
  BY <1>2, <1>3, <1>4, QueuedNext, SkipKeeps

(* The least of some runs is one of them.                                  *)
LEMMA MinIn ==
  ASSUME NEW T, T \subseteq Nat, T # {}
  PROVE  Min(T) \in T
<1> DEFINE Less == {p \in Nat \X Nat : p[1] < p[2]}
<1>1. IsWellFoundedOn(Less, Nat)
  BY NatLessThanWellFounded DEF OpToRel
<1>2. PICK x \in T : \A y \in T : <<y, x>> \notin Less
  <2> HIDE DEF Less
  <2> QED
    BY <1>1, WFMin
<1>3. ASSUME NEW y \in T PROVE x <= y
  <2>1. ~(y < x)
    BY <1>2
  <2> QED
    BY <2>1
<1> QED
  BY <1>3 DEF Min

(* The choice of the next run keeps the invariant.                         *)
LEMMA PumpLooksKeeps ==
  ASSUME CoreInv, PumpLooks
  PROVE  CoreInv'
<1>1. CASE Looking = {}
  BY <1>1, PassKeeps DEF PumpLooks
<1>2. CASE Looking # {}
  <2>1. PICK r : r = NextRun
    OBVIOUS
  <2>2. r \in todo /\ r \in Runs /\ Object(r).st = "queued" /\ r \notin admissions
    <3>1. Looking \subseteq Nat
      BY CoreFacts DEF Looking, TurnTypes
    <3>2. r \in Looking
      BY <1>2, <2>1, <3>1, MinIn DEF NextRun
    <3> QED
      BY <3>2, CoreFacts DEF Looking, Startable, TurnTypes
  <2>3. CASE Skipped(r) \/ Dropped(r)
    BY <2>2, <2>3, SkippedKeeps, DroppedKeeps
  <2>4. CASE /\ ~(Object(r).planned /\ r \in newAdm)
             /\ Go(Pump, "look") /\ pick' = [pick EXCEPT ![Pump] = r]
             /\ UNCHANGED <<rowVars, mem, held, todo>> /\ SameObjects /\ NoTurn /\ NotPumping
    <3>1. "look" \in Places /\ "look" # "preparing"
      BY DEF Places
    <3>2. pick' \in [Tasks -> Runs \cup {NoRun}] /\ pick'[Pump] = r /\ pick'[Resolve] = pick[Resolve]
      BY <2>2, <2>4, PumpTypes, TaskFacts
    <3>3. PumpGoes("look") /\ reserved' = reserved /\ todo' = todo
      BY <2>4, <3>2, PumpTypes DEF PumpGoes, Go, Moves, PumpOther, NoTurn, NotPumping, SameObjects, objects
    <3>4. old[r] # Gone \/ ~Pending(r)
      <4>1. ASSUME old[r] = Gone, Pending(r) PROVE FALSE
        <5>1. Fresh(r) /\ ~mem[r].planned
          BY <2>2, <2>4, <4>1 DEF Object, Pending, Fresh, Queued
        <5> QED
          BY <2>2, <5>1, CoreFacts DEF RunOK, AdmitOK
      <4> QED
        BY <4>1
    <3> QED
      BY <2>2, <3>1, <3>2, <3>3, <3>4, QueuedNext, PumpTypes, PumpGoesKeeps
  <2> QED
    BY <1>2, <2>1, <2>3, <2>4 DEF PumpLooks
<1> QED
  BY <1>1, <1>2

(* The reservation of a conversation keeps the invariant.                  *)
LEMMA PumpReservesKeeps ==
  ASSUME CoreInv, PumpReserves
  PROVE  CoreInv'
<1>1. PICK r : r = pick[Pump]
  OBVIOUS
<1>2. at[Pump] = "looked"
  BY DEF PumpReserves, Follows, Saves
<1>3. r \in Runs /\ r \in todo /\ r \notin live /\ (old[r] # Gone \/ ~Pending(r))
  BY <1>1, <1>2, CoreFacts DEF PumpOK
<1>4. r <= next
  BY <1>1, <1>2, CoreFacts DEF PumpOK
<1>5. CASE PumpUncertain \/ PumpRefused
  BY <1>5, PassKeeps
<1>6. CASE Skipped(r)
  BY <1>3, <1>6, SkippedKeeps
<1>7. CASE Skip(r) /\ Changed(mem, {r}) /\ UNCHANGED held /\ NoTurn /\ NotPumping
  <2>1. Writes(mem, {r})
    BY <1>3, <1>7, CoreFacts, ChangedWrites DEF Changed
  <2>2. UNCHANGED <<live, sent, held>> /\ reserved' = reserved
    BY <1>7 DEF NoTurn
  <2> QED
    BY <1>3, <1>4, <1>7, <2>1, <2>2, SkipKeeps
<1>8. CASE Startable(r) /\ Dropped(r)
  BY <1>3, <1>8, DroppedKeeps DEF Startable
<1>9. CASE /\ FlushOk /\ Startable(r) /\ ~held /\ SessionFree(r)
           /\ reserved' = reserved \cup {Object(r).session}
           /\ Go(Pump, "preparing")
           /\ UNCHANGED <<rowVars, mem, held, pick, todo, live, sent>> /\ SameObjects /\ NotPumping
  <2>1. "preparing" \in Places
    BY DEF Places
  <2>2. Object(r) # Gone /\ Object(r) \in Raw
    BY <1>3, <1>9, RowFacts, CoreFacts DEF Object, Startable
  <2>3. old[r] # Gone \/ Known(r)
    <3>1. ASSUME old[r] = Gone PROVE Known(r)
      <4>1. mem[r] # Gone /\ ~Pending(r) /\ r \notin admissions
        BY <1>3, <1>9, <2>2, <3>1 DEF Object, Startable
      <4> QED
        BY <1>3, <1>9, <4>1, NothingUnsure
    <3> QED
      BY <3>1
  <2>4. reserved' \in SUBSET Sessions /\ reserved \subseteq reserved' /\ Object(r).session \in reserved'
    BY <1>9, <2>2, RowFacts, PumpTypes
  <2>5. \A q \in live : Object(q).session # Object(r).session
    BY <1>9, PumpTypes DEF SessionFree
  <2>6. PumpGoes("preparing") /\ pick' = pick /\ todo' = todo
    BY <1>9, PumpTypes DEF PumpGoes, Go, Moves, PumpOther, NotPumping, SameObjects, objects
  <2> QED
    BY <1>1, <1>3, <1>4, <2>1, <2>4, <2>5, <2>6, <2>3, PumpGoesKeeps
<1> QED
  BY <1>1, <1>5, <1>6, <1>7, <1>8, <1>9 DEF PumpReserves

(* A start that is given up keeps the invariant.                           *)
LEMMA LaunchStopsKeeps ==
  ASSUME CoreInv, LaunchRefused \/ LaunchFails
  PROVE  CoreInv'
<1>1. PICK r : r = pick[Pump]
  OBVIOUS
<1>2. at[Pump] = "preparing" /\ Frees(r)
  BY <1>1 DEF LaunchRefused, LaunchFails
<1>3. /\ r \in Runs /\ r \in todo /\ r \notin live /\ (old[r] # Gone \/ Known(r))
      /\ \A q \in live : Object(q).session # Object(r).session
  BY <1>1, <1>2, CoreFacts DEF PumpOK
<1>4. r <= next
  BY <1>3, LiveRow DEF Known
<1>5. /\ Skip(r) /\ NotPumping /\ UNCHANGED <<live, sent, held>>
      /\ reserved' = reserved \ {Object(r).session}
  BY <1>2 DEF Frees
<1>6. PICK m, touched : /\ touched \in SUBSET {r} /\ Writes(m, touched)
                        /\ \A q \in Runs : m[q] = mem[q] \/ Ends(m, q)
  <2>1. CASE LaunchRefused
    <3>1. Writes(mem, {})
      BY <2>1, CoreFacts, StillWrites DEF LaunchRefused
    <3> QED
      BY <3>1
  <2>2. CASE LaunchFails
    <3>1. PICK m : m \in {OfMap(r, Failing(r)), OfMap(r, Cancelling({r}))} /\ Changed(m, {r})
      BY <1>1, <2>2 DEF LaunchFails
    <3>2. Object(r).st = "queued"
      BY <1>1, <2>2 DEF LaunchFails
    <3>3. m \in [Runs -> Raw] /\ \A q \in Runs : m[q] = mem[q] \/ Ends(m, q)
      BY <1>3, <3>1, <3>2, DropRow
    <3>4. Writes(m, {r})
      BY <1>3, <3>1, <3>3, CoreFacts, ChangedWrites DEF Changed
    <3> QED
      BY <3>3, <3>4
  <2> QED
    BY <2>1, <2>2
<1> QED
  BY <1>3, <1>4, <1>5, <1>6, SkipKeeps

(* A turn starts. Its run was never given, unless it left the map or its   *)
(* worker ended.                                                           *)
LEMMA StartedOK ==
  ASSUME NEW r \in Runs, RunOK(r), r \notin live, NEW touched, Wrote(r, touched), SameTasks(r), StopStays(r), SameSettling(r),
         left[Resolve] \in Nat, left[Resolve] <= Len(chain), Len(chain) \in Nat, Len(chain') \in Nat,
         left[Admit(r)] \in Nat, left[Admit(r)] <= Len(chain),
         r \in Nat, next \in Nat, r <= next, next' = next,
         mem'[r] = Gone <=> mem[r] = Gone,
         mem[r] # Gone => /\ mem'[r].session = mem[r].session /\ mem'[r].planned = mem[r].planned
                          /\ mem'[r].steer = mem[r].steer,
         Queued(mem, r)' => Queued(mem, r),
         Delivers(r) => mem'[r].st = mem[r].st,
         r \in admissions' <=> r \in admissions, r \in uncertain' <=> r \in uncertain,
         r \in detached' <=> r \in detached, unsent'[r] = unsent[r], told'[r] = told[r],
         GivenOK(r)'
  PROVE  RunOK(r)' /\ Firm(r)
<1>1. /\ SavedOK(r)' /\ (New(r)' <=> New(r)) /\ (Pending(r)' => Pending(r))
      /\ mem'[r] # Gone /\ Clean(r) => Clean(r)' /\ (r \in newAdm' <=> r \in newAdm)
      /\ Known(r) /\ mem'[r] # Gone /\ at'[Admit(r)] # "saving" => Known(r)'
      /\ disk'[r] = disk[r] /\ unknown' = unknown /\ (r \in failed' <=> r \in failed)
  BY SavedStays DEF RunOK
<1>2. UnusedOK(r)'
  BY DEF UnusedOK
<1>3. (Fresh(r)' => Fresh(r)) /\ (Known(r) => Known(r)') /\ (Delivers(r)' <=> Delivers(r))
  BY <1>1 DEF Fresh, Known, Delivers, SameTasks
<1>4. RestOK(r)'
  BY <1>1 DEF RunOK, RestOK, SameSettling
<1>5. AdmitOK(r)'
  <2>1. at'[Admit(r)] = "saving" => /\ r \in admissions' /\ mem'[r] # Gone /\ Clean(r)' /\ ~New(r)'
                                    /\ (r \in newAdm' <=> r \in newAdm)
    BY <1>1 DEF RunOK, AdmitOK, SameTasks
  <2>2. at'[Admit(r)] = "saving" /\ r \in newAdm' => r \in failed' \/ \E i \in 1 .. left'[Admit(r)] : r \in DOMAIN chain'[i]
    BY <1>1, <2>1 DEF RunOK, AdmitOK, SameTasks, Wrote, Holds
  <2>3. at'[Admit(r)] = "creating" /\ Pending(r)' /\ r \notin detached' =>
          r \in failed' \/ \E i \in 1 .. left'[Admit(r)] : r \in DOMAIN chain'[i]
    BY <1>1 DEF RunOK, AdmitOK, SameTasks, Wrote, Holds
  <2>4. at'[Admit(r)] = "trusting" /\ Pending(r)' /\ r \notin detached' =>
          r \in failed' \/ \E i \in 1 .. Len(chain') : r \in DOMAIN chain'[i]
    BY <1>1 DEF RunOK, AdmitOK, SameTasks, Wrote, Holds
  <2>5. Fresh(r)' /\ ~mem'[r].planned => r \in admissions'
    <3>1. CASE mem[r] = Gone
      BY <3>1, RowFacts DEF Fresh, Queued
    <3>2. CASE mem[r] # Gone
      <4>1. mem'[r].planned = mem[r].planned
        BY <3>2
      <4> QED
        BY <1>3, <4>1 DEF RunOK, AdmitOK
    <3> QED
      BY <3>1, <3>2
  <2>6. /\ r \in detached' \/ at'[Admit(r)] = "failing" => ~Fresh(r)'
        /\ at'[Admit(r)] = "saving" \/ (at'[Admit(r)] \in {"trusting", "creating"} /\ r \notin detached') =>
             r \in admissions' /\ at'[Insert(r)] = "idle" /\ r \notin uncertain' /\ ~Files(r)'
        /\ unsent'[r] # NoRun => (unknown' \/ r \in rest') /\ r \in uncertain'
        /\ told'[r] = "accepted" => Known(r)'
    BY <1>1, <1>3 DEF RunOK, AdmitOK, SameTasks, SameSettling
  <2> QED
    BY <2>1, <2>2, <2>3, <2>5, <2>6, <2>4 DEF AdmitOK, Holds
<1>6. InsertOK(r)'
  BY <1>3 DEF RunOK, InsertOK, SameTasks, StopStays, Known, Delivers
<1>7. Firm(r)
  BY <1>1, <1>3 DEF Firm, Known
<1> QED
  BY <1>1, <1>2, <1>5, <1>6, <1>7, <1>4 DEF RunOK

(* A start keeps the invariant.                                            *)
LEMMA LaunchKeeps ==
  ASSUME CoreInv, Launch
  PROVE  CoreInv'
<1>1. PICK p : p = pick[Pump]
  OBVIOUS
<1>2. /\ at[Pump] = "preparing" /\ Object(p).st = "queued"
      /\ live' = live \cup {p} /\ sent' = [sent EXCEPT ![p] = @ + 1]
      /\ Changed(OfMap(p, [mem EXCEPT ![p].st = "running"]), {p})
      /\ old' = IF old[p] # Gone THEN [old EXCEPT ![p].st = "running"] ELSE old
      /\ Passes(p) /\ UNCHANGED <<reserved, held>> /\ NotPumping
  BY <1>1 DEF Launch, RefusedAtLaunch
<1>3. /\ p \in Runs /\ p <= next /\ p \in todo /\ p \notin live /\ (old[p] # Gone \/ Known(p))
      /\ Object(p).session \in reserved
      /\ \A q \in live : Object(q).session # Object(p).session
  BY <1>1, <1>2, CoreFacts DEF PumpOK
<1>4. p <= next /\ p \in Nat /\ next \in Nat /\ mem[p] \in Slots /\ old[p] \in Raw /\ RunOK(p)
  BY <1>3, LiveRow, CoreFacts DEF Known
<1>5. "loop" \in Places /\ Moves(Pump, "loop") /\ pick' = pick /\ todo' = todo \ {p} /\ detached' = detached /\ stale' = stale
  BY <1>2 DEF Places, Passes, Moves
<1>6. /\ UNCHANGED <<next, admissions, uncertain, unsent, told, torn, stopped>>
      /\ sent'[p] = sent[p] + 1 /\ sent[p] \in Nat /\ sent' \in [Runs -> Nat]
      /\ \A q \in Runs \ {p} : sent'[q] = sent[q]
  BY <1>2, <1>3, CoreFacts DEF NotPumping, MarkTypes
<1>7. /\ old' \in [Runs -> Raw]
      /\ \A q \in Runs \ {p} : old'[q] = old[q]
      /\ old[p] = Gone => old'[p] = Gone
      /\ old[p] # Gone => old'[p] # Gone /\ old'[p].st = "running" /\ old'[p].session = old[p].session
  <2>1. CASE old[p] = Gone
    BY <1>2, <2>1, CoreFacts DEF TurnTypes
  <2>2. CASE old[p] # Gone
    <3>1. old[p] \in Rows
      BY <1>4, <2>2, RowFacts
    <3>2. PICK row : row = [old[p] EXCEPT !.st = "running"]
      OBVIOUS
    <3>3. row \in Rows /\ row.st = "running" /\ row.session = old[p].session
      BY <3>1, <3>2 DEF Rows
    <3>4. old' = [old EXCEPT ![p] = row]
      BY <1>2, <2>2, <3>2
    <3>5. old' \in [Runs -> Raw] /\ old'[p] = row /\ \A q \in Runs \ {p} : old'[q] = old[q]
      BY <1>3, <3>3, <3>4, PumpTypes DEF Raw
    <3> QED
      BY <2>2, <3>3, <3>5, RowFacts
  <2> QED
    BY <2>1, <2>2
<1>8. PICK m : m = OfMap(p, [mem EXCEPT ![p].st = "running"])
  OBVIOUS
<1>9. /\ m \in [Runs -> Raw]
      /\ \A q \in Runs \ {p} : m[q] = mem[q]
      /\ old[p] # Gone => m = mem
      /\ old[p] = Gone => /\ mem[p].st = "queued" /\ mem[p] # Gone /\ m[p] # Gone /\ m[p].st = "running"
                          /\ m[p].session = mem[p].session /\ m[p].planned = mem[p].planned /\ m[p].steer = mem[p].steer
  <2>1. CASE old[p] # Gone
    BY <1>8, <2>1, CoreFacts DEF OfMap
  <2>2. CASE old[p] = Gone
    <3>1. mem[p].st = "queued" /\ mem[p] # Gone /\ mem[p] \in Rows
      BY <1>2, <1>4, <2>2, RowFacts DEF Object, Slots
    <3>2. PICK row : row = [mem[p] EXCEPT !.st = "running"]
      OBVIOUS
    <3>3. /\ row \in Rows /\ row # Gone /\ row.st = "running" /\ row.session = mem[p].session
          /\ row.planned = mem[p].planned /\ row.steer = mem[p].steer
      BY <3>1, <3>2, RowFacts DEF Rows
    <3>4. m = [mem EXCEPT ![p] = row]
      BY <1>8, <2>2, <3>2 DEF OfMap
    <3>5. m \in [Runs -> Raw] /\ m[p] = row /\ \A q \in Runs \ {p} : m[q] = mem[q]
      BY <1>3, <3>3, <3>4, CoreFacts DEF Raw
    <3> QED
      BY <2>2, <3>1, <3>3, <3>5
  <2> QED
    BY <2>1, <2>2
<1>10. Writes(m, {p}) /\ {p} \in SUBSET Runs
  BY <1>2, <1>3, <1>8, <1>9, CoreFacts, ChangedWrites DEF Changed
<1>11. Pump \in Tasks /\ Pump # Resolve /\ (\A q \in Runs : Pump \notin {Admit(q), Insert(q)})
       /\ pick' \in [Tasks -> Runs \cup {NoRun}]
  BY <1>5, TaskFacts, PumpTypes
<1>12. Fits(Pump, "loop")
  <2>1. Pump # Resolve /\ (\A r \in Runs : Pump # Stop(r)) /\ ResolveOK
    BY CoreFacts, TaskFacts
  <2>2. UNCHANGED <<recovery, ready, held>> /\ pick'[Resolve] = pick[Resolve]
    BY <1>2, <1>5 DEF NotPumping
  <2> QED
    BY <2>1, <2>2, FitsOther
<1>13. /\ RowTypes' /\ TaskTypes' /\ LeftOK' /\ ResolveOK' /\ RestTypes' /\ at'[Pump] = "loop"
       /\ Len(chain) \in Nat /\ Len(chain') \in Nat
       /\ Wrote(p, {p}) /\ From(m[p], mem'[p]) /\ SameTasks(p) /\ StopStays(p) /\ SameSettling(p)
  BY <1>3, <1>5, <1>10, <1>11, <1>12, ActFacts
<1>14. MarkTypes' /\ TurnTypes'
  BY <1>2, <1>3, <1>5, <1>6, <1>7, CoreFacts DEF MarkTypes, TurnTypes
<1>15. ASSUME NEW q \in Runs \ {p} PROVE Stands(q, m, {p}, Pump)
  BY <1>4, <1>5, <1>6, <1>7, <1>9, <1>11 DEF Stands, SameMarks, OldStays
<1>16. ASSUME NEW q \in Runs \ {p} PROVE RunOK(q)' /\ Firm(q)
  <2>1. next' \in Nat /\ next <= next'
    BY <1>4, <1>6
  <2> QED
    BY <1>5, <1>10, <1>11, <1>15, <1>12, <2>1, StandsStays
<1>17. /\ mem'[p] = Gone <=> mem[p] = Gone
       /\ mem[p] # Gone => /\ mem'[p].session = mem[p].session /\ mem'[p].planned = mem[p].planned
                           /\ mem'[p].steer = mem[p].steer
       /\ Queued(mem, p)' => Queued(mem, p) /\ old[p] # Gone
       /\ Delivers(p) => mem'[p].st = mem[p].st
       /\ old[p] = Gone => mem'[p].st # "queued" /\ ~Delivers(p)
  <2>1. CASE old[p] # Gone
    <3>1. From(mem[p], mem'[p])
      BY <1>9, <1>13, <2>1
    <3>2. Kept(p)
      BY <1>3, <1>4, <3>1, KeptSame DEF RunOK
    <3> QED
      BY <2>1, <3>2, RowFacts DEF Kept, Queued, Finished
  <2>2. CASE old[p] = Gone
    <3>1. ~Delivers(p)
      BY <1>4, <1>9, <2>2 DEF RunOK, InsertOK
    <3>2. mem'[p].st # "queued"
      BY <1>9, <1>13, <2>2 DEF From, Finished
    <3> QED
      BY <1>9, <1>13, <2>2, <3>1, <3>2 DEF From, Queued
  <2> QED
    BY <2>1, <2>2
<1>18. GivenOK(p)'
  <2>1. old'[p] # Gone => p \in stale'
    BY <1>4, <1>5, <1>7 DEF RunOK, GivenOK
  <2>2. CASE p \in stale
    BY <1>5, <2>1, <2>2 DEF GivenOK
  <2>3. CASE p \notin stale
    <3>1. old[p] = Gone /\ Known(p) /\ Queued(mem, p)
      BY <1>3, <1>4, <1>9, <2>3 DEF RunOK, GivenOK, Queued
    <3>2. Known(p)' /\ ~Delivers(p)' /\ ~Queued(mem, p)'
      <4>1. mem'[p] # Gone /\ at'[Admit(p)] # "saving"
        BY <1>13, <1>17, <3>1 DEF SameTasks, Known
      <4>2. left[Resolve] \in Nat /\ left[Resolve] <= Len(chain) /\ SavedOK(p)
        BY <1>4, CoreFacts DEF RunOK
      <4>3. Known(p)'
        BY <1>3, <1>13, <1>17, <3>1, <4>1, <4>2, SavedStays
      <4> QED
        BY <1>13, <1>17, <3>1, <4>3 DEF SameTasks, Delivers, Queued
    <3>3. p \notin torn => sent'[p] = 1
      BY <1>4, <1>6, <2>3, <3>1 DEF RunOK, GivenOK
    <3> QED
      BY <1>6, <2>1, <3>2, <3>3 DEF GivenOK
  <2> QED
    BY <2>2, <2>3
<1>19. RunOK(p)' /\ Firm(p)
  <2>1. /\ p \in admissions' <=> p \in admissions
        /\ p \in uncertain' <=> p \in uncertain
        /\ p \in detached' <=> p \in detached
        /\ unsent'[p] = unsent[p] /\ told'[p] = told[p] /\ next' = next
    BY <1>5, <1>6
  <2>2. left[Admit(p)] \in Nat /\ left[Admit(p)] <= Len(chain) /\ left[Resolve] \in Nat /\ left[Resolve] <= Len(chain)
    BY <1>3, CoreFacts
  <2>3. /\ mem'[p] = Gone <=> mem[p] = Gone
        /\ mem[p] # Gone => /\ mem'[p].session = mem[p].session /\ mem'[p].planned = mem[p].planned
                            /\ mem'[p].steer = mem[p].steer
        /\ Queued(mem, p)' => Queued(mem, p)
        /\ Delivers(p) => mem'[p].st = mem[p].st
    BY <1>17
  <2>4. p \in Runs /\ RunOK(p) /\ p \notin live /\ Wrote(p, {p}) /\ SameTasks(p) /\ StopStays(p) /\ SameSettling(p) /\ Len(chain) \in Nat /\ Len(chain') \in Nat
        /\ p \in Nat /\ next \in Nat /\ p <= next
    BY <1>3, <1>4, <1>13
  <2> QED
    BY <1>18, <2>1, <2>2, <2>3, <2>4, StartedOK
<1>20. \A q \in Runs : RunOK(q)' /\ Firm(q)
  BY <1>16, <1>19
<1>21. ASSUME NEW q \in live
       PROVE  /\ Object(q)'.session = Object(q).session /\ Object(q)'.session \in reserved'
              /\ old'[q] # Gone \/ (Known(q)' /\ ~Delivers(q)')
              /\ Object(q)'.st # "queued"
  <2>1. q \in Runs /\ LiveOK(q) /\ Firm(q) /\ old'[q] = old[q] /\ reserved' = reserved /\ q # p
    BY <1>2, <1>3, <1>7, <1>20, CoreFacts DEF TurnTypes
  <2>2. old[q] # Gone \/ Known(q)
    BY <2>1 DEF LiveOK
  <2>3. Object(q)'.session = Object(q).session /\ (old'[q] # Gone \/ Known(q)')
    BY <2>1, <2>2, ObjectStays DEF SameObject
  <2> QED
    BY <2>1, <2>3 DEF Firm, Object, LiveOK
<1>22. /\ Object(p)'.session = Object(p).session /\ Object(p)'.session \in reserved'
       /\ old'[p] # Gone \/ (Known(p)' /\ ~Delivers(p)')
       /\ Object(p)'.st # "queued"
  <2>1. CASE old[p] # Gone
    BY <1>2, <1>3, <1>7, <2>1 DEF Object
  <2>2. CASE old[p] = Gone
    <3>1. Known(p)' /\ mem'[p].session = mem[p].session
      BY <1>3, <1>19, <2>2 DEF Firm
    <3>2. ~Delivers(p)'
      BY <1>13, <1>17, <2>2 DEF SameTasks, Delivers
    <3> QED
      BY <1>2, <1>3, <1>7, <1>17, <2>2, <3>1, <3>2, RowFacts DEF Object
  <2> QED
    BY <2>1, <2>2
<1>23. \A q \in Runs : LiveOK(q)'
  BY <1>2, <1>21, <1>22 DEF LiveOK
<1>24. OneTurnPerSession'
  BY <1>2, <1>3, <1>21, <1>22, CoreFacts DEF OneTurnPerSession, PumpOK
<1>25. PumpOK'
  BY <1>13, <1>24 DEF PumpOK
<1> QED
  BY <1>13, <1>14, <1>20, <1>23, <1>25 DEF CoreInv, TypeOK

(* Nothing waits to be saved: no task waits for a save.                    *)
LEMMA EmptyChain ==
  ASSUME CoreInv, Quiet, chain = <<>>
  PROVE  /\ \A t \in Tasks : at[t] \notin OwnSave \cup Tails
         /\ \A r \in Runs : at[Admit(r)] \notin {"saving", "creating", "failing"} /\ at[Insert(r)] # "putting"
         /\ at[Pump] # "loop"
<1>1. ASSUME NEW t \in Tasks PROVE at[t] \notin OwnSave \cup Tails
  <2>1. left[t] <= Len(chain) /\ Len(chain) = 0 /\ left[t] \in Nat
    BY CoreFacts DEF LeftOK, TaskTypes
  <2>2. left[t] = 0
    BY <2>1
  <2> QED
    BY <2>2 DEF Quiet, CanContinue
<1>2. ASSUME NEW r \in Runs PROVE at[Admit(r)] \notin {"saving", "creating", "failing"} /\ at[Insert(r)] # "putting"
  BY <1>1, TaskFacts DEF OwnSave, Tails
<1> QED
  BY <1>1, <1>2, TaskFacts DEF Quiet

(* A receipt is read when no save waits.                                   *)
LEMMA ReadsFacts ==
  ASSUME CoreInv, RecoverReads
  PROVE  /\ chain = <<>> /\ Len(chain) = 0 /\ Quiet /\ at[Resolve] = "receipt" /\ rest = {} /\ resave = {}
         /\ at' = [at EXCEPT ![Resolve] = "rows"] /\ UNCHANGED <<left, disk, chain, mem, next>>
         /\ rest' = newAdm \cup uncertain /\ resave' = failed \cup rest' /\ unknown' = FALSE /\ failed' = {} /\ newAdm' = {}
         /\ \A r \in Runs : ~New(r) /\ (New(r)' <=> r \in newAdm)
         /\ \A r \in Runs : NoneGone(r) /\ NoneGone(r)' /\ (mem[r] # Gone => (r \notin newAdm /\ disk[r] # Gone) \/ r \in newAdm \cup failed)
<1>1. Quiet /\ unknown /\ at[Resolve] = "receipt" /\ rest = {} /\ resave = {} /\ \A r \in Runs : ~New(r)
  BY CoreFacts DEF RecoverReads, ResolveOK, Window, Room
<1>2. chain = <<>> /\ Len(chain) = 0 /\ chain' = chain
  BY <1>1 DEF Quiet, Blocked, RecoverReads
<1>3. ASSUME NEW r \in Runs PROVE New(r)' <=> r \in newAdm
  <2>1. found' = [q \in Runs |-> IF q \in newAdm THEN disk[q] ELSE Unread]
    BY DEF RecoverReads
  <2>2. disk[r] # Unread
    BY CoreFacts, RowFacts
  <2> QED
    BY <2>1, <2>2 DEF New
<1>4. \A r \in Runs : NoneGone(r) /\ NoneGone(r)'
  BY <1>2 DEF NoneGone
<1>5. ASSUME NEW r \in Runs, mem[r] # Gone PROVE (r \notin newAdm /\ disk[r] # Gone) \/ r \in newAdm \cup failed
  BY <1>1, <1>5, CoreFacts DEF RunOK, SavedOK, Clean, Unsure, Returning
<1> QED
  BY <1>1, <1>2, <1>3, <1>4, <1>5 DEF RecoverReads, Go, Recovering

(* The reading of a receipt keeps what holds of a run.                     *)
LEMMA ReadsOK ==
  ASSUME CoreInv, RecoverReads, NEW r \in Runs
  PROVE  RunOK(r)' /\ Firm(r)
<1>1. RunOK(r) /\ LiveOK(r) /\ left[Resolve] = 0 /\ at \in [Tasks -> Places]
  BY CoreFacts, ReadsFacts DEF TaskTypes
<1>2. /\ UnusedOK(r) /\ SavedOK(r) /\ AdmitOK(r) /\ RestOK(r) /\ InsertOK(r) /\ GivenOK(r)
  BY <1>1 DEF RunOK
<1>3. /\ UNCHANGED <<disk, chain, mem, next, left>> /\ UNCHANGED <<admissions, uncertain, unsent, pick, live>>
      /\ UNCHANGED <<old, detached, stale, told, sent, torn>>
      /\ rest' = newAdm \cup uncertain /\ resave' = failed \cup rest' /\ unknown' = FALSE /\ failed' = {} /\ newAdm' = {}
  BY ReadsFacts DEF RecoverReads, Recovering, SameObjects, objects
<1>4. /\ at'[Admit(r)] = at[Admit(r)] /\ at'[Insert(r)] = at[Insert(r)] /\ at'[Stop(r)] = at[Stop(r)]
      /\ at'[Resolve] = "rows" /\ at[Admit(r)] \notin {"saving", "creating", "failing"} /\ ~Files(r)'
  <2>1. at' = [at EXCEPT ![Resolve] = "rows"] /\ Quiet /\ chain = <<>>
    BY ReadsFacts
  <2>2. at[Admit(r)] \notin {"saving", "creating", "failing"}
    BY <2>1, EmptyChain
  <2> QED
    BY <1>1, <2>1, <2>2, TaskFacts DEF Files
<1>5. /\ ~New(r) /\ (New(r)' <=> r \in newAdm) /\ NoneGone(r) /\ NoneGone(r)'
      /\ mem[r] # Gone => (r \notin newAdm /\ disk[r] # Gone) \/ r \in newAdm \cup failed
  BY ReadsFacts
<1>6. Known(r) => Known(r)'
  BY <1>3, <1>4, <1>5 DEF Known
<1>7. ~Pending(r)' /\ ~Fresh(r)'
  BY <1>3 DEF Pending, Fresh
<1>8. UnusedOK(r)'
  BY <1>2, <1>3, <1>4 DEF UnusedOK, Holds
<1>9. SavedOK(r)'
  BY <1>3, <1>5 DEF SavedOK, Clean, Unsure, Returning
<1>10. AdmitOK(r)'
  BY <1>2, <1>3, <1>4, <1>6, <1>7 DEF AdmitOK
<1>11. RestOK(r)'
  BY <1>3, <1>4, <1>5 DEF RestOK
<1>12. InsertOK(r)'
  BY <1>2, <1>3, <1>4, <1>6 DEF InsertOK, Delivers
<1>13. GivenOK(r)'
  BY <1>2, <1>3, <1>4, <1>6 DEF GivenOK, Delivers, Queued
<1>14. Firm(r)
  BY <1>1, <1>3, <1>4, <1>6, <1>7 DEF Firm, LiveOK, Object, Delivers
<1> QED
  BY <1>8, <1>9, <1>10, <1>11, <1>12, <1>13, <1>14 DEF RunOK

(* A step of a recovery leaves the pump and the turns alone.               *)
LEMMA SettlingKeeps ==
  ASSUME CoreInv, RowTypes', TaskTypes', MarkTypes', TurnTypes', RestTypes', LeftOK', ResolveOK',
         UNCHANGED <<next, live, reserved, todo>>, at'[Pump] = at[Pump], pick'[Pump] = pick[Pump],
         \A r \in Runs : RunOK(r)' /\ Firm(r) /\ SameObject(r)
  PROVE  CoreInv'
<1>1. /\ \A r \in Runs : LiveOK(r) /\ Firm(r)
      /\ PumpOK /\ live \in SUBSET Runs /\ live' \in SUBSET live /\ next \in Nat /\ next' \in Nat /\ next <= next'
      /\ \A r \in live' : SameObject(r) /\ Object(r).session \in reserved'
  BY CoreFacts, PumpTypes DEF TurnTypes
<1>2. /\ at[Pump] \in {"look", "looked", "preparing"} => SameObject(pick[Pump])
      /\ at[Pump] = "preparing" => Object(pick[Pump]).session \in reserved'
  BY <1>1 DEF PumpOK
<1>3. PumpOK' /\ \A r \in Runs : LiveOK(r)'
  BY <1>1, <1>2, PumpStays
<1> QED
  BY <1>3 DEF CoreInv, TypeOK

(* The reading of a receipt keeps the invariant.                           *)
LEMMA RecoverReadsKeeps ==
  ASSUME CoreInv, RecoverReads
  PROVE  CoreInv'
<1>1. /\ UNCHANGED <<disk, chain, mem, next, left>> /\ at' = [at EXCEPT ![Resolve] = "rows"] /\ at[Resolve] = "receipt"
      /\ rest' = newAdm \cup uncertain /\ resave' = failed \cup rest' /\ unknown' = FALSE /\ failed' = {} /\ newAdm' = {}
  BY ReadsFacts
<1>2. /\ UNCHANGED <<admissions, uncertain, unsent, pick, held, live, reserved, todo, ready>> /\ UNCHANGED <<old, detached, stale>>
      /\ UNCHANGED <<told, sent, torn, stopped>>
      /\ found' = [q \in Runs |-> IF q \in newAdm THEN disk[q] ELSE Unread]
  BY DEF RecoverReads, Recovering, SameObjects, objects
<1>3. /\ RowTypes /\ TaskTypes /\ MarkTypes /\ TurnTypes /\ LeftOK /\ ResolveOK
  BY CoreFacts
<1>4. RowTypes' /\ MarkTypes' /\ TurnTypes'
  BY <1>1, <1>2, <1>3 DEF RowTypes, MarkTypes, TurnTypes
<1>5. TaskTypes' /\ LeftOK' /\ at'[Pump] = at[Pump] /\ at'[Resolve] = "rows"
  BY <1>1, <1>2, <1>3, TaskFacts DEF TaskTypes, LeftOK, Places
<1>6. RestTypes'
  <2>1. \A q \in Runs : disk[q] \in Slots
    BY CoreFacts
  <2>2. rest' \in SUBSET Runs /\ resave' \in SUBSET Runs
    BY <1>1, <1>3 DEF RowTypes, MarkTypes
  <2>3. found' \in [Runs -> Slots \cup {Unread}]
    BY <1>2, <2>1
  <2> QED
    BY <2>2, <2>3 DEF RestTypes
<1>7. ResolveOK'
  BY <1>1, <1>2, <1>3, <1>5 DEF ResolveOK, Window
<1>8. \A r \in Runs : RunOK(r)' /\ Firm(r) /\ SameObject(r)
  BY <1>2, ReadsOK DEF SameObject
<1> QED
  BY <1>1, <1>2, <1>4, <1>5, <1>6, <1>7, <1>8, SettlingKeeps

(* What a receipt settles is not pending.                                  *)
LEMMA RestFirm ==
  ASSUME CoreInv, Window, NEW r \in Runs, r \in resave
  PROVE  ~Pending(r) /\ (mem[r] # Gone => Unsure(r)) /\ r <= next
<1>1. SavedOK(r) /\ UnusedOK(r) /\ r \in Nat /\ next \in Nat
  BY CoreFacts DEF RunOK
<1>2. mem[r] # Gone => Unsure(r)
  BY <1>1 DEF SavedOK, Clean, Unsure, Returning, Window
<1> QED
  BY <1>1, <1>2 DEF Pending, UnusedOK

(* A step in which a recovery settles one run leaves the others alone.     *)
SettlesOne(r) ==
  /\ UNCHANGED <<disk, chain, unknown, failed, newAdm>> /\ UNCHANGED <<next, live, reserved, todo, held, ready, found, resave>>
  /\ UNCHANGED <<told, sent, torn, stopped>>
  /\ at' = [at EXCEPT ![Resolve] = at'[Resolve]] /\ left' = left /\ at'[Resolve] \in {"rows", "files"}
  /\ pick' = [pick EXCEPT ![Resolve] = pick'[Resolve]] /\ pick'[Resolve] \in Runs \cup {NoRun}
  /\ mem' \in [Runs -> Slots] /\ old' \in [Runs -> Raw] /\ stale' \in SUBSET Runs /\ detached' \in SUBSET Runs
  /\ admissions' \in {admissions, admissions \ {r}} /\ uncertain' \in {uncertain, uncertain \ {r}} /\ rest' \in {rest, rest \ {r}}
  /\ unsent' \in {unsent, [unsent EXCEPT ![r] = NoRun]}
  /\ \A q \in Runs : SameObject(q) /\ OldStays(q)
  /\ \A q \in Runs \ {r} : /\ mem'[q] = mem[q] /\ old'[q] = old[q] /\ (q \in detached' <=> q \in detached)
                           /\ Files(q)' => Files(q)

(* Only the task of the recovery moves.                                    *)
LEMMA SettlesTasks ==
  ASSUME CoreInv, NEW r, SettlesOne(r)
  PROVE  /\ at' \in [Tasks -> Places] /\ pick' \in [Tasks -> Runs \cup {NoRun}]
         /\ at'[Pump] = at[Pump] /\ pick'[Pump] = pick[Pump] /\ left' = left
         /\ \A q \in Runs : SameTasks(q) /\ at'[Stop(q)] = at[Stop(q)]
<1>1. PICK a \in Places : a = at'[Resolve]
  BY DEF SettlesOne, Places
<1>2. PICK k \in Runs \cup {NoRun} : k = pick'[Resolve]
  BY DEF SettlesOne
<1>3. at' = [at EXCEPT ![Resolve] = a] /\ pick' = [pick EXCEPT ![Resolve] = k] /\ left' = left
  BY <1>1, <1>2 DEF SettlesOne
<1> QED
  BY <1>3, CoreFacts, TaskFacts DEF TaskTypes, SameTasks

(* The other runs stay as they are.                                        *)
LEMMA SettlesOneKeeps ==
  ASSUME CoreInv, Window, NEW r, SettlesOne(r), r \in Runs => RunOK(r)' /\ Firm(r)
  PROVE  CoreInv'
<1>1. /\ RowTypes /\ TaskTypes /\ MarkTypes /\ TurnTypes /\ RestTypes /\ LeftOK /\ ResolveOK /\ next \in Nat /\ Len(chain) \in Nat
  BY CoreFacts
<1>2. RowTypes' /\ TurnTypes' /\ RestTypes'
  BY <1>1 DEF RowTypes, TurnTypes, RestTypes, SettlesOne
<1>3. MarkTypes'
  <2>1. unsent' \in [Runs -> Runs \cup {NoRun}]
    BY <1>1 DEF MarkTypes, SettlesOne
  <2> QED
    BY <1>1, <2>1 DEF MarkTypes, SettlesOne
<1>4. /\ at' \in [Tasks -> Places] /\ pick' \in [Tasks -> Runs \cup {NoRun}]
      /\ at'[Pump] = at[Pump] /\ pick'[Pump] = pick[Pump] /\ left' = left
      /\ \A q \in Runs : SameTasks(q) /\ at'[Stop(q)] = at[Stop(q)]
  BY SettlesTasks
<1>5. TaskTypes' /\ LeftOK'
  BY <1>1, <1>4 DEF TaskTypes, LeftOK, SettlesOne
<1>6. ResolveOK'
  BY <1>1 DEF ResolveOK, Window, SettlesOne
<1>7. ASSUME NEW q \in Runs \ {r} PROVE RunOK(q)' /\ Firm(q)
  <2>1. /\ RunOK(q) /\ LiveOK(q) /\ left[Admit(q)] \in Nat /\ left[Admit(q)] <= Len(chain) /\ mem[q] \in Slots
        /\ left[Resolve] \in Nat /\ left[Resolve] <= Len(chain)
    BY CoreFacts
  <2>2. Wrote(q, {})
    BY <1>1 DEF Wrote, SettlesOne
  <2>3. Kept(q)
    BY DEF Kept, SettlesOne
  <2>4. SameMarks(q)
    BY <1>1 DEF SameMarks, SettlesOne, MarkTypes
  <2>5. SameSettling(q)
    BY DEF SameSettling, SettlesOne, Window
  <2>6. Bystander(q, {}) /\ OldStays(q)
    BY <1>4, <2>3, <2>4, <2>5 DEF Bystander, StopStays, SettlesOne
  <2>7. next' \in Nat /\ next <= next' /\ Len(chain') \in Nat
    BY <1>1 DEF SettlesOne
  <2> QED
    BY <1>1, <2>1, <2>2, <2>6, <2>7, RunStays
<1>8. \A q \in Runs : RunOK(q)' /\ Firm(q) /\ SameObject(q)
  BY <1>7 DEF SettlesOne
<1> QED
  BY <1>2, <1>3, <1>4, <1>5, <1>6, <1>8, SettlingKeeps DEF SettlesOne

(* What a receipt settles of a run keeps what holds of it: a run that is   *)
(* not new keeps its row or ends, and the request of one that is new has   *)
(* lost it.                                                                *)
Settles(r) ==
  /\ r \in rest /\ SettlesOne(r)
  /\ ~New(r) => /\ mem'[r] = Gone <=> mem[r] = Gone
                /\ mem'[r] # Gone => mem'[r].session = mem[r].session
                /\ mem'[r] = mem[r] \/ mem'[r].st = "error"
                /\ unsent[r] = NoRun => mem'[r] = mem[r]
  /\ at[Admit(r)] \in {"trusting", "creating"} => r \in detached'
  /\ Files(r)' => r \in rest'
  /\ r \in rest' => uncertain' = uncertain
  /\ unsent'[r] # NoRun => r \in rest' /\ unsent'[r] = unsent[r]

LEMMA SettlesRun ==
  ASSUME CoreInv, Window, NEW r \in Runs, Settles(r)
  PROVE  RunOK(r)' /\ Firm(r)
<1> USE DEF Settles
<1>1. RunOK(r) /\ LiveOK(r) /\ mem[r] \in Slots
  BY CoreFacts
<1>2. /\ UnusedOK(r) /\ SavedOK(r) /\ AdmitOK(r) /\ RestOK(r) /\ InsertOK(r) /\ GivenOK(r)
  BY <1>1 DEF RunOK
<1>3. /\ UNCHANGED <<disk, chain, unknown, failed, newAdm>> /\ UNCHANGED <<next, live, found, resave, told, sent, torn>>
      /\ mem' \in [Runs -> Slots] /\ left' = left /\ SameTasks(r) /\ at'[Stop(r)] = at[Stop(r)]
      /\ at'[Resolve] \in {"rows", "files"} /\ SameObject(r) /\ OldStays(r)
  BY SettlesTasks DEF SettlesOne
<1>4. r \in resave /\ (New(r) \/ r \in uncertain) /\ r <= next /\ ~Pending(r) /\ (mem[r] # Gone => Unsure(r))
  BY <1>2, RestFirm DEF RestOK
<1>5. /\ New(r)' <=> New(r)
      /\ mem'[r] # Gone => Unsure(r)'
  <2>1. New(r)' <=> New(r)
    BY <1>3 DEF New
  <2>2. ASSUME mem'[r] # Gone, ~New(r) PROVE Returning(r)'
    <3>1. r \in failed \cup resave /\ NoneGone(r)
      BY <1>4, <2>2 DEF Unsure, Returning, Window
    <3> QED
      BY <1>3, <3>1 DEF Returning, NoneGone, Holds
  <2> QED
    BY <2>1, <2>2 DEF Unsure
<1>6. ~Pending(r)' /\ ~Fresh(r)'
  BY <1>5 DEF Pending, Fresh
<1>7. /\ at[Admit(r)] # "saving"
      /\ Known(r) => Known(r)' /\ mem'[r].session = mem[r].session /\ (mem'[r] = mem[r] \/ mem'[r].st = "error")
  <2>1. at[Admit(r)] # "saving"
    BY <1>2, <1>4 DEF AdmitOK
  <2>2. NoneGone(r) => NoneGone(r)'
    BY <1>3 DEF NoneGone, Holds
  <2> QED
    BY <1>3, <1>5, <2>1, <2>2 DEF Known, SameTasks
<1>8. UnusedOK(r)'
  BY <1>3, <1>4, CoreFacts DEF UnusedOK, Runs
<1>9. SavedOK(r)'
  BY <1>5 DEF SavedOK
<1>10. AdmitOK(r)'
  <2>1. at'[Admit(r)] = at[Admit(r)]
    BY <1>3 DEF SameTasks
  <2>2. at[Admit(r)] \in {"trusting", "creating"} => r \in detached'
    OBVIOUS
  <2>3. unsent'[r] # NoRun => r \in rest' /\ r \in uncertain'
    BY <1>2 DEF AdmitOK
  <2>4. told'[r] = "accepted" => Known(r)'
    BY <1>2, <1>3, <1>7 DEF AdmitOK
  <2> QED
    BY <1>6, <1>7, <2>1, <2>2, <2>3, <2>4 DEF AdmitOK
<1>11. RestOK(r)'
  <2>1. r \in rest' => New(r)' \/ r \in uncertain'
    BY <1>4, <1>5
  <2> QED
    BY <1>3, <1>4, <2>1 DEF RestOK
<1>12. InsertOK(r)'
  <2>1. ASSUME at[Insert(r)] \in {"files", "putting", "sent"}
        PROVE  Known(r)' /\ unsent'[r] = NoRun /\ mem'[r] = mem[r]
    <3>1. Known(r) /\ unsent[r] = NoRun
      BY <1>2, <2>1 DEF InsertOK
    <3>2. ~New(r)
      BY <3>1 DEF Known
    <3> QED
      BY <1>7, <3>1, <3>2
  <2> QED
    BY <1>2, <1>3, <2>1 DEF InsertOK, Delivers, SameTasks
<1>13. GivenOK(r)'
  BY <1>2, <1>3, <1>7 DEF GivenOK, Delivers, Queued, SameTasks, OldStays
<1>14. Firm(r)
  <2>1. ASSUME r \in live, old[r] = Gone PROVE mem'[r].st # "queued" /\ ~Delivers(r)'
    BY <1>1, <1>3, <1>7, <2>1 DEF LiveOK, Object, Delivers, SameTasks
  <2> QED
    BY <1>6, <1>7, <2>1 DEF Firm
<1> QED
  BY <1>8, <1>9, <1>10, <1>11, <1>12, <1>13, <1>14 DEF RunOK

(* Each run that a receipt settles keeps the invariant.                    *)
LEMMA RecoverRowKeeps ==
  ASSUME CoreInv, NEW r \in Runs, RecoverRow(r)
  PROVE  CoreInv'
<1>1. at[Resolve] = "rows" /\ r \in rest /\ Window /\ at \in [Tasks -> Places] /\ pick \in [Tasks -> Runs \cup {NoRun}]
  BY CoreFacts DEF RecoverRow, Window, TaskTypes
<1>2. PICK R \in SUBSET Runs : R = (IF Removed(r) \/ Replaced(r) THEN {r} ELSE {}) /\ Detach(R)
  BY DEF RecoverRow
<1>3. /\ stale' \in SUBSET Runs /\ detached' \in SUBSET Runs /\ old' \in [Runs -> Raw]
      /\ \A q \in Runs : SameObject(q) /\ OldStays(q)
      /\ \A q \in Runs : old'[q] = old[q] \/ q \in R
      /\ \A q \in Runs : q \in detached' <=> q \in detached \/ (q \in R /\ at[Admit(q)] \in {"trusting", "creating", "failing"})
  BY <1>2, DetachFacts
<1>4. Settled(r) \in Slots /\ mem' = [mem EXCEPT ![r] = Settled(r)] /\ mem \in [Runs -> Slots]
  BY SettledRow, CoreFacts DEF RecoverRow, RowTypes
<1>5. mem' \in [Runs -> Slots] /\ mem'[r] = Settled(r) /\ \A q \in Runs \ {r} : mem'[q] = mem[q]
  BY <1>4
<1>6. \/ /\ at' = [at EXCEPT ![Resolve] = "files"] /\ left' = left /\ pick' = [pick EXCEPT ![Resolve] = r]
         /\ UNCHANGED <<admissions, uncertain, unsent, rest>>
      \/ UNCHANGED <<at, left, pick>> /\ SettledNow(r)
  BY DEF RecoverRow, Go
<1>7. /\ at' = [at EXCEPT ![Resolve] = at'[Resolve]] /\ at'[Resolve] \in {"rows", "files"} /\ left' = left
      /\ pick' = [pick EXCEPT ![Resolve] = pick'[Resolve]] /\ pick'[Resolve] \in Runs \cup {NoRun}
      /\ at'[Resolve] = "files" => pick'[Resolve] = r /\ UNCHANGED <<admissions, uncertain, unsent, rest>>
      /\ at'[Resolve] = "rows" => SettledNow(r)
  BY <1>1, <1>6, TaskFacts
<1>8. \A q \in Runs \ {r} : Files(q)' => Files(q)
  BY <1>7 DEF Files
<1>9. /\ admissions' \in {admissions, admissions \ {r}} /\ uncertain' \in {uncertain, uncertain \ {r}}
      /\ rest' \in {rest, rest \ {r}} /\ unsent' \in {unsent, [unsent EXCEPT ![r] = NoRun]}
  BY <1>7 DEF SettledNow
<1>10. /\ UNCHANGED <<disk, chain, unknown, failed, newAdm>> /\ UNCHANGED <<next, live, reserved, todo, held, ready, found, resave>>
       /\ UNCHANGED <<told, sent, torn, stopped>>
  BY DEF RecoverRow, Recovering, rowVars
<1>11. SettlesOne(r)
  BY <1>2, <1>3, <1>5, <1>7, <1>8, <1>9, <1>10 DEF SettlesOne
<1>12. Settles(r)
  <2>1. AdmitOK(r) /\ RestOK(r) /\ unsent \in [Runs -> Runs \cup {NoRun}]
    BY CoreFacts DEF RunOK, MarkTypes
  <2>2. ASSUME at[Admit(r)] \in {"trusting", "creating"} PROVE r \in detached'
    <3>1. CASE r \in R
      BY <1>3, <2>2, <3>1
    <3>2. CASE r \notin R /\ r \notin detached
      <4>1. r \notin uncertain /\ unsent[r] = NoRun
        BY <2>1, <2>2, <3>2 DEF AdmitOK
      <4>2. New(r)
        BY <1>1, <2>1, <4>1 DEF RestOK
      <4>3. Removed(r) \/ Replaced(r)
        BY <4>1, <4>2 DEF Removed, Replaced
      <4> QED
        BY <1>2, <3>2, <4>3
    <3> QED
      BY <1>3, <3>1, <3>2
  <2>3. Files(r)' => r \in rest'
    BY <1>1, <1>7 DEF Files
  <2>4. /\ r \in rest' => uncertain' = uncertain
        /\ unsent'[r] # NoRun => r \in rest' /\ unsent'[r] = unsent[r]
    BY <1>1, <1>7, <2>1 DEF SettledNow
  <2>5. ~New(r) => /\ mem'[r] = Gone <=> mem[r] = Gone
                   /\ mem'[r] # Gone => mem'[r].session = mem[r].session
                   /\ mem'[r] = mem[r] \/ mem'[r].st = "error"
                   /\ unsent[r] = NoRun => mem'[r] = mem[r]
    BY <1>5, SettledRow
  <2> QED
    BY <1>1, <1>11, <2>2, <2>3, <2>4, <2>5 DEF Settles
<1> QED
  BY <1>1, <1>11, <1>12, SettlesRun, SettlesOneKeeps

(* Its files kept or removed, a run is settled.                            *)
LEMMA RecoverKeptKeeps ==
  ASSUME CoreInv, RecoverKept
  PROVE  CoreInv'
<1>1. /\ at[Resolve] = "files" /\ Window /\ at \in [Tasks -> Places] /\ pick \in [Tasks -> Runs \cup {NoRun}]
      /\ unsent \in [Runs -> Runs \cup {NoRun}]
  BY CoreFacts DEF RecoverKept, Window, TaskTypes, MarkTypes
<1>2. PICK r \in Runs \cup {NoRun} : r = pick[Resolve]
  BY <1>1, TaskFacts
<1>3. /\ at' = [at EXCEPT ![Resolve] = "rows"] /\ left' = left /\ pick' = [pick EXCEPT ![Resolve] = NoRun] /\ SettledNow(r)
      /\ UNCHANGED <<disk, chain, unknown, failed, newAdm>> /\ UNCHANGED <<next, live, reserved, todo, held, ready, found, resave>>
      /\ UNCHANGED <<told, sent, torn, stopped>> /\ UNCHANGED <<mem, old, stale, detached>>
  BY <1>2 DEF RecoverKept, Recovering, rowVars, Go, SameObjects, objects
<1>4. at'[Resolve] = "rows" /\ pick'[Resolve] = NoRun /\ \A q \in Runs : ~Files(q)'
  BY <1>1, <1>3, TaskFacts DEF Files
<1>5. /\ mem' \in [Runs -> Slots] /\ old' \in [Runs -> Raw] /\ stale' \in SUBSET Runs /\ detached' \in SUBSET Runs
      /\ \A q \in Runs : SameObject(q) /\ OldStays(q)
  BY <1>3, CoreFacts DEF RowTypes, TurnTypes, MarkTypes, SameObject, OldStays
<1>6. SettlesOne(r)
  <2>1. at' = [at EXCEPT ![Resolve] = at'[Resolve]] /\ pick' = [pick EXCEPT ![Resolve] = pick'[Resolve]]
    BY <1>3, <1>4
  <2> QED
    BY <1>3, <1>4, <1>5, <2>1 DEF SettlesOne, SettledNow
<1>7. ASSUME r \in Runs PROVE Settles(r)
  <2>1. AdmitOK(r) /\ RestOK(r) /\ Files(r)
    BY <1>1, <1>2, <1>7, CoreFacts DEF RunOK, Files
  <2>2. r \in rest /\ (at[Admit(r)] \in {"trusting", "creating"} => r \in detached')
    BY <1>3, <2>1 DEF AdmitOK, RestOK
  <2>3. unsent'[r] = NoRun /\ r \notin rest' /\ mem' = mem
    BY <1>1, <1>3, <1>7 DEF SettledNow
  <2> QED
    BY <1>4, <1>6, <1>7, <2>2, <2>3 DEF Settles
<1>8. r \in Runs => RunOK(r)' /\ Firm(r)
  BY <1>1, <1>7, SettlesRun
<1> QED
  BY <1>1, <1>6, <1>8, SettlesOneKeeps

(* What the save of a receipt does.                                        *)
LEMMA ReceiptSaved ==
  ASSUME CoreInv, RecoverSaves
  PROVE  /\ Writes(mem, resave) /\ rest = {} /\ at[Resolve] = "rows" /\ resave \in SUBSET Runs /\ RowTypes'
         /\ UNCHANGED <<next, live, reserved, todo, held, ready, updating, admissions, uncertain, unsent, pick, rest, reopened>>
         /\ UNCHANGED <<told, sent, torn, stopped, old, stale, detached>>
         /\ found' = [r \in Runs |-> Unread] /\ resave' = {}
         /\ at' \in [Tasks -> Places] /\ left' \in [Tasks -> Nat] /\ LeftOK'
         /\ at'[Resolve] = "settling" /\ left'[Resolve] = Len(chain')
         /\ \A u \in Tasks \ {Resolve} : at'[u] = at[u] /\ left'[u] = left[u]
         /\ Len(chain) \in Nat /\ Len(chain') \in Nat /\ Len(chain) <= Len(chain')
         /\ \A r \in Runs : Wrote(r, resave) /\ From(mem[r], mem'[r])
         /\ \A r \in resave : Len(chain') = Len(chain) + 1 /\ r \in DOMAIN chain'[Len(chain')]
<1>1. RowTypes /\ TaskTypes /\ LeftOK /\ resave \in SUBSET Runs /\ mem \in [Runs -> Raw] /\ Resolve \in Tasks
  BY CoreFacts, TaskFacts DEF RestTypes
<1>2. Writes(mem, resave)
  BY <1>1, ChangedWrites DEF RecoverSaves, Changed
<1>3. /\ RowTypes' /\ Len(chain) \in Nat /\ Len(chain') \in Nat /\ Len(chain) <= Len(chain')
      /\ \A r \in Runs : Wrote(r, resave) /\ From(mem[r], mem'[r])
      /\ \A r \in resave : Len(chain') = Len(chain) + 1 /\ r \in DOMAIN chain'[Len(chain')]
  BY <1>1, <1>2, WritesFacts
<1>4. at' = [at EXCEPT ![Resolve] = "settling"] /\ left' = [left EXCEPT ![Resolve] = Len(chain')]
  BY DEF RecoverSaves, Await
<1>5. Moves(Resolve, "settling") /\ "settling" \in Places
  BY <1>4 DEF Moves, Places
<1>6. /\ at' \in [Tasks -> Places] /\ left' \in [Tasks -> Nat] /\ LeftOK'
      /\ at'[Resolve] = "settling"
      /\ \A u \in Tasks \ {Resolve} : at'[u] = at[u] /\ left'[u] = left[u]
  BY <1>1, <1>3, <1>5, MoveFacts
<1>7. left'[Resolve] = Len(chain')
  BY <1>1, <1>4 DEF TaskTypes
<1> QED
  BY <1>1, <1>2, <1>3, <1>6, <1>7 DEF RecoverSaves, Recovering, SameObjects, objects

(* What a receipt saves keeps what holds of a run.                         *)
LEMMA ReceiptSavedOK ==
  ASSUME CoreInv, RecoverSaves, NEW r \in resave
  PROVE  RunOK(r)' /\ Firm(r)
<1>1. /\ rest = {} /\ at[Resolve] = "rows" /\ r \in Runs
      /\ UNCHANGED <<next, live, admissions, uncertain, unsent, rest>> /\ UNCHANGED <<told, sent, torn, old, stale, detached>>
      /\ found' = [q \in Runs |-> Unread] /\ resave' = {}
      /\ at'[Resolve] = "settling" /\ left'[Resolve] = Len(chain')
      /\ \A u \in Tasks \ {Resolve} : at'[u] = at[u] /\ left'[u] = left[u]
      /\ Len(chain) \in Nat /\ Len(chain') \in Nat
      /\ Wrote(r, resave) /\ From(mem[r], mem'[r])
      /\ Len(chain') = Len(chain) + 1 /\ r \in DOMAIN chain'[Len(chain')]
  BY ReceiptSaved
<1>2. RunOK(r) /\ LiveOK(r) /\ mem[r] \in Slots /\ r <= next
  BY <1>1, CoreFacts, RestFirm DEF Window
<1>3. /\ UnusedOK(r) /\ SavedOK(r) /\ AdmitOK(r) /\ RestOK(r) /\ InsertOK(r) /\ GivenOK(r)
  BY <1>2 DEF RunOK
<1>4. Kept(r) /\ SameTasks(r) /\ at'[Stop(r)] = at[Stop(r)]
  BY <1>1, <1>3, KeptSame, TaskFacts DEF SameTasks
<1>5. ~New(r)' /\ ~Files(r)'
  BY <1>1 DEF New, Files
<1>6. ASSUME mem'[r] # Gone, NEW i \in 1 .. Len(chain'), r \in DOMAIN chain'[i], i <= Len(chain) => NoneGone(r)
      PROVE  chain'[i][r] # Gone
  <2>1. CASE i \in 1 .. Len(chain)
    BY <1>1, <1>6, <2>1 DEF Wrote, NoneGone, Holds
  <2>2. CASE i \in Len(chain) + 1 .. Len(chain')
    BY <1>1, <1>6, <2>2 DEF Wrote
  <2> QED
    BY <1>1, <2>1, <2>2
<1>7. mem'[r] # Gone => Returning(r)'
  <2>1. PICK j \in Nat : j = Len(chain')
    BY <1>1
  <2>2. j \in 1 .. left'[Resolve] /\ r \in DOMAIN chain'[j]
    BY <1>1, <2>1
  <2>3. mem'[r] # Gone => \A i \in 1 .. Len(chain') : i >= j /\ r \in DOMAIN chain'[i] => chain'[i][r] # Gone
    BY <1>1, <1>6, <2>1
  <2> QED
    BY <1>1, <2>2, <2>3 DEF Returning, Holds
<1>8. ~Pending(r)' /\ ~Fresh(r)'
  BY <1>7 DEF Pending, Fresh, Unsure
<1>9. mem'[r] # Gone /\ NoneGone(r) => NoneGone(r)'
  BY <1>6 DEF NoneGone, Holds
<1>10. Known(r) => Known(r)' /\ mem'[r].session = mem[r].session
  BY <1>1, <1>4, <1>5, <1>9 DEF Known, Kept, SameTasks, Wrote
<1>11. UnusedOK(r)'
  BY <1>1, <1>2, CoreFacts DEF UnusedOK, Runs
<1>12. SavedOK(r)'
  BY <1>7 DEF SavedOK, Unsure
<1>13. AdmitOK(r)'
  <2>1. at'[Admit(r)] = "saving" => /\ r \in admissions' /\ mem'[r] # Gone /\ Clean(r)' /\ ~New(r)'
                                    /\ (r \in newAdm' <=> r \in newAdm)
    BY <1>1, <1>3, <1>4, <1>5, <1>9 DEF AdmitOK, SameTasks, Kept, Clean, Wrote
  <2>2. at'[Admit(r)] = "saving" /\ r \in newAdm' => r \in failed' \/ \E i \in 1 .. left'[Admit(r)] : r \in DOMAIN chain'[i]
    <3>1. left[Admit(r)] \in Nat /\ left[Admit(r)] <= Len(chain)
      BY <1>1, CoreFacts
    <3> QED
      BY <1>1, <1>3, <1>4, <2>1, <3>1 DEF AdmitOK, SameTasks, Wrote, Holds
  <2>3. /\ at'[Admit(r)] = "saving" \/ (at'[Admit(r)] \in {"trusting", "creating"} /\ r \notin detached') =>
             r \in admissions' /\ at'[Insert(r)] = "idle" /\ r \notin uncertain' /\ ~Files(r)'
        /\ unsent'[r] # NoRun => (unknown' \/ r \in rest') /\ r \in uncertain'
        /\ told'[r] = "accepted" => Known(r)'
    BY <1>1, <1>3, <1>4, <1>5, <1>10 DEF AdmitOK, SameTasks, Wrote
  <2> QED
    BY <1>8, <2>1, <2>2, <2>3 DEF AdmitOK, Holds
<1>14. RestOK(r)'
  BY <1>1, <1>5 DEF RestOK
<1>15. InsertOK(r)'
  BY <1>1, <1>3, <1>4, <1>10 DEF InsertOK, Delivers, SameTasks, Kept, Known
<1>16. GivenOK(r)'
  BY <1>1, <1>3, <1>4, <1>10 DEF GivenOK, Delivers, SameTasks, Kept, Known, Queued, Finished
<1>17. Firm(r)
  <2>1. ASSUME r \in live, old[r] = Gone PROVE mem'[r].st # "queued" /\ ~Delivers(r)'
    BY <1>2, <1>4, <2>1 DEF LiveOK, Object, Delivers, SameTasks, Kept, Known, Finished
  <2> QED
    BY <1>8, <1>10, <2>1 DEF Firm
<1> QED
  BY <1>11, <1>12, <1>13, <1>14, <1>15, <1>16, <1>17 DEF RunOK

(* The runs of a receipt are saved once all of them are settled.           *)
LEMMA RecoverSavesKeeps ==
  ASSUME CoreInv, RecoverSaves
  PROVE  CoreInv'
<1>1. /\ rest = {} /\ at[Resolve] = "rows" /\ resave \in SUBSET Runs /\ RowTypes'
      /\ UNCHANGED <<next, live, reserved, todo, held, ready, admissions, uncertain, unsent, pick, rest>>
      /\ UNCHANGED <<told, sent, torn, stopped, old, stale, detached>>
      /\ found' = [r \in Runs |-> Unread] /\ resave' = {}
      /\ at' \in [Tasks -> Places] /\ left' \in [Tasks -> Nat] /\ LeftOK'
      /\ at'[Resolve] = "settling"
      /\ \A u \in Tasks \ {Resolve} : at'[u] = at[u] /\ left'[u] = left[u]
      /\ Len(chain) \in Nat /\ Len(chain') \in Nat
      /\ \A r \in Runs : Wrote(r, resave) /\ From(mem[r], mem'[r])
  BY ReceiptSaved
<1>2. TaskTypes /\ MarkTypes /\ TurnTypes /\ RestTypes /\ ResolveOK
  BY CoreFacts
<1>3. TaskTypes' /\ MarkTypes' /\ TurnTypes' /\ RestTypes'
  BY <1>1, <1>2 DEF TaskTypes, MarkTypes, TurnTypes, RestTypes
<1>4. ResolveOK'
  BY <1>1, <1>2 DEF ResolveOK, Window, New
<1>5. at'[Pump] = at[Pump] /\ pick'[Pump] = pick[Pump] /\ \A r \in Runs : SameTasks(r) /\ at'[Stop(r)] = at[Stop(r)]
  BY <1>1, TaskFacts DEF SameTasks
<1>6. ASSUME NEW r \in Runs \ resave PROVE RunOK(r)' /\ Firm(r)
  <2>1. /\ RunOK(r) /\ LiveOK(r) /\ left[Admit(r)] \in Nat /\ left[Admit(r)] <= Len(chain)
        /\ next \in Nat /\ left[Resolve] \in Nat /\ left[Resolve] <= Len(chain)
    BY CoreFacts
  <2>2. RestOK(r) /\ InsertOK(r) /\ ~New(r) /\ Wrote(r, resave) /\ From(mem[r], mem'[r])
    BY <1>1, <2>1 DEF RunOK, RestOK
  <2>3. SameSettling(r)
    BY <1>1, <2>2 DEF SameSettling, New, Files
  <2>4. Kept(r) /\ SameMarks(r) /\ StopStays(r) /\ OldStays(r)
    BY <1>1, <1>5, <2>2, KeptSame DEF SameMarks, StopStays, OldStays
  <2>5. Bystander(r, resave)
    BY <1>5, <2>3, <2>4 DEF Bystander
  <2>6. next' \in Nat /\ next <= next'
    BY <1>1, <2>1
  <2> QED
    BY <1>1, <2>1, <2>2, <2>4, <2>5, <2>6, RunStays
<1>7. \A r \in Runs : RunOK(r)' /\ Firm(r) /\ SameObject(r)
  BY <1>1, <1>6, ReceiptSavedOK DEF SameObject
<1> QED
  BY <1>1, <1>3, <1>4, <1>5, <1>7, SettlingKeeps

-----------------------------------------------------------------------------
(* The worker ends, and the next one reads what was saved.                 *)

(* What a restart makes of a row.                                          *)
LEMMA RestoredRow ==
  ASSUME NEW row \in Slots, row # Gone, NEW late \in BOOLEAN
  PROVE  /\ Restored(row, late) \in Slots /\ Restored(row, late) # Gone
         /\ Restored(row, late).st = "queued" => row.st = "queued"
         /\ row.st \in Finished \/ (row.st = "queued" /\ ~row.planned /\ row.keep) => Restored(row, late).st = row.st
<1>1. row \in Rows /\ (row.keep => row.st = "queued")
  BY DEF Slots
<1>2. PICK x \in {"none", "sending", "delivered", "uncertain"} :
        x = IF row.steer = "sending" THEN "uncertain" ELSE row.steer
  BY <1>1 DEF Rows
<1>3. PICK seen : seen = [row EXCEPT !.steer = x]
  OBVIOUS
<1>4. seen \in Rows /\ seen.st = row.st /\ seen.keep = row.keep
  BY <1>1, <1>3 DEF Rows
<1>5. PICK y \in Finished : y = IF seen.st = "running" THEN "error" ELSE "cancelled"
  BY DEF Finished
<1>6. PICK w : w = [seen EXCEPT !.st = y, !.keep = FALSE]
  OBVIOUS
<1>7. w \in Rows /\ w.st = y /\ w.keep = FALSE
  BY <1>4, <1>6 DEF Rows
<1>8. Interrupted(seen) = w
  BY <1>5, <1>6 DEF Interrupted
<1>9. seen = [row EXCEPT !.steer = IF @ = "sending" THEN "uncertain" ELSE @]
  BY <1>2, <1>3
<1>10. Restored(row, late) \in {seen, w}
  BY <1>8, <1>9 DEF Restored
<1>11. y # "queued"
  BY <1>5
<1>12. row.st \in Finished \/ (row.st = "queued" /\ ~row.planned /\ row.keep) => Restored(row, late) = seen
  BY <1>9 DEF Restored
<1> QED
  BY <1>1, <1>4, <1>7, <1>10, <1>11, <1>12, RowFacts DEF Slots

(* A row that a restart leaves as it is.                                   *)
Outlasts(row) == row.st \in Finished \/ (row.st = "queued" /\ ~row.planned /\ row.keep)

(* What the end of the worker makes of the database, the rows and the      *)
(* saves.                                                                  *)
LEMMA CrashRows ==
  ASSUME CoreInv, Crash
  PROVE  /\ disk' \in [Runs -> Slots] /\ mem' \in [Runs -> Slots]
         /\ chain' \in Seq(Batches) /\ Len(chain') \in Nat
         /\ chain = <<>> => disk' = disk
         /\ \A r \in Runs : disk'[r] = disk[r] \/ (Len(chain) >= 1 /\ r \in DOMAIN chain[1] /\ disk'[r] = chain[1][r])
         /\ \A r \in Runs : /\ mem'[r] \in Slots
                            /\ mem'[r] = Gone <=> disk'[r] = Gone
                            /\ mem'[r].st = "queued" => disk'[r].st = "queued"
                            /\ Outlasts(disk'[r]) => mem'[r].st = disk'[r].st
         /\ \A i \in 1 .. Len(chain') : \A r \in DOMAIN chain'[i] : mem'[r] # Gone /\ chain'[i][r] = mem'[r] /\ r \in Runs
         /\ \A r \in Runs : (\A i \in 1 .. Len(chain') : r \notin DOMAIN chain'[i]) => mem'[r] = Gone
<1>1. PICK committed \in BOOLEAN, late \in SUBSET Runs :
       /\ committed => chain # <<>>
       /\ disk' = IF committed THEN Saved(Head(chain)) ELSE disk
       /\ mem' = [r \in Runs |-> IF disk'[r] = Gone THEN Gone ELSE Restored(disk'[r], r \in late)]
  BY DEF Crash
<1>2. PICK ids : ids = {r \in Runs : mem'[r] # Gone} /\ chain' = IF ids = {} THEN <<>> ELSE <<Restrict(mem', ids)>>
  BY DEF Crash
<1>3. /\ disk' \in [Runs -> Slots]
      /\ \A r \in Runs : disk'[r] = disk[r] \/ (Len(chain) >= 1 /\ r \in DOMAIN chain[1] /\ disk'[r] = chain[1][r])
  <2>1. CASE ~committed
    BY <1>1, <2>1, CoreFacts DEF RowTypes
  <2>2. CASE committed
    <3>1. chain # <<>> /\ chain \in Seq(Batches) /\ disk \in [Runs -> Slots]
      BY <1>1, <2>2, CoreFacts DEF RowTypes
    <3>2. PICK head : head = Head(chain)
      OBVIOUS
    <3>3. head = chain[1] /\ head \in Batches /\ Len(chain) >= 1
      BY <3>1, <3>2, TailFacts
    <3>4. PICK T \in SUBSET Runs : head \in [T -> Slots]
      BY <3>3 DEF Batches
    <3>5. disk' = Saved(head)
      BY <1>1, <2>2, <3>2
    <3> QED
      BY <3>1, <3>3, <3>4, <3>5 DEF Saved
  <2> QED
    BY <2>1, <2>2
<1>4. \A r \in Runs : /\ mem'[r] \in Slots
                      /\ mem'[r] = Gone <=> disk'[r] = Gone
                      /\ mem'[r].st = "queued" => disk'[r].st = "queued"
                      /\ Outlasts(disk'[r]) => mem'[r].st = disk'[r].st
  <2>1. ASSUME NEW r \in Runs
        PROVE  /\ mem'[r] \in Slots
               /\ mem'[r] = Gone <=> disk'[r] = Gone
               /\ mem'[r].st = "queued" => disk'[r].st = "queued"
               /\ Outlasts(disk'[r]) => mem'[r].st = disk'[r].st
    <3>1. CASE disk'[r] = Gone
      BY <1>1, <3>1, RowFacts DEF Outlasts, Finished
    <3>2. CASE disk'[r] # Gone
      <4>1. PICK row \in Slots : row = disk'[r]
        BY <1>3
      <4>2. (r \in late) \in BOOLEAN
        OBVIOUS
      <4>3. PICK b \in BOOLEAN : b = (r \in late)
        BY <4>2
      <4>4. mem'[r] = Restored(row, b)
        BY <1>1, <3>2, <4>1, <4>3
      <4> QED
        BY <3>2, <4>1, <4>4, RestoredRow DEF Outlasts
    <3> QED
      BY <3>1, <3>2
  <2> QED
    BY <2>1
<1>5. mem' \in [Runs -> Slots]
  <2>1. mem' = [r \in Runs |-> mem'[r]]
    BY <1>1
  <2> QED
    BY <1>4, <2>1
<1>6. /\ chain' \in Seq(Batches) /\ Len(chain') \in Nat
      /\ \A i \in 1 .. Len(chain') : \A r \in DOMAIN chain'[i] : mem'[r] # Gone /\ chain'[i][r] = mem'[r] /\ r \in Runs
      /\ \A r \in Runs : (\A i \in 1 .. Len(chain') : r \notin DOMAIN chain'[i]) => mem'[r] = Gone
  <2>1. CASE ids = {}
    <3>1. chain' = <<>> /\ \A r \in Runs : mem'[r] = Gone
      BY <1>2, <2>1
    <3>2. chain' \in Seq(Batches) /\ Len(chain') = 0 /\ 1 .. Len(chain') = {}
      BY <3>1
    <3> QED
      BY <3>1, <3>2
  <2>2. CASE ids # {}
    <3>1. PICK save : save = Restrict(mem', ids)
      OBVIOUS
    <3>2. save = [r \in ids |-> mem'[r]] /\ ids \in SUBSET Runs
      BY <1>2, <3>1 DEF Restrict
    <3>3. save \in [ids -> Slots]
      BY <1>5, <3>2
    <3>4. save \in Batches
      BY <3>2, <3>3 DEF Batches
    <3>5. chain' = <<save>>
      BY <1>2, <2>2, <3>1
    <3>6. chain' \in Seq(Batches) /\ Len(chain') = 1 /\ chain'[1] = save
      BY <3>4, <3>5
    <3>7. \A r \in DOMAIN save : mem'[r] # Gone /\ save[r] = mem'[r] /\ r \in Runs
      BY <1>2, <3>2
    <3>8. \A r \in Runs : r \notin DOMAIN save => mem'[r] = Gone
      BY <1>2, <3>2
    <3>9. 1 .. Len(chain') = {1}
      BY <3>6
    <3> QED
      BY <3>6, <3>7, <3>8, <3>9
  <2> QED
    BY <2>1, <2>2
<1>7. chain = <<>> => disk' = disk
  BY <1>1
<1> QED
  BY <1>3, <1>4, <1>5, <1>6, <1>7

(* The end of the worker keeps the invariant.                              *)
LEMMA CrashKeeps ==
  ASSUME CoreInv, Crash
  PROVE  CoreInv'
<1>1. /\ unknown' = FALSE /\ failed' = {} /\ newAdm' = {}
      /\ admissions' = {} /\ uncertain' = {} /\ unsent' = [r \in Runs |-> NoRun]
      /\ live' = {} /\ reserved' = {}
      /\ at' = [t \in Tasks |-> "idle"] /\ left' = [t \in Tasks |-> 0]
      /\ pick' = [t \in Tasks |-> NoRun] /\ todo' = {}
      /\ old' = [r \in Runs |-> Gone] /\ detached' = {}
      /\ rest' = {} /\ found' = [r \in Runs |-> Unread] /\ resave' = {}
      /\ torn' = torn \cup {r \in Runs : sent[r] > 0 /\ disk'[r].st = "queued"}
      /\ UNCHANGED <<next, told, sent, stopped, stale>>
  BY DEF Crash
<1>2. /\ disk' \in [Runs -> Slots]
      /\ \A r \in Runs : disk'[r] = disk[r] \/ (Len(chain) >= 1 /\ r \in DOMAIN chain[1] /\ disk'[r] = chain[1][r])
  BY CrashRows
<1>3. \A r \in Runs : /\ mem'[r] \in Slots
                      /\ mem'[r] = Gone <=> disk'[r] = Gone
                      /\ mem'[r].st = "queued" => disk'[r].st = "queued"
  BY CrashRows
<1>4. mem' \in [Runs -> Slots]
  BY CrashRows
<1>5. /\ chain' \in Seq(Batches) /\ Len(chain') \in Nat
      /\ \A i \in 1 .. Len(chain') : \A r \in DOMAIN chain'[i] : mem'[r] # Gone /\ chain'[i][r] = mem'[r] /\ r \in Runs
  BY CrashRows
<1>6. RowTypes'
  BY <1>1, <1>2, <1>4, <1>5 DEF RowTypes
<1>7. TaskTypes' /\ LeftOK'
  <2>1. "idle" \in Places
    BY DEF Places
  <2> QED
    BY <1>1, <1>5, <2>1 DEF TaskTypes, LeftOK
<1>8. MarkTypes' /\ TurnTypes' /\ RestTypes'
  BY <1>1, CoreFacts, RowFacts DEF MarkTypes, TurnTypes, RestTypes
<1>9. at'[Pump] = "idle" /\ at'[Resolve] = "idle"
  BY <1>1, TaskFacts
<1>10. PumpOK' /\ ResolveOK' /\ \A r \in Runs : LiveOK(r)'
  BY <1>1, <1>9 DEF PumpOK, ResolveOK, LiveOK, OneTurnPerSession, New
<1>11. ASSUME NEW r \in Runs PROVE RunOK(r)'
  <2>1. RunOK(r) /\ r \in Nat /\ next \in Nat
    BY CoreFacts
  <2>2. /\ at'[Admit(r)] = "idle" /\ at'[Insert(r)] = "idle" /\ at'[Stop(r)] = "idle" /\ ~Delivers(r)'
        /\ ~New(r)' /\ ~Files(r)'
    BY <1>1, <1>9, TaskFacts DEF Delivers, New, Files
  <2>3. ~Fresh(r)' /\ ~Pending(r)' /\ NoneGone(r)'
    BY <1>1, <1>5 DEF Fresh, Pending, NoneGone, Holds
  <2>4. r > next => disk'[r] = Gone
    <3>1. ASSUME r > next PROVE disk'[r] = Gone
      BY <1>2, <2>1, <3>1, CoreFacts DEF RunOK, UnusedOK, Holds
    <3> QED
      BY <3>1
  <2>5. UnusedOK(r)'
    <3>1. r > next => \A i \in 1 .. Len(chain') : r \notin DOMAIN chain'[i]
      BY <1>3, <1>5, <2>4
    <3>2. r > next => told'[r] = "none" /\ sent'[r] = 0
      BY <1>1, <2>1 DEF RunOK, UnusedOK
    <3> QED
      BY <1>1, <1>3, <2>2, <2>4, <3>1, <3>2 DEF UnusedOK, Holds
  <2>6. SavedOK(r)'
    BY <1>3, <2>3 DEF SavedOK, Clean
  <2>7. Known(r) => Known(r)'
    <3>1. ASSUME Known(r) PROVE disk'[r] # Gone
      <4>1. mem[r] # Gone /\ disk[r] # Gone
        BY <3>1 DEF Known
      <4>2. Len(chain) >= 1 /\ r \in DOMAIN chain[1] => chain[1][r] # Gone
        BY <3>1, CoreFacts DEF Known, NoneGone, Holds
      <4> QED
        BY <1>2, <4>1, <4>2
    <3> QED
      BY <1>1, <1>3, <2>2, <2>3, <3>1 DEF Known
  <2>8. AdmitOK(r)'
    <3>1. told'[r] = "accepted" => Known(r)'
      BY <1>1, <2>1, <2>7 DEF RunOK, AdmitOK
    <3>2. unsent'[r] = NoRun
      BY <1>1
    <3> QED
      BY <2>2, <2>3, <3>1, <3>2 DEF AdmitOK
  <2>9. RestOK(r)'
    BY <1>1, <2>2 DEF RestOK
  <2>10. InsertOK(r)'
    BY <2>2 DEF InsertOK
  <2>11. GivenOK(r)'
    <3>1. old'[r] = Gone
      BY <1>1
    <3>2. r \notin stale' /\ sent'[r] > 0 => Known(r)'
      BY <1>1, <2>1, <2>7 DEF RunOK, GivenOK
    <3>3. ASSUME r \notin stale', r \notin torn' PROVE sent'[r] <= 1 /\ (sent'[r] = 1 => ~Queued(mem, r)')
      <4>1. sent[r] <= 1 /\ sent'[r] = sent[r]
        BY <1>1, <2>1, <3>3 DEF RunOK, GivenOK
      <4>2. sent[r] = 1 => mem'[r].st # "queued"
        BY <1>1, <1>3, <3>3
      <4> QED
        BY <4>1, <4>2 DEF Queued
    <3> QED
      BY <2>2, <3>1, <3>2, <3>3 DEF GivenOK
  <2> QED
    BY <2>5, <2>6, <2>8, <2>10, <2>11, <2>9 DEF RunOK
<1> QED
  BY <1>6, <1>7, <1>8, <1>10, <1>11 DEF CoreInv, TypeOK

-----------------------------------------------------------------------------
(* Every step.                                                             *)

(* The invariant holds at the start.                                       *)
LEMMA InitCore == Init => CoreInv
<1> SUFFICES ASSUME Init PROVE CoreInv
  OBVIOUS
<1>1. "idle" \in Places /\ "none" \in Answers
  BY DEF Places, Answers
<1>2. TypeOK
  <2>1. RowTypes
    <3>1. chain \in Seq(Batches)
      BY DEF Init
    <3> QED
      BY <3>1, RowFacts DEF Init, RowTypes
  <2>2. TaskTypes
    BY <1>1 DEF Init, TaskTypes
  <2>3. MarkTypes
    BY <1>1 DEF Init, MarkTypes
  <2>4. TurnTypes
    BY RowFacts DEF Init, TurnTypes
  <2>5. RestTypes
    BY DEF Init, RestTypes
  <2> QED
    BY <2>1, <2>2, <2>3, <2>4, <2>5 DEF TypeOK
<1>3. LeftOK
  BY DEF Init, LeftOK
<1>4. at[Pump] = "idle" /\ at[Resolve] = "idle"
  BY TaskFacts DEF Init
<1>5. PumpOK /\ ResolveOK /\ \A r \in Runs : LiveOK(r)
  BY <1>4 DEF Init, PumpOK, ResolveOK, LiveOK, OneTurnPerSession, New
<1>6. ASSUME NEW r \in Runs PROVE RunOK(r)
  <2>1. /\ at[Admit(r)] = "idle" /\ at[Insert(r)] = "idle" /\ at[Stop(r)] = "idle" /\ ~Delivers(r) /\ ~Fresh(r) /\ ~Pending(r)
        /\ ~New(r) /\ ~Files(r)
    BY <1>4, TaskFacts DEF Init, Delivers, Fresh, Pending, New, Files
  <2>2. /\ mem[r] = Gone /\ disk[r] = Gone /\ old[r] = Gone /\ chain = <<>> /\ failed = {} /\ newAdm = {}
        /\ rest = {} /\ resave = {} /\ uncertain = {} /\ detached = {} /\ told[r] = "none" /\ sent[r] = 0 /\ unsent[r] = NoRun
    BY DEF Init
  <2> QED
    BY <2>1, <2>2 DEF RunOK, UnusedOK, SavedOK, AdmitOK, RestOK, InsertOK, GivenOK
<1> QED
  BY <1>2, <1>3, <1>5, <1>6 DEF CoreInv

(* A step that changes nothing keeps the invariant.                        *)
LEMMA StutterCore ==
  ASSUME CoreInv, UNCHANGED vars
  PROVE  CoreInv'
<1>1. UNCHANGED <<disk, chain, unknown, failed, newAdm, mem, next>> /\ UNCHANGED <<admissions, uncertain, unsent, live, reserved, held, ready>>
      /\ UNCHANGED <<at, left, pick, todo, rest, found, resave>> /\ UNCHANGED <<old, detached, stale, told, sent, stopped, torn>>
  BY DEF vars, rowVars, objects, recovery, history
<1>2. TypeOK' /\ LeftOK' /\ PumpOK' /\ ResolveOK'
  <2>1. TypeOK'
    BY <1>1 DEF CoreInv, TypeOK, RowTypes, TaskTypes, MarkTypes, TurnTypes, RestTypes
  <2>2. LeftOK' /\ ResolveOK'
    BY <1>1 DEF CoreInv, LeftOK, ResolveOK, Window, New
  <2>3. PumpOK'
    BY <1>1 DEF CoreInv, PumpOK, OneTurnPerSession, Object, Pending, Known, Unsure, New, Returning, NoneGone, Holds
  <2> QED
    BY <2>1, <2>2, <2>3
<1>3. ASSUME NEW r \in Runs PROVE RunOK(r)' /\ LiveOK(r)'
  <2>1. RunOK(r) /\ LiveOK(r)
    BY DEF CoreInv
  <2>2. /\ Known(r)' <=> Known(r)
        /\ Pending(r)' <=> Pending(r)
        /\ Clean(r)' <=> Clean(r)
        /\ Unsure(r)' <=> Unsure(r)
        /\ New(r)' <=> New(r)
        /\ Files(r)' <=> Files(r)
        /\ Fresh(r)' <=> Fresh(r)
        /\ Delivers(r)' <=> Delivers(r)
    BY <1>1 DEF Known, Pending, Clean, Unsure, New, Files, Fresh, Delivers, Queued, Returning, NoneGone, Holds
  <2>3. UnusedOK(r)' /\ SavedOK(r)' /\ AdmitOK(r)' /\ RestOK(r)'
    BY <1>1, <2>1, <2>2 DEF RunOK, UnusedOK, SavedOK, AdmitOK, RestOK, Holds
  <2>4. InsertOK(r)' /\ GivenOK(r)' /\ LiveOK(r)'
    BY <1>1, <2>1, <2>2 DEF RunOK, InsertOK, GivenOK, LiveOK, Object, Queued
  <2> QED
    BY <2>3, <2>4 DEF RunOK
<1> QED
  BY <1>2, <1>3 DEF CoreInv

(* Every step keeps the invariant.                                         *)
LEMMA NextCore ==
  ASSUME CoreInv, Next
  PROVE  CoreInv'
<1>1. CASE Continue
  <2>1. CASE \E r \in Runs : Admission(r)
    <3>1. PICK r \in Runs : Admission(r)
      BY <2>1
    <3>2. CASE (Saves(Admit(r), "saving") \/ Saves(Admit(r), "failing") \/ Follows(Admit(r), "creating")) /\ AdmissionUncertain(r)
      <4>1. at[Admit(r)] \in {"saving", "creating", "failing"}
        BY <3>2 DEF Follows, Saves
      <4> QED
        BY <3>2, <4>1, AdmissionUncertainKeeps
    <3> QED
      BY <3>1, <3>2, EnqueueAcceptedKeeps, EnqueueRefusedKeeps, CreateAcceptedKeeps, CreateRefusedKeeps, CreateFailedKeeps
         DEF Admission
  <2>2. CASE \E r \in Runs : Insertion(r) \/ CancelDone(r)
    BY <2>2, SteerFlushedKeeps, SteerSendsKeeps, SteerBackedKeeps, SteerSettledKeeps, CancelDoneKeeps DEF Insertion
  <2>3. CASE SaveBlocked \/ RecoverWaited \/ RecoverSaves \/ RecoverFlushed
    BY <2>3, SaveKeeps, RecoveryKeeps, RecoverSavesKeeps
  <2>4. CASE \E r \in Runs : CancelEnds(r) \/ RecoverRow(r)
    BY <2>4, CancelKeeps, RecoverRowKeeps
  <2>5. CASE PumpStep
    BY <2>5, PumpFlushedKeeps, PumpLooksKeeps, PumpReservesKeeps DEF PumpStep
  <2> QED
    BY <1>1, <2>1, <2>2, <2>3, <2>5, <2>4 DEF Continue
<1>2. CASE SaveEvent \/ RecoverEvent
  BY <1>2, SaveKeeps, RecoveryKeeps, RecoverReadsKeeps, RecoverKeptKeeps DEF RecoverEvent
<1>3. CASE PumpEvent
  BY <1>3, PumpStartsKeeps, PumpRefreshKeeps, PumpLookedKeeps, LaunchStopsKeeps, LaunchKeeps DEF PumpEvent
<1>4. CASE \E r \in Runs : RunEvent(r)
  BY <1>4, SteerMarksKeeps, SteerAnsweredKeeps, CreateTrustedKeeps DEF RunEvent
<1>5. CASE Enqueue \/ Create \/ Steer \/ Cancel \/ Exited
  BY <1>5, RequestKeeps, SteerKeeps, CancelKeeps, ExitedKeeps
<1>6. CASE BeginUpdate \/ EndUpdate \/ HoldStorage \/ Crash \/ Ready
  BY <1>6, UpdateKeeps, StillKeeps, CrashKeeps
<1> QED
  BY <1>1, <1>2, <1>3, <1>4, <1>5, <1>6 DEF Next

(* The types hold, and what each task relies on across its awaits is so    *)
(* (RunManager's runs, newAdmissions, uncertainAdmissions,                 *)
(* reservedSessions), in every reachable state.                            *)
THEOREM CoreHolds == Spec => []CoreInv
<1>1. CoreInv /\ [Next]_vars => CoreInv'
  BY NextCore, StutterCore
<1> QED
  BY <1>1, InitCore, PTL DEF Spec

(* Whatever is cancelled, inserted, refused or lost in between, two turns  *)
(* with a provider are never of one conversation (launch's reservation,    *)
(* held from before the preparation to the exit).                          *)
THEOREM OneTurnHolds == Spec => []OneTurnPerSession
<1>1. CoreInv => OneTurnPerSession
  BY CoreFacts DEF PumpOK
<1> QED
  BY <1>1, CoreHolds, PTL

(* No instruction is queued again after a provider may have it, and none   *)
(* is given twice, unless a worker ended before the start was saved        *)
(* (launch, steer and restoreRuns).                                        *)
THEOREM GivenOnceHolds == Spec => []GivenOnce
<1>1. CoreInv => GivenOnce
  <2> SUFFICES ASSUME CoreInv, NEW r \in Runs \ stale, r \notin torn
               PROVE  ~(sent[r] > 1 \/ (sent[r] > 0 /\ Queued(mem, r)))
    BY DEF GivenOnce
  <2>1. GivenOK(r) /\ sent[r] \in Nat
    BY CoreFacts DEF RunOK, MarkTypes
  <2> QED
    BY <2>1 DEF GivenOK
<1> QED
  BY <1>1, CoreHolds, PTL

(* An instruction whose request was answered with success is in the        *)
(* database from then on, whatever fails and whenever the worker ends      *)
(* (enqueue, persist and resolveAdmission).                                *)
THEOREM AcceptedHolds == Spec => []AcceptedIsSaved
<1>1. CoreInv => AcceptedIsSaved
  BY CoreFacts DEF RunOK, AdmitOK, Known, AcceptedIsSaved
<1> QED
  BY <1>1, CoreHolds, PTL

-----------------------------------------------------------------------------
(* What a step does to the rows and to the cancels, whichever it is.       *)

(* The run neither waits nor runs: it ended, or is not there.              *)
Idle(row) == row.st \notin {"queued", "running"}

(* A change: only rows that are touched are changed by it, none that has   *)
(* ended comes back, and it marks what waits for a new version.            *)
Alters(m, touched) ==
  /\ m \in [Runs -> Raw] /\ touched \in SUBSET Runs
  /\ \E h : ChangedWhile(m, touched, h) /\ (updating' => h)
  /\ \A r \in Runs \ touched : m[r] = mem[r]
  /\ \A r \in Runs : Idle(mem[r]) /\ r <= next => Idle(m[r])
(* A step that changes no row, or makes a change.                          *)
Shape == (UNCHANGED <<rowVars, mem>> /\ updating' = updating) \/ \E m, touched : Alters(m, touched)

(* The step moves no cancel, and begins or saves no receipt.               *)
Apart ==
  /\ UNCHANGED <<found, resave, reopened>>
  /\ \A r \in Runs : at'[Stop(r)] = at[Stop(r)] /\ left'[Stop(r)] = left[Stop(r)]
  /\ stopped' = stopped /\ next <= next' /\ (ready => ready')
  /\ \A r \in Runs : sent'[r] # sent[r] => ~Idle(mem[r]) \/ r \in stale

(* A step that moves one task, and not that of a cancel, is apart.         *)
LEMMA ApartBy ==
  ASSUME CoreInv, NEW t \in Tasks, \A r \in Runs : t # Stop(r), NEW place, Moves(t, place),
         stopped' = stopped, next <= next', ready => ready', UNCHANGED <<found, resave, reopened>>,
         \A r \in Runs : sent'[r] # sent[r] => ~Idle(mem[r]) \/ r \in stale
  PROVE  Apart
<1>1. at \in [Tasks -> Places] /\ left \in [Tasks -> Nat]
  BY CoreFacts DEF TaskTypes
<1>2. PICK n : n = Len(chain')
  OBVIOUS
<1>3. left' = left \/ left' = [left EXCEPT ![t] = n]
  BY <1>2 DEF Moves
<1>4. \A r \in Runs : at'[Stop(r)] = at[Stop(r)] /\ left'[Stop(r)] = left[Stop(r)]
  BY <1>1, <1>3, TaskFacts DEF Moves
<1> QED
  BY <1>1, <1>4 DEF Apart

(* A change to one row.                                                    *)
LEMMA AltersOne ==
  ASSUME NEW r \in Runs, NEW m \in [Runs -> Raw], \A q \in Runs \ {r} : m[q] = mem[q], Changed(m, {r}),
         updating' = updating, ~Idle(mem[r]) \/ Idle(m[r]) \/ ~(r <= next)
  PROVE  Shape
<1>1. \E h : ChangedWhile(m, {r}, h) /\ (updating' => h)
  BY DEF Changed
<1>2. Alters(m, {r})
  BY <1>1 DEF Alters
<1> QED
  BY <1>2 DEF Shape

(* A row that ended is idle.                                               *)
LEMMA EndsIdle ==
  ASSUME CoreInv, NEW m, NEW r \in Runs, m[r] = mem[r] \/ Ends(m, r), Idle(mem[r])
  PROVE  Idle(m[r])
<1>1. CASE m[r] = mem[r]
  BY <1>1
<1>2. CASE Ends(m, r)
  <2>1. PICK x \in Finished : m[r] = [mem[r] EXCEPT !.st = x] /\ mem[r] # Gone
    BY <1>2 DEF Ends
  <2>2. mem[r] \in Rows
    BY <2>1, CoreFacts DEF Slots
  <2>3. m[r].st = x
    BY <2>1, <2>2 DEF Rows
  <2> QED
    BY <2>3 DEF Idle, Finished
<1> QED
  BY <1>1, <1>2

(* The pump.                                                               *)
LEMMA PumpApart ==
  ASSUME CoreInv, PumpStep \/ PumpEvent
  PROVE  Apart /\ updating' = updating
<1>1. Pump \in Tasks /\ \A r \in Runs : Pump # Stop(r)
  BY TaskFacts
<1>2. NotPumping
  BY DEF PumpStep, PumpEvent, PumpFlushed, PumpLooks, PumpReserves, PumpStarts, PumpRefreshed, PumpRefreshFails, PumpLooked,
         LaunchRefused, LaunchFails, Launch, PumpUncertain, PumpRefused, Skipped, Dropped, Frees
<1>3. next \in Nat
  BY CoreFacts
<1>4. \E place : Moves(Pump, place)
  <2>1. CASE PumpStarts \/ PumpLooked
    BY <2>1 DEF PumpStarts, PumpLooked, Await, Moves, rowVars
  <2>2. CASE PumpStep \/ PumpRefreshed \/ PumpRefreshFails \/ LaunchRefused \/ LaunchFails \/ Launch
    BY <2>2 DEF PumpStep, PumpFlushed, PumpLooks, PumpReserves, PumpRefreshed, PumpRefreshFails, LaunchRefused, LaunchFails, Launch,
                PumpUncertain, PumpRefused, Skipped, Dropped, Frees, Skip, Passes, PumpIdle, Go, Moves
  <2> QED
    BY <2>1, <2>2 DEF PumpEvent
<1>5. \A r \in Runs : sent'[r] # sent[r] => ~Idle(mem[r]) \/ r \in stale
  <2>1. CASE Launch
    <3>1. PICK p : p = pick[Pump]
      OBVIOUS
    <3>2. sent' = [sent EXCEPT ![p] = @ + 1] /\ Object(p).st = "queued" /\ p \in Runs
      BY <2>1, <3>1, CoreFacts DEF Launch, RefusedAtLaunch, PumpOK
    <3>3. \A r \in Runs : r # p => sent'[r] = sent[r]
      BY <3>2, CoreFacts DEF MarkTypes
    <3>4. ~Idle(mem[p]) \/ p \in stale
      BY <3>2, CoreFacts DEF RunOK, GivenOK, Object, Idle
    <3> QED
      BY <3>3, <3>4
  <2>2. CASE ~Launch
    <3>1. sent' = sent
      BY <2>2 DEF PumpStep, PumpEvent, PumpFlushed, PumpLooks, PumpReserves, PumpStarts, PumpRefreshed, PumpRefreshFails, PumpLooked,
         LaunchRefused, LaunchFails, PumpUncertain, PumpRefused, Skipped, Dropped, Frees, NoTurn
    <3> QED
      BY <3>1
  <2> QED
    BY <2>1, <2>2
<1>6. UNCHANGED <<stopped, ready, updating>> /\ UNCHANGED <<found, resave, reopened>> /\ next <= next'
  BY <1>2, <1>3 DEF NotPumping, recovery
<1>7. PICK place : Moves(Pump, place)
  BY <1>4
<1> QED
  BY <1>1, <1>5, <1>6, <1>7, ApartBy

(* What the pump does to the rows.                                         *)
LEMMA PumpShape ==
  ASSUME CoreInv, PumpStep \/ PumpEvent
  PROVE  Shape
<1>1. updating' = updating
  BY PumpApart
<1>2. ASSUME PumpRefused PROVE Shape
  <2>1. PICK Q \in SUBSET Runs : Q = {r \in Runs : Queued(mem, r)}
    OBVIOUS
  <2>2. \E h : ChangedWhile(mem, Q, h) /\ (updating' => h)
    BY <1>1, <1>2, <2>1 DEF PumpRefused, Changed
  <2>3. Alters(mem, Q)
    BY <2>2, CoreFacts DEF Alters
  <2> QED
    BY <2>3 DEF Shape
<1>3. ASSUME UNCHANGED <<rowVars, mem>> PROVE Shape
  BY <1>1, <1>3 DEF Shape
<1>4. ASSUME NEW r \in Runs, NEW m, m = mem \/ Object(r).st = "queued",
             m \in {mem, OfMap(r, Cancelling({r})), OfMap(r, Failing(r))}, Changed(m, {r})
      PROVE  Shape
  <2>1. m \in [Runs -> Raw] /\ \A q \in Runs : m[q] = mem[q] \/ Ends(m, q)
    BY <1>4, DropRow, CoreFacts
  <2>2. \A q \in Runs \ {r} : m[q] = mem[q]
    <3>1. \A q \in Runs \ {r} : Failing(r)[q] = mem[q] /\ Cancelling({r})[q] = mem[q]
      BY FailingRow DEF Cancelling
    <3>2. m = mem \/ m = Failing(r) \/ m = Cancelling({r})
      BY <1>4 DEF OfMap
    <3> QED
      BY <3>1, <3>2
  <2>3. ~Idle(mem[r]) \/ Idle(m[r])
    BY <2>1, EndsIdle
  <2> QED
    BY <1>1, <1>4, <2>1, <2>2, <2>3, AltersOne
<1>5. CASE PumpStep
  <2>1. CASE PumpFlushed
    BY <1>2, <1>3, <2>1 DEF PumpFlushed, PumpUncertain
  <2>2. CASE PumpLooks
    <3>1. CASE Looking # {} /\ Dropped(NextRun)
      <4>1. Looking \subseteq Nat /\ Looking \subseteq Runs
        BY CoreFacts DEF Looking, TurnTypes
      <4>2. NextRun \in Looking
        BY <3>1, <4>1, MinIn DEF NextRun
      <4>3. NextRun \in Runs /\ Object(NextRun).st = "queued"
        BY <4>1, <4>2 DEF Looking, Startable
      <4>4. PICK r \in Runs : r = NextRun
        BY <4>3
      <4>5. PICK m : m = OfMap(r, Cancelling({r}))
        OBVIOUS
      <4>6. Object(r).st = "queued" /\ Changed(m, {r})
        BY <3>1, <4>3, <4>4, <4>5 DEF Dropped
      <4> QED
        BY <1>4, <4>5, <4>6
    <3>2. CASE UNCHANGED <<rowVars, mem>>
      BY <1>3, <3>2
    <3> QED
      BY <2>2, <3>1, <3>2 DEF PumpLooks, Skipped
  <2>3. CASE PumpReserves
    <3>1. PICK r : r = pick[Pump]
      OBVIOUS
    <3>2. r \in Runs
      BY <2>3, <3>1, CoreFacts DEF PumpReserves, Follows, Saves, PumpOK
    <3>3. CASE UNCHANGED <<rowVars, mem>>
      BY <1>3, <3>3
    <3>4. CASE PumpRefused
      BY <1>2, <3>4
    <3>5. CASE Changed(mem, {r})
      BY <1>4, <3>2, <3>5
    <3>6. CASE Startable(r) /\ Dropped(r)
      <4>1. PICK m : m = OfMap(r, Cancelling({r}))
        OBVIOUS
      <4>2. Object(r).st = "queued" /\ Changed(m, {r})
        BY <3>6, <4>1 DEF Dropped, Startable
      <4> QED
        BY <1>4, <3>2, <4>1, <4>2
    <3> QED
      BY <2>3, <3>1, <3>3, <3>4, <3>5, <3>6 DEF PumpReserves, PumpUncertain, Skipped
  <2> QED
    BY <1>5, <2>1, <2>2, <2>3 DEF PumpStep
<1>6. CASE PumpStarts \/ PumpRefreshed \/ PumpRefreshFails \/ PumpLooked \/ LaunchRefused
  BY <1>2, <1>3, <1>6 DEF PumpStarts, PumpRefreshed, PumpRefreshFails, PumpLooked, LaunchRefused
<1>7. CASE LaunchFails \/ Launch
  <2>1. PICK r : r = pick[Pump]
    OBVIOUS
  <2>2. r \in Runs
    BY <1>7, <2>1, CoreFacts DEF LaunchFails, Launch, PumpOK
  <2>3. CASE LaunchFails
    <3>1. PICK m : m \in {OfMap(r, Failing(r)), OfMap(r, Cancelling({r}))} /\ Changed(m, {r}) /\ Object(r).st = "queued"
      BY <2>1, <2>3 DEF LaunchFails
    <3> QED
      BY <1>4, <2>2, <3>1
  <2>4. CASE Launch
    <3>1. Changed(OfMap(r, [mem EXCEPT ![r].st = "running"]), {r}) /\ Object(r).st = "queued"
      BY <2>1, <2>4 DEF Launch, RefusedAtLaunch
    <3>2. CASE old[r] # Gone
      <4>1. Changed(mem, {r})
        BY <3>1, <3>2 DEF OfMap
      <4> QED
        BY <1>4, <2>2, <4>1
    <3>3. CASE old[r] = Gone
      <4>1. mem[r].st = "queued" /\ mem[r] \in Rows /\ ~Idle(mem[r])
        BY <2>2, <3>1, <3>3, CoreFacts, RowFacts DEF Object, Slots, Idle
      <4>2. PICK row : row = [mem[r] EXCEPT !.st = "running"]
        OBVIOUS
      <4>3. row \in Raw
        BY <4>1, <4>2 DEF Rows, Raw
      <4>4. PICK m : m = [mem EXCEPT ![r] = row]
        OBVIOUS
      <4>5. m \in [Runs -> Raw] /\ \A q \in Runs \ {r} : m[q] = mem[q]
        BY <2>2, <4>3, <4>4, CoreFacts
      <4>6. Changed(m, {r})
        BY <3>1, <3>3, <4>2, <4>4 DEF OfMap
      <4> QED
        BY <1>1, <2>2, <4>1, <4>5, <4>6, AltersOne
    <3> QED
      BY <3>2, <3>3
  <2> QED
    BY <1>7, <2>3, <2>4
<1> QED
  BY <1>5, <1>6, <1>7 DEF PumpEvent

(* A step that moves no task.                                              *)
LEMMA ApartStill ==
  ASSUME CoreInv, at' = at, left' = left, stopped' = stopped, next <= next', ready => ready', sent' = sent,
         UNCHANGED <<found, resave, reopened>>
  PROVE  Apart
BY DEF Apart

(* A change of several rows.                                               *)
LEMMA AltersMany ==
  ASSUME NEW m \in [Runs -> Raw], NEW touched \in SUBSET Runs, Changed(m, touched), updating' = updating,
         \A q \in Runs \ touched : m[q] = mem[q],
         \A q \in touched : ~Idle(mem[q]) \/ Idle(m[q]) \/ ~(q <= next)
  PROVE  Shape
<1>1. \E h : ChangedWhile(m, touched, h) /\ (updating' => h)
  BY DEF Changed
<1>2. \A r \in Runs : Idle(mem[r]) /\ r <= next => Idle(m[r])
  OBVIOUS
<1>3. Alters(m, touched)
  BY <1>1, <1>2 DEF Alters
<1> QED
  BY <1>3 DEF Shape

(* Runs that are cancelled.                                                *)
LEMMA CancellingRow ==
  ASSUME CoreInv, NEW S \in SUBSET Runs, \A q \in S : mem[q] # Gone
  PROVE  /\ Cancelling(S) \in [Runs -> Raw]
         /\ \A q \in S : Idle(Cancelling(S)[q])
         /\ \A q \in Runs \ S : Cancelling(S)[q] = mem[q]
<1>1. ASSUME NEW q \in S PROVE Cancelling(S)[q] \in Raw /\ Idle(Cancelling(S)[q])
  <2>1. PICK row : row = [mem[q] EXCEPT !.st = "cancelled"]
    OBVIOUS
  <2>2. mem[q] \in Rows
    BY CoreFacts DEF Slots
  <2>3. row \in Rows /\ row.st = "cancelled"
    BY <2>1, <2>2 DEF Rows, Finished
  <2>4. Cancelling(S)[q] = row
    BY <2>1 DEF Cancelling
  <2> QED
    BY <2>3, <2>4 DEF Idle, Raw
<1>2. \A q \in Runs \ S : Cancelling(S)[q] = mem[q] /\ Cancelling(S)[q] \in Raw
  BY CoreFacts, RowFacts DEF Cancelling
<1>3. Cancelling(S) = [q \in Runs |-> Cancelling(S)[q]]
  BY DEF Cancelling
<1> QED
  BY <1>1, <1>2, <1>3

(* Requests.                                                               *)
LEMMA AdmissionApart ==
  ASSUME CoreInv, NEW r \in Runs, Admission(r) \/ CreateTrusted(r)
  PROVE  Apart /\ updating' = updating
<1>1. Admit(r) \in Tasks /\ \A q \in Runs : Admit(r) # Stop(q)
  BY TaskFacts
<1>2. Admitted
  BY DEF Admission, CreateTrusted, EnqueueAccepted, EnqueueRefused, CreateAccepted, CreateRefused,
         CreateFailed, AdmissionUncertain, Accepted
<1>3. sent' = sent /\ stopped' = stopped /\ reopened' = reopened
  BY DEF Admission, CreateTrusted, EnqueueAccepted, EnqueueRefused, CreateAccepted, CreateRefused,
         CreateFailed, AdmissionUncertain, Accepted,
         Tell, history
<1>4. PICK place : Moves(Admit(r), place)
  <2>1. CASE CreateTrusted(r)
    BY <2>1 DEF CreateTrusted, Await, Moves, rowVars
  <2>2. CASE CreateRefused(r)
    BY <2>2 DEF CreateRefused, Await, Moves
  <2>3. CASE EnqueueAccepted(r) \/ EnqueueRefused(r) \/ CreateAccepted(r) \/ CreateFailed(r) \/ AdmissionUncertain(r)
    BY <2>3 DEF EnqueueAccepted, EnqueueRefused, CreateAccepted, CreateFailed, AdmissionUncertain, Accepted, Go, Moves
  <2> QED
    BY <2>1, <2>2, <2>3 DEF Admission
<1>5. next' = next /\ ready' = ready /\ updating' = updating /\ UNCHANGED <<found, resave>> /\ next \in Nat
  BY <1>2, CoreFacts DEF Admitted, recovery
<1>6. next <= next'
  BY <1>5
<1>7. Apart
  BY <1>1, <1>3, <1>4, <1>5, <1>6, ApartBy
<1> QED
  BY <1>5, <1>7

(* What a request that goes on does to the rows.                           *)
LEMMA AdmissionShape ==
  ASSUME CoreInv, NEW r \in Runs, Admission(r) \/ CreateTrusted(r)
  PROVE  Shape
<1>1. updating' = updating
  BY AdmissionApart
<1>2. CASE UNCHANGED <<rowVars, mem>>
  BY <1>1, <1>2 DEF Shape
<1>3. CASE EnqueueAccepted(r) /\ Superseded(r) # {}
  <2>1. PICK S : S = Superseded(r)
    OBVIOUS
  <2>2. S \in SUBSET Runs /\ \A q \in S : mem[q] # Gone
    BY <2>1, RowFacts DEF Superseded, Queued
  <2>3. PICK m : m = Cancelling(S)
    OBVIOUS
  <2>4. m \in [Runs -> Raw] /\ (\A q \in S : Idle(m[q])) /\ \A q \in Runs \ S : m[q] = mem[q]
    BY <2>2, <2>3, CancellingRow
  <2>5. Changed(m, S)
    BY <1>3, <2>1, <2>3 DEF EnqueueAccepted
  <2> QED
    BY <1>1, <2>2, <2>4, <2>5, AltersMany
<1>4. CASE EnqueueRefused(r)
  <2>1. PICK m : m = [mem EXCEPT ![r] = Gone]
    OBVIOUS
  <2>2. m \in [Runs -> Raw] /\ m[r] = Gone /\ \A q \in Runs \ {r} : m[q] = mem[q]
    BY <2>1, CoreFacts, RowFacts
  <2>3. Changed(m, {r}) /\ Idle(m[r])
    BY <1>4, <2>1, <2>2, RowFacts DEF EnqueueRefused, Idle
  <2> QED
    BY <1>1, <2>2, <2>3, AltersOne
<1>5. CASE CreateRefused(r)
  <2>1. PICK m : m = Failing(r)
    OBVIOUS
  <2>2. /\ m \in [Runs -> Raw] /\ \A q \in Runs \ {r} : m[q] = mem[q]
        /\ m = mem \/ m[r].st = "error"
    BY <2>1, FailingRow
  <2>3. Changed(m, {r}) /\ (~Idle(mem[r]) \/ Idle(m[r]))
    BY <1>5, <2>1, <2>2 DEF CreateRefused, Idle
  <2> QED
    BY <1>1, <2>2, <2>3, AltersOne
<1> QED
  BY <1>2, <1>3, <1>4, <1>5 DEF Admission, CreateTrusted, EnqueueAccepted, CreateAccepted, CreateFailed, AdmissionUncertain

(* What a new request does.                                                *)
LEMMA RequestShape ==
  ASSUME CoreInv, Enqueue \/ Create
  PROVE  Apart /\ Shape
<1>1. PICK s \in Sessions : Register(QueuedRun(s, FALSE))
  BY DEF Enqueue, Create
<1>2. PICK r : r = next + 1
  OBVIOUS
<1>3. r \in Runs /\ r > next /\ next' = r /\ next \in Nat /\ Changed([mem EXCEPT ![r] = QueuedRun(s, FALSE)], {r})
  BY <1>1, <1>2, CoreFacts, RunQueueAssumption DEF Register, Runs
<1>4. PICK m : m = [mem EXCEPT ![r] = QueuedRun(s, FALSE)]
  OBVIOUS
<1>5. QueuedRun(s, FALSE) \in Raw
  BY DEF QueuedRun, Raw, Rows
<1>6. m \in [Runs -> Raw] /\ (\A q \in Runs \ {r} : m[q] = mem[q]) /\ Changed(m, {r})
  BY <1>3, <1>4, <1>5, CoreFacts
<1>7. /\ UNCHANGED <<updating, ready, stopped, sent>> /\ UNCHANGED <<found, resave, reopened>>
      /\ next <= next' /\ ~(r <= next) /\ r \in Nat
  BY <1>1, <1>3 DEF Register, history, recovery, Runs
<1>8. Shape
  BY <1>3, <1>6, <1>7, AltersOne
<1>9. PICK place : Moves(Admit(r), place)
  BY <1>3 DEF Enqueue, Create, Await, Go, Moves
<1>10. Admit(r) \in Tasks /\ \A q \in Runs : Admit(r) # Stop(q)
  BY <1>3, TaskFacts
<1>11. Apart
  BY <1>7, <1>9, <1>10, ApartBy
<1> QED
  BY <1>8, <1>11

(* Insertions.                                                             *)
InsertEvent(r) == Insertion(r) \/ SteerMarks(r) \/ SteerAnswered(r)

(* An insertion moves no cancel, and sends nothing that has ended.         *)
LEMMA InsertionApart ==
  ASSUME CoreInv, NEW r \in Runs, InsertEvent(r)
  PROVE  Apart /\ updating' = updating
<1>1. Insert(r) \in Tasks /\ \A q \in Runs : Insert(r) # Stop(q)
  BY TaskFacts
<1>2. NotSteering
  BY DEF InsertEvent, Insertion, SteerMarks, SteerAnswered, SteerFlushed, SteerSends, SteerBacked, SteerSettled
<1>3. PICK place : Moves(Insert(r), place)
  <2>1. CASE PutBack(r)
    BY <2>1 DEF PutBack, Await, Go, Moves
  <2>2. CASE ~PutBack(r)
    BY <2>2 DEF InsertEvent, Insertion, SteerMarks, SteerAnswered, SteerFlushed, SteerSends, SteerBacked,
           SteerSettled, Await, Go, Moves
  <2> QED
    BY <2>1, <2>2
<1>4. \A q \in Runs : sent'[q] # sent[q] => ~Idle(mem[q]) \/ q \in stale
  <2>1. CASE SteerAnswered(r)
    <3>1. mem[r].st = "running"
      BY <2>1, AnsweredChange
    <3>2. PICK taken \in BOOLEAN : sent' = [sent EXCEPT ![r] = IF taken THEN @ + 1 ELSE @]
      BY <2>1, AnsweredChange
    <3>3. \A q \in Runs : q # r => sent'[q] = sent[q]
      BY <3>2, CoreFacts DEF MarkTypes
    <3> QED
      BY <3>1, <3>3 DEF Idle
  <2>2. CASE ~SteerAnswered(r)
    <3>1. sent' = sent
      BY <2>2 DEF InsertEvent, Insertion, SteerMarks, SteerFlushed, SteerSends, SteerBacked, SteerSettled
    <3> QED
      BY <3>1
  <2> QED
    BY <2>1, <2>2
<1>5. /\ next' = next /\ ready' = ready /\ updating' = updating /\ stopped' = stopped /\ next \in Nat
      /\ UNCHANGED <<found, resave, reopened>>
  BY <1>2, CoreFacts DEF NotSteering, recovery
<1>6. next <= next'
  BY <1>5
<1>7. Apart
  BY <1>1, <1>3, <1>4, <1>5, <1>6, ApartBy
<1> QED
  BY <1>5, <1>7

(* What an instruction that is put back does to the rows.                  *)
LEMMA PutBackShape ==
  ASSUME CoreInv, NEW r \in Runs, at[Insert(r)] \in {"files", "putting"}, PutBack(r), updating' = updating
  PROVE  Shape
<1>1. CASE UNCHANGED <<rowVars, mem>>
  BY <1>1 DEF Shape
<1>2. CASE mem[r] # Gone /\ mem[r].steer # "none" /\ Changed(BackInQueue(r), {r})
  <2>1. mem[r].st = "running"
    BY <1>2, InsertFacts DEF InsertOK, Delivers
  <2>2. PICK m : m = BackInQueue(r)
    OBVIOUS
  <2>3. m \in [Runs -> Raw] /\ \A q \in Runs \ {r} : m[q] = mem[q]
    BY <1>2, <2>2, BackRow
  <2>4. Changed(m, {r}) /\ ~Idle(mem[r])
    BY <1>2, <2>1, <2>2 DEF Idle
  <2> QED
    BY <2>3, <2>4, AltersOne
<1> QED
  BY <1>1, <1>2 DEF PutBack

(* What an insertion does to the rows.                                     *)
LEMMA InsertionShape ==
  ASSUME CoreInv, NEW r \in Runs, InsertEvent(r)
  PROVE  Shape
<1>1. updating' = updating
  BY InsertionApart
<1>2. CASE UNCHANGED <<rowVars, mem>>
  BY <1>1, <1>2 DEF Shape
<1>3. CASE (SteerMarks(r) \/ SteerSends(r)) /\ PutBack(r)
  <2>1. at[Insert(r)] \in {"files", "putting"}
    BY <1>3 DEF SteerMarks, SteerSends, Saves
  <2> QED
    BY <1>1, <1>3, <2>1, PutBackShape
<1>4. CASE SteerMarks(r) /\ ~PutBack(r)
  <2>1. PICK m \in [Runs -> Raw] : Changed(m, {r}) /\ mem[r].st = "queued" /\ \A k \in Runs \ {r} : m[k] = mem[k]
    BY <1>4, MarksChange
  <2>2. ~Idle(mem[r])
    BY <2>1 DEF Idle
  <2> QED
    BY <1>1, <2>1, <2>2, AltersOne
<1>5. CASE SteerAnswered(r)
  <2>1. PICK m \in [Runs -> Raw] : Changed(m, {r}) /\ \A k \in Runs \ {r} : m[k] = mem[k]
    BY <1>5, AnsweredChange
  <2>2. ~Idle(mem[r])
    BY <1>5, AnsweredChange DEF Idle
  <2> QED
    BY <1>1, <2>1, <2>2, AltersOne
<1>6. CASE SteerSettled(r) /\ ~UNCHANGED <<rowVars, mem>>
  <2>1. PICK m \in [Runs -> Raw] : Changed(m, {r}) /\ m[r].st = "error" /\ \A k \in Runs \ {r} : m[k] = mem[k]
    BY <1>6, SettledChange
  <2>2. Idle(m[r])
    BY <2>1 DEF Idle
  <2> QED
    BY <1>1, <2>1, <2>2, AltersOne
<1>7. UNCHANGED <<rowVars, mem>> \/ PutBack(r) \/ SteerMarks(r) \/ SteerAnswered(r) \/ SteerSettled(r)
  BY DEF InsertEvent, Insertion, SteerFlushed, SteerSends, SteerBacked
<1>8. PutBack(r) => UNCHANGED <<rowVars, mem>> \/ SteerMarks(r) \/ SteerSends(r) \/ SteerAnswered(r) \/ SteerSettled(r)
  BY DEF InsertEvent, Insertion, SteerFlushed, SteerBacked
<1> QED
  BY <1>2, <1>3, <1>4, <1>5, <1>6, <1>7, <1>8

(* The start of an insertion changes no row.                               *)
LEMMA SteerShape ==
  ASSUME CoreInv, Steer
  PROVE  Apart /\ Shape
<1>1. PICK r \in Runs : Await(Insert(r), "flush", chain)
  BY DEF Steer
<1>2. UNCHANGED <<rowVars, mem, sent, updating, ready, stopped, next>> /\ UNCHANGED <<found, resave, reopened>>
  BY DEF Steer, NotSteering, recovery
<1>3. Moves(Insert(r), "flush") /\ Insert(r) \in Tasks /\ \A q \in Runs : Insert(r) # Stop(q)
  BY <1>1, <1>2, TaskFacts DEF Await, Moves, rowVars
<1>4. next <= next'
  BY <1>2, CoreFacts
<1>5. Apart
  BY <1>2, <1>3, <1>4, ApartBy
<1> QED
  BY <1>2, <1>5 DEF Shape

(* Turns that end.                                                         *)
LEMMA ExitedShape ==
  ASSUME CoreInv, Exited
  PROVE  Apart /\ Shape
<1>1. PICK r \in live :
        \/ \E outcome \in {"completed", "error"} : Changed(Ending(r, outcome), {r}) /\ UNCHANGED next
        \/ /\ MayPlan(r) /\ next' = next + 1
           /\ Changed([Ending(r, "completed") EXCEPT ![next + 1] = QueuedRun(Object(r).session, TRUE)], {r, next + 1})
  BY DEF Exited
<1>2. UNCHANGED <<sent, stopped, ready, updating>> /\ UNCHANGED <<at, left>> /\ UNCHANGED <<found, resave, reopened>>
  BY DEF Exited, Steady, Working, history, recovery
<1>3. r \in Runs /\ r <= next /\ r \in Nat /\ next \in Nat /\ LiveOK(r)
  BY CoreFacts, LiveRow DEF TurnTypes
<1>4. next <= next'
  BY <1>1, <1>3
<1>5. Apart
  BY <1>2, <1>4, ApartStill
<1>6. CASE \E outcome \in {"completed", "error"} : Changed(Ending(r, outcome), {r}) /\ UNCHANGED next
  <2>1. PICK o \in {"completed", "error"} : Changed(Ending(r, o), {r})
    BY <1>6
  <2>2. PICK m : m = Ending(r, o)
    OBVIOUS
  <2>3. /\ m \in [Runs -> Raw] /\ \A q \in Runs \ {r} : m[q] = mem[q]
        /\ m[r] = mem[r] \/ Ends(m, r)
    BY <2>2, EndingRow
  <2>4. ~Idle(mem[r]) \/ Idle(m[r])
    BY <1>3, <2>3, EndsIdle
  <2>5. Changed(m, {r})
    BY <2>1, <2>2
  <2>6. Shape
    BY <1>2, <1>3, <2>3, <2>4, <2>5, AltersOne
  <2> QED
    BY <1>5, <2>6
<1>7. CASE /\ MayPlan(r) /\ next' = next + 1
           /\ Changed([Ending(r, "completed") EXCEPT ![next + 1] = QueuedRun(Object(r).session, TRUE)], {r, next + 1})
  <2>1. PICK b : b = next + 1
    OBVIOUS
  <2>2. b \in Runs /\ b # r /\ ~(b <= next)
    BY <1>3, <1>7, <2>1, RunQueueAssumption DEF MayPlan, Runs
  <2>3. PICK s \in Sessions : s = Object(r).session
    BY <1>3, CoreFacts, RowFacts DEF LiveOK, Object, Known
  <2>4. PICK e : e = Ending(r, "completed")
    OBVIOUS
  <2>5. /\ e \in [Runs -> Raw]
        /\ \A q \in Runs \ {r} : e[q] = mem[q]
        /\ e[r] = mem[r] \/ Ends(e, r)
    BY <2>4, EndingRow
  <2>6. PICK row : row = QueuedRun(s, TRUE)
    OBVIOUS
  <2>7. row \in Raw
    BY <2>6 DEF QueuedRun, Raw, Rows
  <2>8. PICK m : m = [e EXCEPT ![b] = row]
    OBVIOUS
  <2>9. m \in [Runs -> Raw] /\ \A q \in Runs \ {b} : m[q] = e[q]
    BY <2>2, <2>5, <2>7, <2>8
  <2>10. Changed(m, {r, b})
    BY <1>7, <2>1, <2>3, <2>4, <2>6, <2>8
  <2>11. ~Idle(mem[r]) \/ Idle(m[r])
    BY <1>3, <2>2, <2>5, <2>9, EndsIdle
  <2>12. {r, b} \in SUBSET Runs /\ (\A q \in Runs \ {r, b} : m[q] = mem[q])
         /\ \A q \in {r, b} : ~Idle(mem[q]) \/ Idle(m[q]) \/ ~(q <= next)
    BY <1>3, <2>2, <2>5, <2>9, <2>11
  <2>13. Shape
    BY <1>2, <2>9, <2>10, <2>12, AltersMany
  <2> QED
    BY <1>5, <2>13
<1> QED
  BY <1>1, <1>6, <1>7

(* Updates, holds and recoveries.                                          *)
LEMMA UpdateShape ==
  ASSUME CoreInv, BeginUpdate \/ EndUpdate
  PROVE  Apart /\ Shape
<1>1. UNCHANGED <<sent, stopped, ready, next, at, left>> /\ UNCHANGED <<found, resave, reopened>>
  BY DEF BeginUpdate, EndUpdate, Steady, Working, history, recovery
<1>2. PICK h : ChangedWhile(mem, {}, h) /\ (updating' => h)
  BY DEF BeginUpdate, EndUpdate
<1>3. Alters(mem, {})
  BY <1>2, CoreFacts DEF Alters
<1>4. Apart
  BY <1>1, CoreFacts, ApartStill
<1> QED
  BY <1>3, <1>4 DEF Shape

(* A lost storage and a started worker change no row.                      *)
LEMMA StillShape ==
  ASSUME CoreInv, HoldStorage \/ Ready
  PROVE  Apart /\ Shape
<1>1. /\ UNCHANGED <<rowVars, mem, updating, sent, stopped, next, at, left>> /\ UNCHANGED <<found, resave, reopened>>
      /\ ready => ready'
  BY DEF HoldStorage, Ready, history, recovery
<1>2. Apart
  BY <1>1, CoreFacts, ApartStill
<1> QED
  BY <1>1, <1>2 DEF Shape

(* The steps of a recovery that settle nothing change no row.              *)
LEMMA RecoveryShape ==
  ASSUME CoreInv, Recover \/ RecoverWaited \/ RecoverUnread \/ RecoverKept \/ RecoverFlushed
  PROVE  Apart /\ Shape
<1>1. PICK place : Moves(Resolve, place)
  BY DEF Recover, RecoverWaited, RecoverUnread, RecoverKept, RecoverFlushed, Released, Await, Go, Moves, Unsettled, rowVars
<1>2. /\ UNCHANGED <<rowVars, mem, updating, sent, stopped, next, ready>>
      /\ UNCHANGED <<found, resave, reopened>>
  BY DEF Recover, RecoverWaited, RecoverUnread, RecoverKept, RecoverFlushed, Released, Recovering, Unsettled, recovery
<1>3. Resolve \in Tasks /\ \A q \in Runs : Resolve # Stop(q)
  BY TaskFacts
<1>4. next <= next'
  BY <1>2, CoreFacts
<1>5. Apart
  BY <1>1, <1>2, <1>3, <1>4, ApartBy
<1> QED
  BY <1>2, <1>5 DEF Shape

(* A cancel begins with a save of the row as it is.                        *)
LEMMA CancelShape ==
  ASSUME CoreInv, Cancel
  PROVE  /\ Shape /\ UNCHANGED <<next, updating, ready, stopped, sent, left>> /\ UNCHANGED <<found, resave, reopened>>
         /\ \A q \in Runs : at'[Stop(q)] = at[Stop(q)] \/ at'[Stop(q)] # "stopping"
<1>1. PICK r \in Runs : /\ Changed(mem, {r}) \/ UNCHANGED <<rowVars, mem>>
                        /\ Go(Stop(r), "noted")
  BY DEF Cancel
<1>2. UNCHANGED <<next, updating, ready, stopped, sent>> /\ UNCHANGED <<found, resave, reopened>>
  BY DEF Cancel, Steady, history, recovery
<1>3. mem \in [Runs -> Raw] /\ at \in [Tasks -> Places] /\ \A q \in Runs : Stop(q) \in Tasks
  BY CoreFacts, TaskFacts DEF TaskTypes
<1>4. Shape
  BY <1>1, <1>2, <1>3, AltersOne DEF Shape
<1>5. left' = left /\ \A q \in Runs : at'[Stop(q)] = at[Stop(q)] \/ at'[Stop(q)] # "stopping"
  BY <1>1, <1>3 DEF Go
<1> QED
  BY <1>2, <1>4, <1>5

(* Then the run ends.                                                      *)
LEMMA CancelEndsShape ==
  ASSUME CoreInv, NEW r \in Runs, CancelEnds(r)
  PROVE  /\ Shape /\ UNCHANGED <<next, updating, ready, stopped, sent>> /\ UNCHANGED <<found, resave, reopened>>
         /\ r <= next /\ \E m \in [Runs -> Raw] : Writes(m, {r}) /\ Idle(m[r])
<1>1. PICK m : m = Cancelling({r})
  OBVIOUS
<1>2. m \in [Runs -> Raw] /\ Idle(m[r]) /\ \A q \in Runs \ {r} : m[q] = mem[q]
  <2>1. CASE mem[r] # Gone
    BY <1>1, <2>1, CancellingRow
  <2>2. CASE mem[r] = Gone
    <3>1. \A q \in Runs : m[q] = mem[q]
      BY <1>1, <2>2 DEF Cancelling
    <3>2. m = [q \in Runs |-> m[q]]
      BY <1>1 DEF Cancelling
    <3> QED
      BY <2>2, <3>1, <3>2, CoreFacts, RowFacts DEF Idle
  <2> QED
    BY <2>1, <2>2
<1>3. Changed(m, {r}) /\ at[Stop(r)] = "noted"
  BY <1>1 DEF CancelEnds
<1>4. UNCHANGED <<next, updating, ready, stopped, sent>> /\ UNCHANGED <<found, resave, reopened>>
  BY DEF CancelEnds, Steady, history, recovery
<1>5. Shape
  BY <1>2, <1>3, <1>4, AltersOne
<1>6. Writes(m, {r})
  BY <1>2, <1>3, CoreFacts, ChangedWrites DEF Changed
<1>7. r <= next
  BY <1>3, LiveRow
<1> QED
  BY <1>2, <1>4, <1>5, <1>6, <1>7

(* The steps of a cancel, the end of a save, the steps of a receipt that   *)
(* change rows or what it settles, and the end of the worker.              *)
Special ==
  \/ Cancel \/ Crash \/ RecoverReads \/ RecoverSaves
  \/ \E r \in Runs : CancelEnds(r) \/ CancelDone(r) \/ RecoverRow(r)
  \/ \E S, head : Popped(S, head)

(* Every other step has a shape, and is apart.                             *)
LEMMA NextShape ==
  ASSUME CoreInv, Next
  PROVE  (Shape /\ Apart) \/ Special
<1>1. CASE Continue
  <2>1. CASE \E r \in Runs : Admission(r) \/ Insertion(r)
    BY <2>1, AdmissionApart, AdmissionShape, InsertionApart, InsertionShape DEF InsertEvent
  <2>2. CASE \E r \in Runs : CancelEnds(r) \/ CancelDone(r) \/ RecoverRow(r)
    BY <2>2 DEF Special
  <2>3. CASE SaveBlocked \/ RecoverSaves
    BY <2>3, SavePops DEF Special
  <2>4. CASE PumpStep \/ RecoverWaited \/ RecoverFlushed
    BY <2>4, PumpApart, PumpShape, RecoveryShape
  <2> QED
    BY <1>1, <2>1, <2>2, <2>3, <2>4 DEF Continue
<1>2. CASE SaveEvent \/ RecoverEvent
  BY <1>2, SavePops, RecoveryShape DEF RecoverEvent, Special
<1>3. CASE PumpEvent
  BY <1>3, PumpApart, PumpShape
<1>4. CASE \E r \in Runs : RunEvent(r)
  BY <1>4, AdmissionApart, AdmissionShape, InsertionApart, InsertionShape DEF RunEvent, InsertEvent
<1>5. CASE Enqueue \/ Create \/ Steer \/ Cancel \/ Exited
  BY <1>5, RequestShape, SteerShape, ExitedShape DEF Special
<1>6. CASE BeginUpdate \/ EndUpdate \/ HoldStorage \/ Crash \/ Ready
  BY <1>6, UpdateShape, StillShape DEF Special
<1> QED
  BY <1>1, <1>2, <1>3, <1>4, <1>5, <1>6 DEF Next

-----------------------------------------------------------------------------
(* Memory, the saves and the database.                                     *)

(* The last save of r.                                                     *)
Newest(i, r) == Holds(i, r) /\ \A j \in i + 1 .. Len(chain) : ~Holds(j, r)

(* What the database will have of r once every save is done is its row,    *)
(* unless a save of it failed or a receipt has still to save it.           *)
SyncOK(r) ==
  \/ r \in resave
  \/ /\ \A i \in 1 .. Len(chain) : Newest(i, r) => chain[i][r] = mem[r]
     /\ (\A i \in 1 .. Len(chain) : ~Holds(i, r)) => r \in failed \/ disk[r] = mem[r]

(* What waits for the new version is marked.                               *)
Carried(r) == updating /\ Queued(mem, r) /\ ~mem[r].planned => mem[r].keep
(* While an update is on, it is, unless a receipt has still to save it.    *)
CarryOK(r) == Carried(r) \/ New(r)

(* r has ended, and so it has in the saves from the k-th on.               *)
Quits(r, k) == Idle(mem[r]) /\ \A i \in 1 .. Len(chain) : i >= k /\ Holds(i, r) => Idle(chain[i][r])

(* A cancel that waits for its save: that save is the last it waits for;   *)
(* or it is done, or failed. A cancel that was confirmed is in memory, in  *)
(* every save and in the database. A receipt may undo both.                *)
StopOK(r) ==
  /\ at[Stop(r)] = "stopping" \/ r \in stopped => r <= next
  /\ at[Stop(r)] = "stopping" /\ r \notin reopened =>
       /\ Quits(r, left[Stop(r)])
       /\ left[Stop(r)] > 0 => Holds(left[Stop(r)], r)
       /\ left[Stop(r)] = 0 => Idle(disk[r]) \/ r \in failed
  /\ r \in stopped \ reopened => Quits(r, 0) /\ Idle(disk[r])

(* The invariant with what memory, the saves and the database have of each *)
(* run.                                                                    *)
SyncInv == CoreInv /\ \A r \in Runs : SyncOK(r) /\ CarryOK(r) /\ StopOK(r)

(* What a change makes of one run.                                         *)
Added(r) ==
  /\ disk'[r] = disk[r] /\ (r \in failed' <=> r \in failed)
  /\ Len(chain) \in Nat /\ Len(chain') \in Nat /\ Len(chain) <= Len(chain')
  /\ \A i \in 1 .. Len(chain) : chain'[i] = chain[i]
  /\ \A i \in Len(chain) + 1 .. Len(chain') : r \in DOMAIN chain'[i] => chain'[i][r] = mem'[r]
  /\ (\A i \in Len(chain) + 1 .. Len(chain') : r \notin DOMAIN chain'[i]) => mem'[r] = mem[r]
  /\ Idle(mem[r]) /\ r <= next => Idle(mem'[r])

(* The row changed() makes of one that waits while new turns are held.     *)
LEMMA AfterCarries ==
  ASSUME NEW m \in [Runs -> Raw], NEW h, h, NEW r \in Runs, After(m, h)[r].st = "queued", ~After(m, h)[r].planned
  PROVE  After(m, h)[r].keep
<1> DEFINE rows == Mirrored(m)
           k == Queued(rows, r) /\ (rows[r].keep \/ r \in Carries(rows, h))
<1>1. rows[r] \in Raw
  BY MirroredRow
<1>2. rows[r] # Gone
  <2>1. rows[r] = Gone => After(m, h)[r] = Gone
    BY DEF After
  <2> QED
    BY <2>1, RowFacts
<1>3. After(m, h)[r] = [rows[r] EXCEPT !.keep = k]
  BY <1>2 DEF After
<1>4. PICK row \in Rows : row = rows[r]
  BY <1>1, <1>2 DEF Raw
<1>5. k \in BOOLEAN
  OBVIOUS
<1>6. PICK b \in BOOLEAN : b = k
  BY <1>5
<1> HIDE DEF k
<1>7. After(m, h)[r] = [row EXCEPT !.keep = b]
  BY <1>3, <1>4, <1>6
<1>8. /\ [row EXCEPT !.keep = b].st = row.st /\ [row EXCEPT !.keep = b].planned = row.planned
      /\ [row EXCEPT !.keep = b].keep = b
  BY <1>4 DEF Rows
<1>9. row.st = "queued" /\ ~row.planned
  BY <1>7, <1>8
<1>10. Queued(rows, r) /\ ~rows[r].planned
  BY <1>4, <1>9 DEF Queued
<1>11. rows[r].keep \/ r \in Carries(rows, h)
  BY <1>10 DEF Carries
<1>12. b
  BY <1>6, <1>10, <1>11 DEF k
<1> QED
  BY <1>7, <1>8, <1>12

(* A change adds at most one save, with the rows it leaves in memory, for  *)
(* each run it alters.                                                     *)
LEMMA AltersAdds ==
  ASSUME CoreInv, \E m, touched : Alters(m, touched)
  PROVE  RowTypes' /\ \A r \in Runs : Added(r) /\ Carried(r)'
<1>1. RowTypes /\ Len(chain) \in Nat
  BY CoreFacts
<1>2. PICK m, touched : Alters(m, touched)
  OBVIOUS
<1>3. PICK h : ChangedWhile(m, touched, h) /\ (updating' => h)
  BY <1>2 DEF Alters
<1>4. /\ m \in [Runs -> Raw] /\ touched \in SUBSET Runs
      /\ \A r \in Runs \ touched : m[r] = mem[r]
      /\ \A r \in Runs : Idle(mem[r]) /\ r <= next => Idle(m[r])
  BY <1>2 DEF Alters
<1>5. Writes(m, touched)
  BY <1>1, <1>3, <1>4, ChangedWrites
<1>6. /\ RowTypes' /\ Len(chain') \in Nat /\ Len(chain) <= Len(chain')
      /\ \A r \in Runs : Wrote(r, touched) /\ From(m[r], mem'[r])
  BY <1>1, <1>4, <1>5, WritesFacts
<1>7. PICK ids \in SUBSET Runs : WritesOf(m, ids) /\ touched \subseteq ids
  BY <1>5 DEF Writes
<1>8. ASSUME NEW r \in Runs PROVE Added(r)
  <2>1. ASSUME \A i \in Len(chain) + 1 .. Len(chain') : r \notin DOMAIN chain'[i]
        PROVE  mem'[r] = mem[r]
    <3>1. CASE r \in ids
      <4>1. PICK save : save = Restrict(mem', ids)
        OBVIOUS
      <4>2. DOMAIN save = ids
        BY <4>1 DEF Restrict
      <4>3. save \in Batches
        <5>1. save = [x \in ids |-> mem'[x]] /\ mem' \in [Runs -> Slots]
          BY <1>7, <4>1 DEF Restrict, WritesOf
        <5>2. save \in [ids -> Slots]
          BY <1>7, <5>1
        <5> QED
          BY <1>7, <5>2 DEF Batches
      <4>4. chain' = Append(chain, save) /\ chain \in Seq(Batches)
        BY <1>1, <1>7, <3>1, <4>1 DEF WritesOf, RowTypes
      <4>5. Len(chain') = Len(chain) + 1 /\ chain'[Len(chain) + 1] = save
        BY <4>3, <4>4, AppendFacts
      <4>6. Len(chain) + 1 \in Len(chain) + 1 .. Len(chain')
        BY <1>1, <4>5
      <4> QED
        BY <2>1, <3>1, <4>2, <4>5, <4>6
    <3>2. CASE r \notin ids
      <4>1. m[r] = mem[r] /\ mem[r] \in Slots
        BY <1>4, <1>7, <3>2, CoreFacts
      <4> QED
        BY <1>7, <3>2, <4>1 DEF WritesOf
    <3> QED
      BY <3>1, <3>2
  <2>2. Idle(m[r]) => Idle(mem'[r])
    BY <1>6, RowFacts DEF From, Idle, Finished
  <2>3. Idle(mem[r]) /\ r <= next => Idle(mem'[r])
    BY <1>4, <2>2
  <2> QED
    BY <1>1, <1>6, <2>1, <2>3 DEF Wrote, Added
<1>9. ASSUME NEW r \in Runs PROVE Carried(r)'
  <2>1. SUFFICES ASSUME updating', mem'[r].st = "queued", ~mem'[r].planned PROVE mem'[r].keep
    BY DEF Carried, Queued
  <2>2. mem' = After(m, h) /\ h
    BY <1>3, <2>1 DEF ChangedWhile
  <2> QED
    BY <1>4, <2>1, <2>2, AfterCarries
<1> QED
  BY <1>6, <1>8, <1>9

(* So does a step that changes no row.                                     *)
LEMMA ShapeAdds ==
  ASSUME CoreInv, Shape
  PROVE  /\ RowTypes' /\ \A r \in Runs : Added(r)
         /\ UNCHANGED <<mem, updating>> \/ \A r \in Runs : Carried(r)'
<1>1. CASE UNCHANGED <<rowVars, mem>> /\ updating' = updating
  <2>1. UNCHANGED <<disk, chain, unknown, failed, newAdm, mem, updating>>
    BY <1>1 DEF rowVars
  <2> QED
    BY <2>1, CoreFacts DEF Added, RowTypes
<1>2. CASE \E m, touched : Alters(m, touched)
  BY <1>2, AltersAdds
<1> QED
  BY <1>1, <1>2 DEF Shape

(* What was added agrees with memory.                                      *)
LEMMA AddedSync ==
  ASSUME NEW r \in Runs, Added(r), SyncOK(r), r \in resave => r \in resave'
  PROVE  SyncOK(r)'
<1> USE DEF SyncOK
<1>1. SUFFICES ASSUME r \notin resave, r \notin resave' PROVE SyncOK(r)'
  OBVIOUS
<1>2. ASSUME NEW i \in 1 .. Len(chain'), r \in DOMAIN chain'[i], \A j \in i + 1 .. Len(chain') : r \notin DOMAIN chain'[j]
      PROVE  chain'[i][r] = mem'[r]
  <2>1. CASE i \in Len(chain) + 1 .. Len(chain')
    BY <1>2, <2>1 DEF Added
  <2>2. CASE i \in 1 .. Len(chain)
    <3>1. \A j \in Len(chain) + 1 .. Len(chain') : j \in i + 1 .. Len(chain')
      BY <2>2 DEF Added
    <3>2. mem'[r] = mem[r]
      BY <1>2, <3>1 DEF Added
    <3>3. \A j \in i + 1 .. Len(chain) : j \in i + 1 .. Len(chain') /\ j \in 1 .. Len(chain)
      BY <2>2 DEF Added
    <3>4. Newest(i, r)
      BY <1>2, <2>2, <3>3 DEF Newest, Holds, Added
    <3> QED
      BY <1>1, <2>2, <3>2, <3>4 DEF Added
  <2> QED
    BY <2>1, <2>2 DEF Added
<1>3. ASSUME \A i \in 1 .. Len(chain') : r \notin DOMAIN chain'[i] PROVE r \in failed' \/ disk'[r] = mem'[r]
  <2>1. /\ \A i \in Len(chain) + 1 .. Len(chain') : i \in 1 .. Len(chain')
        /\ \A i \in 1 .. Len(chain) : i \in 1 .. Len(chain')
    BY DEF Added
  <2>2. mem'[r] = mem[r]
    BY <1>3, <2>1 DEF Added
  <2>3. \A i \in 1 .. Len(chain) : ~Holds(i, r)
    BY <1>3, <2>1 DEF Added, Holds
  <2> QED
    BY <1>1, <2>2, <2>3 DEF Added
<1> QED
  BY <1>2, <1>3 DEF Newest, Holds

(* What was added of a run that ended has it ended.                        *)
LEMMA AddedQuits ==
  ASSUME NEW r \in Runs, NEW k, Added(r), Quits(r, k), r <= next
  PROVE  Quits(r, k)'
<1>1. Idle(mem'[r])
  BY DEF Added, Quits
<1>2. ASSUME NEW i \in 1 .. Len(chain'), i >= k, r \in DOMAIN chain'[i] PROVE Idle(chain'[i][r])
  <2>1. CASE i \in Len(chain) + 1 .. Len(chain')
    BY <1>1, <1>2, <2>1 DEF Added
  <2>2. CASE i \in 1 .. Len(chain)
    BY <1>2, <2>2 DEF Added, Quits, Holds
  <2> QED
    BY <2>1, <2>2 DEF Added
<1> QED
  BY <1>1, <1>2 DEF Quits, Holds

(* A cancel that waits still waits for the last save it queued before.     *)
LEMMA AddedStop ==
  ASSUME CoreInv, NEW r \in Runs, Added(r), StopOK(r), at'[Stop(r)] = at[Stop(r)] \/ at'[Stop(r)] # "stopping",
         left'[Stop(r)] = left[Stop(r)], r \in stopped' <=> r \in stopped, reopened' = reopened, next <= next', next' \in Nat
  PROVE  StopOK(r)'
<1>1. PICK k : k = left[Stop(r)]
  OBVIOUS
<1>2. k \in Nat /\ k <= Len(chain) /\ r \in Nat /\ next \in Nat
  BY <1>1, CoreFacts, TaskFacts DEF TaskTypes, LeftOK
<1>3. at'[Stop(r)] = "stopping" \/ r \in stopped' => r <= next /\ r <= next'
  BY <1>2 DEF StopOK
<1>4. ASSUME at'[Stop(r)] = "stopping", r \notin reopened
      PROVE  /\ Quits(r, k)'
             /\ k > 0 => r \in DOMAIN chain'[k]
             /\ k = 0 => Idle(disk'[r]) \/ r \in failed'
  <2>1. Quits(r, k) /\ (k > 0 => Holds(k, r)) /\ (k = 0 => Idle(disk[r]) \/ r \in failed)
    BY <1>1, <1>4 DEF StopOK
  <2>2. Quits(r, k)'
    BY <1>3, <1>4, <2>1, AddedQuits
  <2> QED
    BY <1>2, <2>1, <2>2 DEF Added, Holds
<1>5. ASSUME r \in stopped', r \notin reopened PROVE Quits(r, 0)' /\ Idle(disk'[r])
  <2>1. Quits(r, 0) /\ Idle(disk[r])
    BY <1>5 DEF StopOK
  <2>2. Quits(r, 0)'
    BY <1>3, <1>5, <2>1, AddedQuits
  <2> QED
    BY <2>1, <2>2 DEF Added
<1> QED
  BY <1>1, <1>3, <1>4, <1>5 DEF StopOK, Holds

(* After a change the saves agree with memory, and what waits is marked.   *)
LEMMA ShapeSyncs ==
  ASSUME SyncInv, Shape, UNCHANGED <<found, resave>>
  PROVE  \A r \in Runs : Added(r) /\ SyncOK(r)' /\ CarryOK(r)'
<1>1. /\ \A r \in Runs : Added(r)
      /\ UNCHANGED <<mem, updating>> \/ \A r \in Runs : Carried(r)'
  BY ShapeAdds DEF SyncInv
<1>2. \A r \in Runs : CarryOK(r)'
  BY <1>1 DEF SyncInv, CarryOK, Carried, Queued, New
<1>3. \A r \in Runs : SyncOK(r)'
  BY <1>1, AddedSync DEF SyncInv
<1> QED
  BY <1>1, <1>2, <1>3

(* A step that moves no cancel keeps the second invariant.                 *)
LEMMA ApartSyncs ==
  ASSUME SyncInv, CoreInv', Shape, Apart
  PROVE  SyncInv'
<1>1. next' \in Nat
  BY DEF CoreInv, TypeOK, MarkTypes
<1>2. \A r \in Runs : Added(r) /\ SyncOK(r)' /\ CarryOK(r)'
  BY ShapeSyncs DEF Apart
<1>3. \A r \in Runs : StopOK(r)'
  BY <1>1, <1>2, AddedStop DEF SyncInv, Apart
<1> QED
  BY <1>2, <1>3 DEF SyncInv

(* The begin of a cancel keeps the second invariant.                       *)
LEMMA CancelSyncs ==
  ASSUME SyncInv, CoreInv', Cancel
  PROVE  SyncInv'
<1>1. CoreInv /\ next \in Nat
  BY CoreFacts DEF SyncInv
<1>2. /\ Shape /\ UNCHANGED <<next, stopped, left>> /\ UNCHANGED <<found, resave, reopened>>
      /\ \A q \in Runs : at'[Stop(q)] = at[Stop(q)] \/ at'[Stop(q)] # "stopping"
  BY <1>1, CancelShape
<1>3. \A r \in Runs : Added(r) /\ SyncOK(r)' /\ CarryOK(r)'
  BY <1>2, ShapeSyncs
<1>4. next <= next' /\ next' \in Nat
  BY <1>1, <1>2
<1>5. ASSUME NEW r \in Runs PROVE StopOK(r)'
  <2>1. Added(r) /\ StopOK(r) /\ left'[Stop(r)] = left[Stop(r)]
    BY <1>2, <1>3 DEF SyncInv
  <2> QED
    BY <1>1, <1>2, <1>4, <2>1, AddedStop
<1> QED
  BY <1>3, <1>5 DEF SyncInv

(* The end of a cancelled run keeps the second invariant.                  *)
LEMMA CancelEndsSyncs ==
  ASSUME SyncInv, CoreInv', NEW r \in Runs, CancelEnds(r)
  PROVE  SyncInv'
<1>1. CoreInv /\ RowTypes
  BY CoreFacts DEF SyncInv
<1>2. Await(Stop(r), "stopping", chain')
  BY DEF CancelEnds
<1>3. Shape /\ UNCHANGED <<next, updating, stopped>> /\ UNCHANGED <<found, resave, reopened>> /\ r <= next
  BY <1>1, CancelEndsShape
<1>4. PICK m \in [Runs -> Raw] : Writes(m, {r}) /\ Idle(m[r])
  BY <1>1, CancelEndsShape
<1>5. \A q \in Runs : Added(q) /\ SyncOK(q)' /\ CarryOK(q)'
  BY <1>3, ShapeSyncs
<1>6. /\ Len(chain) \in Nat /\ Len(chain') = Len(chain) + 1 /\ r \in DOMAIN chain'[Len(chain')]
      /\ From(m[r], mem'[r])
  BY <1>1, <1>4, WritesFacts
<1>7. Idle(mem'[r])
  BY <1>4, <1>6, RowFacts DEF From, Idle, Finished
<1>8. at \in [Tasks -> Places] /\ left \in [Tasks -> Nat] /\ next \in Nat
  BY <1>1, CoreFacts DEF TaskTypes
<1>9. PICK n \in Nat : n = Len(chain')
  BY <1>6
<1>10. at' = [at EXCEPT ![Stop(r)] = "stopping"] /\ left' = [left EXCEPT ![Stop(r)] = n]
  BY <1>2, <1>9 DEF Await
<1>11. ASSUME NEW q \in Runs \ {r} PROVE StopOK(q)'
  <2>1. Stop(q) # Stop(r) /\ Stop(q) \in Tasks /\ Stop(r) \in Tasks
    BY TaskFacts
  <2>2. at'[Stop(q)] = at[Stop(q)] /\ left'[Stop(q)] = left[Stop(q)]
    BY <1>8, <1>10, <2>1
  <2> QED
    BY <1>1, <1>3, <1>5, <1>8, <2>2, AddedStop DEF SyncInv
<1>12. StopOK(r)'
  <2>1. left'[Stop(r)] = n
    BY <1>8, <1>10, TaskFacts
  <2>2. Quits(r, n)'
    <3>1. ASSUME NEW i \in 1 .. Len(chain'), i >= n, r \in DOMAIN chain'[i] PROVE Idle(chain'[i][r])
      <4>1. i = Len(chain) + 1 /\ i \in Len(chain) + 1 .. Len(chain')
        BY <1>6, <1>9, <3>1
      <4> QED
        BY <1>5, <1>7, <3>1, <4>1 DEF Added
    <3> QED
      BY <1>7, <3>1 DEF Quits, Holds
  <2>3. n > 0 /\ r \in DOMAIN chain'[n]
    BY <1>6, <1>9
  <2>4. ASSUME r \in stopped', r \notin reopened PROVE Quits(r, 0)' /\ Idle(disk'[r])
    <3>1. Quits(r, 0) /\ Idle(disk[r])
      BY <1>3, <2>4 DEF SyncInv, StopOK
    <3> QED
      BY <1>3, <1>5, <3>1, AddedQuits DEF Added
  <2> QED
    BY <1>3, <2>1, <2>2, <2>3, <2>4 DEF StopOK, Holds
<1> QED
  BY <1>5, <1>11, <1>12 DEF SyncInv

(* The confirmation of a cancel keeps the second invariant.                *)
LEMMA CancelDoneSyncs ==
  ASSUME SyncInv, CoreInv', NEW r \in Runs, CancelDone(r)
  PROVE  SyncInv'
<1>1. /\ at[Stop(r)] = "stopping" /\ left[Stop(r)] = 0
      /\ at' = [at EXCEPT ![Stop(r)] = "idle"] /\ left' = left
      /\ stopped' = IF FlushOk THEN stopped \cup {r} ELSE stopped
      /\ UNCHANGED <<rowVars, mem, next, updating>> /\ UNCHANGED <<found, resave, reopened>>
  BY DEF CancelDone, Saves, Go, Steady, recovery
<1>2. UNCHANGED <<disk, chain, failed, mem, next, updating>>
  BY <1>1 DEF rowVars
<1>3. ASSUME NEW q \in Runs PROVE SyncOK(q)' /\ CarryOK(q)'
  BY <1>1, <1>2 DEF SyncInv, SyncOK, CarryOK, Carried, New, Newest, Holds, Queued
<1>4. at \in [Tasks -> Places] /\ \A q \in Runs : Stop(q) \in Tasks
  BY CoreFacts, TaskFacts DEF SyncInv, TaskTypes
<1>5. ASSUME NEW q \in Runs PROVE StopOK(q)'
  <2>1. \A k : Quits(q, k) => Quits(q, k)'
    BY <1>2 DEF Quits, Holds
  <2>2. at'[Stop(q)] = "stopping" => at[Stop(q)] = "stopping"
    BY <1>1, <1>4
  <2>3. q \in stopped' /\ q \notin stopped => q = r /\ FlushOk
    BY <1>1
  <2>4. StopOK(q)
    BY DEF SyncInv
  <2>5. q \in stopped' => q <= next
    BY <1>1, <2>3, <2>4 DEF StopOK
  <2>6. ASSUME q \in stopped', q \notin reopened PROVE Quits(q, 0)' /\ Idle(disk'[q])
    <3>1. CASE q \in stopped
      BY <1>2, <2>1, <2>4, <2>6, <3>1 DEF StopOK
    <3>2. CASE q \notin stopped
      <4>1. q = r /\ failed = {}
        BY <2>3, <2>6, <3>2 DEF FlushOk
      <4> QED
        BY <1>1, <1>2, <2>1, <2>4, <2>6, <4>1 DEF StopOK
    <3> QED
      BY <3>1, <3>2
  <2>7. PICK k : k = left[Stop(q)]
    OBVIOUS
  <2>8. at'[Stop(q)] = "stopping" => q <= next
    BY <2>2, <2>4 DEF StopOK
  <2>9. ASSUME at'[Stop(q)] = "stopping", q \notin reopened
        PROVE  Quits(q, k)' /\ (k > 0 => Holds(k, q)') /\ (k = 0 => Idle(disk'[q]) \/ q \in failed')
    BY <1>2, <2>1, <2>2, <2>4, <2>7, <2>9 DEF StopOK, Holds
  <2> QED
    BY <1>1, <1>2, <2>6, <2>7, <2>9, <2>5, <2>8 DEF StopOK
<1> QED
  BY <1>3, <1>5 DEF SyncInv

(* The end of a save keeps the second invariant, whether it committed,     *)
(* failed or is unknown.                                                   *)
LEMMA PoppedSyncs ==
  ASSUME SyncInv, CoreInv', NEW S, NEW head, Popped(S, head)
  PROVE  SyncInv'
<1>1. CoreInv
  BY DEF SyncInv
<1>2. /\ Len(chain') = Len(chain) - 1 /\ Len(chain) \in Nat \ {0} /\ S \subseteq Runs
      /\ \A i \in 1 .. Len(chain') : chain'[i] = chain[i + 1]
      /\ head = chain[1]
      /\ \A r \in Runs : disk'[r] = disk[r] \/ (r \in S /\ disk'[r] = head[r])
  BY <1>1, PoppedRows
<1>3. /\ UNCHANGED <<mem, next, updating, stopped, at>> /\ UNCHANGED <<found, resave, reopened>>
      /\ left' = [t \in Tasks |-> IF left[t] > 0 THEN left[t] - 1 ELSE 0]
  BY DEF Popped, HeadDone, history, recovery
<1>4. \A r \in Runs : r \in S <=> Holds(1, r)
  BY <1>2 DEF Popped, Holds
<1>5. ASSUME NEW r \in Runs
      PROVE  /\ r \notin S => disk'[r] = disk[r] /\ (r \in failed' <=> r \in failed)
             /\ r \in S => r \in failed' \/ disk'[r] = head[r]
  <2>1. disk \in [Runs -> Slots]
    BY <1>1, CoreFacts DEF RowTypes
  <2>2. r \in S => Saved(head)[r] = head[r]
    BY DEF Saved, Popped
  <2>3. r \in S => r \in failed' \/ disk' = Saved(head)
    BY DEF Popped
  <2>4. r \notin S => (r \in failed' <=> r \in failed)
    BY DEF Popped
  <2> QED
    BY <1>2, <2>2, <2>3, <2>4
<1>6. 1 \in 1 .. Len(chain)
  BY <1>2
<1>7. ASSUME NEW r \in Runs, NEW i \in 1 .. Len(chain')
      PROVE  i + 1 \in 1 .. Len(chain) /\ (Holds(i, r)' <=> Holds(i + 1, r))
  BY <1>2 DEF Holds
<1>8. ASSUME NEW r \in Runs, NEW i \in 1 .. Len(chain) \ {1}
      PROVE  i - 1 \in 1 .. Len(chain') /\ (Holds(i - 1, r)' <=> Holds(i, r))
  <2>1. i - 1 \in 1 .. Len(chain') /\ i - 1 + 1 = i
    BY <1>2
  <2> QED
    BY <1>7, <2>1
<1>9. ASSUME NEW r \in Runs PROVE SyncOK(r)'
  <2>1. SUFFICES ASSUME r \notin resave PROVE SyncOK(r)'
    BY <1>3 DEF SyncOK
  <2>2. SyncOK(r)
    BY DEF SyncInv
  <2>3. ASSUME NEW i \in 1 .. Len(chain'), Holds(i, r)', \A j \in i + 1 .. Len(chain') : ~Holds(j, r)'
        PROVE  chain'[i][r] = mem'[r]
    <3>1. ASSUME NEW j \in (i + 1) + 1 .. Len(chain) PROVE ~Holds(j, r)
      <4>1. j - 1 \in i + 1 .. Len(chain') /\ j \in 1 .. Len(chain) /\ j # 1
        BY <1>2
      <4> QED
        BY <1>8, <2>3, <4>1
    <3>2. Newest(i + 1, r) /\ i + 1 \in 1 .. Len(chain)
      BY <1>7, <2>3, <3>1 DEF Newest
    <3> QED
      BY <1>2, <1>3, <2>2, <2>1, <3>2 DEF SyncOK
  <2>4. ASSUME \A i \in 1 .. Len(chain') : ~Holds(i, r)' PROVE r \in failed' \/ disk'[r] = mem'[r]
    <3>1. \A i \in 1 .. Len(chain) \ {1} : ~Holds(i, r)
      BY <1>8, <2>4
    <3>2. CASE r \in S
      <4>1. \A j \in 1 + 1 .. Len(chain) : j \in 1 .. Len(chain) \ {1}
        BY <1>2
      <4>2. Newest(1, r)
        BY <1>4, <3>1, <3>2, <4>1 DEF Newest
      <4> QED
        BY <1>2, <1>3, <1>5, <1>6, <2>2, <2>1, <3>2, <4>2 DEF SyncOK
    <3>3. CASE r \notin S
      <4>1. \A i \in 1 .. Len(chain) : ~Holds(i, r)
        BY <1>4, <3>1, <3>3
      <4> QED
        BY <1>3, <1>5, <2>2, <2>1, <3>3, <4>1 DEF SyncOK
    <3> QED
      BY <3>2, <3>3
  <2> QED
    BY <2>3, <2>4 DEF SyncOK, Newest
<1>10. ASSUME NEW r \in Runs PROVE CarryOK(r)'
  BY <1>3 DEF SyncInv, CarryOK, Carried, New, Queued
<1>11. ASSUME NEW r \in Runs, NEW k \in Nat, Quits(r, k)
       PROVE  /\ Quits(r, IF k > 0 THEN k - 1 ELSE 0)'
              /\ k <= 1 /\ r \in S => Idle(head[r])
  <2>1. ASSUME NEW i \in 1 .. Len(chain'), i >= IF k > 0 THEN k - 1 ELSE 0, Holds(i, r)'
        PROVE  Idle(chain'[i][r])
    <3>1. i + 1 \in 1 .. Len(chain) /\ i + 1 >= k /\ Holds(i + 1, r)
      BY <1>7, <2>1
    <3> QED
      BY <1>2, <1>11, <3>1 DEF Quits
  <2>2. k <= 1 /\ r \in S => Idle(head[r])
    BY <1>2, <1>4, <1>6, <1>11 DEF Quits
  <2> QED
    BY <1>3, <1>11, <2>1, <2>2 DEF Quits
<1>12. ASSUME NEW r \in Runs PROVE StopOK(r)'
  <2>1. StopOK(r)
    BY DEF SyncInv
  <2>2. PICK k \in Nat : k = left[Stop(r)] /\ k <= Len(chain)
    BY <1>1, CoreFacts, TaskFacts DEF TaskTypes, LeftOK
  <2>3. PICK n \in Nat : n = IF k > 0 THEN k - 1 ELSE 0
    BY <2>2
  <2>4. left'[Stop(r)] = n
    BY <1>3, <2>2, <2>3, TaskFacts
  <2>5. ASSUME at[Stop(r)] = "stopping", r \notin reopened
        PROVE  Quits(r, n)' /\ (n > 0 => Holds(n, r)') /\ (n = 0 => Idle(disk'[r]) \/ r \in failed')
    <3>1. /\ Quits(r, k) /\ (k > 0 => Holds(k, r)) /\ (k = 0 => Idle(disk[r]) \/ r \in failed)
      BY <2>1, <2>2, <2>5 DEF StopOK
    <3>2. Quits(r, n)'
      BY <1>11, <2>3, <3>1
    <3>3. ASSUME n > 0 PROVE Holds(n, r)'
      <4>1. k \in 1 .. Len(chain) \ {1} /\ n = k - 1
        BY <2>2, <2>3, <3>3
      <4> QED
        BY <1>8, <3>1, <4>1
    <3>4. ASSUME n = 0 PROVE Idle(disk'[r]) \/ r \in failed'
      <4>1. k <= 1 /\ (k = 0 \/ k = 1)
        BY <2>3, <3>4
      <4>2. k = 1 => r \in S
        BY <1>4, <3>1
      <4>3. CASE r \in S
        BY <1>5, <1>11, <3>1, <4>1, <4>3
      <4>4. CASE r \notin S
        BY <1>5, <3>1, <4>1, <4>2, <4>4
      <4> QED
        BY <4>3, <4>4
    <3> QED
      BY <3>2, <3>3, <3>4
  <2>6. ASSUME r \in stopped, r \notin reopened PROVE Quits(r, 0)' /\ Idle(disk'[r])
    <3>1. Quits(r, 0) /\ Idle(disk[r])
      BY <2>1, <2>6 DEF StopOK
    <3>2. Quits(r, IF 0 > 0 THEN 0 - 1 ELSE 0)' /\ (r \in S => Idle(head[r]))
      BY <1>11, <3>1
    <3>3. Quits(r, 0)'
      BY <3>2
    <3> QED
      BY <1>2, <3>1, <3>2, <3>3
  <2> QED
    BY <1>3, <2>1, <2>4, <2>5, <2>6 DEF StopOK
<1> QED
  BY <1>9, <1>10, <1>12 DEF SyncInv

(* The reading of a receipt keeps the second invariant: what failed is yet *)
(* to be saved.                                                            *)
LEMMA RecoverReadsSyncs ==
  ASSUME SyncInv, CoreInv', RecoverReads
  PROVE  SyncInv'
<1>1. CoreInv /\ at \in [Tasks -> Places]
  BY CoreFacts DEF SyncInv, TaskTypes
<1>2. /\ chain = <<>> /\ Len(chain) = 0 /\ Quiet /\ resave = {}
      /\ at' = [at EXCEPT ![Resolve] = "rows"] /\ UNCHANGED <<left, disk, chain, mem, next>>
      /\ resave' = failed \cup rest' /\ failed' = {}
      /\ \A r \in Runs : ~New(r)
  BY <1>1, ReadsFacts
<1>3. UNCHANGED <<updating, stopped, reopened>>
  BY DEF RecoverReads, Recovering
<1>4. ASSUME NEW r \in Runs PROVE SyncOK(r)' /\ CarryOK(r)'
  <2>1. SyncOK(r) /\ CarryOK(r) /\ ~New(r) /\ \A i \in 1 .. Len(chain) : ~Holds(i, r)
    BY <1>2 DEF SyncInv
  <2>2. r \in resave' \/ disk[r] = mem[r]
    BY <1>2, <2>1 DEF SyncOK
  <2>3. SyncOK(r)'
    BY <1>2, <2>2 DEF SyncOK
  <2>4. CarryOK(r)'
    BY <1>2, <1>3, <2>1 DEF CarryOK, Carried, Queued
  <2> QED
    BY <2>3, <2>4
<1>5. ASSUME NEW r \in Runs PROVE StopOK(r)'
  <2>1. at'[Stop(r)] # "stopping"
    <3>1. "stopping" \in OwnSave /\ Stop(r) \in Tasks
      BY TaskFacts DEF OwnSave
    <3>2. at[Stop(r)] # "stopping"
      BY <1>1, <1>2, <3>1, EmptyChain
    <3> QED
      BY <1>1, <1>2, <3>1, <3>2
  <2>2. StopOK(r)
    BY DEF SyncInv
  <2>3. Quits(r, 0) => Quits(r, 0)'
    BY <1>2 DEF Quits, Holds
  <2> QED
    BY <1>2, <1>3, <2>1, <2>2, <2>3 DEF StopOK
<1> QED
  BY <1>4, <1>5 DEF SyncInv

(* A run that ended in memory comes back only from an older row, and what  *)
(* came back from no row keeps its own or ends.                            *)
LEMMA SettledIdle ==
  ASSUME CoreInv, NEW r \in Runs, RecoverRow(r)
  PROVE  /\ mem' = [mem EXCEPT ![r] = Settled(r)] /\ Settled(r) \in Slots
         /\ reopened' \in {reopened, reopened \cup {r}}
         /\ Idle(mem[r]) => Idle(mem'[r]) \/ r \in reopened'
         /\ New(r) \/ Settled(r) = mem[r] \/ Settled(r).st = "error"
<1>1. /\ mem' = [mem EXCEPT ![r] = Settled(r)] /\ mem \in [Runs -> Slots] /\ mem[r] \in Slots
      /\ Settled(r) \in Slots /\ mem'[r] = Settled(r)
  BY SettledRow, CoreFacts DEF RecoverRow, RowTypes
<1>2. New(r) \/ Settled(r) = mem[r] \/ Settled(r).st = "error"
  BY SettledRow
<1>3. reopened' = IF Replaced(r) /\ mem[r].st \in Finished \cup {"gone"} /\ ~Ended(mem', r)
                  THEN reopened \cup {r} ELSE reopened
  BY DEF RecoverRow
<1>4. ASSUME Idle(mem[r]), r \notin reopened' PROVE Idle(mem'[r])
  <2>1. mem[r].st \in Finished \cup {"gone"}
    BY <1>1, <1>4, RowFacts DEF Idle, Statuses, Finished
  <2>2. CASE Replaced(r)
    <3>1. mem'[r].st \in Finished
      BY <1>3, <1>4, <2>1, <2>2 DEF Ended
    <3> QED
      BY <3>1 DEF Idle, Finished
  <2>3. CASE ~Replaced(r)
    <3>1. Settled(r) \in {Gone, mem[r], NeverSent(mem[r], unsent[r])}
      BY <2>3 DEF Settled
    <3>2. Settled(r) = NeverSent(mem[r], unsent[r]) => Settled(r) = mem[r] \/ Settled(r) = Gone \/ Settled(r).st = "error"
      <4>1. CASE New(r) /\ mem[r] # Gone
        <5>1. PICK d \in Rows : d = mem[r]
          BY <1>1, <4>1 DEF Slots
        <5>2. NeverSent(d, unsent[r]).st = "error"
          BY <5>1 DEF Rows, NeverSent
        <5> QED
          BY <5>1, <5>2
      <4>2. CASE mem[r] = Gone
        BY <2>3, <4>2 DEF Settled
      <4>3. CASE ~New(r)
        BY <1>2, <4>3
      <4> QED
        BY <4>1, <4>2, <4>3
    <3> QED
      BY <1>1, <1>4, <3>1, <3>2, RowFacts DEF Idle
  <2> QED
    BY <2>2, <2>3
<1> QED
  BY <1>1, <1>2, <1>3, <1>4

(* Each run that a receipt settles keeps the second invariant.             *)
LEMMA RecoverRowSyncs ==
  ASSUME SyncInv, CoreInv', NEW r \in Runs, RecoverRow(r)
  PROVE  SyncInv'
<1>1. CoreInv /\ mem \in [Runs -> Slots] /\ at \in [Tasks -> Places]
  BY CoreFacts DEF SyncInv, RowTypes, TaskTypes
<1>2. /\ mem' = [mem EXCEPT ![r] = Settled(r)] /\ Settled(r) \in Slots
      /\ reopened' \in {reopened, reopened \cup {r}}
      /\ Idle(mem[r]) => Idle(mem'[r]) \/ r \in reopened'
      /\ New(r) \/ Settled(r) = mem[r] \/ Settled(r).st = "error"
  BY <1>1, SettledIdle
<1>3. /\ UNCHANGED <<disk, chain, failed>> /\ UNCHANGED <<next, updating, stopped, found, resave>>
      /\ r \in rest
  BY DEF RecoverRow, Recovering, rowVars
<1>4. left' = left /\ \A q \in Runs : at'[Stop(q)] = at[Stop(q)]
  <2>1. (at' = at \/ at' = [at EXCEPT ![Resolve] = "files"]) /\ left' = left
    BY DEF RecoverRow, Go
  <2> QED
    BY <1>1, <2>1, TaskFacts
<1>5. r \in resave
  BY <1>1, <1>3, CoreFacts DEF RunOK, RestOK
<1>6. mem'[r] = Settled(r) /\ \A q \in Runs \ {r} : mem'[q] = mem[q]
  BY <1>1, <1>2
<1>7. ASSUME NEW q \in Runs PROVE SyncOK(q)'
  <2>1. CASE q = r
    BY <1>3, <1>5, <2>1 DEF SyncOK
  <2>2. CASE q # r
    BY <1>3, <1>6, <2>2 DEF SyncInv, SyncOK, Newest, Holds
  <2> QED
    BY <2>1, <2>2
<1>8. ASSUME NEW q \in Runs PROVE CarryOK(q)'
  <2>1. CarryOK(q) /\ (New(q)' <=> New(q))
    BY <1>3 DEF SyncInv, New
  <2>2. CASE mem'[q] = mem[q]
    BY <1>3, <2>1, <2>2 DEF CarryOK, Carried, Queued
  <2>3. CASE mem'[q] # mem[q]
    <3>1. q = r /\ (New(q)' \/ mem'[q].st = "error")
      BY <1>2, <1>6, <2>1, <2>3
    <3> QED
      BY <3>1 DEF CarryOK, Carried, Queued
  <2> QED
    BY <2>2, <2>3
<1>9. ASSUME NEW q \in Runs PROVE StopOK(q)'
  <2>1. StopOK(q)
    BY DEF SyncInv
  <2>2. PICK k : k = left[Stop(q)]
    OBVIOUS
  <2>3. (at[Stop(q)] = "stopping" \/ q \in stopped') => q <= next'
    BY <1>3, <2>1 DEF StopOK
  <2>4. q \notin reopened' => q \notin reopened /\ \A n : Quits(q, n) => Quits(q, n)'
    BY <1>2, <1>3, <1>6 DEF Quits, Holds
  <2>5. ASSUME at[Stop(q)] = "stopping", q \notin reopened'
        PROVE  Quits(q, k)' /\ (k > 0 => Holds(k, q)') /\ (k = 0 => Idle(disk'[q]) \/ q \in failed')
    BY <1>3, <2>1, <2>2, <2>4, <2>5 DEF StopOK, Holds
  <2>6. ASSUME q \in stopped', q \notin reopened' PROVE Quits(q, 0)' /\ Idle(disk'[q])
    BY <1>3, <2>1, <2>4, <2>6 DEF StopOK
  <2> QED
    BY <1>4, <2>2, <2>3, <2>5, <2>6 DEF StopOK
<1> QED
  BY <1>7, <1>8, <1>9 DEF SyncInv

(* The save of a receipt keeps the second invariant.                       *)
LEMMA RecoverSavesSyncs ==
  ASSUME SyncInv, CoreInv', RecoverSaves
  PROVE  SyncInv'
<1>1. CoreInv /\ mem \in [Runs -> Raw] /\ next \in Nat
  BY CoreFacts DEF SyncInv
<1>2. /\ resave \in SUBSET Runs /\ resave' = {} /\ at \in [Tasks -> Places]
      /\ UNCHANGED <<next, updating, stopped, reopened>>
      /\ \A u \in Tasks \ {Resolve} : at'[u] = at[u] /\ left'[u] = left[u]
      /\ \A r \in resave : Len(chain') = Len(chain) + 1 /\ r \in DOMAIN chain'[Len(chain')]
  BY <1>1, ReceiptSaved, CoreFacts DEF TaskTypes
<1>3. \A r \in Runs : Added(r) /\ Carried(r)'
  <2>1. \E h : ChangedWhile(mem, resave, h) /\ (updating' => h)
    BY <1>2 DEF RecoverSaves, Changed
  <2>2. Alters(mem, resave)
    BY <1>1, <1>2, <2>1 DEF Alters
  <2> QED
    BY <1>1, <2>2, AltersAdds
<1>4. ASSUME NEW r \in Runs PROVE SyncOK(r)'
  <2>1. CASE r \in resave
    <3>1. PICK n : n = Len(chain')
      OBVIOUS
    <3>2. n \in Nat /\ n = Len(chain) + 1 /\ Len(chain) \in Nat /\ r \in DOMAIN chain'[n]
      BY <1>2, <1>3, <2>1, <3>1 DEF Added
    <3>3. n \in 1 .. n /\ n \in Len(chain) + 1 .. n
      BY <3>2
    <3>4. chain'[n][r] = mem'[r]
      BY <1>3, <3>1, <3>2, <3>3 DEF Added
    <3>5. \A i \in 1 .. n : i = n \/ n \in i + 1 .. n
      BY <3>2
    <3> QED
      BY <3>1, <3>2, <3>3, <3>4, <3>5 DEF SyncOK, Newest, Holds
  <2>2. CASE r \notin resave
    BY <1>3, <2>2, AddedSync DEF SyncInv
  <2> QED
    BY <2>1, <2>2
<1>5. ASSUME NEW r \in Runs PROVE StopOK(r)'
  <2>1. Stop(r) \in Tasks \ {Resolve}
    BY TaskFacts
  <2>2. Added(r) /\ StopOK(r) /\ at'[Stop(r)] = at[Stop(r)] /\ left'[Stop(r)] = left[Stop(r)] /\ next <= next' /\ next' \in Nat
    BY <1>1, <1>2, <1>3, <2>1 DEF SyncInv
  <2> QED
    BY <1>1, <1>2, <2>2, AddedStop
<1> QED
  BY <1>3, <1>4, <1>5 DEF SyncInv, CarryOK

(* The end of the worker keeps the second invariant.                       *)
LEMMA CrashSyncs ==
  ASSUME SyncInv, CoreInv', Crash
  PROVE  SyncInv'
<1>1. CoreInv
  BY DEF SyncInv
<1>2. /\ failed' = {} /\ updating' = FALSE /\ at' = [t \in Tasks |-> "idle"]
      /\ UNCHANGED <<next, stopped, reopened>>
  BY DEF Crash
<1>3. /\ \A r \in Runs : disk'[r] = disk[r] \/ (Len(chain) >= 1 /\ r \in DOMAIN chain[1] /\ disk'[r] = chain[1][r])
      /\ \A r \in Runs : /\ mem'[r] \in Slots
                         /\ mem'[r] = Gone <=> disk'[r] = Gone
                         /\ Outlasts(disk'[r]) => mem'[r].st = disk'[r].st
      /\ \A i \in 1 .. Len(chain') : \A r \in DOMAIN chain'[i] : chain'[i][r] = mem'[r]
      /\ \A r \in Runs : (\A i \in 1 .. Len(chain') : r \notin DOMAIN chain'[i]) => mem'[r] = Gone
      /\ disk' \in [Runs -> Slots]
  BY <1>1, CrashRows
<1>4. ASSUME NEW r \in Runs PROVE SyncOK(r)'
  BY <1>3 DEF SyncOK, Newest, Holds
<1>5. ASSUME NEW r \in Runs PROVE CarryOK(r)'
  BY <1>2 DEF CarryOK, Carried
<1>6. ASSUME NEW r \in Runs PROVE StopOK(r)'
  <2>1. at'[Stop(r)] # "stopping"
    BY <1>2, TaskFacts
  <2>2. StopOK(r)
    BY DEF SyncInv
  <2>3. ASSUME r \in stopped, r \notin reopened PROVE Quits(r, 0)' /\ Idle(disk'[r])
    <3>1. Quits(r, 0) /\ Idle(disk[r])
      BY <2>3, <2>2 DEF StopOK
    <3>2. Idle(disk'[r])
      <4>1. CASE Len(chain) >= 1 /\ r \in DOMAIN chain[1] /\ disk'[r] = chain[1][r]
        <5>1. 1 \in 1 .. Len(chain) /\ 1 >= 0 /\ Holds(1, r)
          BY <1>1, <4>1, CoreFacts DEF Holds
        <5> QED
          BY <3>1, <4>1, <5>1 DEF Quits
      <4> QED
        BY <1>3, <3>1, <4>1
    <3>3. Idle(mem'[r])
      <4>1. CASE disk'[r] = Gone
        BY <1>3, <3>2, <4>1
      <4>2. CASE disk'[r] # Gone
        <5>1. disk'[r].st \in Finished
          BY <1>3, <3>2, <4>2, RowFacts DEF Idle, Statuses
        <5> QED
          BY <1>3, <5>1 DEF Outlasts, Idle, Finished
      <4> QED
        BY <4>1, <4>2
    <3> QED
      BY <1>3, <3>2, <3>3 DEF Quits, Holds
  <2>4. r \in stopped => r <= next'
    BY <1>2, <2>2 DEF StopOK
  <2> QED
    BY <1>2, <2>1, <2>3, <2>4 DEF StopOK
<1> QED
  BY <1>4, <1>5, <1>6 DEF SyncInv

(* The second invariant holds at the start.                                *)
LEMMA InitSync == Init => SyncInv
<1> SUFFICES ASSUME Init PROVE SyncInv
  OBVIOUS
<1>1. \A r \in Runs : SyncOK(r) /\ CarryOK(r)
  BY DEF Init, SyncOK, Newest, Holds, CarryOK, Carried
<1>2. \A r \in Runs : StopOK(r)
  <2>1. ASSUME NEW r \in Runs PROVE at[Stop(r)] = "idle" /\ r \notin stopped
    BY TaskFacts DEF Init
  <2> QED
    BY <2>1 DEF StopOK
<1> QED
  BY <1>1, <1>2, InitCore DEF SyncInv

(* A step that changes nothing keeps the second invariant.                 *)
LEMMA StutterSync ==
  ASSUME SyncInv, UNCHANGED vars
  PROVE  SyncInv'
<1>1. UNCHANGED <<disk, chain, failed, mem, next, updating, at, left, stopped>> /\ UNCHANGED <<found, resave, reopened>> /\ CoreInv'
  BY StutterCore DEF SyncInv, vars, rowVars, history, recovery
<1>2. \A r \in Runs : SyncOK(r)' /\ CarryOK(r)'
  BY <1>1 DEF SyncInv, SyncOK, CarryOK, Carried, New, Newest, Holds, Queued
<1>3. ASSUME NEW r \in Runs PROVE StopOK(r)'
  <2>1. \A k : Quits(r, k) => Quits(r, k)'
    BY <1>1 DEF Quits, Holds
  <2>2. StopOK(r)
    BY DEF SyncInv
  <2>3. PICK k : k = left[Stop(r)]
    OBVIOUS
  <2> QED
    BY <1>1, <2>1, <2>2, <2>3 DEF StopOK, Holds
<1> QED
  BY <1>1, <1>2, <1>3 DEF SyncInv

(* Every step keeps the second invariant.                                  *)
LEMMA NextSync ==
  ASSUME SyncInv, Next
  PROVE  SyncInv'
<1>1. CoreInv /\ CoreInv'
  BY NextCore DEF SyncInv
<1>2. (Shape /\ Apart) \/ Special
  BY <1>1, NextShape
<1>3. CASE Shape /\ Apart
  BY <1>1, <1>3, ApartSyncs
<1>4. CASE Special
  <2>1. CASE Cancel \/ Crash \/ RecoverReads \/ RecoverSaves
    BY <1>1, <2>1, CancelSyncs, CrashSyncs, RecoverReadsSyncs, RecoverSavesSyncs
  <2>2. CASE \E r \in Runs : CancelEnds(r) \/ CancelDone(r) \/ RecoverRow(r)
    BY <1>1, <2>2, CancelEndsSyncs, CancelDoneSyncs, RecoverRowSyncs
  <2>3. CASE \E S, head : Popped(S, head)
    BY <1>1, <2>3, PoppedSyncs
  <2> QED
    BY <1>4, <2>1, <2>2, <2>3 DEF Special
<1> QED
  BY <1>2, <1>3, <1>4

(* In every reachable state, a run no save holds and whose last save did   *)
(* not fail is in the database as it is in memory, the last save of a run  *)
(* has the row of memory (both unless a receipt has still to save it),     *)
(* what waits during an update is marked unless a receipt brings it back,  *)
(* and a cancel waits for a save that has the run ended unless a receipt   *)
(* brought it back (changed, persist, flushState, resolveAdmission).       *)
THEOREM SyncHolds == Spec => []SyncInv
<1>1. SyncInv /\ [Next]_vars => SyncInv'
  BY NextSync, StutterSync
<1> QED
  BY <1>1, InitSync, PTL DEF Spec

(* In a step that is not apart: what a receipt brought back stays marked   *)
(* so, and no instruction is given.                                        *)
LEMMA SpecialGives ==
  ASSUME CoreInv, Special
  PROVE  sent' = sent /\ reopened \subseteq reopened'
<1>1. CASE Cancel \/ Crash \/ RecoverReads \/ RecoverSaves
  BY <1>1 DEF Cancel, Crash, RecoverReads, RecoverSaves, Recovering, history
<1>2. CASE \E r \in Runs : CancelEnds(r) \/ CancelDone(r)
  BY <1>2 DEF CancelEnds, CancelDone, history
<1>3. CASE \E r \in Runs : RecoverRow(r)
  BY <1>3 DEF RecoverRow, Recovering
<1>4. CASE \E S, head : Popped(S, head)
  BY <1>4 DEF Popped, HeadDone, history
<1> QED
  BY <1>1, <1>2, <1>3, <1>4 DEF Special

(* No step gives a run that ended in memory to a provider.                 *)
LEMMA IdleUngiven ==
  ASSUME CoreInv, Next, NEW r \in Runs, r \notin stale, Idle(mem[r])
  PROVE  sent'[r] = sent[r]
<1>1. (Shape /\ Apart) \/ Special
  BY NextShape
<1> QED
  BY <1>1, SpecialGives DEF Apart

(* What a receipt brought back stays marked.                               *)
LEMMA ReopenedStays ==
  ASSUME CoreInv, Next
  PROVE  reopened \subseteq reopened'
<1>1. (Shape /\ Apart) \/ Special
  BY NextShape
<1> QED
  BY <1>1, SpecialGives DEF Apart

(* While the worker lives, a run that ended in memory is ended after each  *)
(* step, or a receipt brought it back.                                     *)
LEMMA IdleStays ==
  ASSUME CoreInv, Next, ready', NEW r \in Runs, Idle(mem[r]), mem[r] # Gone
  PROVE  Idle(mem'[r]) \/ r \in reopened'
<1>1. (Shape /\ Apart) \/ Special
  BY NextShape
<1>2. r <= next
  BY LiveRow
<1>3. CASE Shape
  BY <1>2, <1>3, ShapeAdds DEF Added
<1>4. CASE Special
  <2>1. CASE Cancel \/ \E q \in Runs : CancelEnds(q)
    BY <1>3, <2>1, CancelShape, CancelEndsShape
  <2>2. CASE Crash
    BY <2>2 DEF Crash
  <2>3. CASE RecoverReads
    BY <2>3 DEF RecoverReads
  <2>4. CASE RecoverSaves
    <3>1. From(mem[r], mem'[r]) /\ mem[r] \in Slots
      BY <2>4, ReceiptSaved, CoreFacts
    <3> QED
      BY <3>1, RowFacts DEF From, Idle, Finished
  <2>5. CASE \E q \in Runs : CancelDone(q)
    BY <2>5 DEF CancelDone
  <2>6. ASSUME NEW q \in Runs, RecoverRow(q) PROVE Idle(mem'[r]) \/ r \in reopened'
    <3>1. CASE q = r
      BY <2>6, <3>1, SettledIdle
    <3>2. CASE q # r
      BY <2>6, <3>2, SettledIdle, CoreFacts DEF RowTypes
    <3> QED
      BY <3>1, <3>2
  <2>7. CASE \E S, head : Popped(S, head)
    BY <2>7 DEF Popped, HeadDone
  <2> QED
    BY <1>4, <2>1, <2>2, <2>3, <2>4, <2>5, <2>6, <2>7 DEF Special
<1> QED
  BY <1>1, <1>3, <1>4

(* No step gives an instruction to a provider whose cancel was confirmed,  *)
(* and none that memory has cancelled is queued again.                     *)
LEMMA NextGives ==
  ASSUME SyncInv, Next, NEW r \in Runs \ (stale \cup reopened')
  PROVE  /\ r \in stopped \/ ConfirmedAtOnce(r) => sent'[r] = sent[r]
         /\ ConfirmedAtOnce(r) /\ ready' => ~Queued(mem', r)
<1>1. CoreInv /\ r \in Runs /\ mem[r] \in Slots
  BY CoreFacts DEF SyncInv
<1>2. ConfirmedAtOnce(r) => Idle(mem[r]) /\ mem[r] # Gone
  BY RowFacts DEF ConfirmedAtOnce, Idle
<1>3. r \notin reopened
  BY <1>1, ReopenedStays
<1>4. r \in stopped => Idle(mem[r])
  BY <1>1, <1>3 DEF SyncInv, StopOK, Quits
<1>5. r \in stopped \/ ConfirmedAtOnce(r) => sent'[r] = sent[r]
  BY <1>1, <1>2, <1>4, IdleUngiven
<1>6. ConfirmedAtOnce(r) /\ ready' => ~Queued(mem', r)
  BY <1>1, <1>2, IdleStays DEF Idle, Queued
<1> QED
  BY <1>5, <1>6

(* A worker that is ready stays so until it ends.                          *)
LEMMA OnlyCrashEnds ==
  ASSUME SyncInv, Next, ready, ~ready'
  PROVE  Crash
<1>1. CoreInv
  BY DEF SyncInv
<1>2. (Shape /\ Apart) \/ Special
  BY <1>1, NextShape
<1>3. ~Apart
  BY DEF Apart
<1>4. ~(Cancel \/ RecoverReads \/ RecoverSaves)
  BY DEF Cancel, Steady, RecoverReads, RecoverSaves, Recovering
<1>5. ~\E q \in Runs : CancelEnds(q) \/ CancelDone(q) \/ RecoverRow(q)
  BY DEF CancelEnds, CancelDone, Steady, RecoverRow, Recovering
<1>6. ~\E S, head : Popped(S, head)
  BY DEF Popped, HeadDone
<1> QED
  BY <1>2, <1>3, <1>4, <1>5, <1>6 DEF Special

(* What waits when a worker with all saved ends during an update, and not  *)
(* in the middle of a receipt, is queued in the next one.                  *)
LEMMA HandoverQueues ==
  ASSUME SyncInv, Next, ready, ~ready', updating, at[Resolve] # "files", chain = <<>>, FlushOk, NEW r \in Waiting(mem)
  PROVE  Queued(mem', r)
<1>1. CoreInv /\ r \in Runs /\ mem[r].st = "queued" /\ ~mem[r].planned
  BY DEF SyncInv, Waiting, Queued
<1>2. Crash
  BY OnlyCrashEnds
<1>3. resave = {} /\ ~New(r)
  <2>1. at[Resolve] # "rows"
    BY <1>1, <1>2, TaskFacts DEF Crash, Quiet
  <2> QED
    BY <1>1, <2>1, CoreFacts DEF ResolveOK, Window
<1>4. mem[r].keep
  BY <1>1, <1>3 DEF SyncInv, CarryOK, Carried, Queued
<1>5. disk[r] = mem[r]
  <2>1. \A i \in 1 .. Len(chain) : ~Holds(i, r)
    OBVIOUS
  <2>2. SyncOK(r) /\ r \notin failed /\ r \notin resave
    BY <1>1, <1>3 DEF SyncInv, FlushOk
  <2> QED
    BY <2>1, <2>2 DEF SyncOK
<1>6. disk' = disk /\ (Outlasts(disk'[r]) => mem'[r].st = disk'[r].st)
  BY <1>1, <1>2, CrashRows
<1> QED
  BY <1>1, <1>4, <1>5, <1>6 DEF Outlasts, Queued

(* A run whose cancel was confirmed is not given to a provider afterwards, *)
(* not by a start or an insertion that was underway, nor after the worker  *)
(* restarts; and one that memory has cancelled, so that a repeated cancel  *)
(* is confirmed at once, is not queued again while the worker lives.       *)
(* What a receipt brought back from an older row is excepted (cancel,      *)
(* launch, steer, resolveAdmission and restoreRuns).                       *)
THEOREM CancelledNeverStartsHolds == Spec => CancelledNeverStarts
<1>1. SyncInv /\ [Next]_vars =>
        [\A r \in Runs \ (stale \cup reopened') :
           /\ r \in stopped \/ ConfirmedAtOnce(r) => sent'[r] = sent[r]
           /\ ConfirmedAtOnce(r) /\ ready' => ~Queued(mem', r)]_vars
  BY NextGives
<1> QED
  BY <1>1, SyncHolds, PTL DEF CancelledNeverStarts, Spec

(* A worker that ends during an update with every change saved, and not    *)
(* while it settles a receipt, leaves each instruction that waited queued  *)
(* for the next worker (changed, persist, flushState and restoreRuns).     *)
THEOREM HandoverKeepsQueueHolds == Spec => HandoverKeepsQueue
<1>1. SyncInv /\ [Next]_vars =>
        [(ready /\ ~ready' /\ updating /\ at[Resolve] # "files" /\ chain = <<>> /\ FlushOk) =>
           \A r \in Waiting(mem) : Queued(mem', r)]_vars
  BY HandoverQueues
<1> QED
  BY <1>1, SyncHolds, PTL DEF HandoverKeepsQueue, Spec

=============================================================================
