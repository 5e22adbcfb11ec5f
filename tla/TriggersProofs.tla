--------------------------- MODULE TriggersProofs ---------------------------
(***************************************************************************)
(* Proofs about Triggers, for every set of definitions, clock and bound: a *)
(* request is sent once for a time, a once reservation fires once, a run   *)
(* fired before the trigger was turned off does not start afterwards, and  *)
(* an event told as not run has no run.                                    *)
(*                                                                         *)
(* They rest on one inductive invariant (TriggersOK). What SQL holds is a  *)
(* good state (StateOK); the projection is behind it at most, and the same *)
(* unless a result is unknown, so every draft is made from a good state.   *)
(* Each kind of draft (new statuses, a firing, new fields) leads to a good *)
(* state again; the rest follows the runs, the requests and the tick.      *)
(***************************************************************************)
EXTENDS Triggers, SequenceTheorems, WellFoundedInduction, TLAPS

RunStates == {"none", "doubtIn", "doubtOut", "queued", "running", "ended", "refused"}
Turned == {"error", "cancelled", "skipped", "coalesced"}
Statuses == Turned \cup {"queued", "claimed", "running", "uncertain", "completed"}
EventRecords == [key: Keys, rev: Nat, from: Nat, status: Statuses]
DueTimes == Slots \cup {None, Period}
States == [on: BOOLEAN, rev: Nat, offRev: Nat, nextAt: DueTimes, lastSlot: Slots \cup {None},
           paused: BOOLEAN, fired: SUBSET Keys, consumed: Keys \cup {None}, events: Seq(EventRecords)]

TickRecords == [at: Nat, doing: {"none", "fire", "link", "create", "outcome"}, now: Nat, id: Nat,
                fresh: BOOLEAN, outcome: {"none", "running", "error", "uncertain"}]
PollRecords == [slot: Slots \cup {None}, rev: Nat, sent: BOOLEAN]

(* An event that waits, or is told as not run, has no run that could start. *)
EventOK(e, R) ==
  /\ e.from = e.rev
  /\ e.status = "queued" => R[e.key] = "none"
  /\ e.status \in Turned => R[e.key] \in {"none", "refused"}

(* A state of the trigger: events of one key each, one at most of a once   *)
(* reservation, and no run without a firing.                               *)
StateOK(S, R, once) ==
  /\ S \in States /\ S.offRev <= S.rev
  /\ \A i \in Ids(S) : EventOK(S.events[i], R) /\ S.events[i].key \in S.fired
  /\ \A i, j \in Ids(S) : S.events[i].key = S.events[j].key => i = j
  /\ once => IF S.consumed = None THEN S.fired = {} /\ Len(S.events) = 0 ELSE Len(S.events) <= 1
  /\ \A k \in Keys \ S.fired : R[k] = "none"

(* D is M, or what later mutations made of it.                             *)
Behind(M, D) ==
  /\ M \in States /\ M.lastSlot <= D.lastSlot /\ M.offRev <= D.offRev /\ Len(M.events) <= Len(D.events)
  /\ \A i \in Ids(M) : M.events[i].key = D.events[i].key /\ M.events[i].rev = D.events[i].rev

TypeOK ==
  /\ policy \in Policies /\ now \in 0 .. MaxNow /\ asked \in Nat /\ offSeen \in Nat /\ up \in BOOLEAN
  /\ tick \in TickRecords /\ poll \in PollRecords
  /\ runs \in [Keys -> RunStates] /\ starts \in [Keys -> Nat] /\ sent \in [Slots -> {0, 1}]

StoredOK == StateOK(disk, runs, policy.once)
MemOK == Behind(mem, disk) /\ (blocked # "unknown" => Fresh = disk)
RunsOK == \A k \in Keys : runs[k] \notin {"running", "ended"} => starts[k] = 0
AskOK ==
  /\ \A s \in Slots : sent[s] = 1 => s <= mem.lastSlot
  /\ poll # NoPoll => poll.slot \in Slots /\ poll.slot <= mem.lastSlot /\ (~poll.sent => sent[poll.slot] = 0)
SeenOK == offSeen <= mem.offRev
TickOK ==
  /\ ~up => tick.doing = "none"
  /\ tick.doing = "outcome" => tick.outcome # "none"
  /\ tick.doing \in {"link", "create", "outcome"} => tick.id \in Ids(mem)
  /\ tick.doing \in {"link", "create"} => disk.events[tick.id].status = "claimed" /\ runs[Key] = "none"
  /\ tick.doing = "outcome" /\ tick.outcome = "error" => runs[Key] = "none"

TriggersOK == TypeOK /\ StoredOK /\ MemOK /\ RunsOK /\ AskOK /\ SeenOK /\ TickOK

---------------------------------------------------------------------------
(* Constants, sets of numbers and sequences.                               *)

LEMMA Bounds ==
  /\ MaxNow \in Nat /\ MaxManual \in Nat /\ Period \in Nat \ {0} /\ None = 0
  /\ Slots \subseteq 1 .. MaxNow /\ Slots \subseteq Keys /\ Keys \subseteq Nat /\ None \notin Keys
  /\ \A s \in DueTimes : s # None /\ s <= MaxNow => s \in Slots
<1>1. MaxNow \in Nat /\ MaxManual \in Nat /\ Period \in Nat \ {0} /\ None = 0
  BY TriggersAssumption DEF None
<1>2. Slots \subseteq 1 .. MaxNow
  BY DEF Slots
<1>3. Keys \subseteq Nat /\ None \notin Keys /\ Slots \subseteq Keys
  BY <1>1, <1>2 DEF Keys, Manual
<1>4. Period % Period = 0
  BY <1>1
<1>5. \A s \in DueTimes : s # None /\ s <= MaxNow => s \in Slots
  BY <1>1, <1>2, <1>4 DEF DueTimes, Slots
<1> QED
  BY <1>1, <1>2, <1>3, <1>5

LEMMA PolicyTypes ==
  ASSUME NEW p \in Policies
  PROVE  p.once \in BOOLEAN /\ p.source \in {"schedule", "http"} /\ p.target \in {"session", "folder"}
BY TriggersAssumption

LEMMA LeastOf ==
  ASSUME NEW T, T \subseteq Nat, T # {}
  PROVE  \E x \in T : \A y \in T : x <= y
<1> DEFINE Less == {p \in Nat \X Nat : p[1] < p[2]}
<1>1. IsWellFoundedOn(Less, Nat)
  BY NatLessThanWellFounded DEF OpToRel
<1>2. PICK x \in T : \A y \in T : ~ (<<y, x>> \in Less)
  <2> HIDE DEF Less
  <2> QED
    BY <1>1, WFMin
<1>3. ASSUME NEW y \in T PROVE x <= y
  <2>1. <<y, x>> \notin Less
    BY <1>2
  <2>2. ~(y < x)
    BY <2>1
  <2> QED
    BY <2>2
<1> QED
  BY <1>3

LEMMA MinIn ==
  ASSUME NEW T, T \subseteq Nat, T # {}
  PROVE  Min(T) \in T
BY LeastOf DEF Min

LEMMA MaxIn ==
  ASSUME NEW n \in Nat, NEW T, T \subseteq 0 .. n, T # {}
  PROVE  Max(T) \in T
<1> DEFINE U == {u \in 0 .. n : n - u \in T}
<1>1. U \subseteq Nat /\ U # {}
  <2>1. PICK t \in T : TRUE
    OBVIOUS
  <2>2. n - t \in 0 .. n /\ n - (n - t) = t
    BY <2>1
  <2> QED
    BY <2>1, <2>2
<1>2. PICK u \in U : \A v \in U : u <= v
  <2> HIDE DEF U
  <2> QED
    BY <1>1, LeastOf
<1>3. \A t \in T : n - u >= t
  <2>1. ASSUME NEW t \in T PROVE n - u >= t
    <3>1. n - t \in U
      OBVIOUS
    <3>2. u <= n - t
      BY <3>1, <1>2
    <3> QED
      BY <3>2
  <2> QED
    BY <2>1
<1> QED
  BY <1>3 DEF Max

(* Scheduled times are times of the schedule.                              *)
LEMMA SlotTypes ==
  ASSUME NEW a, NEW b
  PROVE  NextSlot(a) \in Slots \cup {None} /\ LatestSlot(a, b) \in Slots \cup {None}
<1>1. ASSUME NEW T, T \subseteq Slots, T # {} PROVE Min(T) \in Slots /\ Max(T) \in Slots
  <2>1. T \subseteq Nat /\ T \subseteq 0 .. MaxNow
    BY <1>1, Bounds
  <2> QED
    BY <1>1, <2>1, Bounds, MinIn, MaxIn
<1> DEFINE later == {s \in Slots : s > a /\ (policy.once => s = Period)}
           passed == {s \in Slots : a < s /\ s <= b}
<1>2. NextSlot(a) = (IF later = {} THEN None ELSE Min(later)) /\ LatestSlot(a, b) = (IF passed = {} THEN None ELSE Max(passed))
  BY DEF NextSlot, LatestSlot
<1>3. later \subseteq Slots /\ passed \subseteq Slots
  OBVIOUS
<1> HIDE DEF later, passed
<1> QED
  BY <1>1, <1>2, <1>3

LEMMA SequenceOf ==
  ASSUME NEW E, NEW n \in Nat, NEW f \in [1 .. n -> E]
  PROVE  f \in Seq(E) /\ Len(f) = n /\ DOMAIN f = 1 .. n
<1>1. f \in Seq(E)
  BY SeqDef
<1>2. Len(f) \in Nat /\ DOMAIN f = 1 .. Len(f)
  BY <1>1, LenProperties
<1>3. 1 .. n = 1 .. Len(f)
  BY <1>2
<1> QED
  BY <1>1, <1>2, <1>3

---------------------------------------------------------------------------
(* Drafts: new statuses.                                                   *)

SameFields(S, T) ==
  /\ T.on = S.on /\ T.rev = S.rev /\ T.offRev = S.offRev /\ T.nextAt = S.nextAt /\ T.lastSlot = S.lastSlot
  /\ T.paused = S.paused /\ T.fired = S.fired /\ T.consumed = S.consumed

LEMMA StateEvents ==
  ASSUME NEW S \in States
  PROVE  /\ Len(S.events) \in Nat /\ Ids(S) = 1 .. Len(S.events)
         /\ \A i \in Ids(S) : S.events[i] \in EventRecords
<1>1. S.events \in Seq(EventRecords)
  BY DEF States
<1> QED
  BY <1>1, LenProperties, ElementOfSeq DEF Ids

LEMMA StateTypes ==
  ASSUME NEW S \in States
  PROVE  S.lastSlot \in Nat /\ S.rev \in Nat /\ S.offRev \in Nat /\ S.nextAt \in Nat /\ S.on \in BOOLEAN
<1>1. S.lastSlot \in Slots \cup {None} /\ S.nextAt \in DueTimes
  BY DEF States
<1>2. DueTimes \subseteq Nat /\ Slots \cup {None} \subseteq Nat
  BY Bounds DEF DueTimes
<1> QED
  BY <1>1, <1>2 DEF States

(* Two states are the same when their fields and events are.               *)
LEMMA StateEqual ==
  ASSUME NEW S \in States, NEW T \in States, SameFields(S, T), S.events = T.events
  PROVE  S = T
BY DEF SameFields, States

(* The events of a state replaced, its fields kept.                        *)
LEMMA WithEvents ==
  ASSUME NEW S \in States, NEW q \in Seq(EventRecords)
  PROVE  /\ [S EXCEPT !.events = q] \in States /\ [S EXCEPT !.events = q].events = q
         /\ SameFields(S, [S EXCEPT !.events = q])
BY DEF SameFields, States

LEMMA RestatedShape ==
  ASSUME NEW S \in States, NEW ids, NEW status, \A i \in ids \cap Ids(S) : status[i] \in Statuses
  PROVE  LET T == Restated(S, ids, status) IN
         /\ T \in States /\ SameFields(S, T) /\ Len(T.events) = Len(S.events) /\ Ids(T) = Ids(S)
         /\ \A i \in Ids(S) : /\ T.events[i].key = S.events[i].key /\ T.events[i].rev = S.events[i].rev
                              /\ T.events[i].from = S.events[i].from
                              /\ T.events[i].status = IF i \in ids THEN status[i] ELSE S.events[i].status
<1> DEFINE q == [i \in Ids(S) |-> IF i \in ids THEN [S.events[i] EXCEPT !.status = status[i]] ELSE S.events[i]]
<1>1. /\ \A i \in Ids(S) : q[i] \in EventRecords
      /\ \A i \in Ids(S) : /\ q[i].key = S.events[i].key /\ q[i].rev = S.events[i].rev /\ q[i].from = S.events[i].from
                           /\ q[i].status = IF i \in ids THEN status[i] ELSE S.events[i].status
  <2>1. ASSUME NEW i \in Ids(S) PROVE S.events[i] \in EventRecords
    BY StateEvents
  <2>2. ASSUME NEW i \in Ids(S), i \in ids
        PROVE  /\ q[i] \in EventRecords /\ q[i].status = status[i]
               /\ q[i].key = S.events[i].key /\ q[i].rev = S.events[i].rev /\ q[i].from = S.events[i].from
    <3>1. status[i] \in Statuses /\ q[i] = [S.events[i] EXCEPT !.status = status[i]]
      BY <2>2
    <3> QED
      BY <2>1, <3>1 DEF EventRecords
  <2>3. ASSUME NEW i \in Ids(S), i \notin ids PROVE q[i] = S.events[i]
    BY <2>3
  <2> QED
    BY <2>1, <2>2, <2>3
<1>2. Restated(S, ids, status) = [S EXCEPT !.events = q]
  BY DEF Restated
<1>3. q \in [1 .. Len(S.events) -> EventRecords] /\ Len(S.events) \in Nat /\ Ids(S) = 1 .. Len(S.events)
  <2> HIDE DEF q
  <2>1. DOMAIN q = Ids(S) /\ q = [i \in Ids(S) |-> q[i]]
    BY DEF q
  <2> QED
    BY <1>1, <2>1, StateEvents
<1> HIDE DEF q
<1>4. q \in Seq(EventRecords) /\ Len(q) = Len(S.events) /\ DOMAIN q = Ids(S)
  BY <1>3, SequenceOf
<1>5. PICK T : T = [S EXCEPT !.events = q]
  OBVIOUS
<1>6. T \in States /\ T.events = q /\ SameFields(S, T)
  BY <1>4, <1>5, WithEvents
<1> QED
  BY <1>1, <1>2, <1>4, <1>5, <1>6 DEF Ids

(* One event at a new status.                                              *)
LEMMA OneRestated ==
  ASSUME NEW S \in States, NEW i \in Ids(S), NEW st \in Statuses
  PROVE  [S EXCEPT !.events[i].status = st] = Restated(S, {i}, [j \in {i} |-> st])
<1>1. \A j \in Ids(S) : [S.events EXCEPT ![i].status = st][j]
                          = IF j \in {i} THEN [S.events[j] EXCEPT !.status = [k \in {i} |-> st][j]] ELSE S.events[j]
  BY DEF Ids
<1>2. [S.events EXCEPT ![i].status = st]
        = [j \in Ids(S) |-> IF j \in {i} THEN [S.events[j] EXCEPT !.status = [k \in {i} |-> st][j]] ELSE S.events[j]]
  BY <1>1 DEF Ids
<1> QED
  BY <1>2 DEF Restated

LEMMA RestatedOK ==
  ASSUME NEW S, NEW R, NEW once, StateOK(S, R, once), NEW ids, NEW status,
         \A i \in ids \cap Ids(S) :
           /\ status[i] \in Statuses /\ (status[i] = "queued" => R[S.events[i].key] = "none")
           /\ status[i] \in Turned => R[S.events[i].key] \in {"none", "refused"}
  PROVE  LET T == Restated(S, ids, status) IN StateOK(T, R, once) /\ Behind(S, T)
<1>1. S \in States
  BY DEF StateOK
<1>2. PICK T : T = Restated(S, ids, status)
  OBVIOUS
<1>3. /\ T \in States /\ SameFields(S, T) /\ Len(T.events) = Len(S.events) /\ Ids(T) = Ids(S)
      /\ \A i \in Ids(S) : /\ T.events[i].key = S.events[i].key /\ T.events[i].rev = S.events[i].rev
                           /\ T.events[i].from = S.events[i].from
                           /\ T.events[i].status = IF i \in ids THEN status[i] ELSE S.events[i].status
  BY <1>1, <1>2, RestatedShape
<1>4. \A i \in Ids(T) : EventOK(T.events[i], R) /\ T.events[i].key \in T.fired
  BY <1>3 DEF StateOK, EventOK, SameFields
<1>5. Behind(S, T)
  <2>1. S.lastSlot <= S.lastSlot /\ S.offRev <= S.offRev /\ Len(S.events) <= Len(S.events)
    BY <1>1, StateTypes, StateEvents
  <2> QED
    BY <1>1, <1>3, <2>1 DEF Behind, SameFields
<1> QED
  BY <1>2, <1>3, <1>4, <1>5 DEF StateOK, SameFields

LEMMA BehindItself ==
  ASSUME NEW S \in States
  PROVE  Behind(S, S)
<1>1. S.lastSlot <= S.lastSlot /\ S.offRev <= S.offRev /\ Len(S.events) <= Len(S.events)
  BY StateTypes, StateEvents
<1> QED
  BY <1>1 DEF Behind

LEMMA BehindAgain ==
  ASSUME NEW S, NEW T, NEW U \in States, Behind(S, T), Behind(T, U)
  PROVE  Behind(S, U)
<1>1. S \in States /\ T \in States
  BY DEF Behind
<1>2. S.lastSlot <= U.lastSlot /\ S.offRev <= U.offRev /\ Len(S.events) <= Len(U.events)
  BY <1>1, StateTypes, StateEvents DEF Behind
<1>3. Ids(S) \subseteq Ids(T)
  <2>1. Len(S.events) <= Len(T.events)
    BY DEF Behind
  <2> QED
    BY <1>1, <2>1, StateEvents
<1> QED
  BY <1>1, <1>2, <1>3 DEF Behind

LEMMA BehindIds ==
  ASSUME NEW S, NEW T \in States, Behind(S, T)
  PROVE  Ids(S) \subseteq Ids(T)
<1>1. Len(S.events) <= Len(T.events) /\ S \in States
  BY DEF Behind
<1> QED
  BY <1>1, StateEvents

---------------------------------------------------------------------------
(* Drafts: new fields, and a firing.                                       *)

LEMMA FieldsOK ==
  ASSUME NEW S, NEW R, NEW once, StateOK(S, R, once), NEW T \in States,
         T.events = S.events, T.fired = S.fired, T.consumed = S.consumed,
         T.offRev <= T.rev, S.lastSlot <= T.lastSlot, S.offRev <= T.offRev
  PROVE  StateOK(T, R, once) /\ Behind(S, T)
<1>1. S \in States /\ Ids(T) = Ids(S) /\ Len(S.events) <= Len(T.events)
  <2>1. S \in States
    BY DEF StateOK
  <2>2. Len(S.events) \in Nat
    BY <2>1, StateEvents
  <2> QED
    BY <2>1, <2>2 DEF Ids
<1>2. StateOK(T, R, once)
  BY <1>1 DEF StateOK
<1> QED
  BY <1>1, <1>2 DEF Behind

LEMMA AdmissionTypes ==
  ASSUME NEW S
  PROVE  Admission(S) \in {"skipped", "coalesced", "queued"}
BY DEF Admission

(* A firing either finds its key fired, or appends one event of it.        *)
FiredBy(S, T, key) ==
  /\ Len(T.events) = Len(S.events) + 1 /\ T.fired = S.fired \cup {key} /\ key \notin S.fired /\ S.consumed = None
  /\ \A i \in Ids(S) : T.events[i] = S.events[i]
  /\ LET e == T.events[Len(S.events) + 1] IN
     /\ e \in EventRecords /\ e.key = key /\ e.rev = S.rev /\ e.from = S.rev
     /\ e.status \in {"skipped", "coalesced", "queued"}
  /\ T.lastSlot = S.lastSlot /\ T.offRev = S.offRev /\ T.rev \in {S.rev, S.rev + 1}
  /\ T.consumed = (IF policy.once THEN key ELSE None)

LEMMA FireShape ==
  ASSUME NEW S \in States, NEW key \in Keys
  PROVE  LET T == Fire(S, key, S.rev) IN
         IF S.consumed # None \/ key \in S.fired THEN T = S ELSE T \in States /\ FiredBy(S, T, key)
<1> DEFINE e == [key |-> key, rev |-> S.rev, from |-> S.rev, status |-> Admission(S)]
           q == Append(S.events, e)
           W == [S EXCEPT !.fired = @ \cup {key}, !.paused = (@ \/ Cardinality(S.fired) >= PerHour), !.events = q]
<1>1. CASE S.consumed # None \/ key \in S.fired
  BY <1>1 DEF Fire
<1>2. CASE S.consumed = None /\ key \notin S.fired
  <2>1. Fire(S, key, S.rev) = Consume(W, key)
    BY <1>2 DEF Fire
  <2>2. /\ e \in EventRecords /\ e.key = key /\ e.rev = S.rev /\ e.from = S.rev
        /\ e.status \in {"skipped", "coalesced", "queued"}
    BY AdmissionTypes, StateTypes DEF EventRecords, Statuses, Turned
  <2>3. S.events \in Seq(EventRecords)
    BY DEF States
  <2> HIDE DEF e
  <2>4. /\ q \in Seq(EventRecords) /\ Len(q) = Len(S.events) + 1 /\ q[Len(S.events) + 1] = e
        /\ \A i \in Ids(S) : q[i] = S.events[i]
    BY <2>2, <2>3, AppendProperties, StateEvents
  <2> HIDE DEF q
  <2>5. PICK V : V = W
    OBVIOUS
  <2>6. /\ V \in States /\ V.events = q /\ V.fired = S.fired \cup {key} /\ V.rev = S.rev /\ V.offRev = S.offRev
        /\ V.lastSlot = S.lastSlot /\ V.consumed = None
    BY <1>2, <2>4, <2>5 DEF States
  <2>7. PICK T : T = Consume(V, key)
    OBVIOUS
  <2>8. /\ T \in States /\ T.events = q /\ T.fired = S.fired \cup {key} /\ T.rev \in {S.rev, S.rev + 1}
        /\ T.offRev = S.offRev /\ T.lastSlot = S.lastSlot /\ T.consumed = (IF policy.once THEN key ELSE None)
    <3>1. CASE policy.once
      <4>1. T = [V EXCEPT !.consumed = key, !.on = FALSE, !.nextAt = None, !.rev = @ + 1]
        BY <2>7, <3>1 DEF Consume
      <4>2. None \in DueTimes /\ V.rev + 1 \in Nat
        BY <2>6, StateTypes DEF DueTimes
      <4> QED
        BY <2>6, <3>1, <4>1, <4>2 DEF States
    <3>2. CASE ~policy.once
      BY <2>6, <2>7, <3>2 DEF Consume
    <3> QED
      BY <3>1, <3>2
  <2>9. Fire(S, key, S.rev) = T
    BY <2>1, <2>5, <2>7
  <2> QED
    BY <1>2, <2>2, <2>4, <2>8, <2>9 DEF FiredBy
<1> QED
  BY <1>1, <1>2

LEMMA FiredOK ==
  ASSUME NEW S, NEW T \in States, NEW R, NEW key \in Keys, StateOK(S, R, policy.once), FiredBy(S, T, key)
  PROVE  StateOK(T, R, policy.once) /\ Behind(S, T)
<1> DEFINE n == Len(S.events) + 1
           e == T.events[n]
<1>1. S \in States /\ Len(S.events) \in Nat /\ Ids(S) = 1 .. Len(S.events) /\ Ids(T) = Ids(S) \cup {n} /\ n \notin Ids(S)
  <2>1. S \in States
    BY DEF StateOK
  <2>2. Len(S.events) \in Nat /\ Ids(S) = 1 .. Len(S.events) /\ Ids(T) = 1 .. n
    BY <2>1, StateEvents DEF FiredBy
  <2> QED
    BY <2>1, <2>2
<1>2. /\ \A i \in Ids(S) : T.events[i] = S.events[i]
      /\ e \in EventRecords /\ e.key = key /\ e.rev = S.rev /\ e.from = S.rev
      /\ e.status \in {"skipped", "coalesced", "queued"}
      /\ T.fired = S.fired \cup {key} /\ key \notin S.fired
  BY DEF FiredBy
<1> HIDE DEF e, n
<1>3. R[key] = "none"
  BY <1>2 DEF StateOK
<1>4. \A i \in Ids(T) : EventOK(T.events[i], R) /\ T.events[i].key \in T.fired
  <2>1. EventOK(e, R) /\ e.key \in T.fired
    BY <1>2, <1>3 DEF EventOK
  <2>2. \A i \in Ids(S) : EventOK(S.events[i], R) /\ S.events[i].key \in S.fired
    BY DEF StateOK
  <2> QED
    BY <1>1, <1>2, <2>1, <2>2 DEF e
<1>5. \A i, j \in Ids(T) : T.events[i].key = T.events[j].key => i = j
  <2>1. \A i, j \in Ids(S) : S.events[i].key = S.events[j].key => i = j
    BY DEF StateOK
  <2>2. \A i \in Ids(S) : S.events[i].key # key
    BY <1>2 DEF StateOK
  <2>3. T.events[n].key = key
    BY <1>2 DEF e
  <2> QED
    BY <1>1, <1>2, <2>1, <2>2, <2>3
<1>6. policy.once => T.consumed # None /\ Len(T.events) <= 1
  BY Bounds DEF StateOK, FiredBy
<1>7. T.offRev <= T.rev /\ S.lastSlot <= T.lastSlot /\ S.offRev <= T.offRev /\ Len(S.events) <= Len(T.events)
  <2>1. S.rev \in Nat /\ S.offRev \in Nat /\ S.lastSlot \in Nat /\ S.offRev <= S.rev
    BY <1>1, StateTypes DEF StateOK
  <2> QED
    BY <1>1, <2>1 DEF FiredBy
<1>8. \A k \in Keys \ T.fired : R[k] = "none"
  BY <1>2 DEF StateOK
<1>9. Behind(S, T)
  BY <1>1, <1>2, <1>7 DEF Behind
<1> QED
  BY <1>4, <1>5, <1>6, <1>7, <1>8, <1>9 DEF StateOK

(* No claim is let go.                                                     *)
ClaimsStay(S, T) == \A i \in Ids(S) : S.events[i].status = "claimed" => T.events[i].status = "claimed"

LEMMA FireOK ==
  ASSUME NEW S, NEW R, NEW key \in Keys, StateOK(S, R, policy.once)
  PROVE  LET T == Fire(S, key, S.rev) IN
         StateOK(T, R, policy.once) /\ Behind(S, T) /\ ClaimsStay(S, T)
<1>1. S \in States
  BY DEF StateOK
<1>2. PICK T : T = Fire(S, key, S.rev)
  OBVIOUS
<1>3. T = S \/ (T \in States /\ FiredBy(S, T, key))
  BY <1>1, <1>2, FireShape
<1>4. ClaimsStay(S, T)
  BY <1>3 DEF ClaimsStay, FiredBy
<1> QED
  BY <1>1, <1>2, <1>3, <1>4, FiredOK, BehindItself

---------------------------------------------------------------------------
(* The drafts of the engine and of the owner.                              *)

LEMMA ReconciledOK ==
  ASSUME NEW S, NEW once, StateOK(S, runs, once)
  PROVE  StateOK(Reconciled(S), runs, once) /\ Behind(S, Reconciled(S))
<1> DEFINE status == [i \in Ids(S) |-> IF runs[S.events[i].key] = "none" THEN "uncertain" ELSE "running"]
<1>1. \A i \in In(S, {"claimed"}) \cap Ids(S) :
        status[i] \in Statuses /\ status[i] # "queued" /\ status[i] \notin Turned
  BY DEF Statuses, Turned
<1>2. Reconciled(S) = Restated(S, In(S, {"claimed"}), status)
  BY DEF Reconciled
<1> HIDE DEF status
<1> QED
  BY <1>1, <1>2, RestatedOK

LEMMA TrackedOK ==
  ASSUME NEW S, NEW once, StateOK(S, runs, once), runs \in [Keys -> RunStates]
  PROVE  StateOK(Tracked(S), runs, once) /\ Behind(S, Tracked(S))
<1> DEFINE ids == In(S, {"running"}) \cap In(mem, {"running"})
           status == [i \in Ids(S) |-> Outcome[runs[S.events[i].key]]]
<1>1. \A i \in ids \cap Ids(S) : /\ status[i] \in Statuses /\ status[i] # "queued"
                                 /\ status[i] \in Turned => runs[S.events[i].key] = "refused"
  <2>1. ASSUME NEW i \in Ids(S) PROVE runs[S.events[i].key] \in RunStates
    <3>1. S.events[i].key \in Keys
      BY StateEvents DEF StateOK, EventRecords
    <3> QED
      BY <3>1
  <2> QED
    BY <2>1 DEF Outcome, RunStates, Statuses, Turned
<1>2. Tracked(S) = Restated(S, ids, status)
  BY DEF Tracked
<1> HIDE DEF ids, status
<1> QED
  BY <1>1, <1>2, RestatedOK

LEMMA ClaimedOK ==
  ASSUME NEW S, NEW R, NEW once, StateOK(S, R, once), NEW i \in Ids(S)
  PROVE  LET T == Restated(S, {i}, [j \in {i} |-> "claimed"]) IN
         /\ StateOK(T, R, once) /\ Behind(S, T) /\ i \in Ids(T)
         /\ T.events[i].status = "claimed" /\ T.events[i].key = S.events[i].key
<1>1. S \in States /\ "claimed" \in Statuses /\ "claimed" \notin Turned
  BY DEF StateOK, Statuses, Turned
<1> QED
  BY <1>1, RestatedOK, RestatedShape

LEMMA OutcomeOK ==
  ASSUME NEW S, NEW R, NEW once, StateOK(S, R, once), NEW i \in Ids(S),
         tick.outcome \in {"running", "error", "uncertain"},
         tick.outcome = "error" => R[S.events[i].key] = "none"
  PROVE  StateOK(WithOutcome(S, i), R, once) /\ Behind(S, WithOutcome(S, i))
<1>1. S \in States /\ tick.outcome \in Statuses /\ tick.outcome # "queued"
      /\ (tick.outcome \in Turned => tick.outcome = "error")
  BY DEF StateOK, Statuses, Turned
<1>2. CASE S.events[i].status = "claimed"
  <2>1. WithOutcome(S, i) = Restated(S, {i}, [j \in {i} |-> tick.outcome])
    BY <1>1, <1>2, OneRestated DEF WithOutcome
  <2> QED
    BY <1>1, <2>1, RestatedOK
<1>3. CASE S.events[i].status # "claimed"
  BY <1>1, <1>3, BehindItself DEF WithOutcome
<1> QED
  BY <1>2, <1>3

(* The admission of a run sets its event running and touches no other.     *)
LEMMA LinkedShape ==
  ASSUME NEW S \in States, NEW i \in Ids(S)
  PROVE  LET T == Linked(S, i) IN
         /\ T \in States /\ SameFields(S, T) /\ Len(T.events) = Len(S.events) /\ Ids(T) = Ids(S)
         /\ \A j \in Ids(S) : /\ T.events[j].key = S.events[j].key /\ T.events[j].rev = S.events[j].rev
                              /\ T.events[j].from = S.events[j].from
                              /\ T.events[j].status \in {S.events[j].status, "running"}
                              /\ j # i => T.events[j].status = S.events[j].status
<1>1. CASE policy.target = "session"
  <2>0. "running" \in Statuses
    BY DEF Statuses
  <2>1. Linked(S, i) = Restated(S, {i}, [j \in {i} |-> "running"])
    BY <1>1, <2>0, OneRestated DEF Linked
  <2>2. \A j \in {i} \cap Ids(S) : [k \in {i} |-> "running"][j] \in Statuses
    BY DEF Statuses
  <2> QED
    BY <2>1, <2>2, RestatedShape
<1>2. CASE policy.target # "session"
  BY <1>2 DEF Linked, SameFields
<1> QED
  BY <1>1, <1>2

LEMMA CancelledOK ==
  ASSUME NEW S, NEW R, NEW once, StateOK(S, R, once)
  PROVE  LET T == Cancelled(S) IN
         StateOK(T, R, once) /\ Behind(S, T) /\ SameFields(S, T) /\ ClaimsStay(S, T)
<1> DEFINE status == [i \in Ids(S) |-> "cancelled"]
<1>1. \A i \in In(S, {"queued"}) \cap Ids(S) :
        status[i] \in Statuses /\ status[i] # "queued" /\ R[S.events[i].key] = "none"
  BY DEF In, Statuses, Turned, StateOK, EventOK
<1>2. Cancelled(S) = Restated(S, In(S, {"queued"}), status) /\ S \in States
  BY DEF Cancelled, StateOK
<1>3. \A i \in Ids(S) : S.events[i].status = "claimed" => i \notin In(S, {"queued"})
  BY DEF In
<1> HIDE DEF status
<1>4. StateOK(Cancelled(S), R, once) /\ Behind(S, Cancelled(S))
  BY <1>1, <1>2, RestatedOK
<1>5. /\ SameFields(S, Cancelled(S))
      /\ \A i \in Ids(S) : i \notin In(S, {"queued"}) => Cancelled(S).events[i].status = S.events[i].status
  BY <1>1, <1>2, RestatedShape
<1> QED
  BY <1>3, <1>4, <1>5 DEF ClaimsStay

LEMMA TurnedOffOK ==
  ASSUME NEW S, NEW R, NEW once, StateOK(S, R, once)
  PROVE  LET T == TurnedOff(S) IN
         StateOK(T, R, once) /\ Behind(S, T) /\ ClaimsStay(S, T) /\ T.offRev = T.rev
<1>1. PICK C : C = Cancelled(S)
  OBVIOUS
<1>2. StateOK(C, R, once) /\ Behind(S, C) /\ SameFields(S, C) /\ ClaimsStay(S, C) /\ S \in States /\ C \in States
  BY <1>1, CancelledOK DEF StateOK
<1>3. PICK T : T = [C EXCEPT !.on = FALSE, !.rev = @ + 1, !.offRev = S.rev + 1]
  OBVIOUS
<1>4. S.rev \in Nat /\ C.rev = S.rev /\ C.offRev = S.offRev /\ S.offRev \in Nat /\ S.offRev <= S.rev /\ C.lastSlot \in Nat
  BY <1>2, StateTypes DEF SameFields, StateOK
<1> S.rev + 1 \in Nat
  BY <1>4
<1>5. /\ T \in States /\ T.events = C.events /\ T.fired = C.fired /\ T.consumed = C.consumed
      /\ T.lastSlot = C.lastSlot /\ T.rev = S.rev + 1 /\ T.offRev = S.rev + 1
  BY <1>2, <1>3, <1>4 DEF States
<1>6. T.offRev <= T.rev /\ C.lastSlot <= T.lastSlot /\ C.offRev <= T.offRev
  BY <1>4, <1>5
<1>7. StateOK(T, R, once) /\ Behind(C, T)
  BY <1>2, <1>5, <1>6, FieldsOK
<1>8. Behind(S, T) /\ ClaimsStay(S, T)
  BY <1>2, <1>5, <1>7, BehindAgain DEF ClaimsStay
<1> QED
  BY <1>1, <1>3, <1>5, <1>7, <1>8 DEF TurnedOff

LEMMA TurnedOnOK ==
  ASSUME NEW S, NEW R, NEW once, StateOK(S, R, once)
  PROVE  LET T == TurnedOn(S) IN StateOK(T, R, once) /\ Behind(S, T) /\ ClaimsStay(S, T)
<1>1. PICK T : T = [S EXCEPT !.on = TRUE, !.rev = @ + 1, !.paused = FALSE, !.nextAt = NextSlot(now)]
  OBVIOUS
<1>2. S \in States /\ S.rev \in Nat /\ S.offRev \in Nat /\ S.offRev <= S.rev /\ S.lastSlot \in Nat /\ NextSlot(now) \in DueTimes
  BY StateTypes, SlotTypes DEF StateOK, DueTimes
<1> S.rev + 1 \in Nat
  BY <1>2
<1>3. /\ T \in States /\ T.events = S.events /\ T.fired = S.fired /\ T.consumed = S.consumed
      /\ T.lastSlot = S.lastSlot /\ T.offRev = S.offRev /\ T.rev = S.rev + 1
  BY <1>1, <1>2 DEF States
<1>4. T.offRev <= T.rev /\ S.lastSlot <= T.lastSlot /\ S.offRev <= T.offRev
  BY <1>2, <1>3
<1> QED
  BY <1>1, <1>3, <1>4, FieldsOK DEF TurnedOn, ClaimsStay

LEMMA TakeSlotOK ==
  ASSUME NEW S, NEW R, NEW slot \in Slots, StateOK(S, R, policy.once), slot > S.lastSlot
  PROVE  LET T == TakeSlot(S, slot) IN
         StateOK(T, R, policy.once) /\ Behind(S, T) /\ T.lastSlot = slot
<1>1. PICK W : W = [S EXCEPT !.nextAt = NextSlot(Max({tick.now, S.lastSlot})), !.lastSlot = slot]
  OBVIOUS
<1>2. S \in States /\ S.rev \in Nat /\ S.offRev \in Nat /\ S.offRev <= S.rev /\ S.lastSlot \in Nat /\ slot \in Nat /\ slot \in Keys
  BY StateTypes, Bounds DEF StateOK
<1>3. NextSlot(Max({tick.now, S.lastSlot})) \in DueTimes
  BY SlotTypes DEF DueTimes
<1>4. /\ W \in States /\ W.events = S.events /\ W.fired = S.fired /\ W.consumed = S.consumed
      /\ W.lastSlot = slot /\ W.offRev = S.offRev /\ W.rev = S.rev
  BY <1>1, <1>2, <1>3 DEF States
<1>5. W.offRev <= W.rev /\ S.lastSlot <= W.lastSlot /\ S.offRev <= W.offRev
  BY <1>2, <1>4
<1>6. StateOK(W, R, policy.once) /\ Behind(S, W)
  BY <1>2, <1>4, <1>5, FieldsOK
<1>7. PICK T : T = Fire(W, slot, W.rev)
  OBVIOUS
<1>8. StateOK(T, R, policy.once) /\ Behind(W, T) /\ T.lastSlot = slot
  <2>1. T = W \/ FiredBy(W, T, slot)
    BY <1>2, <1>4, <1>7, FireShape
  <2> QED
    BY <1>2, <1>4, <1>6, <1>7, <2>1, FireOK DEF FiredBy
<1>9. Behind(S, T)
  BY <1>6, <1>8, BehindAgain DEF StateOK
<1> QED
  BY <1>1, <1>4, <1>6, <1>7, <1>8, <1>9 DEF TakeSlot

LEMMA FireOnceOK ==
  ASSUME NEW S, NEW R, StateOK(S, R, policy.once), policy.once, S.consumed = None, S.nextAt \in Slots
  PROVE  StateOK(FireOnce(S), R, policy.once) /\ Behind(S, FireOnce(S))
<1>1. S \in States /\ S.nextAt \in Keys /\ S.fired = {}
  BY Bounds DEF StateOK
<1>2. PICK T : T = Fire(S, S.nextAt, S.rev)
  OBVIOUS
<1>3. T \in States /\ FiredBy(S, T, S.nextAt)
  BY <1>1, <1>2, FireShape
<1>4. StateOK(T, R, policy.once) /\ Behind(S, T)
  BY <1>1, <1>2, FireOK
<1>5. CASE policy.catchUp = "skip" /\ now > S.nextAt
  <2>1. PICK n : n = Len(T.events)
    OBVIOUS
  <2>2. n \in Ids(T) /\ T.events[n].key = S.nextAt
    <3>1. Len(S.events) \in Nat /\ n = Len(S.events) + 1 /\ Ids(T) = 1 .. n
      BY <1>1, <1>3, <2>1, StateEvents DEF FiredBy
    <3> QED
      BY <1>3, <3>1 DEF FiredBy
  <2>3. R[S.nextAt] = "none"
    BY <1>1 DEF StateOK
  <2>4. FireOnce(S) = [T EXCEPT !.events[n].status = "skipped"]
    BY <1>2, <1>5, <2>1 DEF FireOnce
  <2>5. FireOnce(S) = Restated(T, {n}, [j \in {n} |-> "skipped"])
    <3>1. "skipped" \in Statuses
      BY DEF Statuses, Turned
    <3>2. [T EXCEPT !.events[n].status = "skipped"] = Restated(T, {n}, [j \in {n} |-> "skipped"])
      BY <1>3, <2>2, <3>1, OneRestated
    <3> QED
      BY <2>4, <3>2
  <2>6. \A i \in {n} \cap Ids(T) :
           /\ [j \in {n} |-> "skipped"][i] \in Statuses
           /\ [j \in {n} |-> "skipped"][i] = "queued" => R[T.events[i].key] = "none"
           /\ [j \in {n} |-> "skipped"][i] \in Turned => R[T.events[i].key] \in {"none", "refused"}
    BY <2>2, <2>3 DEF Statuses, Turned
  <2>7. StateOK(FireOnce(S), R, policy.once) /\ Behind(T, FireOnce(S))
    <3>1. PICK status : status = [j \in {n} |-> "skipped"]
      OBVIOUS
    <3>2. StateOK(Restated(T, {n}, status), R, policy.once) /\ Behind(T, Restated(T, {n}, status))
      BY <1>4, <2>6, <3>1, RestatedOK
    <3> QED
      BY <2>5, <3>1, <3>2
  <2> QED
    BY <1>4, <2>7, BehindAgain DEF StateOK
<1>6. CASE ~(policy.catchUp = "skip" /\ now > S.nextAt)
  BY <1>2, <1>4, <1>6 DEF FireOnce
<1> QED
  BY <1>5, <1>6

LEMMA FireDraftOK ==
  ASSUME NEW S, NEW R, StateOK(S, R, policy.once), policy \in Policies, Due(S, now), now \in 0 .. MaxNow
  PROVE  /\ StateOK(FireDraft(S), R, policy.once) /\ Behind(S, FireDraft(S))
         /\ policy.source = "http" /\ Taken(S) =>
              /\ SlotDue(S, tick.now > S.nextAt) \in Slots
              /\ FireDraft(S).lastSlot = SlotDue(S, tick.now > S.nextAt)
              /\ SlotDue(S, tick.now > S.nextAt) > S.lastSlot
<1>1. S \in States /\ S.nextAt \in Slots /\ S.consumed = None /\ S.lastSlot \in Nat
  <2>1. S.nextAt \in DueTimes /\ S.nextAt # None /\ S.nextAt <= now /\ S.nextAt \in Nat /\ S \in States
    BY StateTypes DEF StateOK, States, Due
  <2>2. S.nextAt <= MaxNow
    BY <2>1, Bounds
  <2> QED
    BY <2>1, <2>2, Bounds, StateTypes DEF Due
<1>2. PICK slot : slot = SlotDue(S, tick.now > S.nextAt)
  OBVIOUS
<1>3. slot \in Slots \cup {None}
  BY <1>1, <1>2, SlotTypes DEF SlotDue
<1>4. CASE policy.once /\ policy.source = "schedule"
  BY <1>1, <1>4, FireOnceOK DEF FireDraft
<1>5. CASE ~(policy.once /\ policy.source = "schedule") /\ Taken(S)
  <2>1. slot > S.lastSlot
    BY <1>2, <1>5 DEF Taken
  <2>2. slot \in Slots
    BY <1>1, <1>3, <2>1, Bounds
  <2>3. FireDraft(S) = TakeSlot(S, slot)
    BY <1>2, <1>5 DEF FireDraft
  <2> QED
    BY <1>2, <2>1, <2>2, <2>3, TakeSlotOK
<1>6. CASE ~(policy.once /\ policy.source = "schedule") /\ ~Taken(S)
  <2>1. PICK T : T = [S EXCEPT !.nextAt = NextSlot(Max({tick.now, S.lastSlot}))]
    OBVIOUS
  <2>2. NextSlot(Max({tick.now, S.lastSlot})) \in DueTimes
    BY SlotTypes DEF DueTimes
  <2>3. /\ T \in States /\ T.events = S.events /\ T.fired = S.fired /\ T.consumed = S.consumed
        /\ T.lastSlot = S.lastSlot /\ T.offRev = S.offRev /\ T.rev = S.rev
    BY <1>1, <2>1, <2>2 DEF States
  <2>4. T.offRev <= T.rev /\ S.lastSlot <= T.lastSlot /\ S.offRev <= T.offRev
    BY <1>1, <2>3, StateTypes DEF StateOK
  <2> QED
    BY <1>6, <2>1, <2>3, <2>4, FieldsOK DEF FireDraft
<1> QED
  BY <1>4, <1>5, <1>6

---------------------------------------------------------------------------
(* One save, and the parts of the invariant it leaves alone.               *)

LEMMA MutateOK ==
  ASSUME StoredOK, MemOK, NEW T, NEW r, Mutate(T, r), policy' = policy, runs' = runs,
         blocked # "unknown" => StateOK(T, runs, policy.once) /\ Behind(disk, T)
  PROVE  /\ StoredOK' /\ MemOK' /\ Behind(mem, mem') /\ Behind(disk, disk') /\ disk' \in {disk, T}
         /\ r = "saved" => blocked # "unknown" /\ mem' = T /\ disk' = T
<1>1. disk \in States /\ mem \in States /\ Behind(mem, disk) /\ Behind(disk, disk) /\ Behind(mem, mem)
  BY BehindItself DEF StoredOK, StateOK, MemOK, Behind
<1>2. StateOK(disk, runs, policy.once)
  BY DEF StoredOK
<1>3. CASE r = "saved" /\ blocked # "unknown" /\ mem' = T /\ disk' = T /\ blocked' = "none"
  <2>1. StateOK(T, runs, policy.once) /\ Behind(disk, T) /\ T \in States
    BY <1>3 DEF StateOK
  <2>2. Behind(mem, T) /\ Behind(T, T)
    BY <1>1, <2>1, BehindAgain, BehindItself
  <2>3. [T EXCEPT !.events = T.events] = T
    BY <2>1 DEF States
  <2> QED
    BY <1>3, <2>1, <2>2, <2>3 DEF StoredOK, MemOK, Fresh
<1>4. CASE /\ r \in {"refused", "unknown"} /\ blocked # "unknown" /\ mem' = Fresh /\ blocked' = r
           /\ disk' \in (IF r = "unknown" THEN {disk, T} ELSE {disk})
  <2>1. StateOK(T, runs, policy.once) /\ Behind(disk, T) /\ Fresh = disk
    BY <1>4 DEF MemOK
  <2>2. mem' = disk /\ disk' \in {disk, T} /\ (blocked' # "unknown" => disk' = disk)
    BY <1>4, <2>1
  <2>3. [disk EXCEPT !.events = disk.events] = disk
    BY <1>1 DEF States
  <2>4. StoredOK' /\ Behind(disk, disk')
    BY <1>1, <1>2, <2>1, <2>2 DEF StoredOK
  <2>5. MemOK'
    BY <2>2, <2>3, <2>4 DEF MemOK, Fresh
  <2> QED
    BY <1>1, <1>4, <2>2, <2>4, <2>5
<1>5. CASE r = "held" /\ blocked = "unknown" /\ mem' = mem /\ disk' = disk /\ blocked' = blocked
  BY <1>1, <1>5 DEF StoredOK, MemOK, Fresh
<1> QED
  BY <1>3, <1>4, <1>5 DEF Mutate

(* Requests, and the last turn-off, while the projection goes on.          *)
LEMMA AskFrame ==
  ASSUME TypeOK, AskOK, Behind(mem, mem'), mem' \in States, sent' = sent, poll' \in {poll, NoPoll}
  PROVE  AskOK'
<1>1. mem.lastSlot <= mem'.lastSlot /\ mem.lastSlot \in Nat /\ mem'.lastSlot \in Nat
  BY StateTypes DEF Behind
<1>2. \A s \in Slots : s <= mem.lastSlot => s <= mem'.lastSlot
  BY <1>1, Bounds
<1>3. \A s \in Slots : sent'[s] = 1 => s <= mem'.lastSlot
  BY <1>2 DEF AskOK
<1>4. ASSUME poll' # NoPoll
      PROVE  poll'.slot \in Slots /\ poll'.slot <= mem'.lastSlot /\ (~poll'.sent => sent'[poll'.slot] = 0)
  BY <1>2, <1>4 DEF AskOK
<1> QED
  BY <1>3, <1>4 DEF AskOK, NoPoll

LEMMA SeenFrame ==
  ASSUME TypeOK, SeenOK, Behind(mem, mem'), mem' \in States, offSeen' = offSeen
  PROVE  SeenOK'
<1>1. mem.offRev <= mem'.offRev /\ mem.offRev \in Nat /\ mem'.offRev \in Nat /\ offSeen \in Nat /\ offSeen <= mem.offRev
  BY StateTypes DEF Behind, TypeOK, SeenOK
<1> QED
  BY <1>1 DEF SeenOK

(* What is under way keeps its claim and its run.                          *)
LEMMA TickFrame ==
  ASSUME TickOK, MemOK, StoredOK, mem' \in States, Behind(mem, mem'), ClaimsStay(disk, disk'), runs' = runs, up' = up,
         tick'.doing = tick.doing, tick'.id = tick.id, tick'.outcome = tick.outcome
  PROVE  TickOK'
<1>1. Ids(mem) \subseteq Ids(mem') /\ Ids(mem) \subseteq Ids(disk)
  BY BehindIds DEF MemOK, StoredOK, StateOK
<1>2. ASSUME tick.id \in Ids(mem) PROVE Key' = Key /\ tick.id \in Ids(disk) /\ tick'.id \in Ids(mem')
  BY <1>1, <1>2 DEF Key, Behind
<1> QED
  BY <1>1, <1>2 DEF TickOK, ClaimsStay

LEMMA TickTypes ==
  /\ Quiet \in TickRecords /\ Quiet.doing = "none"
  /\ \A part \in Nat : [Quiet EXCEPT !.at = part] \in TickRecords /\ [Quiet EXCEPT !.at = part].doing = "none"
  /\ Save \in Nat /\ Orphaned \in Nat /\ Looking \in Nat /\ Tracking \in Nat /\ Dispatching \in Nat
BY DEF Quiet, TickRecords, Save, Orphaned, Looking, Tracking, Dispatching, None

LEMMA StateParts ==
  ASSUME TriggersOK
  PROVE  /\ disk \in States /\ mem \in States /\ Behind(mem, disk) /\ StateOK(disk, runs, policy.once)
         /\ Ids(mem) \subseteq Ids(disk)
         /\ blocked # "unknown" => Fresh = disk
         /\ StateOK(disk, runs, policy.once) /\ runs \in [Keys -> RunStates] /\ policy \in Policies
BY BehindIds DEF TriggersOK, TypeOK, StoredOK, StateOK, MemOK, Behind

(* A save of the engine that leaves nothing under way.                     *)
LEMMA EngineSaves ==
  ASSUME TriggersOK, NEW T, NEW r, Mutate(T, r),
         blocked # "unknown" => StateOK(T, runs, policy.once) /\ Behind(disk, T),
         tick' \in TickRecords, tick'.doing = "none", poll' = poll,
         UNCHANGED <<worldVars, up, held, runs, ghostVars>>
  PROVE  TriggersOK'
<1> USE DEF worldVars, ghostVars
<1>1. StoredOK' /\ MemOK' /\ Behind(mem, mem')
  BY MutateOK DEF TriggersOK
<1>2. TypeOK'
  BY DEF TriggersOK, TypeOK
<1>3. mem' \in States
  BY <1>1 DEF MemOK, Behind
<1>4. AskOK' /\ SeenOK'
  BY <1>1, <1>3, AskFrame, SeenFrame DEF TriggersOK
<1>5. RunsOK' /\ TickOK'
  BY DEF TriggersOK, RunsOK, TickOK
<1> QED
  BY <1>1, <1>2, <1>4, <1>5 DEF TriggersOK

LEMMA SaveAgainStep ==
  ASSUME TriggersOK, SaveAgain
  PROVE  TriggersOK'
<1>1. PICK r \in Results : Mutate(Fresh, r)
  BY DEF SaveAgain
<1>2. blocked # "unknown" => StateOK(Fresh, runs, policy.once) /\ Behind(disk, Fresh)
  BY StateParts, BehindItself
<1>3. tick' \in TickRecords /\ tick'.doing = "none" /\ poll' = poll /\ UNCHANGED <<worldVars, up, held, runs, ghostVars>>
  BY TickTypes DEF SaveAgain, Proceed
<1> QED
  BY <1>1, <1>2, <1>3, EngineSaves

LEMMA ReconcileOrphansStep ==
  ASSUME TriggersOK, ReconcileOrphans
  PROVE  TriggersOK'
<1>1. PICK r \in Results : Mutate(Reconciled(Fresh), r)
  BY DEF ReconcileOrphans
<1>2. blocked # "unknown" => StateOK(Reconciled(Fresh), runs, policy.once) /\ Behind(disk, Reconciled(Fresh))
  <2>1. StateOK(Reconciled(disk), runs, policy.once) /\ Behind(disk, Reconciled(disk))
    BY StateParts, ReconciledOK
  <2> QED
    BY <2>1, StateParts
<1>3. tick' \in TickRecords /\ tick'.doing = "none" /\ poll' = poll /\ UNCHANGED <<worldVars, up, held, runs, ghostVars>>
  BY TickTypes DEF ReconcileOrphans, Proceed
<1> QED
  BY <1>1, <1>2, <1>3, EngineSaves

LEMMA TrackStep ==
  ASSUME TriggersOK, Track
  PROVE  TriggersOK'
<1>1. PICK r \in Results : Mutate(Tracked(Fresh), r)
  BY DEF Track
<1>2. blocked # "unknown" => StateOK(Tracked(Fresh), runs, policy.once) /\ Behind(disk, Tracked(Fresh))
  <2>1. StateOK(Tracked(disk), runs, policy.once) /\ Behind(disk, Tracked(disk))
    BY StateParts, TrackedOK
  <2> QED
    BY <2>1, StateParts
<1>3. tick' \in TickRecords /\ tick'.doing = "none" /\ poll' = poll /\ UNCHANGED <<worldVars, up, held, runs, ghostVars>>
  BY TickTypes DEF Track, Proceed
<1> QED
  BY <1>1, <1>2, <1>3, EngineSaves

LEMMA SaveOutcomeStep ==
  ASSUME TriggersOK, SaveOutcome
  PROVE  TriggersOK'
<1>1. PICK r \in Results : Mutate(WithOutcome(Fresh, tick.id), r)
  BY DEF SaveOutcome
<1>2. blocked # "unknown" =>
        StateOK(WithOutcome(Fresh, tick.id), runs, policy.once) /\ Behind(disk, WithOutcome(Fresh, tick.id))
  <2>1. tick.id \in Ids(mem) /\ tick.id \in Ids(disk) /\ mem.events[tick.id].key = disk.events[tick.id].key
    BY StateParts DEF SaveOutcome, Doing, TriggersOK, TickOK, Behind
  <2>2. /\ tick.outcome \in {"running", "error", "uncertain"}
        /\ tick.outcome = "error" => runs[disk.events[tick.id].key] = "none"
    BY <2>1 DEF SaveOutcome, Doing, TriggersOK, TypeOK, TickOK, TickRecords, Key
  <2>3. StateOK(WithOutcome(disk, tick.id), runs, policy.once) /\ Behind(disk, WithOutcome(disk, tick.id))
    BY <2>1, <2>2, StateParts, OutcomeOK
  <2> QED
    BY <2>3, StateParts
<1>3. tick' \in TickRecords /\ tick'.doing = "none" /\ poll' = poll /\ UNCHANGED <<worldVars, up, held, runs, ghostVars>>
  BY TickTypes DEF SaveOutcome, Proceed
<1> QED
  BY <1>1, <1>2, <1>3, EngineSaves

LEMMA FireDueStep ==
  ASSUME TriggersOK, FireDue
  PROVE  TriggersOK'
<1> USE DEF worldVars, ghostVars
<1>1. tick' \in TickRecords /\ tick'.doing = "none" /\ UNCHANGED <<worldVars, up, held, runs, ghostVars>>
  BY TickTypes DEF FireDue, Proceed
<1>2. CASE ~held /\ Due(Fresh, now)
  <2>1. PICK r \in Results :
          /\ Mutate(FireDraft(Fresh), r)
          /\ poll' = IF r = "saved" /\ policy.source = "http" /\ Taken(Fresh)
                     THEN [slot |-> SlotDue(Fresh, tick.now > Fresh.nextAt), rev |-> Fresh.rev, sent |-> FALSE] ELSE poll
    BY <1>2 DEF FireDue
  <2>2. ASSUME blocked # "unknown"
        PROVE  /\ StateOK(FireDraft(Fresh), runs, policy.once) /\ Behind(disk, FireDraft(Fresh))
               /\ policy.source = "http" /\ Taken(Fresh) =>
                    /\ SlotDue(Fresh, tick.now > Fresh.nextAt) \in Slots
                    /\ FireDraft(Fresh).lastSlot = SlotDue(Fresh, tick.now > Fresh.nextAt)
                    /\ SlotDue(Fresh, tick.now > Fresh.nextAt) > disk.lastSlot
    <3>1. Fresh = disk /\ StateOK(disk, runs, policy.once) /\ policy \in Policies /\ now \in 0 .. MaxNow
      BY <2>2, StateParts DEF TriggersOK, TypeOK
    <3>2. Due(disk, now)
      BY <1>2, <3>1
    <3> QED
      BY <3>1, <3>2, FireDraftOK
  <2>3. CASE poll' = poll
    BY <1>1, <2>1, <2>2, <2>3, EngineSaves
  <2>4. CASE poll' # poll
    <3>1. PICK slot : slot = SlotDue(Fresh, tick.now > Fresh.nextAt)
      OBVIOUS
    <3>2. /\ r = "saved" /\ policy.source = "http" /\ Taken(Fresh)
          /\ poll' = [slot |-> slot, rev |-> Fresh.rev, sent |-> FALSE]
      BY <2>1, <2>4, <3>1
    <3>3. /\ StoredOK' /\ MemOK' /\ Behind(mem, mem') /\ blocked # "unknown" /\ mem' = FireDraft(Fresh)
      BY <1>1, <2>1, <2>2, <3>2, MutateOK DEF TriggersOK
    <3>4. slot \in Slots /\ mem'.lastSlot = slot /\ slot > disk.lastSlot /\ Fresh.rev \in Nat
      BY <2>2, <3>1, <3>2, <3>3, StateParts, StateTypes
    <3>5. TypeOK'
      BY <1>1, <3>2, <3>4 DEF TriggersOK, TypeOK, PollRecords
    <3>6. RunsOK' /\ TickOK'
      BY <1>1 DEF TriggersOK, RunsOK, TickOK
    <3>7. mem' \in States
      BY <3>3 DEF MemOK, Behind
    <3>8. SeenOK'
      BY <1>1, <3>3, <3>7, SeenFrame DEF TriggersOK
    <3>9. AskOK'
      <4>1. mem.lastSlot \in Nat /\ disk.lastSlot \in Nat /\ slot \in Nat /\ mem.lastSlot <= disk.lastSlot
        BY <3>4, StateParts, StateTypes, Bounds DEF Behind
      <4>2. sent[slot] = 0
        <5>1. slot > mem.lastSlot
          BY <3>4, <4>1
        <5>2. ~(slot <= mem.lastSlot)
          BY <4>1, <5>1
        <5>3. sent[slot] \in {0, 1} /\ (sent[slot] = 1 => slot <= mem.lastSlot)
          BY <3>4 DEF TriggersOK, TypeOK, AskOK
        <5> QED
          BY <5>2, <5>3
      <4>3. \A s \in Slots : sent'[s] = 1 => s <= mem'.lastSlot
        <5>1. \A s \in Slots : s <= mem.lastSlot => s <= mem'.lastSlot
          BY <3>4, <4>1, Bounds
        <5> QED
          BY <1>1, <5>1 DEF TriggersOK, AskOK
      <4>4. poll'.slot \in Slots /\ poll'.slot <= mem'.lastSlot /\ sent'[poll'.slot] = 0
        BY <1>1, <3>2, <3>4, <4>1, <4>2
      <4> QED
        BY <4>3, <4>4 DEF AskOK, NoPoll
    <3> QED
      BY <3>3, <3>5, <3>6, <3>8, <3>9 DEF TriggersOK
  <2> QED
    BY <2>3, <2>4
<1>3. CASE ~(~held /\ Due(Fresh, now))
  <2>1. mem' = mem /\ disk' = disk /\ blocked' = blocked /\ poll' = poll
    BY <1>3 DEF FireDue, NoMutation
  <2>2. TypeOK' /\ StoredOK' /\ MemOK' /\ RunsOK' /\ AskOK' /\ SeenOK' /\ TickOK'
    BY <1>1, <2>1 DEF TriggersOK, TypeOK, StoredOK, MemOK, Fresh, RunsOK, AskOK, SeenOK, TickOK
  <2> QED
    BY <2>2 DEF TriggersOK
<1> QED
  BY <1>2, <1>3

(* Steps of the tick that save nothing.                                    *)
LEMMA QuietTick ==
  ASSUME TriggersOK, UNCHANGED <<worldVars, up, held, poll, runs, ghostVars>>, NoMutation,
         tick' \in TickRecords, tick'.doing \in {"none", "fire"}, up
  PROVE  TriggersOK'
<1> USE DEF worldVars, ghostVars, NoMutation
<1>1. TypeOK' /\ StoredOK' /\ MemOK' /\ RunsOK' /\ AskOK' /\ SeenOK' /\ TickOK'
  BY DEF TriggersOK, TypeOK, StoredOK, MemOK, Fresh, RunsOK, AskOK, SeenOK, TickOK
<1> QED
  BY <1>1 DEF TriggersOK

LEMMA LookStep ==
  ASSUME TriggersOK, Look \/ EndTick
  PROVE  TriggersOK'
<1>1. CASE Look
  <2>1. tick' \in TickRecords /\ tick'.doing = "fire"
    <3>1. tick' = [Quiet EXCEPT !.doing = "fire", !.now = now] /\ now \in Nat
      BY <1>1, Bounds DEF Look, TriggersOK, TypeOK
    <3> QED
      BY <3>1, TickTypes DEF TickRecords
  <2> QED
    BY <1>1, <2>1, QuietTick DEF Look, Reached
<1>2. CASE EndTick
  BY <1>2, TickTypes, QuietTick DEF EndTick
<1> QED
  BY <1>1, <1>2

LEMMA ClaimStep ==
  ASSUME TriggersOK, Claim
  PROVE  TriggersOK'
<1> USE DEF worldVars, ghostVars
<1>1. PICK i : i = Min(Ready(mem))
  OBVIOUS
<1>2. i \in Ids(mem) /\ i \in Ids(disk) /\ i \in Nat
  <2>1. Ready(mem) # {} /\ Ready(mem) \subseteq Ids(mem)
    <3>1. Todo(Dispatching)
      BY DEF Claim, Reached
    <3>2. Todo(Dispatching) = (Ready(mem) # {})
      BY DEF Todo, Save, Orphaned, Looking, Tracking, Dispatching
    <3> QED
      BY <3>1, <3>2 DEF Ready, In
  <2>2. Ids(mem) \subseteq Nat /\ Ids(mem) \subseteq Ids(disk)
    BY StateParts, StateEvents
  <2>3. i \in Ready(mem)
    BY <1>1, <2>1, <2>2, MinIn
  <2> QED
    BY <2>1, <2>2, <2>3
<1>3. UNCHANGED <<worldVars, up, held, poll, runs, ghostVars>> /\ up
  BY DEF Claim, Reached
<1>4. CASE NoMutation /\ tick' = Quiet
  BY <1>3, <1>4, TickTypes, QuietTick
<1>5. ASSUME NEW r \in Results, Fresh.events[i].status = "queued",
             Mutate(Restated(Fresh, {i}, [j \in {i} |-> "claimed"]), r),
             tick' = IF r # "saved" THEN Quiet
                     ELSE [Quiet EXCEPT !.doing = IF policy.target = "session" THEN "link" ELSE "create", !.id = i]
      PROVE  TriggersOK'
  <2>1. PICK T : T = Restated(Fresh, {i}, [j \in {i} |-> "claimed"])
    OBVIOUS
  <2>2. ASSUME blocked # "unknown"
        PROVE  /\ StateOK(T, runs, policy.once) /\ Behind(disk, T) /\ i \in Ids(T)
               /\ T.events[i].status = "claimed" /\ T.events[i].key = disk.events[i].key
    <3>1. T = Restated(disk, {i}, [j \in {i} |-> "claimed"])
      BY <2>1, <2>2, StateParts
    <3> QED
      BY <1>2, <3>1, StateParts, ClaimedOK
  <2>3. CASE r # "saved"
    BY <1>3, <1>5, <2>1, <2>2, <2>3, TickTypes, EngineSaves
  <2>4. CASE r = "saved"
    <3>1. StoredOK' /\ MemOK' /\ Behind(mem, mem') /\ blocked # "unknown" /\ mem' = T /\ disk' = T
      BY <1>3, <1>5, <2>1, <2>2, <2>4, MutateOK DEF TriggersOK
    <3>2. tick' \in TickRecords /\ tick'.doing \in {"link", "create"} /\ tick'.id = i
      BY <1>2, <1>5, <2>4, TickTypes DEF TickRecords
    <3>3. TypeOK' /\ RunsOK' /\ mem' \in States
      BY <1>3, <3>1, <3>2 DEF TriggersOK, TypeOK, RunsOK, MemOK, Behind
    <3>4. AskOK' /\ SeenOK'
      BY <1>3, <3>1, <3>3, AskFrame, SeenFrame DEF TriggersOK
    <3>5. runs[disk.events[i].key] = "none"
      <4>1. Fresh = disk
        BY <3>1, StateParts
      <4>2. disk.events[i].status = "queued"
        BY <1>5, <4>1
      <4> QED
        BY <1>2, <4>2, StateParts DEF StateOK, EventOK
    <3>6. TickOK'
      BY <1>3, <2>2, <3>1, <3>2, <3>5 DEF TickOK, Key
    <3> QED
      BY <3>1, <3>3, <3>4, <3>6 DEF TriggersOK
  <2> QED
    BY <2>3, <2>4
<1> QED
  BY <1>1, <1>4, <1>5 DEF Claim

LEMMA LinkStep ==
  ASSUME TriggersOK, Link
  PROVE  TriggersOK'
<1> USE DEF worldVars, ghostVars, Link, Doing
<1>1. StoredOK' /\ MemOK' /\ Behind(mem, mem') /\ mem' \in States /\ ClaimsStay(disk, disk') /\ disk' = disk
  <2>1. mem' = IF blocked = "none" THEN disk ELSE mem
    BY StateParts
  <2>2. [disk EXCEPT !.events = disk.events] = disk
    BY StateParts DEF States
  <2>3. Behind(mem', disk) /\ Behind(mem, mem') /\ mem' \in States
    BY <2>1, StateParts, BehindItself
  <2>4. blocked' # "unknown" => Fresh' = disk'
    BY <2>1, <2>2, StateParts DEF Fresh
  <2> QED
    BY <2>3, <2>4 DEF TriggersOK, StoredOK, MemOK, ClaimsStay
<1>2. /\ tick' \in TickRecords /\ tick'.doing \in {"create", "outcome"} /\ tick'.id = tick.id
      /\ tick'.doing = "outcome" => tick'.outcome = "error"
  <2>1. tick' \in {[tick EXCEPT !.doing = "create", !.fresh = TRUE], [tick EXCEPT !.doing = "outcome", !.outcome = "error"]}
    BY DEF Submitted
  <2> QED
    BY <2>1 DEF TriggersOK, TypeOK, TickRecords
<1>3. TypeOK' /\ RunsOK'
  BY <1>2 DEF TriggersOK, TypeOK, RunsOK
<1>4. AskOK' /\ SeenOK'
  BY <1>1, AskFrame, SeenFrame DEF TriggersOK
<1>5. TickOK'
  <2>1. tick.id \in Ids(mem) /\ disk.events[tick.id].status = "claimed" /\ runs[Key] = "none"
    BY DEF TriggersOK, TickOK
  <2>2. Ids(mem) \subseteq Ids(mem')
    BY <1>1, BehindIds
  <2>3. Key' = Key
    BY <1>1, <1>2, <2>1 DEF Key, Behind
  <2>4. tick'.id \in Ids(mem') /\ disk'.events[tick'.id].status = "claimed" /\ runs' = runs /\ up' = up /\ up
    BY <1>1, <1>2, <2>1, <2>2
  <2>5. runs'[Key'] = "none"
    BY <2>1, <2>3, <2>4
  <2> QED
    BY <1>2, <2>4, <2>5 DEF TickOK
<1> QED
  BY <1>1, <1>3, <1>4, <1>5 DEF TriggersOK

(* The event under way gets its run, and runs or stays claimed.            *)
LEMMA CreatedOK ==
  ASSUME NEW S, NEW R, NEW once, StateOK(S, R, once), NEW i \in Ids(S), S.events[i].status = "claimed",
         NEW T, T = S \/ T = Linked(S, i), NEW Q, \A k \in Keys : k # S.events[i].key => Q[k] = R[k]
  PROVE  StateOK(T, Q, once) /\ Behind(S, T) /\ SameFields(S, T)
<1>1. /\ S \in States /\ T \in States /\ SameFields(S, T) /\ Len(T.events) = Len(S.events) /\ Ids(T) = Ids(S)
      /\ \A j \in Ids(S) : /\ T.events[j].key = S.events[j].key /\ T.events[j].rev = S.events[j].rev
                           /\ T.events[j].from = S.events[j].from
                           /\ T.events[j].status \in {S.events[j].status, "running"}
                           /\ j # i => T.events[j].status = S.events[j].status
  BY LinkedShape DEF StateOK, SameFields
<1>2. S.events[i].key \in Keys /\ S.events[i].key \in S.fired /\ \A j \in Ids(S) : S.events[j].key \in Keys
  BY StateEvents DEF StateOK, EventRecords
<1>5. \A j \in Ids(T) : EventOK(T.events[j], Q) /\ T.events[j].key \in T.fired
  <2>1. EventOK(T.events[i], Q) /\ T.events[i].key \in T.fired
    BY <1>1, <1>2 DEF EventOK, SameFields, Turned, StateOK
  <2>2. ASSUME NEW j \in Ids(S), j # i PROVE EventOK(T.events[j], Q) /\ T.events[j].key \in T.fired
    <3>1. S.events[j].key # S.events[i].key /\ EventOK(S.events[j], R) /\ S.events[j].key \in S.fired
      BY <2>2 DEF StateOK
    <3>2. Q[T.events[j].key] = R[S.events[j].key]
      BY <1>1, <1>2, <3>1
    <3> QED
      BY <1>1, <2>2, <3>1, <3>2 DEF EventOK, SameFields
  <2> QED
    BY <1>1, <2>1, <2>2
<1>6. \A k \in Keys \ T.fired : Q[k] = "none"
  BY <1>1, <1>2 DEF StateOK, SameFields
<1>7. Behind(S, T)
  <2>1. S.lastSlot <= S.lastSlot /\ S.offRev <= S.offRev /\ Len(S.events) <= Len(S.events)
    BY <1>1, StateTypes, StateEvents
  <2> QED
    BY <1>1, <2>1 DEF Behind, SameFields
<1>8. StateOK(T, Q, once)
  <2>1. T \in States /\ T.offRev <= T.rev
    BY <1>1 DEF StateOK, SameFields
  <2>2. \A j, k \in Ids(T) : T.events[j].key = T.events[k].key => j = k
    BY <1>1 DEF StateOK
  <2>3. once => IF T.consumed = None THEN T.fired = {} /\ Len(T.events) = 0 ELSE Len(T.events) <= 1
    BY <1>1 DEF StateOK, SameFields
  <2> QED
    BY <1>5, <1>6, <2>1, <2>2, <2>3 DEF StateOK
<1> QED
  BY <1>1, <1>7, <1>8

LEMMA CreateStep ==
  ASSUME TriggersOK, Create
  PROVE  TriggersOK'
<1> USE DEF worldVars, ghostVars
<1>1. /\ up /\ tick.doing = "create" /\ tick.id \in Ids(mem) /\ disk.events[tick.id].status = "claimed"
      /\ runs[Key] = "none" /\ tick.id \in Ids(disk) /\ Key = disk.events[tick.id].key /\ Key \in Keys
  <2>1. up /\ tick.doing = "create" /\ tick.id \in Ids(mem) /\ disk.events[tick.id].status = "claimed" /\ runs[Key] = "none"
    BY DEF Create, Doing, TriggersOK, TickOK
  <2>2. tick.id \in Ids(disk) /\ Key = disk.events[tick.id].key
    BY <2>1, StateParts DEF Key, Behind
  <2>3. disk.events[tick.id] \in EventRecords
    BY <2>2, StateParts, StateEvents
  <2> QED
    BY <2>1, <2>2, <2>3 DEF EventRecords
<1>2. UNCHANGED <<worldVars, up, held, poll, ghostVars, mem, blocked>>
  BY DEF Create
<1>3. AskOK' /\ SeenOK'
  BY <1>2 DEF TriggersOK, AskOK, SeenOK
<1>4. ASSUME NEW x \in {"running", "error", "uncertain"}, Submitted(x)
      PROVE  tick' \in TickRecords /\ tick'.doing = "outcome" /\ tick'.id = tick.id /\ tick'.outcome = x
  BY <1>4 DEF Submitted, TriggersOK, TypeOK, TickRecords
<1>5. CASE Submitted("error") /\ runs' = runs /\ disk' = disk
  <2>1. TypeOK' /\ StoredOK' /\ MemOK' /\ RunsOK'
    BY <1>2, <1>4, <1>5 DEF TriggersOK, TypeOK, StoredOK, MemOK, Fresh, RunsOK
  <2>2. TickOK'
    BY <1>1, <1>2, <1>4, <1>5 DEF TickOK, Key
  <2> QED
    BY <1>3, <2>1, <2>2 DEF TriggersOK
<1>6. ASSUME NEW x \in {"running", "uncertain"}, Submitted(x), NEW state \in {"queued", "doubtIn", "doubtOut"},
             runs' = [runs EXCEPT ![Key] = state], disk' \in {disk, Linked(disk, tick.id)}
      PROVE  TriggersOK'
  <2>1. StateOK(disk', runs', policy.once) /\ Behind(disk, disk') /\ SameFields(disk, disk')
    <3>1. \A k \in Keys : k # disk.events[tick.id].key => runs'[k] = runs[k]
      BY <1>1, <1>6, StateParts
    <3>2. PICK i : i = tick.id
      OBVIOUS
    <3>3. i \in Ids(disk) /\ disk.events[i].status = "claimed"
      BY <1>1, <3>2
    <3>4. PICK T : T = disk' /\ (T = disk \/ T = Linked(disk, i))
      BY <1>6, <3>2
    <3>5. PICK Q : Q = runs' /\ \A k \in Keys : k # disk.events[i].key => Q[k] = runs[k]
      BY <3>1, <3>2
    <3>6. StateOK(T, Q, policy.once) /\ Behind(disk, T) /\ SameFields(disk, T)
      <4>1. StateOK(disk, runs, policy.once)
        BY StateParts
      <4> QED
        BY <3>3, <3>4, <3>5, <4>1, CreatedOK
    <3> QED
      BY <3>4, <3>5, <3>6
  <2>2. StoredOK' /\ disk' \in States
    BY <1>2, <2>1 DEF StoredOK, StateOK
  <2>3. Behind(mem, disk')
    BY <2>1, <2>2, StateParts, BehindAgain
  <2>4. blocked # "unknown" => [mem EXCEPT !.events = disk'.events] = disk'
    <3>1. ASSUME blocked # "unknown" PROVE [mem EXCEPT !.events = disk'.events] = disk'
      <4>1. SameFields(mem, disk)
        <5>1. disk.events \in Seq(EventRecords) /\ [mem EXCEPT !.events = disk.events] = disk
          BY <3>1, StateParts DEF Fresh, States
        <5> QED
          BY <5>1, StateParts, WithEvents
      <4>2. PICK F : F = [mem EXCEPT !.events = disk'.events]
        OBVIOUS
      <4>3. F \in States /\ F.events = disk'.events /\ SameFields(mem, F)
        BY <2>2, <4>2, StateParts, WithEvents DEF States
      <4>4. SameFields(F, disk')
        BY <2>1, <4>1, <4>3 DEF SameFields
      <4>5. F = disk'
        BY <2>2, <4>3, <4>4, StateEqual
      <4> QED
        BY <4>2, <4>5
    <3> QED
      BY <3>1
  <2>5. MemOK'
    BY <1>2, <2>3, <2>4 DEF MemOK, Fresh
  <2>6. TypeOK'
    <3>1. runs' \in [Keys -> RunStates]
      BY <1>6, StateParts DEF RunStates
    <3> QED
      BY <1>2, <1>4, <1>6, <3>1 DEF TriggersOK, TypeOK
  <2>7. RunsOK'
    BY <1>1, <1>2, <1>6, StateParts DEF TriggersOK, RunsOK
  <2>8. TickOK'
    BY <1>1, <1>2, <1>4, <1>6 DEF TickOK
  <2> QED
    BY <1>3, <2>2, <2>5, <2>6, <2>7, <2>8 DEF TriggersOK
<1> QED
  <2>1. PICK r \in {"saved", "refused", "unknown"} :
          IF runs[Key] # "none" \/ (policy.target = "session" /\ ~tick.fresh)
          THEN r = "refused" /\ Submitted("error") /\ UNCHANGED <<runs, disk, faults>>
          ELSE /\ IF r = "saved" THEN UNCHANGED faults ELSE faults < MaxFaults /\ faults' = faults + 1
               /\ CASE r = "saved" -> /\ runs' = [runs EXCEPT ![Key] = "queued"]
                                      /\ disk' = Linked(disk, tick.id)
                                      /\ Submitted("running")
                    [] r = "refused" -> Submitted("error") /\ UNCHANGED <<runs, disk>>
                    [] r = "unknown" -> /\ Submitted("uncertain")
                                        /\ \/ /\ runs' = [runs EXCEPT ![Key] = "doubtIn"]
                                              /\ disk' = Linked(disk, tick.id)
                                           \/ /\ runs' = [runs EXCEPT ![Key] = "doubtOut"]
                                              /\ UNCHANGED disk
    BY DEF Create
  <2> QED
    BY <1>5, <1>6, <2>1

---------------------------------------------------------------------------
(* Runs, requests and the owner.                                           *)

(* A run that was not there, or was refused, stays so.                     *)
LEMMA RunsGoOn ==
  ASSUME NEW S, NEW R, NEW Q, NEW once, StateOK(S, R, once),
         \A k \in Keys : /\ R[k] = "none" => Q[k] = "none"
                         /\ R[k] \in {"none", "refused"} => Q[k] \in {"none", "refused"}
  PROVE  StateOK(S, Q, once)
<1>1. \A i \in Ids(S) : S.events[i].key \in Keys
  BY StateEvents DEF StateOK, EventRecords
<1> QED
  BY <1>1 DEF StateOK, EventOK

LEMMA WorldSteps ==
  ASSUME TriggersOK, NoMutation, RunsOK', runs' \in [Keys -> RunStates], starts' \in [Keys -> Nat],
         \A k \in Keys : /\ runs[k] = "none" => runs'[k] = "none"
                         /\ runs[k] \in {"none", "refused"} => runs'[k] \in {"none", "refused"},
         \/ tick' = tick /\ poll' = poll /\ up' = up
         \/ tick' = Quiet /\ poll' = NoPoll /\ up' = FALSE,
         policy' = policy, now' \in 0 .. MaxNow, asked' = asked, sent' = sent, offSeen' = offSeen
  PROVE  TriggersOK'
<1> USE DEF NoMutation
<1>1. StoredOK' /\ MemOK'
  BY RunsGoOn DEF TriggersOK, StoredOK, MemOK, Fresh
<1>2. TypeOK'
  <2>1. NoPoll \in PollRecords
    BY DEF NoPoll, PollRecords
  <2>2. tick' \in TickRecords /\ poll' \in PollRecords /\ up' \in BOOLEAN
    BY <2>1, TickTypes DEF TriggersOK, TypeOK
  <2> QED
    BY <2>2 DEF TriggersOK, TypeOK
<1>3. AskOK' /\ SeenOK'
  BY DEF TriggersOK, AskOK, SeenOK, NoPoll
<1>4. TickOK'
  <2>1. CASE tick' = Quiet
    BY <2>1, TickTypes DEF TickOK
  <2>2. CASE tick' = tick /\ up' = up
    <3>1. ASSUME tick.id \in Ids(mem) PROVE Key' = Key /\ Key \in Keys
      <4>1. mem.events[tick.id] \in EventRecords
        BY <3>1, StateParts, StateEvents
      <4> QED
        BY <2>2, <4>1 DEF Key, EventRecords
    <3> QED
      BY <2>2, <3>1 DEF TriggersOK, TickOK
  <2> QED
    BY <2>1, <2>2
<1> QED
  BY <1>1, <1>2, <1>3, <1>4 DEF TriggersOK

LEMMA ManagerStep ==
  ASSUME TriggersOK, NEW k \in Keys, Launch(k) \/ End(k) \/ Resolve(k)
  PROVE  TriggersOK'
<1> USE DEF worldVars, engineVars, ghostVars
<1>1. PICK x \in RunStates : /\ runs' = [runs EXCEPT ![k] = x] /\ runs[k] \notin {"none", "refused"}
                             /\ runs[k] # "doubtOut" => x # "none"
                             /\ \/ starts' = starts /\ (x \in {"running", "ended"} \/ starts[k] = 0)
                                \/ starts' = [starts EXCEPT ![k] = @ + 1] /\ x = "running"
  <2>1. starts[k] = 0 \/ runs[k] \in {"running", "ended"}
    BY DEF TriggersOK, RunsOK
  <2>2. CASE Launch(k)
    BY <2>1, <2>2 DEF Launch, RunStates
  <2>3. CASE End(k)
    BY <2>3 DEF End, RunStates
  <2>4. CASE Resolve(k)
    <3>1. runs[k] \in {"doubtIn", "doubtOut"} /\ Settled(runs[k]) \in {"queued", "none"}
      BY <2>4 DEF Resolve, Settled
    <3> QED
      BY <2>1, <2>4, <3>1 DEF Resolve, RunStates, Settled
  <2> QED
    BY <2>2, <2>3, <2>4
<1>2. NoMutation /\ tick' = tick /\ poll' = poll /\ up' = up /\ UNCHANGED <<policy, now, asked, sent, offSeen>>
  BY DEF Launch, End, Resolve
<1>3. runs \in [Keys -> RunStates] /\ starts \in [Keys -> Nat] /\ now \in 0 .. MaxNow
  BY DEF TriggersOK, TypeOK
<1>4. runs' \in [Keys -> RunStates] /\ starts' \in [Keys -> Nat]
  BY <1>1, <1>3
<1>5. RunsOK'
  BY <1>1, <1>3 DEF TriggersOK, RunsOK
<1>6. \A j \in Keys : /\ runs[j] = "none" => runs'[j] = "none"
                      /\ runs[j] \in {"none", "refused"} => runs'[j] \in {"none", "refused"}
  BY <1>1, <1>3
<1> QED
  BY <1>2, <1>3, <1>4, <1>5, <1>6, WorldSteps

LEMMA StopStep ==
  ASSUME TriggersOK, Stop
  PROVE  TriggersOK'
<1> USE DEF Stop, ghostVars
<1>1. runs \in [Keys -> RunStates] /\ starts \in [Keys -> Nat] /\ now \in 0 .. MaxNow
  BY DEF TriggersOK, TypeOK
<1>2. \A k \in Keys : /\ runs'[k] \in RunStates
                      /\ runs[k] \in {"none", "refused"} => runs'[k] = runs[k]
                      /\ runs'[k] \in {"running", "ended"} \/ runs[k] \notin {"running", "ended"}
  BY <1>1 DEF RunStates, Settled
<1>3. runs' \in [Keys -> RunStates]
  BY <1>2
<1>4. RunsOK'
  BY <1>2 DEF TriggersOK, RunsOK
<1>5. NoMutation /\ tick' = Quiet /\ poll' = NoPoll /\ up' = FALSE /\ UNCHANGED <<policy, now, asked, starts, sent, offSeen>>
  OBVIOUS
<1> QED
  BY <1>1, <1>2, <1>3, <1>4, <1>5, WorldSteps

LEMMA IdleSteps ==
  ASSUME TriggersOK, Hold \/ Release \/ Clock
  PROVE  TriggersOK'
<1> USE DEF worldVars, engineVars, ghostVars
<1>1. /\ NoMutation /\ tick' = tick /\ poll' = poll /\ up' = up
      /\ UNCHANGED <<policy, asked, runs, starts, sent, offSeen>>
  BY DEF Hold, Release, Clock
<1>2. now' \in 0 .. MaxNow
  BY Bounds DEF Hold, Release, Clock, TriggersOK, TypeOK
<1>3. runs' \in [Keys -> RunStates] /\ starts' \in [Keys -> Nat] /\ RunsOK'
  BY <1>1 DEF TriggersOK, TypeOK, RunsOK
<1> QED
  BY <1>1, <1>2, <1>3, WorldSteps

LEMMA StartStep ==
  ASSUME TriggersOK, Start
  PROVE  TriggersOK'
<1> USE DEF worldVars, ghostVars
<1>1. PICK T : T = Reconciled(disk)
  OBVIOUS
<1>2. mem' = T /\ disk' = T /\ UNCHANGED <<policy, now, asked, poll, tick, runs, sent, starts, offSeen>> /\ up' = TRUE /\ ~up
  BY <1>1 DEF Start
<1>3. StateOK(T, runs, policy.once) /\ Behind(disk, T) /\ T \in States
  BY <1>1, StateParts, ReconciledOK DEF StateOK
<1>4. Behind(mem, T) /\ Behind(T, T)
  BY <1>3, StateParts, BehindAgain, BehindItself
<1>5. [T EXCEPT !.events = T.events] = T
  BY <1>3 DEF States
<1>6. StoredOK' /\ MemOK'
  BY <1>2, <1>3, <1>4, <1>5 DEF StoredOK, MemOK, Fresh
<1>7. TypeOK' /\ RunsOK' /\ TickOK'
  BY <1>2 DEF TriggersOK, TypeOK, RunsOK, TickOK
<1>8. AskOK' /\ SeenOK'
  BY <1>2, <1>3, <1>4, AskFrame, SeenFrame DEF TriggersOK
<1> QED
  BY <1>6, <1>7, <1>8 DEF TriggersOK

LEMMA AskStep ==
  ASSUME TriggersOK, Ask
  PROVE  TriggersOK'
<1> USE DEF worldVars, NoMutation, Ask
<1>1. StoredOK' /\ MemOK' /\ RunsOK' /\ SeenOK' /\ TickOK'
  BY DEF TriggersOK, StoredOK, MemOK, Fresh, RunsOK, SeenOK, TickOK, Key
<1>2. poll.slot \in Slots /\ poll.slot <= mem.lastSlot /\ sent[poll.slot] = 0
  BY DEF TriggersOK, AskOK
<1>3. CASE poll' = NoPoll /\ sent' = sent
  <2>1. NoPoll \in PollRecords
    BY DEF NoPoll, PollRecords
  <2> QED
    BY <1>1, <1>3, <2>1 DEF TriggersOK, TypeOK, AskOK
<1>4. CASE poll' = [poll EXCEPT !.sent = TRUE] /\ sent' = [sent EXCEPT ![poll.slot] = @ + 1]
  <2>1. poll' \in PollRecords /\ poll'.slot = poll.slot /\ poll'.sent = TRUE
    BY <1>4 DEF TriggersOK, TypeOK, PollRecords
  <2>2. sent' = [sent EXCEPT ![poll.slot] = 1] /\ sent' \in [Slots -> {0, 1}]
    BY <1>2, <1>4 DEF TriggersOK, TypeOK
  <2>3. TypeOK'
    BY <2>1, <2>2 DEF TriggersOK, TypeOK
  <2>4. AskOK'
    BY <1>2, <2>1, <2>2 DEF TriggersOK, TypeOK, AskOK
  <2> QED
    BY <1>1, <2>3, <2>4 DEF TriggersOK
<1> QED
  BY <1>3, <1>4

(* A save of the owner, or for an answer, while the tick is under way.     *)
LEMMA OutsideSaves ==
  ASSUME TriggersOK, NEW T, NEW r, Mutate(T, r),
         blocked # "unknown" => StateOK(T, runs, policy.once) /\ Behind(disk, T) /\ ClaimsStay(disk, T),
         BreakFence, poll' \in {poll, NoPoll}, asked' \in Nat,
         UNCHANGED <<policy, now, up, runs, sent, starts>>,
         \/ offSeen' = offSeen
         \/ r = "saved" /\ T.offRev = T.rev /\ offSeen' = mem'.rev
  PROVE  TriggersOK'
<1>1. /\ StoredOK' /\ MemOK' /\ Behind(mem, mem') /\ disk' \in {disk, T} /\ mem' \in States
      /\ r = "saved" => blocked # "unknown" /\ mem' = T /\ disk' = T
  <2>1. /\ StoredOK' /\ MemOK' /\ Behind(mem, mem') /\ disk' \in {disk, T}
        /\ r = "saved" => blocked # "unknown" /\ mem' = T /\ disk' = T
    BY MutateOK DEF TriggersOK
  <2> QED
    BY <2>1 DEF MemOK, Behind
<1>2. ClaimsStay(disk, disk')
  <2>1. blocked = "unknown" => disk' = disk
    BY DEF Mutate
  <2> QED
    BY <1>1, <2>1 DEF ClaimsStay
<1>3. tick' \in TickRecords /\ tick'.doing = tick.doing /\ tick'.id = tick.id /\ tick'.outcome = tick.outcome
  <2>1. (tick.fresh /\ disk' = disk) \in BOOLEAN /\ tick' = [tick EXCEPT !.fresh = (tick.fresh /\ disk' = disk)]
    BY DEF BreakFence
  <2>2. PICK f \in BOOLEAN : tick' = [tick EXCEPT !.fresh = f]
    BY <2>1
  <2> QED
    BY <2>2 DEF TriggersOK, TypeOK, TickRecords
<1>4. TickOK'
  BY <1>1, <1>2, <1>3, TickFrame DEF TriggersOK
<1>5. poll' \in PollRecords
  <2>1. NoPoll \in PollRecords
    BY DEF NoPoll, PollRecords
  <2> QED
    BY <2>1 DEF TriggersOK, TypeOK
<1>6. offSeen' \in Nat /\ SeenOK'
  <2>1. CASE offSeen' = offSeen
    BY <1>1, <2>1, SeenFrame DEF TriggersOK, TypeOK
  <2>2. CASE r = "saved" /\ T.offRev = T.rev /\ offSeen' = mem'.rev
    <3>1. offSeen' = mem'.offRev /\ mem'.offRev \in Nat
      BY <1>1, <2>2, StateTypes
    <3> QED
      BY <3>1 DEF SeenOK
  <2> QED
    BY <2>1, <2>2
<1>7. TypeOK' /\ RunsOK'
  BY <1>3, <1>5, <1>6 DEF TriggersOK, TypeOK, RunsOK
<1>8. AskOK'
  BY <1>1, AskFrame DEF TriggersOK
<1> QED
  BY <1>1, <1>4, <1>6, <1>7, <1>8 DEF TriggersOK

LEMMA AnswerStep ==
  ASSUME TriggersOK, Answer
  PROVE  TriggersOK'
<1> USE DEF worldVars, ghostVars
<1>1. PICK met \in BOOLEAN, r \in Results :
        Mutate(IF met /\ Fresh.rev = poll.rev THEN Fire(Fresh, poll.slot, poll.rev) ELSE Fresh, r)
  BY DEF Answer
<1>2. PICK T : T = IF met /\ Fresh.rev = poll.rev THEN Fire(Fresh, poll.slot, poll.rev) ELSE Fresh
  OBVIOUS
<1>3. ASSUME blocked # "unknown"
      PROVE  StateOK(T, runs, policy.once) /\ Behind(disk, T) /\ ClaimsStay(disk, T)
  <2>1. Fresh = disk /\ StateOK(disk, runs, policy.once) /\ disk \in States
    BY <1>3, StateParts
  <2>2. CASE T = disk
    BY <2>1, <2>2, BehindItself DEF ClaimsStay
  <2>3. CASE disk.rev = poll.rev /\ T = Fire(disk, poll.slot, disk.rev)
    <3>1. poll.slot \in Keys
      <4>1. poll # NoPoll
        BY DEF Answer, NoPoll
      <4> QED
        BY <4>1, Bounds DEF TriggersOK, AskOK
    <3> QED
      BY <2>1, <2>3, <3>1, FireOK
  <2> QED
    BY <1>2, <2>1, <2>2, <2>3
<1>4. BreakFence /\ poll' = NoPoll /\ UNCHANGED <<policy, now, asked, up, runs, sent, starts, offSeen>>
  BY <1>1 DEF Answer
<1> QED
  BY <1>1, <1>2, <1>3, <1>4, OutsideSaves DEF TriggersOK, TypeOK

LEMMA RunNowStep ==
  ASSUME TriggersOK, RunNow
  PROVE  TriggersOK'
<1> USE DEF ghostVars
<1>1. PICK r \in Results : Mutate(Fire(Fresh, MaxNow + asked + 1, Fresh.rev), r)
  BY DEF RunNow
<1>2. PICK T : T = Fire(Fresh, MaxNow + asked + 1, Fresh.rev)
  OBVIOUS
<1>3. ASSUME blocked # "unknown"
      PROVE  StateOK(T, runs, policy.once) /\ Behind(disk, T) /\ ClaimsStay(disk, T)
  <2>1. Fresh = disk /\ StateOK(disk, runs, policy.once)
    BY <1>3, StateParts
  <2>2. MaxNow + asked + 1 \in Keys
    BY Bounds DEF RunNow, TriggersOK, TypeOK, Keys, Manual
  <2>3. PICK key \in Keys : key = MaxNow + asked + 1
    BY <2>2
  <2>4. T = Fire(disk, key, disk.rev)
    BY <1>2, <2>1, <2>3
  <2> QED
    BY <2>1, <2>3, <2>4, FireOK
<1>4. BreakFence /\ poll' = poll /\ asked' \in Nat /\ UNCHANGED <<policy, now, up, runs, sent, starts, offSeen>>
  BY DEF RunNow, TriggersOK, TypeOK
<1> QED
  BY <1>1, <1>2, <1>3, <1>4, OutsideSaves

LEMMA TurnOffStep ==
  ASSUME TriggersOK, TurnOff
  PROVE  TriggersOK'
<1>1. PICK r \in Results : Mutate(TurnedOff(Fresh), r) /\ offSeen' = IF r = "saved" THEN mem'.rev ELSE offSeen
  BY DEF TurnOff
<1>2. PICK T : T = TurnedOff(Fresh)
  OBVIOUS
<1>3. ASSUME blocked # "unknown"
      PROVE  StateOK(T, runs, policy.once) /\ Behind(disk, T) /\ ClaimsStay(disk, T) /\ T.offRev = T.rev
  <2>1. Fresh = disk /\ StateOK(disk, runs, policy.once)
    BY <1>3, StateParts
  <2>2. T = TurnedOff(disk)
    BY <1>2, <2>1
  <2> QED
    BY <2>1, <2>2, TurnedOffOK
<1>4. BreakFence /\ poll' = poll /\ asked' \in Nat /\ UNCHANGED <<policy, now, up, runs, sent, starts>>
  BY DEF TurnOff, TriggersOK, TypeOK
<1>5. offSeen' = offSeen \/ (r = "saved" /\ T.offRev = T.rev /\ offSeen' = mem'.rev)
  BY <1>1, <1>2, <1>3 DEF Mutate
<1> QED
  BY <1>1, <1>2, <1>3, <1>4, <1>5, OutsideSaves

LEMMA TurnOnStep ==
  ASSUME TriggersOK, TurnOn
  PROVE  TriggersOK'
<1> USE DEF ghostVars
<1>1. PICK r \in Results : Mutate(TurnedOn(Fresh), r)
  BY DEF TurnOn
<1>2. PICK T : T = TurnedOn(Fresh)
  OBVIOUS
<1>3. ASSUME blocked # "unknown"
      PROVE  StateOK(T, runs, policy.once) /\ Behind(disk, T) /\ ClaimsStay(disk, T)
  <2>1. Fresh = disk /\ StateOK(disk, runs, policy.once)
    BY <1>3, StateParts
  <2>2. T = TurnedOn(disk)
    BY <1>2, <2>1
  <2> QED
    BY <2>1, <2>2, TurnedOnOK
<1>4. BreakFence /\ poll' = poll /\ asked' \in Nat /\ UNCHANGED <<policy, now, up, runs, sent, starts, offSeen>>
  BY DEF TurnOn, TriggersOK, TypeOK
<1> QED
  BY <1>1, <1>2, <1>3, <1>4, OutsideSaves

---------------------------------------------------------------------------
(* The invariant holds.                                                    *)

LEMMA TriggersStart == ASSUME Init PROVE TriggersOK
<1> USE DEF Init
<1>1. /\ Quiet \in TickRecords /\ Quiet.doing = "none" /\ NoPoll \in PollRecords
  BY TickTypes DEF NoPoll, PollRecords
<1>2. disk \in States /\ disk.events = <<>> /\ Len(disk.events) = 0 /\ Ids(disk) = {} /\ mem = disk
  <2>1. <<>> \in Seq(EventRecords) /\ Len(<<>>) = 0 /\ DOMAIN <<>> = {}
    BY EmptySeq, SequenceOf
  <2>2. Period \in DueTimes
    BY DEF DueTimes
  <2> QED
    BY <2>1, <2>2 DEF States, Ids
<1>3. TypeOK
  <2>1. "none" \in RunStates /\ 0 \in 0 .. MaxNow
    BY Bounds DEF RunStates
  <2> QED
    BY <1>1, <2>1 DEF TypeOK
<1>4. StateOK(disk, runs, policy.once)
  <2>1. disk.offRev <= disk.rev /\ disk.fired = {} /\ disk.consumed = None
    OBVIOUS
  <2>2. \A k \in Keys : runs[k] = "none"
    OBVIOUS
  <2> QED
    BY <1>2, <2>1, <2>2 DEF StateOK
<1>5. MemOK
  <2>1. [disk EXCEPT !.events = disk.events] = disk
    BY <1>2 DEF States
  <2> QED
    BY <1>2, <2>1, BehindItself DEF MemOK, Fresh
<1>6. RunsOK /\ AskOK /\ SeenOK /\ TickOK
  <2>1. mem.offRev = 0
    OBVIOUS
  <2> QED
    BY <1>1, <2>1 DEF RunsOK, AskOK, SeenOK, TickOK
<1> QED
  BY <1>3, <1>4, <1>5, <1>6 DEF TriggersOK, StoredOK

LEMMA TriggersStep ==
  ASSUME TriggersOK, [Next]_vars
  PROVE  TriggersOK'
<1>1. CASE Engine
  BY <1>1, SaveAgainStep, ReconcileOrphansStep, LookStep, FireDueStep, TrackStep, ClaimStep, LinkStep, CreateStep,
     SaveOutcomeStep DEF Engine
<1>2. CASE Ask \/ Answer \/ Owner
  BY <1>2, AskStep, AnswerStep, RunNowStep, TurnOffStep, TurnOnStep DEF Owner
<1>3. CASE Manager
  BY <1>3, ManagerStep DEF Manager
<1>4. CASE Hold \/ Release \/ Stop \/ Start \/ Clock
  BY <1>4, IdleSteps, StopStep, StartStep
<1>5. CASE UNCHANGED vars
  <2>1. UNCHANGED <<policy, now, asked, up, tick, poll, sent, starts, offSeen, disk, mem, blocked, runs>>
    BY <1>5 DEF vars, worldVars, engineVars, ghostVars
  <2> QED
    BY <2>1 DEF TriggersOK, TypeOK, StoredOK, MemOK, Fresh, RunsOK, AskOK, SeenOK, TickOK, Key
<1> QED
  BY <1>1, <1>2, <1>3, <1>4, <1>5 DEF Next

LEMMA TriggersAlways == Spec => []TriggersOK
<1>1. Init => TriggersOK
  BY TriggersStart
<1>2. TriggersOK /\ [Next]_vars => TriggersOK'
  BY TriggersStep
<1> QED
  BY <1>1, <1>2, PTL DEF Spec

(* A request is sent at most once for a scheduled time, whatever stops or  *)
(* fails between its claim, its sending and its answer (polls.ts poll).    *)
THEOREM AskedOnceHolds == Spec => []AskedOnce
<1>1. TriggersOK => AskedOnce
  BY DEF TriggersOK, TypeOK, AskedOnce
<1> QED
  BY <1>1, TriggersAlways, PTL

(* A once reservation fires one event, whether the clock, an answer or the *)
(* owner fires it (once.ts, firing.ts).                                    *)
THEOREM OnceIsOnceHolds == Spec => []OnceIsOnce
<1>1. ASSUME TriggersOK, policy.once PROVE Len(disk.events) <= 1
  BY <1>1, StateParts DEF StateOK
<1>2. TriggersOK => OnceIsOnce
  BY <1>1 DEF OnceIsOnce
<1> QED
  BY <1>2, TriggersAlways, PTL

(* An event that is told as not run has no run, then or later: not while   *)
(* its outcome is unsaved, nor when its claim was matched after a stop     *)
(* (dispatch.ts reconcile, track, dispatch).                               *)
THEOREM RefusedNeverRunsHolds == Spec => []RefusedNeverRuns
<1>1. ASSUME TriggersOK, NEW k \in Keys, Event(k, Turned) PROVE starts[k] = 0 /\ ~Live(k)
  <2>1. PICK i \in Ids(disk) : disk.events[i].key = k /\ disk.events[i].status \in Turned
    BY <1>1 DEF Event
  <2>2. runs[k] \in {"none", "refused"}
    BY <1>1, <2>1, StateParts DEF StateOK, EventOK
  <2>3. starts[k] = 0
    BY <1>1, <2>2 DEF TriggersOK, RunsOK
  <2> QED
    BY <2>2, <2>3 DEF Live
<1>2. TriggersOK => RefusedNeverRuns
  BY <1>1 DEF RefusedNeverRuns, Turned
<1> QED
  BY <1>2, TriggersAlways, PTL

(* A run of an event fired before the trigger was turned off is not        *)
(* started afterwards (views.ts launchAllowed, definitions.ts setEnabled). *)
THEOREM OffIsFinalHolds == Spec => OffIsFinal
<1> DEFINE LateEnough(k) == \E i \in Ids(disk) : disk.events[i].key = k /\ disk.events[i].from >= offSeen
<1>1. ASSUME TriggersOK, NEW k \in Keys, LaunchAllowed(k) PROVE LateEnough(k)
  <2>1. PICK i \in Ids(mem) : mem.events[i].key = k /\ mem.events[i].rev >= mem.offRev
    BY <1>1 DEF LaunchAllowed
  <2>2. i \in Ids(disk) /\ disk.events[i].key = k /\ disk.events[i].rev = mem.events[i].rev
    BY <1>1, <2>1, StateParts DEF Behind
  <2>3. disk.events[i].from = disk.events[i].rev /\ disk.events[i].rev \in Nat
    BY <1>1, <2>2, StateParts, StateEvents DEF StateOK, EventOK, EventRecords
  <2>4. offSeen \in Nat /\ mem.offRev \in Nat /\ offSeen <= mem.offRev
    BY <1>1, StateParts, StateTypes DEF TriggersOK, TypeOK, SeenOK
  <2>5. disk.events[i].from >= offSeen
    BY <2>1, <2>2, <2>3, <2>4
  <2> QED
    BY <2>2, <2>5
<1>2. ASSUME NEW k \in Keys, [Next]_vars, starts'[k] # starts[k], TriggersOK PROVE LaunchAllowed(k)
  <2>1. starts' = starts \/ \E j \in Keys : LaunchAllowed(j) /\ starts' = [starts EXCEPT ![j] = @ + 1]
    BY <1>2 DEF Next, Engine, Owner, Manager, vars, ghostVars, worldVars, engineVars, SaveAgain, ReconcileOrphans, Look,
       FireDue, Track, EndTick, Claim, Link, Create, SaveOutcome, Ask, Answer, RunNow, TurnOff, TurnOn, Launch, End,
       Resolve, Hold, Release, Stop, Start, Clock
  <2>2. PICK j \in Keys : LaunchAllowed(j) /\ starts' = [starts EXCEPT ![j] = @ + 1]
    BY <1>2, <2>1
  <2>3. j = k
    BY <1>2, <2>2 DEF TriggersOK, TypeOK
  <2> QED
    BY <2>2, <2>3
<1>3. TriggersOK /\ [Next]_vars => [\A k \in Keys : starts'[k] # starts[k] => LateEnough(k)]_vars
  BY <1>1, <1>2
<1> QED
  BY <1>3, TriggersAlways, PTL DEF Spec, OffIsFinal
=============================================================================
