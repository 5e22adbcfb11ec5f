-------------------------- MODULE StateLockProofs --------------------------
(* Proofs about StateLock, for any processes, process IDs and attempts.    *)
EXTENDS StateLock, FiniteSetTheorems, TLAPS

(* At most one marker is published at a time, by its holder or by a holder *)
(* that ended since.                                                       *)
OneMarker ==
  /\ \A m, n \in markers : m = n
  /\ \A m \in markers : at[m] \in {"held", "dead"}

(* The system gives a process ID to one running process.                   *)
PidsDiffer == \A p, q \in Procs : Running(p) /\ Running(q) /\ pid[p] = pid[q] => p = q

(* An owner that is looked at has started, and one whose marker is about   *)
(* to be removed has ended, which no later step undoes.                    *)
AskedIsOver ==
  \A p \in Procs :
    /\ at[p] = "started" => asked[p] \in Procs /\ at[asked[p]] # "new"
    /\ at[p] = "unlink" => asked[p] \in Procs /\ at[asked[p]] = "dead"

(* The inductive invariant: a cleanup can only meet the marker of an ended *)
(* process, so the marker of a holder is the one in the lock.              *)
IInv == TypeOK /\ OneMarker /\ HolderIsMarked /\ PidsDiffer /\ AskedIsOver

USE DEF Ends, Places, Trying

(* Initially nothing is published.                                         *)
LEMMA InitIInv == Init => IInv
<1> SUFFICES ASSUME Init PROVE IInv OBVIOUS
<1>1. FirstPid \in Pids
  BY LockAssumption DEF FirstPid
<1> QED
  BY <1>1 DEF Init, IInv, TypeOK, OneMarker, HolderIsMarked, PidsDiffer, AskedIsOver, Running

(* Every step keeps the types.                                             *)
LEMMA TypeStep == TypeOK /\ AskedIsOver /\ [Next]_vars => TypeOK'
<1> SUFFICES ASSUME TypeOK, [Next]_vars PROVE TypeOK' OBVIOUS
<1>1. CASE UNCHANGED vars
  BY <1>1 DEF TypeOK, vars, lockVars, ownVars
<1>2. ASSUME NEW p \in Procs, Step(p) PROVE TypeOK'
  <2>1. CASE Start(p)
    BY <2>1 DEF Start, TypeOK, Goes, lockVars
  <2>2. CASE Check(p) \/ List(p) \/ Looked(p) \/ Fails(p) \/ Dies(p)
    BY <2>2 DEF Check, List, Looked, Fails, Dies, Again, Looking, TypeOK, Goes, lockVars, ownVars
  <2>3. CASE Rename(p)
    <3>1. CASE markers = {}
      BY <2>3, <3>1 DEF Rename, TypeOK, Goes, ownVars
    <3>2. CASE markers # {}
      BY <2>3, <3>2 DEF Rename, TypeOK, Goes, lockVars, ownVars
    <3> QED BY <3>1, <3>2
  <2>4. CASE Look(p)
    BY <2>4 DEF Look, Looking, TypeOK, Goes, lockVars, ownVars
  <2>5. CASE Compare(p)
    BY <2>5 DEF Compare, Looking, TypeOK, Goes, lockVars, ownVars
  <2>6. CASE Unlink(p) \/ Release(p)
    BY <2>6 DEF Unlink, Release, TypeOK, Goes, ownVars
  <2>7. CASE Cleaned(p) \/ Released(p)
    BY <2>7 DEF Cleaned, Released, Rmdir, Again, TypeOK, Goes, ownVars
  <2> QED
    BY <1>2, <2>1, <2>2, <2>3, <2>4, <2>5, <2>6, <2>7 DEF Step
<1> QED
  BY <1>1, <1>2 DEF Next

(* A step of one process leaves the place of every other.                  *)
LEMMA OthersStay ==
  ASSUME TypeOK, NEW p \in Procs, Step(p)
  PROVE  \A q \in Procs : q # p => at'[q] = at[q]
BY DEF Step, Start, Check, Rename, List, Look, Compare, Unlink, Looked, Cleaned, Release, Released,
       Fails, Dies, Again, Goes, TypeOK

(* A process that ended stays ended, and one that started stays started.   *)
LEMMA StartedOnce ==
  ASSUME TypeOK, NEW p \in Procs, Step(p), NEW q \in Procs
  PROVE  /\ at[q] = "dead" => at'[q] = "dead"
         /\ at[q] # "new" => at'[q] # "new"
<1>1. CASE q # p
  BY <1>1, OthersStay
<1>2. CASE q = p
  BY <1>2 DEF Step, Start, Check, Rename, List, Look, Compare, Unlink, Looked, Cleaned, Release, Released,
              Fails, Dies, Again, Goes, TypeOK, Running
<1> QED BY <1>1, <1>2

(* The owner a process looks at keeps having started, or having ended.     *)
LEMMA AskedStep == IInv /\ [Next]_vars => AskedIsOver'
<1> SUFFICES ASSUME IInv, [Next]_vars PROVE AskedIsOver' OBVIOUS
<1> USE DEF IInv
<1>1. CASE UNCHANGED vars
  BY <1>1 DEF AskedIsOver, vars, ownVars, lockVars
<1>2. ASSUME NEW p \in Procs, Step(p) PROVE AskedIsOver'
  <2> SUFFICES ASSUME NEW q \in Procs
               PROVE  /\ at'[q] = "started" => asked'[q] \in Procs /\ at'[asked'[q]] # "new"
                      /\ at'[q] = "unlink" => asked'[q] \in Procs /\ at'[asked'[q]] = "dead"
    BY DEF AskedIsOver
  <2> DEFINE Over(m) == /\ at[q] = "started" => m \in Procs /\ at[m] # "new"
                        /\ at[q] = "unlink" => m \in Procs /\ at[m] = "dead"
  <2>1. CASE at'[q] = at[q] /\ asked'[q] = asked[q]
    BY <1>2, <2>1, StartedOnce DEF AskedIsOver
  <2>2. CASE Look(p) /\ q = p
    <3>1. PICK m \in seen[p] :
            /\ asked' = [asked EXCEPT ![p] = m]
            /\ Goes(p, IF m \notin markers THEN "look"
                       ELSE IF \A r \in Procs : Running(r) => pid[r] # pid[m] THEN "unlink"
                       ELSE IF known[m] THEN "started" ELSE "refused")
      BY <2>2 DEF Look
    <3>2. m \in Procs /\ asked'[p] = m
      BY <3>1 DEF TypeOK
    <3>3. m \in markers => at[m] \in {"held", "dead"}
      BY DEF OneMarker
    <3>4. at'[p] = "started" => at[m] # "new"
      BY <3>1, <3>2, <3>3 DEF Goes, TypeOK
    <3>5. at'[p] = "unlink" => at[m] = "dead"
      BY <3>1, <3>2, <3>3 DEF Goes, TypeOK, Running
    <3> QED
      BY <1>2, <2>2, <3>2, <3>4, <3>5, StartedOnce
  <2>3. CASE Compare(p) /\ q = p
    <3>1. asked'[p] = asked[p] /\ at'[p] # "started"
      BY <2>3 DEF Compare, Goes, TypeOK
    <3>2. asked[p] \in Procs /\ at[asked[p]] # "new"
      BY <2>3 DEF Compare, AskedIsOver
    <3>3. at'[p] = "unlink" => at[asked[p]] = "dead"
      BY <2>3, <3>2 DEF Compare, Goes, TypeOK, PidsDiffer, Running
    <3> QED
      BY <1>2, <2>3, <3>1, <3>2, <3>3, StartedOnce
  <2>4. CASE q # p
    <3>1. asked'[q] = asked[q]
      BY <1>2, <2>4 DEF Step, Start, Check, Rename, List, Look, Compare, Unlink, Looked, Cleaned, Release,
                        Released, Fails, Dies, Looking, TypeOK
    <3> QED BY <1>2, <2>1, <2>4, <3>1, OthersStay
  <2>5. CASE q = p /\ ~Look(p) /\ ~Compare(p)
    <3>1. at'[p] \notin {"started", "unlink"}
      BY <1>2, <2>5 DEF Step, Start, Check, Rename, List, Unlink, Looked, Cleaned, Release,
                        Released, Fails, Dies, Again, Goes, TypeOK
    <3> QED BY <2>5, <3>1
  <2> QED BY <2>2, <2>3, <2>4, <2>5
<1> QED
  BY <1>1, <1>2 DEF Next

(* Process IDs only change with a start, which takes a free one.           *)
LEMMA PidsStep == IInv /\ [Next]_vars => PidsDiffer'
<1> SUFFICES ASSUME IInv, [Next]_vars PROVE PidsDiffer' OBVIOUS
<1> USE DEF IInv
<1>1. CASE UNCHANGED vars
  BY <1>1 DEF PidsDiffer, vars, ownVars, Running
<1>2. ASSUME NEW p \in Procs, Step(p) PROVE PidsDiffer'
  <2>1. CASE Start(p)
    BY <2>1 DEF Start, PidsDiffer, Running, Goes, TypeOK
  <2>2. CASE ~Start(p)
    <3>1. pid' = pid
      BY <1>2, <2>2 DEF Step, Check, Rename, List, Look, Compare, Unlink, Looked, Cleaned, Release,
                        Released, Fails, Dies, Looking, ownVars
    <3>2. at[p] # "new"
      BY <1>2, <2>2 DEF Step, Check, Rename, List, Look, Compare, Unlink, Looked, Cleaned, Release,
                        Released, Fails, Dies, Running
    <3>3. \A q \in Procs : Running(q)' => Running(q)
      BY <1>2, <3>2, OthersStay, StartedOnce DEF Running
    <3> QED
      BY <3>1, <3>3 DEF PidsDiffer
  <2> QED BY <2>1, <2>2
<1> QED
  BY <1>1, <1>2 DEF Next

(* The lock only gains a marker when it has none, and only loses those of  *)
(* ended processes and of a holder that lets go.                           *)
LEMMA MarkerStep == IInv /\ [Next]_vars => OneMarker' /\ HolderIsMarked'
<1> SUFFICES ASSUME IInv, [Next]_vars PROVE OneMarker' /\ HolderIsMarked' OBVIOUS
<1> USE DEF IInv
<1>1. CASE UNCHANGED vars
  BY <1>1 DEF OneMarker, HolderIsMarked, vars, lockVars
<1>2. ASSUME NEW p \in Procs, Step(p) PROVE OneMarker' /\ HolderIsMarked'
  <2>1. CASE Rename(p) /\ markers = {}
    <3>1. markers' = {p} /\ at' = [at EXCEPT ![p] = "held"]
      BY <2>1 DEF Rename, Goes
    <3> QED
      BY <2>1, <3>1 DEF OneMarker, HolderIsMarked, TypeOK
  <2>2. CASE Unlink(p)
    <3>1. markers' = markers \ {asked[p]} /\ at' = [at EXCEPT ![p] = "look"] /\ at[asked[p]] = "dead"
      BY <2>2 DEF Unlink, Goes, AskedIsOver
    <3>2. p \notin markers
      BY <2>2 DEF Unlink, OneMarker
    <3> QED
      BY <3>1, <3>2 DEF OneMarker, HolderIsMarked, TypeOK
  <2>3. CASE Release(p)
    BY <2>3 DEF Release, Goes, OneMarker, HolderIsMarked, TypeOK
  <2>4. CASE ~(Rename(p) /\ markers = {}) /\ ~Unlink(p) /\ ~Release(p)
    <3>1. markers' = markers
      BY <1>2, <2>4 DEF Step, Start, Check, Rename, List, Look, Compare, Looked, Cleaned,
                        Released, Fails, Dies, Looking, lockVars
    <3>2. at'[p] # "held"
      BY <1>2, <2>4 DEF Step, Start, Check, Rename, List, Look, Compare, Looked, Cleaned,
                        Released, Fails, Dies, Again, Goes, TypeOK
    <3>3. at[p] \in {"held", "dead"} => at'[p] = "dead"
      BY <1>2, <2>4 DEF Step, Start, Check, Rename, List, Look, Compare, Looked, Cleaned,
                        Released, Fails, Dies, Goes, TypeOK, Running
    <3> QED
      BY <1>2, <3>1, <3>2, <3>3, OthersStay DEF OneMarker, HolderIsMarked, TypeOK
  <2> QED BY <2>1, <2>2, <2>3, <2>4
<1> QED
  BY <1>1, <1>2 DEF Next

(* The inductive invariant is kept by every step.                          *)
LEMMA NextIInv == IInv /\ [Next]_vars => IInv'
BY TypeStep, AskedStep, PidsStep, MarkerStep DEF IInv

(* Types: a marker is only ever in a directory that exists.                *)
THEOREM TypesHold == Spec => []TypeOK
<1>1. IInv => TypeOK BY DEF IInv
<1> QED BY InitIInv, NextIInv, <1>1, PTL DEF Spec

(* A running holder's marker is in the lock (acquireLock and release).     *)
THEOREM HoldersAreMarked == Spec => []HolderIsMarked
<1>1. IInv => HolderIsMarked BY DEF IInv
<1> QED BY InitIInv, NextIInv, <1>1, PTL DEF Spec

(* One marker, and each holder has its own there: one holder.              *)
LEMMA OneHolder == IInv => MutualExclusion
BY DEF IInv, OneMarker, HolderIsMarked, MutualExclusion

(* Two processes never use a state directory at once.                      *)
THEOREM Exclusion == Spec => []MutualExclusion
BY InitIInv, NextIInv, OneHolder, PTL DEF Spec

(* A step takes the lease, gives it up, or leaves its user.                *)
LEMMA LeaseStep == IInv /\ IInv' /\ [Next]_vars => [Lease!Next]_Users
<1> SUFFICES ASSUME IInv, IInv', [Next]_vars PROVE [Lease!Next]_Users OBVIOUS
<1> USE DEF IInv
<1>1. MutualExclusion /\ MutualExclusion'
  BY OneHolder DEF OneMarker, HolderIsMarked, MutualExclusion
<1>2. CASE \A q \in Procs : at'[q] = "held" <=> at[q] = "held"
  BY <1>2 DEF Users
<1>3. ASSUME NEW p \in Procs, Step(p) PROVE [Lease!Next]_Users
  <2>1. CASE at[p] # "held" /\ at'[p] = "held"
    <3>1. markers = {}
      BY <1>3, <2>1 DEF Step, Start, Check, Rename, List, Look, Compare, Unlink, Looked, Cleaned, Release,
                        Released, Fails, Dies, Again, Goes, TypeOK
    <3>2. Users = {}
      BY <3>1 DEF HolderIsMarked, Users
    <3>3. Users' = {p}
      BY <1>1, <2>1 DEF MutualExclusion, Users
    <3> QED
      BY <3>2, <3>3 DEF Lease!Next, Lease!Take
  <2>2. CASE at[p] = "held" /\ at'[p] # "held"
    <3>1. \A q \in Procs : at'[q] # "held"
      BY <1>1, <1>3, <2>2, OthersStay DEF MutualExclusion
    <3>2. Users = {p}
      BY <1>1, <2>2 DEF MutualExclusion, Users
    <3>3. Users' = {}
      BY <3>1 DEF Users
    <3> QED
      BY <3>2, <3>3 DEF Lease!Next, Lease!Leave
  <2>3. CASE at'[p] = "held" <=> at[p] = "held"
    BY <1>2, <1>3, <2>3, OthersStay
  <2> QED BY <2>1, <2>2, <2>3
<1> QED
  BY <1>2, <1>3 DEF Next, vars

(* The lock implements the lease, whoever starts, ends or takes over a     *)
(* stale lock, and whatever the process IDs.                               *)
THEOREM ImplementsLease == Spec => LeaseSpec
<1>1. Init => Lease!Init
  BY DEF Init, Lease!Init, Users
<1> QED
  BY <1>1, InitIInv, NextIInv, LeaseStep, PTL DEF Spec, LeaseSpec, Lease!Spec
-----------------------------------------------------------------------------
(* Contenders. A marker that made a rename fail is gone before the next    *)
(* try, and its owner never comes back, so each try fails on another.      *)

Cleaning == {"list", "look", "started", "unlink", "rmdir"}

(* As many markers came and went as p failed to rename.                    *)
Cleared(p) == attempts[p] <= Cardinality(won \ markers)

(* What p has to look at before it tries again holds what is in the lock.  *)
Facing(p) ==
  /\ at[p] = "look" => markers \subseteq seen[p]
  /\ at[p] \in {"started", "unlink"} => markers \subseteq seen[p] \cup {asked[p]}
  /\ at[p] = "rmdir" => markers = {}

(* The tries of one process.                                               *)
Counted(p) ==
  /\ at[p] \in {"new", "check"} => attempts[p] = 0
  /\ at[p] \in {"rename", "exhausted"} => Cleared(p)
  /\ at[p] \in Cleaning => attempts[p] <= Cardinality(won) /\ (Cleared(p) \/ Facing(p))
  /\ at[p] = "exhausted" => attempts[p] >= MaxAttempts

(* Processes that won are or were holders, and do not try any more.        *)
WonOnce ==
  /\ IsFiniteSet(won) /\ markers \subseteq won
  /\ \A p \in won : at[p] \in {"held", "freeing", "left", "dead"}

ContendInv == IInv /\ WonOnce /\ \A p \in Procs : Counted(p)

(* What a process that won does, and how others win.                       *)
LEMMA WonStep ==
  ASSUME IInv, WonOnce, NEW p \in Procs, Step(p)
  PROVE  /\ WonOnce'
         /\ \/ won' = won /\ markers' \subseteq markers
            \/ markers = {} /\ p \notin won /\ won' = won \cup {p} /\ markers' = {p}
<1>1. TypeOK
  BY DEF IInv
<1>2. CASE at[p] = "rename" /\ Rename(p) /\ markers = {}
  <2>1. markers' = {p} /\ won' = won \cup {p} /\ at' = [at EXCEPT ![p] = "held"] /\ p \notin won
    BY <1>2 DEF Rename, Goes, WonOnce
  <2>2. IsFiniteSet(won')
    BY <2>1, FS_AddElement DEF WonOnce
  <2> QED
    BY <1>1, <1>2, <2>1, <2>2 DEF WonOnce, TypeOK
<1>3. CASE ~(Rename(p) /\ markers = {})
  <2>1. won' = won /\ markers' \subseteq markers
    BY <1>3 DEF Step, Start, Check, Rename, List, Look, Compare, Unlink, Looked, Cleaned, Release, Released,
                Fails, Dies, Looking, lockVars
  <2>2. at[p] \in {"held", "freeing", "left", "dead"} => at'[p] \in {"held", "freeing", "left", "dead"}
    BY <1>1 DEF Step, Start, Check, Rename, List, Look, Compare, Unlink, Looked, Cleaned, Release, Released,
                Fails, Dies, Again, Goes, TypeOK
  <2>3. \A q \in won' : at'[q] \in {"held", "freeing", "left", "dead"}
    BY <1>1, <2>1, <2>2, OthersStay DEF WonOnce, TypeOK
  <2> QED
    BY <2>1, <2>3 DEF WonOnce
<1> QED
  BY <1>2, <1>3 DEF Rename

(* What came and went only grows.                                          *)
LEMMA GoneGrows ==
  ASSUME IInv, WonOnce, NEW p \in Procs, Step(p)
  PROVE  /\ Cardinality(won) \in Nat /\ Cardinality(won \ markers) \in Nat
         /\ Cardinality(won') \in Nat /\ Cardinality(won' \ markers') \in Nat
         /\ Cardinality(won \ markers) <= Cardinality(won)
         /\ Cardinality(won) <= Cardinality(won')
         /\ Cardinality(won \ markers) <= Cardinality(won' \ markers')
         /\ markers = {} => Cardinality(won) <= Cardinality(won' \ markers')
<1>1. /\ WonOnce'
      /\ \/ won' = won /\ markers' \subseteq markers
         \/ markers = {} /\ p \notin won /\ won' = won \cup {p} /\ markers' = {p}
  BY WonStep
<1>2. /\ won \subseteq won' /\ won \ markers \subseteq won' \ markers'
      /\ markers = {} => won \subseteq won' \ markers'
  BY <1>1
<1>3. IsFiniteSet(won) /\ IsFiniteSet(won')
  BY <1>1 DEF WonOnce
<1>4. IsFiniteSet(won \ markers) /\ IsFiniteSet(won' \ markers')
  BY <1>3, FS_Subset
<1>5. Cardinality(won \ markers) <= Cardinality(won)
  BY <1>3, FS_Subset
<1>6. Cardinality(won) <= Cardinality(won')
  BY <1>2, <1>3, FS_Subset
<1>7. Cardinality(won \ markers) <= Cardinality(won' \ markers')
  BY <1>2, <1>4, FS_Subset
<1>8. markers = {} => Cardinality(won) <= Cardinality(won' \ markers')
  BY <1>2, <1>4, FS_Subset
<1> QED
  BY <1>3, <1>4, <1>5, <1>6, <1>7, <1>8, FS_CardinalityType

(* A step of another process leaves what p counts.                         *)
LEMMA OthersCount ==
  ASSUME ContendInv, NEW q \in Procs, Step(q), NEW p \in Procs \ {q}
  PROVE  Counted(p)'
<1>1. IInv /\ WonOnce /\ TypeOK /\ Counted(p)
  BY DEF ContendInv, IInv
<1>2. at'[p] = at[p] /\ attempts'[p] = attempts[p] /\ seen'[p] = seen[p] /\ asked'[p] = asked[p]
  BY <1>1, OthersStay DEF Step, Start, Check, Rename, List, Look, Compare, Unlink, Looked, Cleaned, Release, Released,
                          Fails, Dies, Looking, TypeOK
<1>3. attempts[p] \in Nat /\ MaxAttempts \in Nat
  BY <1>1, LockAssumption DEF TypeOK
<1>4. Cleared(p) => Cleared(p)'
  BY <1>1, <1>2, <1>3, GoneGrows DEF Cleared
<1>5. ASSUME at[p] \in Cleaning PROVE attempts'[p] <= Cardinality(won') /\ (Cleared(p)' \/ Facing(p)')
  <2>1. attempts[p] <= Cardinality(won) /\ (Cleared(p) \/ Facing(p))
    BY <1>1, <1>5 DEF Counted
  <2>2. attempts'[p] <= Cardinality(won')
    BY <1>1, <1>2, <1>3, <2>1, GoneGrows
  <2>3. CASE Cleared(p) \/ markers = {}
    BY <1>1, <1>2, <1>3, <1>4, <2>1, <2>2, <2>3, GoneGrows DEF Cleared
  <2>4. CASE Facing(p) /\ markers # {}
    <3>1. markers' \subseteq markers
      BY <1>1, <2>4, WonStep
    <3> QED
      BY <1>2, <2>2, <2>4, <3>1 DEF Facing
  <2> QED
    BY <2>1, <2>3, <2>4
<1> QED
  BY <1>1, <1>2, <1>4, <1>5 DEF Counted

(* A step of p itself.                                                     *)
LEMMA OwnCount ==
  ASSUME ContendInv, NEW p \in Procs, Step(p)
  PROVE  Counted(p)'
<1>1. IInv /\ WonOnce /\ TypeOK /\ Counted(p) /\ OneMarker
  BY DEF ContendInv, IInv
<1>2. attempts[p] \in Nat /\ MaxAttempts \in Nat /\ at \in [Procs -> Places]
  BY <1>1, LockAssumption DEF TypeOK
<1>3. /\ Cardinality(won) \in Nat /\ Cardinality(won \ markers) \in Nat
      /\ Cardinality(won \ markers) <= Cardinality(won)
      /\ Cleared(p) /\ attempts'[p] = attempts[p] => Cleared(p)'
  <2>1. /\ Cardinality(won) \in Nat /\ Cardinality(won \ markers) \in Nat
        /\ Cardinality(won' \ markers') \in Nat
        /\ Cardinality(won \ markers) <= Cardinality(won)
        /\ Cardinality(won \ markers) <= Cardinality(won' \ markers')
    BY <1>1, GoneGrows
  <2> QED
    BY <1>2, <2>1 DEF Cleared
<1>4. markers = {} /\ attempts[p] <= Cardinality(won) /\ attempts'[p] = attempts[p] => Cleared(p)'
  <2>1. /\ Cardinality(won) \in Nat /\ Cardinality(won' \ markers') \in Nat
        /\ markers = {} => Cardinality(won) <= Cardinality(won' \ markers')
    BY <1>1, GoneGrows
  <2> QED
    BY <1>2, <2>1 DEF Cleared
<1>5. CASE Start(p) \/ Check(p)
  <2>1. attempts' = attempts /\ attempts[p] = 0 /\ at'[p] \in {"check", "rename", "refused"}
    BY <1>1, <1>2, <1>5 DEF Start, Check, Goes, Looking, Counted
  <2>2. Cleared(p)'
    BY <1>2, <1>3, <2>1 DEF Cleared
  <2> QED
    BY <2>1, <2>2 DEF Counted, Cleaning
<1>6. CASE Rename(p)
  <2>1. CASE markers = {}
    <3>1. at'[p] = "held"
      BY <1>2, <1>6, <2>1 DEF Rename, Goes
    <3> QED
      BY <3>1 DEF Counted, Cleaning
  <2>2. CASE markers # {}
    <3>1. /\ at'[p] \in {"refused", "list"} /\ attempts'[p] = attempts[p] + 1
          /\ markers' = markers /\ won' = won
      BY <1>1, <1>2, <1>6, <2>2 DEF Rename, Goes, lockVars, TypeOK
    <3>2. PICK m \in markers : TRUE
      BY <2>2
    <3>3. m \in won /\ won \ markers \subseteq won \ {m} /\ IsFiniteSet(won)
      BY <1>1, <3>2 DEF WonOnce
    <3>4. Cardinality(won \ {m}) = Cardinality(won) - 1 /\ IsFiniteSet(won \ {m})
      BY <3>3, FS_RemoveElement
    <3>5. Cardinality(won \ markers) <= Cardinality(won) - 1
      BY <3>3, <3>4, FS_Subset
    <3>6. attempts[p] <= Cardinality(won \ markers)
      BY <1>1, <1>6 DEF Rename, Counted, Cleared
    <3>7. attempts'[p] <= Cardinality(won')
      BY <1>2, <1>3, <3>1, <3>5, <3>6
    <3> QED
      BY <3>1, <3>7 DEF Counted, Cleaning, Facing
  <2> QED
    BY <2>1, <2>2
<1>7. CASE List(p)
  <2>1. /\ attempts' = attempts /\ markers' = markers /\ won' = won
        /\ attempts[p] <= Cardinality(won)
    BY <1>1, <1>7 DEF List, Looking, lockVars, Counted, Cleaning
  <2>2. CASE exists
    <3>1. at'[p] = "look" /\ seen'[p] = markers
      BY <1>1, <1>2, <1>7, <2>2 DEF List, Goes, TypeOK
    <3> QED
      BY <2>1, <3>1 DEF Counted, Cleaning, Facing
  <2>3. CASE ~exists
    <3>1. markers = {} /\ at'[p] = IF attempts[p] < MaxAttempts THEN "rename" ELSE "exhausted"
      BY <1>1, <1>2, <1>7, <2>3 DEF List, Again, Goes, TypeOK
    <3>2. Cleared(p)'
      BY <1>4, <2>1, <3>1
    <3> QED
      BY <1>2, <2>1, <3>1, <3>2 DEF Counted, Cleaning
  <2> QED
    BY <2>2, <2>3
<1>8. CASE Look(p)
  <2>1. /\ attempts' = attempts /\ markers' = markers /\ won' = won
        /\ attempts[p] <= Cardinality(won) /\ (Cleared(p) \/ markers \subseteq seen[p])
    BY <1>1, <1>8 DEF Look, Looking, lockVars, Counted, Cleaning, Facing
  <2>2. PICK m \in seen[p] :
          /\ seen' = [seen EXCEPT ![p] = @ \ {m}] /\ asked' = [asked EXCEPT ![p] = m]
          /\ Goes(p, IF m \notin markers THEN "look"
                     ELSE IF \A q \in Procs : Running(q) => pid[q] # pid[m] THEN "unlink"
                     ELSE IF known[m] THEN "started" ELSE "refused")
    BY <1>8 DEF Look
  <2>3. /\ at'[p] \in {"look", "unlink", "started", "refused"} /\ (at'[p] = "look" => m \notin markers)
        /\ seen'[p] = seen[p] \ {m} /\ asked'[p] = m
    BY <1>1, <1>2, <2>2 DEF Goes, TypeOK
  <2>4. Cleared(p)' \/ Facing(p)'
    BY <1>3, <2>1, <2>3 DEF Facing
  <2> QED
    BY <2>1, <2>3, <2>4 DEF Counted, Cleaning
<1>9. CASE Compare(p)
  <2>1. /\ attempts' = attempts /\ markers' = markers /\ won' = won /\ seen' = seen /\ asked' = asked
        /\ attempts[p] <= Cardinality(won) /\ (Cleared(p) \/ markers \subseteq seen[p] \cup {asked[p]})
        /\ at'[p] \in {"refused", "unlink"}
    BY <1>1, <1>2, <1>9 DEF Compare, Goes, Looking, lockVars, Counted, Cleaning, Facing
  <2>2. Cleared(p)' \/ Facing(p)'
    BY <1>3, <2>1 DEF Facing
  <2> QED
    BY <2>1, <2>2 DEF Counted, Cleaning
<1>10. CASE Unlink(p)
  <2>1. /\ attempts' = attempts /\ markers' = markers \ {asked[p]} /\ won' = won /\ seen' = seen
        /\ attempts[p] <= Cardinality(won) /\ (Cleared(p) \/ markers \subseteq seen[p] \cup {asked[p]})
        /\ at'[p] = "look"
    BY <1>1, <1>2, <1>10 DEF Unlink, Goes, Counted, Cleaning, Facing
  <2>2. Cleared(p)' \/ Facing(p)'
    BY <1>3, <2>1 DEF Facing
  <2> QED
    BY <2>1, <2>2 DEF Counted, Cleaning
<1>11. CASE Looked(p)
  <2>1. /\ attempts' = attempts /\ markers' = markers /\ won' = won
        /\ attempts[p] <= Cardinality(won) /\ (Cleared(p) \/ markers = {})
        /\ at'[p] = "rmdir"
    BY <1>1, <1>2, <1>11 DEF Looked, Goes, Looking, lockVars, Counted, Cleaning, Facing
  <2>2. Cleared(p)' \/ Facing(p)'
    BY <1>3, <2>1 DEF Facing
  <2> QED
    BY <2>1, <2>2 DEF Counted, Cleaning
<1>12. CASE Cleaned(p)
  <2>1. /\ attempts' = attempts /\ attempts[p] <= Cardinality(won) /\ (Cleared(p) \/ markers = {})
        /\ at'[p] = IF attempts[p] < MaxAttempts THEN "rename" ELSE "exhausted"
    BY <1>1, <1>2, <1>12 DEF Cleaned, Again, Goes, Counted, Cleaning, Facing
  <2>2. Cleared(p)'
    BY <1>3, <1>4, <2>1
  <2> QED
    BY <1>2, <2>1, <2>2 DEF Counted, Cleaning
<1>13. CASE Release(p) \/ Released(p) \/ Fails(p) \/ Dies(p)
  <2>1. at'[p] \in {"freeing", "left", "failed", "dead"}
    BY <1>2, <1>13 DEF Release, Released, Fails, Dies, Goes
  <2> QED
    BY <2>1 DEF Counted, Cleaning
<1> QED
  BY <1>5, <1>6, <1>7, <1>8, <1>9, <1>10, <1>11, <1>12, <1>13 DEF Step

(* Every step keeps the count.                                             *)
LEMMA ContendStep == ContendInv /\ [Next]_vars => ContendInv'
<1> SUFFICES ASSUME ContendInv, [Next]_vars PROVE ContendInv' OBVIOUS
<1>1. IInv'
  BY NextIInv DEF ContendInv
<1>2. CASE UNCHANGED vars
  <2>1. UNCHANGED <<markers, at, seen, asked, attempts, won>>
    BY <1>2 DEF vars, lockVars
  <2>2. WonOnce' /\ \A p \in Procs : Counted(p)'
    BY <2>1 DEF ContendInv, WonOnce, Counted, Cleared, Facing
  <2> QED
    BY <1>1, <2>2 DEF ContendInv
<1>3. ASSUME NEW q \in Procs, Step(q) PROVE ContendInv'
  <2>1. WonOnce'
    BY <1>3, WonStep DEF ContendInv
  <2>2. \A p \in Procs : Counted(p)'
    BY <1>3, OwnCount, OthersCount
  <2> QED
    BY <1>1, <2>1, <2>2 DEF ContendInv
<1> QED
  BY <1>2, <1>3 DEF Next

(* Nobody is told that another process is starting before as many others   *)
(* took the lock as it tried: a stale lock, whoever cleans it up with it,  *)
(* does not use up its attempts (acquireLock).                             *)
THEOREM ExhaustedHolds == Spec => []ExhaustedMeansContended
<1>1. Init => ContendInv
  <2> SUFFICES ASSUME Init PROVE ContendInv OBVIOUS
  <2>1. won = {} /\ IsFiniteSet(won)
    BY FS_EmptySet DEF Init
  <2>2. WonOnce
    BY <2>1 DEF Init, WonOnce
  <2>3. ASSUME NEW p \in Procs PROVE Counted(p)
    <3>1. at[p] = "new" /\ attempts[p] = 0
      BY <2>3 DEF Init
    <3> QED
      BY <3>1 DEF Counted, Cleaning
  <2> QED
    BY <2>2, <2>3, InitIInv DEF ContendInv
<1>2. ContendInv => ExhaustedMeansContended
  <2> SUFFICES ASSUME ContendInv, NEW p \in Procs, at[p] = "exhausted"
               PROVE  Cardinality(won \ {p}) >= MaxAttempts
    BY DEF ExhaustedMeansContended
  <2>1. won \ {p} = won /\ IsFiniteSet(won)
    BY DEF ContendInv, WonOnce
  <2>2. MaxAttempts <= attempts[p] /\ attempts[p] <= Cardinality(won \ markers)
    BY DEF ContendInv, Counted, Cleared
  <2>3. Cardinality(won \ markers) <= Cardinality(won) /\ Cardinality(won) \in Nat /\ Cardinality(won \ markers) \in Nat
    BY <2>1, FS_Subset, FS_CardinalityType
  <2>4. attempts[p] \in Nat /\ MaxAttempts \in Nat
    BY LockAssumption DEF ContendInv, IInv, TypeOK
  <2> QED
    BY <2>1, <2>2, <2>3, <2>4
<1> QED
  BY <1>1, <1>2, ContendStep, PTL DEF Spec
=============================================================================
