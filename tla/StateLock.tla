----------------------------- MODULE StateLock -----------------------------
(***************************************************************************)
(* The lock of a state directory (instance/state-lock.ts), taken by the    *)
(* web server, the execution worker, the master host, the terminal host    *)
(* and offline tools before they touch it.                                 *)
(*                                                                         *)
(* The lock is a directory that holds one marker of its owner. A process   *)
(* prepares a directory with its marker and renames it to the lock, which  *)
(* succeeds over nothing and over an empty directory. Otherwise it removes *)
(* the markers of owners that no longer run, removes the directory when it *)
(* is empty, and tries again. Each await is a step: processes interleave   *)
(* and may end between any two.                                            *)
(*                                                                         *)
(* A process tries once (its marker is its own name here). Files that are  *)
(* no markers, unreadable markers and ports are left out.                  *)
(***************************************************************************)
EXTENDS Naturals, FiniteSets

CONSTANTS Procs,        \* processes, each with one start
          Nobody,       \* no process
          Strict,       \* offline tools, which never take over
          Pids,         \* process IDs the system gives out, again after an end
          MaxAttempts   \* renames a process tries

ASSUME LockAssumption ==
  /\ Nobody \notin Procs /\ Strict \subseteq Procs /\ Pids # {} /\ MaxAttempts \in Nat \ {0}

VARIABLES
  exists,    \* the lock directory is there
  markers,   \* the markers in it
  at,        \* where each process is
  pid, known,\* what its marker says: its pid, and whether it says when it started
  seen,      \* markers it listed and did not look at yet
  asked,     \* the owner it looks at
  attempts,  \* renames it tried
  won        \* processes that ever got the lock (history)

lockVars == <<exists, markers>>
ownVars == <<pid, known>>
vars == <<exists, markers, at, pid, known, seen, asked, attempts, won>>

Ends == {"left", "refused", "exhausted", "failed"}
Places == {"new", "check", "rename", "list", "look", "started", "unlink", "rmdir", "held", "freeing", "dead"} \cup Ends
Trying == {"check", "rename", "list", "look", "started", "unlink", "rmdir"}
Running(p) == at[p] \notin {"new", "dead"}

FirstPid == CHOOSE n \in Pids : TRUE

Init ==
  /\ exists = FALSE /\ markers = {}
  /\ at = [p \in Procs |-> "new"] /\ pid = [p \in Procs |-> FirstPid] /\ known = [p \in Procs |-> FALSE]
  /\ seen = [p \in Procs |-> {}] /\ asked = [p \in Procs |-> Nobody]
  /\ attempts = [p \in Procs |-> 0] /\ won = {}

Goes(p, place) == at' = [at EXCEPT ![p] = place]
Looking == UNCHANGED <<lockVars, ownVars, attempts, won>>

(* The process starts and prepares its marker. The system gives it a pid   *)
(* no running process has, and may not be able to say when it started.     *)
Start(p) ==
  /\ at[p] = "new"
  /\ \E n \in Pids, k \in BOOLEAN :
       /\ \A q \in Procs : Running(q) => pid[q] # n
       /\ pid' = [pid EXCEPT ![p] = n] /\ known' = [known EXCEPT ![p] = k]
  /\ Goes(p, IF p \in Strict THEN "check" ELSE "rename")
  /\ UNCHANGED <<lockVars, seen, asked, attempts, won>>

(* An offline tool refuses any lock that is there.                         *)
Check(p) ==
  /\ at[p] = "check"
  /\ Goes(p, IF exists THEN "refused" ELSE "rename")
  /\ Looking /\ UNCHANGED <<seen, asked>>

(* Variant: the prepared directory is moved over one with an owner. *)
RenameTakesOver(p) ==
  /\ at[p] = "rename"
  /\ exists' = TRUE /\ markers' = markers \cup {p} /\ won' = won \cup {p} /\ Goes(p, "held")
  /\ UNCHANGED <<attempts, ownVars, seen, asked>>

Rename(p) ==
  /\ at[p] = "rename"
  /\ \/ /\ markers = {}
        /\ exists' = TRUE /\ markers' = {p} /\ won' = won \cup {p} /\ Goes(p, "held")
        /\ UNCHANGED attempts
     \/ /\ markers # {}
        /\ Goes(p, IF p \in Strict THEN "refused" ELSE "list")
        /\ attempts' = [attempts EXCEPT ![p] = @ + 1]
        /\ UNCHANGED <<lockVars, won>>
  /\ UNCHANGED <<ownVars, seen, asked>>

(* The next turn of the loop, or its end.                                  *)
Again(p) == Goes(p, IF attempts[p] < MaxAttempts THEN "rename" ELSE "exhausted")

List(p) ==
  /\ at[p] = "list"
  /\ IF exists THEN Goes(p, "look") /\ seen' = [seen EXCEPT ![p] = markers]
               ELSE Again(p) /\ UNCHANGED seen
  /\ UNCHANGED asked /\ Looking

(* A marker is read and its pid looked up, in one step: a marker that is   *)
(* gone is passed over, an owner whose pid nobody has does not run.        *)
Look(p) ==
  /\ at[p] = "look" /\ seen[p] # {}
  /\ \E m \in seen[p] :
       /\ seen' = [seen EXCEPT ![p] = @ \ {m}]
       /\ asked' = [asked EXCEPT ![p] = m]
       /\ Goes(p, IF m \notin markers THEN "look"
                  ELSE IF \A q \in Procs : Running(q) => pid[q] # pid[m] THEN "unlink"
                  ELSE IF known[m] THEN "started" ELSE "refused")
  /\ Looking

(* The start of the process that has the pid now is compared with the one  *)
(* in the marker. The system may not tell it, or that process just ended.  *)
Compare(p) ==
  /\ at[p] = "started"
  /\ \/ Goes(p, "refused")
     \/ \E q \in Procs : /\ Running(q) /\ pid[q] = pid[asked[p]]
                         /\ Goes(p, IF q = asked[p] THEN "refused" ELSE "unlink")
  /\ Looking /\ UNCHANGED <<seen, asked>>

(* Variant: the marker of an owner that does not run is left where it is. *)
UnlinkNothing(p) ==
  /\ at[p] = "unlink" /\ Goes(p, "look")
  /\ UNCHANGED <<markers, exists, ownVars, seen, asked, attempts, won>>

Unlink(p) ==
  /\ at[p] = "unlink" /\ Goes(p, "look")
  /\ markers' = markers \ {asked[p]}
  /\ UNCHANGED <<exists, ownVars, seen, asked, attempts, won>>

Looked(p) ==
  /\ at[p] = "look" /\ seen[p] = {}
  /\ Goes(p, "rmdir") /\ Looking /\ UNCHANGED <<seen, asked>>

Rmdir == exists' = (markers # {})

Cleaned(p) ==
  /\ at[p] = "rmdir" /\ Rmdir /\ Again(p)
  /\ UNCHANGED <<markers, ownVars, seen, asked, attempts, won>>

(* release: the own marker, then the directory unless someone has it.      *)
Release(p) ==
  /\ at[p] = "held" /\ Goes(p, "freeing")
  /\ markers' = markers \ {p}
  /\ UNCHANGED <<exists, ownVars, seen, asked, attempts, won>>

Released(p) ==
  /\ at[p] = "freeing" /\ Rmdir /\ Goes(p, "left")
  /\ UNCHANGED <<markers, ownVars, seen, asked, attempts, won>>

(* A file operation fails in a way the loop does not expect.               *)
Fails(p) == at[p] \in Trying /\ Goes(p, "failed") /\ Looking /\ UNCHANGED <<seen, asked>>

Dies(p) == Running(p) /\ Goes(p, "dead") /\ Looking /\ UNCHANGED <<seen, asked>>

Step(p) ==
  \/ Start(p) \/ Check(p) \/ Rename(p) \/ List(p) \/ Look(p) \/ Compare(p) \/ Unlink(p)
  \/ Looked(p) \/ Cleaned(p) \/ Release(p) \/ Released(p) \/ Fails(p) \/ Dies(p)
Next == \E p \in Procs : Step(p)
Spec == Init /\ [][Next]_vars

(***************************************************************************)
(* Properties.                                                             *)
(***************************************************************************)
(* Types, with the directory: a marker is only in a directory that exists. *)
TypeOK ==
  /\ exists \in BOOLEAN /\ markers \subseteq Procs /\ (markers # {} => exists)
  /\ at \in [Procs -> Places] /\ pid \in [Procs -> Pids] /\ known \in [Procs -> BOOLEAN]
  /\ seen \in [Procs -> SUBSET Procs] /\ asked \in [Procs -> Procs \cup {Nobody}]
  /\ attempts \in [Procs -> Nat] /\ won \subseteq Procs

(* Never do two running processes hold the directory, whatever stale locks *)
(* are taken over at the same time.                                        *)
MutualExclusion == \A p, q \in Procs : at[p] = "held" /\ at[q] = "held" => p = q

(* A holder finds its own marker in the lock for as long as it holds it    *)
(* (validateStrictStateLease), so nobody took its lock for a stale one.    *)
HolderIsMarked == \A p \in Procs : at[p] = "held" => p \in markers

(* "Another Agent Session Tower is starting" is only said after as many    *)
(* other processes took the lock as the loop has attempts: contenders for  *)
(* a stale lock do not wear each other out.                                *)
ExhaustedMeansContended ==
  \A p \in Procs : at[p] = "exhausted" => Cardinality(won \ {p}) >= MaxAttempts

(* The lock implements the lease: its users are the processes that hold    *)
(* it, so that no two ever do and no lock passes from one to another.      *)
Users == {p \in Procs : at[p] = "held"}
Lease == INSTANCE StateLease WITH users <- Users
LeaseSpec == Lease!Spec
=============================================================================
