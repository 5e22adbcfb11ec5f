------------------------- MODULE UpdateDrainProofs -------------------------
(***************************************************************************)
(* Proofs about the update drain, for every number of requests, updates    *)
(* and faults: its types, that a turn is asked to wrap up at most once,    *)
(* that nothing brings back a turn the owner stopped, and that a turn the  *)
(* update interrupted is carried on, once. And, of the other half of an    *)
(* update, about the trial of the new version: it can always go back, and  *)
(* the version under trial is held from the worker.                        *)
(***************************************************************************)
EXTENDS UpdateDrain, UpdateTrial, FiniteSetTheorems, TLAPS

(***************************************************************************)
(* changed(), stage by stage.                                              *)
(***************************************************************************)
(* Mirroring touches the wrap-ups only.                                    *)
LEMMA MirroredFrame ==
  ASSUME NEW m \in States
  PROVE  /\ Mirrored(m) \in States
         /\ Mirrored(m) = [m EXCEPT !.wrap = Mirrored(m).wrap]
BY DEF Mirrored, States

(* A turn that runs during an update is registered as a new target.        *)
LEMMA RegisteredFrame ==
  ASSUME NEW m \in States
  PROVE  /\ Registered(m) \in States
         /\ Registered(m) = [m EXCEPT !.target = Registered(m).target]
         /\ \/ Registered(m).target = m.target
            \/ m.turn = "running" /\ ~m.target.on /\ Registered(m).target = NewTarget
         /\ (m.drain = "active" /\ m.turn = "running") => Registered(m).target.on
<1>1. PICK g \in Targets : g = NewTarget /\ g.on
  <2>1. PICK n : n = NoTarget
    OBVIOUS
  <2>2. n \in Targets
    BY <2>1 DEF NoTarget, Targets
  <2>3. PICK g : g = [n EXCEPT !.on = TRUE]
    OBVIOUS
  <2>4. g \in Targets /\ g.on
    BY <2>2, <2>3 DEF Targets
  <2>5. g = NewTarget
    BY <2>1, <2>3 DEF NewTarget
  <2> QED
    BY <2>4, <2>5
<1>2. CASE m.drain = "active" /\ m.turn = "running" /\ ~m.target.on
  <2>1. Registered(m) = [m EXCEPT !.target = g]
    BY <1>1, <1>2 DEF Registered
  <2>2. [m EXCEPT !.target = g] \in States /\ [m EXCEPT !.target = g].target = g
    BY DEF States
  <2> QED BY <1>1, <1>2, <2>1, <2>2
<1>3. CASE ~(m.drain = "active" /\ m.turn = "running" /\ ~m.target.on)
  <2>1. Registered(m) = m
    BY <1>3 DEF Registered
  <2>2. m = [m EXCEPT !.target = m.target]
    BY DEF States
  <2> QED BY <1>3, <2>1, <2>2
<1> QED BY <1>2, <1>3

(* Carrying a turn on queues the update's continuation or merges the       *)
(* permission's; no other one becomes queued.                              *)
LEMMA CarriedFrame ==
  ASSUME NEW m \in States
  PROVE  /\ Carried(m) \in States
         /\ Carried(m) = [m EXCEPT !.cont = Carried(m).cont, !.merged = Carried(m).merged]
         /\ \A k \in Conts \ {"update"} : Carried(m).cont[k] \in {m.cont[k], "removed"}
BY DEF Carried, States, Conts

(* An update that was given up is forgotten.                               *)
LEMMA ForgottenFrame ==
  ASSUME NEW m \in States, NEW n, n = [m EXCEPT !.drain = "off", !.seq = 0]
  PROVE  /\ n \in States /\ n.drain = "off"
         /\ n.turn = m.turn /\ n.owner = m.owner /\ n.receipt = m.receipt
         /\ n.target = m.target /\ n.cont = m.cont /\ n.merged = m.merged
<1>1. n = [turn |-> m.turn, owner |-> m.owner, drain |-> "off", seq |-> 0, target |-> m.target,
           cont |-> m.cont, merged |-> m.merged, receipt |-> m.receipt, wrap |-> m.wrap]
  BY DEF States
<1> QED BY <1>1 DEF States

(* What track leaves: types, the turn, and a target only for a turn that   *)
(* runs. A turn is carried on only when it ended and its owner did not     *)
(* stop it.                                                                *)
LEMMA TrackedFrame ==
  ASSUME NEW m \in States
  PROVE  /\ Tracked(m) \in States
         /\ Tracked(m).turn = m.turn /\ Tracked(m).owner = m.owner /\ Tracked(m).receipt = m.receipt
         /\ Tracked(m).target.on => Tracked(m).turn = "running"
         /\ (Tracked(m).drain = "active" /\ m.turn = "running") => Tracked(m).target.on
         /\ \/ Tracked(m).target = m.target
            \/ m.turn = "running" /\ ~m.target.on /\ Tracked(m).target = NewTarget
            \/ m.turn # "running" /\ Tracked(m).target = NoTarget
         /\ (m.turn = "running" \/ m.owner) => Tracked(m).cont = m.cont /\ Tracked(m).merged = m.merged
<1> DEFINE r == Registered(m)
           t == IF ~Settles(r) THEN r
                ELSE [(IF Interrupted(r) THEN Carried(r) ELSE r) EXCEPT !.target = NoTarget]
<1>1. /\ r \in States /\ r = [m EXCEPT !.target = r.target]
      /\ \/ r.target = m.target
         \/ m.turn = "running" /\ ~m.target.on /\ r.target = NewTarget
      /\ (m.drain = "active" /\ m.turn = "running") => r.target.on
  BY RegisteredFrame
<1>2. r.turn = m.turn /\ r.owner = m.owner /\ r.receipt = m.receipt /\ r.cont = m.cont /\ r.merged = m.merged /\ r.drain = m.drain
  BY <1>1 DEF States
<1>3. /\ Carried(r) \in States
      /\ Carried(r) = [r EXCEPT !.cont = Carried(r).cont, !.merged = Carried(r).merged]
  BY <1>1, CarriedFrame
<1>4. NoTarget \in Targets /\ NoTarget.on = FALSE
  BY DEF NoTarget, Targets
<1>5. /\ t \in States
      /\ t.turn = m.turn /\ t.owner = m.owner /\ t.receipt = m.receipt /\ t.drain = m.drain
      /\ t.target.on => t.turn = "running"
      /\ (t.drain = "active" /\ m.turn = "running") => t.target.on
      /\ \/ t.target = m.target
         \/ m.turn = "running" /\ ~m.target.on /\ t.target = NewTarget
         \/ m.turn # "running" /\ t.target = NoTarget
      /\ (m.turn = "running" \/ m.owner) => t.cont = m.cont /\ t.merged = m.merged
  <2>1. CASE ~Settles(r)
    <3>1. t = r
      BY <2>1
    <3>2. t.target.on => t.turn = "running"
      BY <1>1, <2>1, <3>1 DEF Settles, Ended, Finished, States
    <3> QED BY <1>1, <1>2, <3>1, <3>2
  <2>2. CASE Settles(r) /\ Interrupted(r)
    <3>1. t = [Carried(r) EXCEPT !.target = NoTarget]
      BY <2>2
    <3>2. m.turn # "running" /\ ~m.owner
      BY <1>2, <2>2 DEF Settles, Ended, Finished, Interrupted
    <3>3. PICK c \in States : c = Carried(r) /\ c = [r EXCEPT !.cont = c.cont, !.merged = c.merged]
      BY <1>3
    <3>4. c.turn = r.turn /\ c.owner = r.owner /\ c.receipt = r.receipt /\ c.drain = r.drain
      BY <1>1, <3>3 DEF States
    <3>5. PICK g \in Targets : g = NoTarget
      BY <1>4
    <3>6. PICK u : u = t /\ u = [c EXCEPT !.target = g]
      BY <3>1, <3>3, <3>5
    <3>7. u \in States /\ u.turn = c.turn /\ u.owner = c.owner /\ u.receipt = c.receipt /\ u.drain = c.drain /\ u.target = g
      BY <3>6 DEF States
    <3>8. t \in States /\ t.turn = m.turn /\ t.owner = m.owner /\ t.receipt = m.receipt /\ t.drain = m.drain /\ t.target = NoTarget
      BY <1>2, <3>4, <3>5, <3>6, <3>7
    <3> QED BY <3>2, <3>8, <1>4
  <2>3. CASE Settles(r) /\ ~Interrupted(r)
    <3>1. t = [r EXCEPT !.target = NoTarget]
      BY <2>3
    <3>2. m.turn # "running"
      BY <1>2, <2>3 DEF Settles, Ended, Finished
    <3>3. /\ t \in States /\ t.turn = m.turn /\ t.owner = m.owner /\ t.receipt = m.receipt /\ t.drain = m.drain /\ t.target = NoTarget
          /\ t.cont = m.cont /\ t.merged = m.merged
      BY <1>1, <1>2, <1>4, <3>1 DEF States
    <3> QED BY <3>2, <3>3, <1>4
  <2> QED BY <2>1, <2>2, <2>3
<1>6. Tracked(m) = IF t.drain = "ended" /\ ~t.target.on THEN [t EXCEPT !.drain = "off", !.seq = 0] ELSE t
  BY DEF Tracked
<1> HIDE DEF t
<1>7. CASE t.drain = "ended" /\ ~t.target.on
  <2>1. Tracked(m) = [t EXCEPT !.drain = "off", !.seq = 0]
    BY <1>6, <1>7
  <2>2. /\ Tracked(m) \in States /\ Tracked(m).turn = t.turn /\ Tracked(m).owner = t.owner /\ Tracked(m).receipt = t.receipt
        /\ Tracked(m).target = t.target /\ Tracked(m).drain = "off" /\ Tracked(m).cont = t.cont /\ Tracked(m).merged = t.merged
    BY <1>5, <2>1, ForgottenFrame
  <2> QED BY <1>5, <2>2
<1>8. CASE ~(t.drain = "ended" /\ ~t.target.on)
  BY <1>5, <1>6, <1>8
<1> QED BY <1>7, <1>8

(* The sweep only cancels, and leaves nothing queued for a stopped turn.   *)
LEMMA SweptFrame ==
  ASSUME NEW m \in States
  PROVE  /\ Swept(m) \in States
         /\ Swept(m) = [m EXCEPT !.cont = Swept(m).cont]
         /\ Swept(m).cont["wakeup"] = m.cont["wakeup"]
         /\ \A k \in Conts : Swept(m).cont[k] # m.cont[k] => m.cont[k] = "queued" /\ Swept(m).cont[k] = "cancelled"
         /\ m.owner => Swept(m).cont["permission"] # "queued"
BY DEF Swept, Sweeps, States, Conts

(* What every change leaves.                                               *)
LEMMA ChangedFrame ==
  ASSUME NEW m \in States, Changed(m)
  PROVE  /\ s' \in States
         /\ s'.turn = m.turn /\ s'.owner = m.owner
         /\ s'.target.on => s'.turn = "running"
         /\ (s'.drain = "active" /\ s'.turn = "running") => s'.target.on
         /\ \/ s'.target = m.target
            \/ m.turn = "running" /\ ~m.target.on /\ s'.target = NewTarget
            \/ m.turn # "running" /\ s'.target = NoTarget
         /\ (m.turn = "running" \/ m.owner) =>
              /\ s'.merged = m.merged
              /\ s'.cont["wakeup"] = m.cont["wakeup"]
              /\ \A k \in Conts : s'.cont[k] # m.cont[k] => m.cont[k] = "queued" /\ s'.cont[k] = "cancelled"
         /\ m.owner => s'.cont["permission"] # "queued"
         /\ resumed \in Nat => resumed' \in Nat
<1> DEFINE a == Mirrored(m)
           n == Tracked(a)
<1>1. a \in States /\ a = [m EXCEPT !.wrap = a.wrap]
  BY MirroredFrame
<1>2. a.turn = m.turn /\ a.owner = m.owner /\ a.target = m.target /\ a.cont = m.cont /\ a.merged = m.merged
  BY <1>1 DEF States
<1>3. /\ n \in States
      /\ n.turn = a.turn /\ n.owner = a.owner
      /\ n.target.on => n.turn = "running"
      /\ (n.drain = "active" /\ a.turn = "running") => n.target.on
      /\ \/ n.target = a.target
         \/ a.turn = "running" /\ ~a.target.on /\ n.target = NewTarget
         \/ a.turn # "running" /\ n.target = NoTarget
      /\ (a.turn = "running" \/ a.owner) => n.cont = a.cont /\ n.merged = a.merged
  BY <1>1, TrackedFrame
<1>4. /\ s' = Swept(n)
      /\ resumed' = IF (n.merged /\ ~m.merged) \/ (n.cont["update"] = "queued" /\ m.cont["update"] # "queued")
                    THEN resumed + 1 ELSE resumed
  BY DEF Changed
<1> HIDE DEF n, a
<1>5. /\ s' \in States
      /\ s' = [n EXCEPT !.cont = s'.cont]
      /\ s'.cont["wakeup"] = n.cont["wakeup"]
      /\ \A k \in Conts : s'.cont[k] # n.cont[k] => n.cont[k] = "queued" /\ s'.cont[k] = "cancelled"
      /\ n.owner => s'.cont["permission"] # "queued"
  BY <1>3, <1>4, SweptFrame
<1>6. s'.turn = n.turn /\ s'.owner = n.owner /\ s'.target = n.target /\ s'.drain = n.drain /\ s'.merged = n.merged
  BY <1>3, <1>5 DEF States
<1>7. resumed \in Nat => resumed' \in Nat
  BY <1>4
<1> QED BY <1>2, <1>3, <1>5, <1>6, <1>7

(***************************************************************************)
(* The runs each action hands to changed().                                *)
(***************************************************************************)
(* The fields that flags and wrap-ups leave alone.                         *)
SameTurn(n, m) ==
  n.turn = m.turn /\ n.owner = m.owner /\ n.drain = m.drain /\ n.merged = m.merged /\ n.cont = m.cont

(* A target's flags change only while the turn is followed.                *)
LEMMA FlagFrame ==
  ASSUME NEW m \in States, NEW is \in BOOLEAN
  PROVE  /\ Sending(m, is) \in States /\ Reached(m, is) \in States
         /\ SameTurn(Sending(m, is), m) /\ SameTurn(Reached(m, is), m)
         /\ Sending(m, is).target.on = m.target.on /\ Reached(m, is).target.on = m.target.on
         /\ Sending(m, is).target.reached = m.target.reached /\ Reached(m, is).target.sending = m.target.sending
         /\ Sending(m, is).target.stopping = m.target.stopping /\ Reached(m, is).target.stopping = m.target.stopping
         /\ m.target.on => Sending(m, is).target.sending = is /\ Reached(m, is).target.reached = is
         /\ Reached(m, is).target.reached \in {m.target.reached, is}
<1>1. m.target \in Targets
  BY DEF States
<1>2. CASE m.target.on
  <2>1. PICK n \in States : n = [m EXCEPT !.target = [m.target EXCEPT !.sending = is]]
    BY <1>1 DEF States, Targets
  <2>2. n = Sending(m, is)
    BY <1>1, <1>2, <2>1 DEF Sending, States, Targets
  <2>3. PICK r \in States : r = [m EXCEPT !.target = [m.target EXCEPT !.reached = is]]
    BY <1>1 DEF States, Targets
  <2>4. r = Reached(m, is)
    BY <1>1, <1>2, <2>3 DEF Reached, States, Targets
  <2>5. SameTurn(n, m) /\ n.target = [m.target EXCEPT !.sending = is]
    BY <2>1 DEF SameTurn, States
  <2>6. SameTurn(r, m) /\ r.target = [m.target EXCEPT !.reached = is]
    BY <2>3 DEF SameTurn, States
  <2>7. /\ n.target.on = m.target.on /\ n.target.sending = is
        /\ n.target.reached = m.target.reached /\ n.target.stopping = m.target.stopping
    BY <1>1, <2>5 DEF Targets
  <2>8. /\ r.target.on = m.target.on /\ r.target.reached = is
        /\ r.target.sending = m.target.sending /\ r.target.stopping = m.target.stopping
    BY <1>1, <2>6 DEF Targets
  <2> QED BY <2>2, <2>4, <2>5, <2>6, <2>7, <2>8
<1>3. CASE ~m.target.on
  BY <1>3 DEF Sending, Reached, SameTurn
<1> QED BY <1>2, <1>3

(* A wrap-up's status changes nothing else.                                *)
LEMMA WrapFrame ==
  ASSUME NEW m \in States, NEW w \in Wraps,
         NEW st \in {"none", "queued", "removed", "inserting", "delivered", "done", "error", "turn"}
  PROVE  /\ [m EXCEPT !.wrap[w] = st] \in States
         /\ SameTurn([m EXCEPT !.wrap[w] = st], m)
         /\ [m EXCEPT !.wrap[w] = st].target = m.target
BY DEF SameTurn, States

(* Putting back a request that was not handed over removes it, ends the    *)
(* sending, and removes continuations of a turn that ended meanwhile.      *)
LEMMA RemovedFrame ==
  ASSUME NEW m \in States, NEW w \in Wraps
  PROVE  LET n == RemovedUnsent(m, w) IN
         /\ n \in States /\ n.turn = m.turn /\ n.owner = m.owner /\ n.merged = m.merged /\ n.drain = m.drain
         /\ n.target.on = m.target.on
         /\ n.target.reached \in {m.target.reached, FALSE} /\ n.target.stopping = m.target.stopping
         /\ m.turn # "completed" => n.cont = m.cont
         /\ \A k \in Conts : n.cont[k] \in {m.cont[k], "removed"}
<1>1. CASE m.wrap[w] # "queued"
  <2>1. RemovedUnsent(m, w) = Sending(m, FALSE)
    BY <1>1 DEF RemovedUnsent
  <2>2. /\ Sending(m, FALSE) \in States /\ SameTurn(Sending(m, FALSE), m)
        /\ Sending(m, FALSE).target.on = m.target.on /\ Sending(m, FALSE).target.reached = m.target.reached
        /\ Sending(m, FALSE).target.stopping = m.target.stopping
    BY FlagFrame, FALSE \in BOOLEAN
  <2> QED BY <2>1, <2>2 DEF SameTurn
<1>2. CASE m.wrap[w] = "queued"
  <2>1. PICK q \in States : q = [m EXCEPT !.wrap[w] = "removed"] /\ SameTurn(q, m) /\ q.target = m.target
    BY WrapFrame
  <2>2. PICK a \in States : /\ a = Sending(q, FALSE) /\ SameTurn(a, q) /\ a.target.on = q.target.on
                            /\ a.target.reached = q.target.reached /\ a.target.stopping = q.target.stopping
    <3>1. /\ Sending(q, FALSE) \in States /\ SameTurn(Sending(q, FALSE), q)
          /\ Sending(q, FALSE).target.on = q.target.on /\ Sending(q, FALSE).target.reached = q.target.reached
          /\ Sending(q, FALSE).target.stopping = q.target.stopping
      BY FlagFrame, FALSE \in BOOLEAN
    <3> QED BY <3>1
  <2>3. PICK n \in States : /\ n = Reached(a, FALSE) /\ SameTurn(n, a) /\ n.target.on = a.target.on
                            /\ n.target.reached \in {a.target.reached, FALSE} /\ n.target.stopping = a.target.stopping
    <3>1. /\ Reached(a, FALSE) \in States /\ SameTurn(Reached(a, FALSE), a)
          /\ Reached(a, FALSE).target.on = a.target.on /\ Reached(a, FALSE).target.stopping = a.target.stopping
          /\ Reached(a, FALSE).target.reached \in {a.target.reached, FALSE}
      BY FlagFrame, FALSE \in BOOLEAN
    <3> QED BY <3>1
  <2>4. /\ SameTurn(n, m) /\ n.target.on = m.target.on
        /\ n.target.reached \in {m.target.reached, FALSE} /\ n.target.stopping = m.target.stopping
    BY <2>1, <2>2, <2>3 DEF SameTurn
  <2>5. CASE m.turn # "completed"
    <3>1. RemovedUnsent(m, w) = n
      BY <1>2, <2>1, <2>2, <2>3, <2>5 DEF RemovedUnsent
    <3> QED BY <2>4, <3>1 DEF SameTurn
  <2>6. CASE m.turn = "completed"
    <3> DEFINE c == [k \in Conts |-> IF Resumes(m, k) THEN "removed" ELSE m.cont[k]]
    <3>1. RemovedUnsent(m, w) = [n EXCEPT !.cont = c]
      BY <1>2, <2>1, <2>2, <2>3, <2>6 DEF RemovedUnsent
    <3>2. c \in [Conts -> {"none", "queued", "cancelled", "removed", "started"}] /\ \A k \in Conts : c[k] \in {m.cont[k], "removed"}
      BY DEF States
    <3> HIDE DEF c
    <3>3. PICK z \in States : z = [n EXCEPT !.cont = c]
      BY <3>2 DEF States
    <3>4. z.turn = n.turn /\ z.owner = n.owner /\ z.merged = n.merged /\ z.drain = n.drain /\ z.target = n.target /\ z.cont = c
      BY <3>3 DEF States
    <3> QED BY <2>4, <2>6, <3>1, <3>2, <3>3, <3>4 DEF SameTurn
  <2> QED BY <2>5, <2>6
<1> QED BY <1>1, <1>2

(***************************************************************************)
(* Types.                                                                  *)
(***************************************************************************)
StateTypes ==
  /\ s \in States /\ resumed \in Nat
  /\ s.target.on => s.turn = "running"
  /\ (s.drain = "active" /\ s.turn = "running") => s.target.on
OtherTypes ==
  /\ codex \in BOOLEAN /\ delegated \in BOOLEAN /\ {provider, cancelling, late, unknown, deadline} \subseteq BOOLEAN
  /\ at \in [Wraps -> {"idle", "flush", "files", "marking", "unsent", "sent", "delivered", "putback", "refused"}]
  /\ taken \subseteq Wraps /\ request \in {"none", "pending", "approved"}
  /\ begun \in 0 .. MaxUpdates /\ faults \in 0 .. MaxFaults

(* changed() always leaves the turn followed exactly while it runs.        *)
LEMMA ChangedTypes ==
  ASSUME NEW m \in States, Changed(m), resumed \in Nat
  PROVE  StateTypes'
BY ChangedFrame DEF StateTypes

(* A turn stopped by the deadline or the owner: what either cancel leaves. *)
LEMMA CancelsTypes ==
  ASSUME NEW m \in States, Cancels(m), resumed \in Nat, cancelling \in BOOLEAN
  PROVE  StateTypes' /\ cancelling' \in BOOLEAN
<1>1. CASE codex
  BY <1>1, ChangedTypes DEF Cancels
<1>2. CASE ~codex
  <2>1. [m EXCEPT !.turn = "cancelled"] \in States
    BY DEF States, Finished
  <2> QED BY <1>2, <2>1, ChangedTypes DEF Cancels
<1> QED BY <1>1, <1>2

(* The step of every action that leaves the runs to changed().             *)
LEMMA GivesUpTypes ==
  ASSUME StateTypes, NEW w \in Wraps, GivesUp(w)
  PROVE  StateTypes'
<1>1. RemovedUnsent(s, w) \in States
  BY RemovedFrame DEF StateTypes
<1> QED BY <1>1, ChangedTypes DEF StateTypes, GivesUp

LEMMA PutBackTypes ==
  ASSUME StateTypes, NEW w \in Wraps, NEW place, PutBack(w, place)
  PROVE  StateTypes'
<1>1. [s EXCEPT !.wrap[w] = "queued"] \in States
  BY WrapFrame DEF StateTypes
<1> QED BY <1>1, ChangedTypes DEF StateTypes, PutBack

LEMMA SameTypes ==
  ASSUME StateTypes, Unchanged
  PROVE  StateTypes'
BY DEF StateTypes, Unchanged

(* An update begins with its number and no drain under way.               *)
LEMMA BegunFrame ==
  ASSUME NEW m \in States, NEW x \in Nat
  PROVE  [m EXCEPT !.drain = "active", !.seq = x] \in States
<1>1. PICK q : q = [m EXCEPT !.drain = "active", !.seq = x]
  OBVIOUS
<1>2. q = [turn |-> m.turn, owner |-> m.owner, drain |-> "active", seq |-> x, target |-> m.target,
           cont |-> m.cont, merged |-> m.merged, receipt |-> m.receipt, wrap |-> m.wrap]
  BY <1>1 DEF States
<1> QED BY <1>1, <1>2 DEF States

(* A target remembers that the deadline of this update stopped its turn.   *)
LEMMA StopFrame ==
  ASSUME NEW m \in States
  PROVE  [m.target EXCEPT !.stopSent = m.seq, !.stopping = TRUE] \in Targets
<1>1. m.target \in Targets /\ m.seq \in Nat
  BY DEF States
<1>2. [on |-> m.target.on, sending |-> m.target.sending, reached |-> m.target.reached,
       stopping |-> TRUE, stopSent |-> m.seq] \in Targets
  BY <1>1 DEF Targets
<1> QED BY <1>1, <1>2 DEF Targets

(* The update's own steps.                                                 *)
LEMMA UpdateTypes ==
  ASSUME StateTypes, OtherTypes, Begin \/ End \/ DeadlinePasses \/ DriveStop \/ OwnerStops
  PROVE  StateTypes' /\ OtherTypes'
<1> USE DEF Updating, fixed
<1>1. CASE Begin
  <2>1. [s EXCEPT !.drain = "active", !.seq = @ + 1] \in States
    <3>1. s \in States
      BY DEF StateTypes
    <3>2. s.seq + 1 \in Nat
      BY <3>1 DEF States
    <3> QED BY <3>1, <3>2, BegunFrame
  <2>2. StateTypes'
    BY <1>1, <2>1, ChangedTypes DEF Begin, StateTypes
  <2>3. begun' \in 0 .. MaxUpdates
    BY <1>1, UpdateDrainAssumption DEF Begin, OtherTypes
  <2> QED BY <1>1, <2>2, <2>3 DEF Begin, OtherTypes
<1>2. CASE End
  <2>1. [s EXCEPT !.drain = "ended"] \in States
    BY DEF StateTypes, States
  <2> QED BY <1>2, <2>1, ChangedTypes DEF End, StateTypes, OtherTypes
<1>3. CASE DeadlinePasses
  BY <1>3, SameTypes DEF DeadlinePasses, OtherTypes
<1>4. CASE DriveStop
  <2>1. [s EXCEPT !.target.stopSent = s.seq, !.target.stopping = TRUE] \in States
    <3>1. PICK g \in Targets : g = [s.target EXCEPT !.stopSent = s.seq, !.stopping = TRUE]
      BY StopFrame DEF StateTypes
    <3>2. [s EXCEPT !.target = g] \in States
      BY <3>1 DEF StateTypes, States
    <3> QED BY <3>1, <3>2 DEF StateTypes, States, Targets
  <2> QED BY <1>4, <2>1, CancelsTypes DEF DriveStop, StateTypes, OtherTypes
<1>5. CASE OwnerStops
  <2>1. [s EXCEPT !.owner = TRUE] \in States
    BY DEF StateTypes, States
  <2> QED BY <1>5, <2>1, CancelsTypes DEF OwnerStops, StateTypes, OtherTypes
<1> QED BY <1>1, <1>2, <1>3, <1>4, <1>5

(* A flag of the target and a wrap-up's status, as the insertion sets them. *)
LEMMA FlagTypes ==
  ASSUME StateTypes, NEW is \in BOOLEAN, s' = Sending(s, is) \/ s' = Reached(s, is), resumed' = resumed
  PROVE  StateTypes'
<1>1. /\ Sending(s, is) \in States /\ SameTurn(Sending(s, is), s) /\ Sending(s, is).target.on = s.target.on
      /\ Reached(s, is) \in States /\ SameTurn(Reached(s, is), s) /\ Reached(s, is).target.on = s.target.on
  BY FlagFrame DEF StateTypes
<1>2. s' \in States /\ SameTurn(s', s) /\ s'.target.on = s.target.on
  BY <1>1
<1> QED BY <1>2 DEF StateTypes, SameTurn

LEMMA FlagWrapFrame ==
  ASSUME NEW m \in States, NEW w \in Wraps
  PROVE  /\ [m EXCEPT !.wrap[w] = "error"] \in States
         /\ Sending([m EXCEPT !.wrap[w] = "error"], FALSE) \in States
<1>1. PICK q \in States : q = [m EXCEPT !.wrap[w] = "error"]
  BY WrapFrame
<1>2. Sending(q, FALSE) \in States
  BY FlagFrame, FALSE \in BOOLEAN
<1> QED BY <1>1, <1>2

(* The steps of a request to wrap up.                                      *)
LEMMA InsertionTypes ==
  ASSUME StateTypes, OtherTypes, NEW w \in Wraps, Insertion(w)
  PROVE  StateTypes' /\ OtherTypes'
<1> USE DEF Inserting, fixed, Go, Steady
<1>1. OtherTypes'
  <2>0. ASSUME FlushOk \/ FlushRefused \/ FlushUncertain
        PROVE  unknown' \in BOOLEAN /\ faults' \in 0 .. MaxFaults
    <3>1. unknown \in BOOLEAN /\ faults \in 0 .. MaxFaults /\ MaxFaults \in Nat
      BY UpdateDrainAssumption DEF OtherTypes
    <3>2. CASE FlushOk
      BY <3>1, <3>2 DEF FlushOk
    <3>3. CASE FlushRefused
      BY <3>1, <3>3 DEF FlushRefused
    <3>4. CASE FlushUncertain
      <4>1. CASE unknown
        BY <3>1, <3>4, <4>1 DEF FlushUncertain
      <4>2. CASE ~unknown
        <5>1. unknown' = TRUE /\ faults < MaxFaults /\ faults' = faults + 1
          BY <3>4, <4>2, Zenon DEF FlushUncertain
        <5>2. faults' \in 0 .. MaxFaults
          BY <3>1, <5>1
        <5> QED BY <5>1, <5>2
      <4> QED BY <4>1, <4>2
    <3> QED BY <2>0, <3>2, <3>3, <3>4
  <2>1. CASE WrapFlushed(w)
    BY <2>0, <2>1 DEF WrapFlushed, OtherTypes, Unsent, GivesUp
  <2>2. CASE WrapMarks(w)
    BY <2>2 DEF WrapMarks, OtherTypes, GivesUp
  <2>3. CASE WrapHanded(w)
    BY <2>0, <2>3 DEF WrapHanded, OtherTypes, Unsent, PutBack
  <2>4. CASE WrapAnswered(w)
    BY <2>4 DEF WrapAnswered, OtherTypes, PutBack
  <2>5. CASE WrapDelivered(w)
    BY <2>0, <2>5 DEF WrapDelivered, OtherTypes
  <2>6. CASE WrapPutBack(w)
    BY <2>0, <2>6 DEF WrapPutBack, OtherTypes, Unsent, GivesUp
  <2> QED BY <2>1, <2>2, <2>3, <2>4, <2>5, <2>6 DEF Insertion
<1>2. s \in States /\ resumed \in Nat
  BY DEF StateTypes
<1>3. Unsent(w) => StateTypes'
  BY SameTypes DEF Unsent
<1>4. GivesUp(w) => StateTypes'
  BY GivesUpTypes
<1>5. \A place : PutBack(w, place) => StateTypes'
  BY PutBackTypes
<1>6. \A st \in {"inserting", "delivered", "error"} : Changed([s EXCEPT !.wrap[w] = st]) => StateTypes'
  BY <1>2, WrapFrame, ChangedTypes
<1>7. Changed(Sending([s EXCEPT !.wrap[w] = "error"], FALSE)) => StateTypes'
  BY <1>2, FlagWrapFrame, ChangedTypes
<1>8. StateTypes'
  <2>1. CASE WrapFlushed(w)
    BY <2>1, <1>3, <1>4, SameTypes DEF WrapFlushed
  <2>2. CASE WrapMarks(w)
    BY <2>2, <1>4, <1>6 DEF WrapMarks
  <2>3. CASE WrapHanded(w)
    <3>1. CASE s' = (IF codex THEN Reached(s, TRUE) ELSE Sending(Reached(s, TRUE), FALSE)) /\ UNCHANGED resumed
      <4>0. Reached(s, TRUE) \in States /\ SameTurn(Reached(s, TRUE), s) /\ Reached(s, TRUE).target.on = s.target.on
        BY <1>2, FlagFrame, TRUE \in BOOLEAN
      <4>1. PICK r \in States : r = Reached(s, TRUE) /\ SameTurn(r, s) /\ r.target.on = s.target.on
        BY <4>0
      <4>2. Sending(r, FALSE) \in States /\ SameTurn(Sending(r, FALSE), r) /\ Sending(r, FALSE).target.on = r.target.on
        BY FlagFrame, FALSE \in BOOLEAN
      <4>3. s' \in States /\ SameTurn(s', s) /\ s'.target.on = s.target.on
        BY <3>1, <4>1, <4>2 DEF SameTurn
      <4> QED BY <3>1, <4>3 DEF StateTypes, SameTurn
    <3> QED BY <2>3, <3>1, <1>3, <1>5 DEF WrapHanded
  <2>4. CASE WrapAnswered(w)
    BY <2>4, <1>5, <1>6, <1>7 DEF WrapAnswered
  <2>5. CASE WrapDelivered(w)
    BY <2>5, <1>6, <1>7, FlagTypes, FALSE \in BOOLEAN DEF WrapDelivered
  <2>6. CASE WrapPutBack(w)
    BY <2>6, <1>3, <1>4, SameTypes DEF WrapPutBack
  <2> QED BY <2>1, <2>2, <2>3, <2>4, <2>5, <2>6 DEF Insertion
<1> QED BY <1>1, <1>8

(* A continuation's status is all that the owner and the pump set.         *)
LEMMA ContFrame ==
  ASSUME NEW m \in States, NEW k \in Conts, NEW st \in {"none", "queued", "cancelled", "removed", "started"}
  PROVE  /\ [m EXCEPT !.cont[k] = st] \in States
         /\ [m EXCEPT !.cont[k] = st].turn = m.turn /\ [m EXCEPT !.cont[k] = st].owner = m.owner
         /\ [m EXCEPT !.cont[k] = st].merged = m.merged /\ [m EXCEPT !.cont[k] = st].target = m.target
         /\ [m EXCEPT !.cont[k] = st].cont = [m.cont EXCEPT ![k] = st]
BY DEF States

(* A wakeup is planned or not.                                             *)
LEMMA PlannedFrame ==
  ASSUME NEW m \in States
  PROVE  Planned(m) \in States /\ Planned(m).turn = m.turn /\ Planned(m).owner = m.owner
<1>1. "wakeup" \in Conts
  BY DEF Conts
<1> QED BY <1>1, ContFrame DEF Planned

(* The runs a turn that ends hands to changed().                           *)
LEMMA ExitFrame ==
  ASSUME s \in States, Exited, s.turn = "running"
  PROVE  \E n \in States : Changed(n) /\ n.turn \in Finished /\ n.owner = s.owner /\ (codex => n.cont = s.cont)
<1>1. PICK outcome \in Finished, wakes \in BOOLEAN :
        LET m == [s EXCEPT !.turn = outcome] IN
        /\ Changed(IF wakes THEN Planned(IF outcome = "error" THEN Swept(m) ELSE m) ELSE m)
        /\ wakes => ~codex
  BY DEF Exited
<1>2. PICK m \in States : m = [s EXCEPT !.turn = outcome] /\ m.turn = outcome /\ m.owner = s.owner /\ m.cont = s.cont
  <2>1. PICK x \in States : x = [s EXCEPT !.turn = outcome]
    BY DEF States
  <2>2. x.turn = outcome /\ x.owner = s.owner /\ x.cont = s.cont
    BY <2>1 DEF States
  <2> QED BY <2>1, <2>2
<1>3. PICK z \in States : z = Swept(m) /\ z.turn = outcome /\ z.owner = s.owner
  BY <1>2, SweptFrame DEF States
<1>4. /\ Planned(m) \in States /\ Planned(m).turn = outcome /\ Planned(m).owner = s.owner
      /\ Planned(z) \in States /\ Planned(z).turn = outcome /\ Planned(z).owner = s.owner
  BY <1>2, <1>3, PlannedFrame
<1>5. CASE wakes
  BY <1>1, <1>2, <1>3, <1>4, <1>5
<1>6. CASE ~wakes
  BY <1>1, <1>2, <1>6
<1> QED BY <1>5, <1>6

(* The request to wrap up, the end of the turn, and what follows it.       *)
LEMMA TurnTypes ==
  ASSUME StateTypes, OtherTypes,
         \/ SendWrapUp \/ Resolve \/ Exited \/ AsksPermission \/ Approve \/ Supersede
         \/ ContinuationStarts \/ WrapUpStarts
  PROVE  StateTypes' /\ OtherTypes'
<1> USE DEF Inserting, Ending, fixed, bounds
<1>1. s \in States /\ resumed \in Nat
  BY DEF StateTypes
<1>2. \A k \in Conts : \A st \in {"none", "queued", "cancelled", "removed", "started"} :
        Changed([s EXCEPT !.cont[k] = st]) => StateTypes'
  BY <1>1, ContFrame, ChangedTypes
<1>3. CASE SendWrapUp
  <2>1. PICK w \in Wraps : Changed([s EXCEPT !.wrap[w] = "queued", !.target.sending = TRUE]) /\ Go(w, "flush")
    BY <1>3 DEF SendWrapUp
  <2>2. [s EXCEPT !.wrap[w] = "queued", !.target.sending = TRUE] \in States
    <3>1. PICK q \in States : q = [s EXCEPT !.wrap[w] = "queued"] /\ q.target = s.target
      <4>1. [s EXCEPT !.wrap[w] = "queued"] \in States /\ [s EXCEPT !.wrap[w] = "queued"].target = s.target
        BY <1>1, WrapFrame
      <4> QED BY <4>1
    <3>2. PICK g \in Targets : g = [s.target EXCEPT !.sending = TRUE]
      BY <1>1 DEF States, Targets
    <3>3. [q EXCEPT !.target = g] \in States
      BY <3>1, <3>2 DEF States
    <3>4. [q EXCEPT !.target = g] = [s EXCEPT !.wrap[w] = "queued", !.target.sending = TRUE]
      BY <1>1, <3>1, <3>2 DEF States
    <3> QED BY <3>3, <3>4
  <2>3. StateTypes'
    BY <1>1, <2>1, <2>2, ChangedTypes
  <2> QED BY <1>3, <2>1, <2>3 DEF SendWrapUp, OtherTypes, Go, Steady
<1>4. CASE Resolve
  <2> DEFINE unsent == {w \in Wraps : at[w] = "unsent"}
             rows == [w \in Wraps |-> IF w \in unsent THEN "error" ELSE s.wrap[w]]
  <2>1. rows \in [Wraps -> {"none", "queued", "removed", "inserting", "delivered", "done", "error", "turn"}]
    BY <1>1 DEF States
  <2>2. /\ Changed([s EXCEPT !.wrap = rows])
        /\ at' = [w \in Wraps |-> IF w \in unsent THEN "idle" ELSE at[w]]
        /\ unknown' = FALSE /\ UNCHANGED <<faults, taken, codex, delegated, provider, cancelling, late, request, begun, deadline>>
    BY <1>4 DEF Resolve
  <2>3. OtherTypes'
    BY <2>2 DEF OtherTypes
  <2> HIDE DEF rows
  <2>4. [s EXCEPT !.wrap = rows] \in States
    BY <1>1, <2>1 DEF States
  <2> QED BY <1>1, <2>2, <2>3, <2>4, ChangedTypes
<1>5. CASE Exited
  <2>1. OtherTypes'
    BY <1>5 DEF Exited, OtherTypes
  <2>2. CASE s.turn # "running"
    BY <1>1, <1>5, <2>1, <2>2, ChangedTypes DEF Exited
  <2>3. CASE s.turn = "running"
    <3>5. PICK n \in States : Changed(n)
      BY <1>1, <1>5, <2>3, ExitFrame
    <3>6. StateTypes'
      BY <1>1, <3>5, ChangedTypes
    <3> QED BY <2>1, <3>6
  <2> QED BY <2>2, <2>3
<1>6. CASE AsksPermission
  BY <1>6, SameTypes DEF AsksPermission, OtherTypes
<1>7. CASE Approve
  <2>1. [s EXCEPT !.receipt = TRUE] \in States
    BY <1>1 DEF States
  <2>2. Changed([s EXCEPT !.receipt = TRUE]) => StateTypes'
    BY <1>1, <2>1, ChangedTypes
  <2>3. "permission" \in Conts
    BY DEF Conts
  <2>4. StateTypes'
    BY <1>2, <1>7, <2>2, <2>3 DEF Approve
  <2> QED BY <1>7, <2>4 DEF Approve, OtherTypes
<1>8. CASE Supersede
  <2>1. StateTypes'
    BY <1>2, <1>8 DEF Supersede, Conts
  <2> QED BY <1>8, <2>1 DEF Supersede, OtherTypes
<1>9. CASE ContinuationStarts
  <2>1. StateTypes'
    BY <1>2, <1>9 DEF ContinuationStarts
  <2> QED BY <1>9, <2>1 DEF ContinuationStarts, OtherTypes
<1>10. CASE WrapUpStarts
  <2>1. StateTypes'
    BY <1>1, <1>10, WrapFrame, ChangedTypes DEF WrapUpStarts
  <2> QED BY <1>10, <2>1 DEF WrapUpStarts, OtherTypes
<1> QED BY <1>3, <1>4, <1>5, <1>6, <1>7, <1>8, <1>9, <1>10

LEMMA TypeParts == TypeOK <=> StateTypes /\ OtherTypes
BY DEF TypeOK, StateTypes, OtherTypes

(* The types hold, and changed() settles a turn in the step that shows it  *)
(* ended and registers one that runs during an update: the drain follows a *)
(* turn exactly as long as it runs.                                        *)
THEOREM TypesHold == Spec => []TypeOK
<1>1. Init => TypeOK
  <2> SUFFICES ASSUME Init PROVE TypeOK
    OBVIOUS
  <2>1. s \in States /\ s.target.on = FALSE /\ s.drain = "off" /\ s.turn = "running"
    BY DEF Init, States, Targets, NoTarget, Conts
  <2>2. begun \in 0 .. MaxUpdates /\ faults \in 0 .. MaxFaults
    BY UpdateDrainAssumption DEF Init
  <2>3. OtherTypes
    BY <2>2 DEF Init, OtherTypes
  <2> QED BY <2>1, <2>3, TypeParts DEF Init, StateTypes
<1>2. TypeOK /\ [Next]_vars => TypeOK'
  <2> SUFFICES ASSUME StateTypes, OtherTypes, [Next]_vars
               PROVE  StateTypes' /\ OtherTypes'
    BY TypeParts DEF TypeOK, StateTypes, OtherTypes
  <2>1. CASE UNCHANGED vars
    BY <2>1 DEF vars, fixed, bounds, StateTypes, OtherTypes
  <2>2. CASE Next
    BY <2>2, UpdateTypes, InsertionTypes, TurnTypes DEF Next
  <2> QED BY <2>1, <2>2
<1> QED BY <1>1, <1>2, PTL DEF Spec

(***************************************************************************)
(* Why a turn is asked once. A request is under way from the step that     *)
(* creates it until nothing can hand it over or take it back any more. One *)
(* is under way at a time, the target says so, and before it is handed     *)
(* over no request is taken.                                               *)
(***************************************************************************)
Before == {"flush", "files", "marking", "putback", "refused"}
UnderWay(w) == at[w] \in Before \cup {"delivered"} \/ (codex /\ at[w] = "sent")

SendsOne ==
  /\ \A w \in Wraps : (UnderWay(w) /\ s.turn = "running") => s.target.on /\ s.target.sending
  /\ \A v, w \in Wraps : UnderWay(v) /\ UnderWay(w) => v = w
TakenCounts ==
  /\ (taken # {} /\ s.turn = "running") => s.target.on /\ s.target.reached
  /\ \A w \in Wraps : at[w] \in Before => taken = {}
  /\ \A w \in Wraps : (codex /\ at[w] = "sent") => taken \subseteq {w}
  /\ \A v, w \in taken : v = w
AskedInv == SendsOne /\ TakenCounts

(* A step that leaves the target of a turn that still runs.                *)
KeepsTarget ==
  s'.turn = "running" =>
    /\ s.turn = "running"
    /\ s.target.on => /\ s'.target.on /\ s'.target.sending = s.target.sending
                      /\ s'.target.reached = s.target.reached

(* changed() itself does not touch the flags of a turn that still runs.    *)
LEMMA ChangedKeeps ==
  ASSUME NEW m \in States, Changed(m), m.turn = "running" => s.turn = "running",
         m.target.on = s.target.on, m.target.sending = s.target.sending, m.target.reached = s.target.reached
  PROVE  KeepsTarget
BY ChangedFrame DEF KeepsTarget

LEMMA AskedKept ==
  ASSUME AskedInv, KeepsTarget, UNCHANGED <<at, taken, codex>>
  PROVE  AskedInv'
BY DEF AskedInv, SendsOne, TakenCounts, UnderWay, Before, KeepsTarget

(* The steps that hand over no request and take none back.                 *)
LEMMA OthersKeepTarget ==
  ASSUME StateTypes, OtherTypes,
         \/ Begin \/ End \/ DeadlinePasses \/ DriveStop \/ OwnerStops \/ Resolve
         \/ Exited \/ AsksPermission \/ Approve \/ Supersede \/ ContinuationStarts \/ WrapUpStarts
  PROVE  KeepsTarget
<1>1. s \in States
  BY DEF StateTypes
<1>2. Unchanged => KeepsTarget
  BY DEF Unchanged, KeepsTarget
<1>3. CASE DeadlinePasses \/ AsksPermission
  BY <1>2, <1>3 DEF DeadlinePasses, AsksPermission
<1>4. CASE Begin
  <2>1. s.seq + 1 \in Nat
    BY <1>1 DEF States
  <2>2. PICK m \in States : m = [s EXCEPT !.drain = "active", !.seq = s.seq + 1]
    BY <1>1, <2>1, BegunFrame
  <2>3. m.turn = s.turn /\ m.target = s.target
    BY <1>1, <2>2 DEF States
  <2> QED BY <1>4, <2>2, <2>3, ChangedKeeps DEF Begin
<1>5. CASE End
  <2>1. PICK m \in States : m = [s EXCEPT !.drain = "ended"] /\ m.turn = s.turn /\ m.target = s.target
    <3>1. PICK x \in States : x = [s EXCEPT !.drain = "ended"]
      BY <1>1 DEF States
    <3>2. x.turn = s.turn /\ x.target = s.target
      BY <1>1, <3>1 DEF States
    <3> QED BY <3>1, <3>2
  <2> QED BY <1>5, <2>1, ChangedKeeps DEF End
<1>6. ASSUME NEW m \in States, Cancels(m), m.turn = s.turn, m.target.on = s.target.on,
             m.target.sending = s.target.sending, m.target.reached = s.target.reached
      PROVE  KeepsTarget
  <2>1. CASE codex
    BY <1>6, <2>1, ChangedKeeps DEF Cancels
  <2>2. CASE ~codex
    <3>1. PICK n \in States : n = [m EXCEPT !.turn = "cancelled"] /\ n.turn = "cancelled" /\ n.target = m.target
      <4>1. PICK x \in States : x = [m EXCEPT !.turn = "cancelled"]
        BY <1>6 DEF States, Finished
      <4>2. x.turn = "cancelled" /\ x.target = m.target
        BY <1>6, <4>1 DEF States
      <4> QED BY <4>1, <4>2
    <3> QED BY <1>6, <2>2, <3>1, ChangedKeeps DEF Cancels
  <2> QED BY <2>1, <2>2
<1>7. CASE DriveStop
  <2>1. PICK g \in Targets : g = [s.target EXCEPT !.stopSent = s.seq, !.stopping = TRUE]
    BY <1>1, StopFrame
  <2>2. g.on = s.target.on /\ g.sending = s.target.sending /\ g.reached = s.target.reached
    BY <1>1, <2>1 DEF States, Targets
  <2>3. PICK m \in States : m = [s EXCEPT !.target = g] /\ m.turn = s.turn /\ m.target = g
    <3>1. PICK x \in States : x = [s EXCEPT !.target = g]
      BY <1>1, <2>1 DEF States
    <3>2. x.turn = s.turn /\ x.target = g
      BY <1>1, <2>1, <3>1 DEF States
    <3> QED BY <3>1, <3>2
  <2>4. m = [s EXCEPT !.target.stopSent = s.seq, !.target.stopping = TRUE]
    BY <1>1, <2>1, <2>3 DEF States, Targets
  <2> QED BY <1>6, <1>7, <2>2, <2>3, <2>4 DEF DriveStop
<1>8. CASE OwnerStops
  <2>1. PICK m \in States : m = [s EXCEPT !.owner = TRUE] /\ m.turn = s.turn /\ m.target = s.target
    <3>1. PICK x \in States : x = [s EXCEPT !.owner = TRUE]
      BY <1>1 DEF States
    <3>2. x.turn = s.turn /\ x.target = s.target
      BY <1>1, <3>1 DEF States
    <3> QED BY <3>1, <3>2
  <2> QED BY <1>6, <1>8, <2>1 DEF OwnerStops
<1>9. CASE Resolve
  <2> DEFINE rows == [w \in Wraps |-> IF w \in {v \in Wraps : at[v] = "unsent"} THEN "error" ELSE s.wrap[w]]
  <2>1. rows \in [Wraps -> {"none", "queued", "removed", "inserting", "delivered", "done", "error", "turn"}]
    BY <1>1 DEF States
  <2>2. Changed([s EXCEPT !.wrap = rows])
    BY <1>9 DEF Resolve
  <2> HIDE DEF rows
  <2>3. PICK m \in States : m = [s EXCEPT !.wrap = rows] /\ m.turn = s.turn /\ m.target = s.target
    <3>1. PICK x \in States : x = [s EXCEPT !.wrap = rows]
      BY <1>1, <2>1 DEF States
    <3>2. x.turn = s.turn /\ x.target = s.target
      BY <1>1, <2>1, <3>1 DEF States
    <3> QED BY <3>1, <3>2
  <2> QED BY <2>2, <2>3, ChangedKeeps
<1>10. CASE Exited
  <2>1. CASE s.turn # "running"
    BY <1>1, <1>10, <2>1, ChangedKeeps DEF Exited
  <2>2. CASE s.turn = "running"
    <3>1. PICK n \in States : Changed(n) /\ n.turn \in Finished
      BY <1>1, <1>10, <2>2, ExitFrame
    <3>2. s'.turn # "running"
      BY <3>1, ChangedFrame DEF Finished
    <3> QED BY <3>2 DEF KeepsTarget
  <2> QED BY <2>1, <2>2
<1>11. CASE Approve \/ Supersede \/ ContinuationStarts
  <2>1. PICK m \in States : Changed(m) /\ m.turn = s.turn /\ m.target = s.target
    <3>1. ASSUME NEW k \in Conts, NEW st \in {"queued", "cancelled", "started"}
          PROVE  \E m \in States : m = [s EXCEPT !.cont[k] = st] /\ m.turn = s.turn /\ m.target = s.target
      <4>1. PICK x \in States : x = [s EXCEPT !.cont[k] = st]
        BY <1>1, ContFrame
      <4>2. x.turn = s.turn /\ x.target = s.target
        BY <1>1, <4>1 DEF States
      <4> QED BY <4>1, <4>2
    <3>2. PICK q \in States : q = [s EXCEPT !.receipt = TRUE] /\ q.turn = s.turn /\ q.target = s.target
      <4>1. PICK x \in States : x = [s EXCEPT !.receipt = TRUE]
        BY <1>1 DEF States
      <4>2. x.turn = s.turn /\ x.target = s.target
        BY <1>1, <4>1 DEF States
      <4> QED BY <4>1, <4>2
    <3>3. CASE Changed([s EXCEPT !.receipt = TRUE])
      BY <3>2, <3>3
    <3>4. ASSUME NEW k \in Conts, NEW st \in {"queued", "cancelled", "started"}, Changed([s EXCEPT !.cont[k] = st])
          PROVE  \E m \in States : Changed(m) /\ m.turn = s.turn /\ m.target = s.target
      BY <3>1, <3>4
    <3>5. CASE Approve
      <4>1. \/ Changed([s EXCEPT !.receipt = TRUE])
            \/ \E st \in {"queued", "cancelled", "started"} : Changed([s EXCEPT !.cont["permission"] = st])
        BY <3>5 DEF Approve
      <4> QED BY <3>3, <3>4, <4>1 DEF Conts
    <3>6. CASE Supersede
      <4>1. \E k \in Conts : Changed([s EXCEPT !.cont[k] = "cancelled"])
        BY <3>6 DEF Supersede, Conts
      <4> QED BY <3>4, <4>1
    <3>7. CASE ContinuationStarts
      <4>1. \E k \in Conts : Changed([s EXCEPT !.cont[k] = "started"])
        BY <3>7 DEF ContinuationStarts
      <4> QED BY <3>4, <4>1
    <3> QED BY <1>11, <3>5, <3>6, <3>7
  <2> QED BY <2>1, ChangedKeeps
<1>12. CASE WrapUpStarts
  <2>1. PICK w \in Wraps : Changed([s EXCEPT !.wrap[w] = "turn"])
    BY <1>12 DEF WrapUpStarts
  <2>2. PICK m \in States : m = [s EXCEPT !.wrap[w] = "turn"] /\ m.turn = s.turn /\ m.target = s.target
    BY <1>1, WrapFrame DEF SameTurn
  <2> QED BY <2>1, <2>2, ChangedKeeps
<1> QED BY <1>3, <1>4, <1>5, <1>7, <1>8, <1>9, <1>10, <1>11, <1>12

Placed == at \in [Wraps -> {"idle", "flush", "files", "marking", "unsent", "sent", "delivered", "putback", "refused"}]
KeepsRunning == s'.turn = "running" => s.turn = "running" /\ (s.target.on => s'.target.on)

(* A request that is under way moves on towards its hand-over.             *)
LEMMA MovesOn ==
  ASSUME AskedInv, Placed, NEW w \in Wraps, NEW p \in Before, at[w] \in Before,
         Go(w, p), KeepsTarget, UNCHANGED <<taken, codex>>
  PROVE  AskedInv'
<1> USE DEF Go, Placed, UnderWay, Before
<1>1. SendsOne'
  BY DEF AskedInv, SendsOne, KeepsTarget
<1>2. TakenCounts'
  BY DEF AskedInv, TakenCounts, KeepsTarget
<1> QED BY <1>1, <1>2 DEF AskedInv

(* A request that ends leaves none under way, and counts if it was taken.  *)
LEMMA EndsInsertion ==
  ASSUME AskedInv, Placed, NEW w \in Wraps, NEW p \in {"idle", "unsent"}, UnderWay(w),
         Go(w, p), KeepsRunning, UNCHANGED <<taken, codex>>,
         (s'.turn = "running" /\ taken # {}) => s'.target.reached = s.target.reached
  PROVE  AskedInv'
<1>1. \A v \in Wraps : ~UnderWay(v)'
  BY DEF AskedInv, SendsOne, UnderWay, Before, Go, Placed
<1>2. SendsOne'
  BY <1>1 DEF SendsOne
<1>3. TakenCounts'
  BY <1>1 DEF AskedInv, TakenCounts, UnderWay, KeepsRunning
<1> QED BY <1>2, <1>3 DEF AskedInv

(* Claude's answer, and a receipt, end requests that are not under way.    *)
LEMMA EndsQuietly ==
  ASSUME AskedInv, KeepsTarget, UNCHANGED <<taken, codex>>,
         \A v \in Wraps : at'[v] = at[v] \/ (at'[v] = "idle" /\ ~UnderWay(v))
  PROVE  AskedInv'
<1>1. SendsOne'
  BY DEF AskedInv, SendsOne, UnderWay, Before, KeepsTarget
<1>2. TakenCounts'
  BY DEF AskedInv, TakenCounts, UnderWay, Before, KeepsTarget
<1> QED BY <1>1, <1>2 DEF AskedInv

(* The request the update sends is the only one, and nothing was taken.    *)
LEMMA SendKeepsAsked ==
  ASSUME AskedInv, StateTypes, Placed, codex \in BOOLEAN, SendWrapUp
  PROVE  AskedInv'
<1>1. PICK w \in Wraps : Changed([s EXCEPT !.wrap[w] = "queued", !.target.sending = TRUE]) /\ Go(w, "flush")
  BY DEF SendWrapUp
<1>2. s.turn = "running" /\ s.target.on /\ ~s.target.reached /\ ~s.target.sending /\ UNCHANGED <<taken, codex>>
  BY DEF SendWrapUp, MayAsk, Driven, Inserting, fixed
<1>3. s \in States
  BY DEF StateTypes
<1>4. PICK m \in States : Changed(m) /\ m.turn = "running" /\ m.target.on /\ m.target.sending
  <2>1. PICK q \in States : q = [s EXCEPT !.wrap[w] = "queued"] /\ q.target = s.target /\ q.turn = s.turn
    BY <1>3, WrapFrame DEF SameTurn
  <2>2. PICK g \in Targets : g = [s.target EXCEPT !.sending = TRUE]
    BY <1>3 DEF States, Targets
  <2>3. PICK m \in States : m = [q EXCEPT !.target = g]
    BY <2>1, <2>2 DEF States
  <2>4. m = [s EXCEPT !.wrap[w] = "queued", !.target.sending = TRUE]
    BY <1>3, <2>1, <2>2, <2>3 DEF States
  <2>5. m.turn = s.turn /\ m.target = g
    BY <2>1, <2>3 DEF States
  <2>6. g.on /\ g.sending
    BY <1>2, <1>3, <2>2 DEF States, Targets
  <2> QED BY <1>1, <1>2, <2>4, <2>5, <2>6
<1>5. s'.target = m.target
  BY <1>4, ChangedFrame
<1>6. taken = {} /\ \A v \in Wraps : ~UnderWay(v)
  BY <1>2 DEF AskedInv, SendsOne, TakenCounts
<1>7. \A v \in Wraps : UnderWay(v)' => v = w
  BY <1>1, <1>2, <1>6 DEF UnderWay, Go, Placed
<1>8. SendsOne'
  BY <1>4, <1>5, <1>7 DEF SendsOne
<1>9. TakenCounts'
  BY <1>2, <1>6 DEF TakenCounts
<1> QED BY <1>8, <1>9 DEF AskedInv

(* No step of an insertion asks a turn again: it is handed over while      *)
(* nothing is taken, and it is taken back before the flag is cleared.      *)
LEMMA InsertionKeepsAsked ==
  ASSUME AskedInv, StateTypes, OtherTypes, NEW w \in Wraps, Insertion(w)
  PROVE  AskedInv'
<1>1. s \in States /\ Placed /\ codex \in BOOLEAN /\ taken \subseteq Wraps
  BY DEF StateTypes, OtherTypes, Placed
<1>2. codex' = codex
  BY DEF Insertion, WrapFlushed, WrapMarks, WrapHanded, WrapAnswered, WrapDelivered, WrapPutBack, Inserting, fixed
<1>3. Unchanged => KeepsTarget /\ KeepsRunning /\ s'.target.reached = s.target.reached
  BY DEF Unchanged, KeepsTarget, KeepsRunning
<1>4. ASSUME Unsent(w), UnderWay(w) PROVE AskedInv'
  BY <1>1, <1>2, <1>3, <1>4, EndsInsertion DEF Unsent
<1>5. ASSUME GivesUp(w), at[w] \in Before PROVE AskedInv'
  <2>1. PICK m \in States : m = RemovedUnsent(s, w) /\ m.turn = s.turn /\ m.target.on = s.target.on
    BY <1>1, RemovedFrame
  <2>2. Changed(m)
    BY <1>5, <2>1 DEF GivesUp
  <2>3. KeepsRunning
    BY <2>1, <2>2, ChangedFrame DEF KeepsRunning
  <2>4. taken = {}
    BY <1>5 DEF AskedInv, TakenCounts
  <2> QED BY <1>1, <1>2, <1>5, <2>3, <2>4, EndsInsertion DEF GivesUp, UnderWay
<1>6. ASSUME NEW st \in {"queued", "inserting", "delivered", "error"}, Changed([s EXCEPT !.wrap[w] = st])
      PROVE  KeepsTarget
  <2>0. /\ [s EXCEPT !.wrap[w] = st] \in States /\ SameTurn([s EXCEPT !.wrap[w] = st], s)
        /\ [s EXCEPT !.wrap[w] = st].target = s.target
    <3>1. st \in {"none", "queued", "removed", "inserting", "delivered", "done", "error", "turn"}
      BY <1>6
    <3> QED BY <1>1, <3>1, WrapFrame
  <2>1. PICK m \in States : m = [s EXCEPT !.wrap[w] = st] /\ m.turn = s.turn /\ m.target = s.target
    BY <2>0 DEF SameTurn
  <2> QED BY <1>6, <2>1, ChangedKeeps
<1>7. ASSUME Changed(Sending([s EXCEPT !.wrap[w] = "error"], FALSE))
      PROVE  KeepsRunning /\ (s'.turn = "running" /\ s.target.on => s'.target.reached = s.target.reached)
  <2>1. PICK q \in States : q = [s EXCEPT !.wrap[w] = "error"] /\ q.turn = s.turn /\ q.target = s.target
    BY <1>1, WrapFrame DEF SameTurn
  <2>2. /\ Sending(q, FALSE) \in States /\ SameTurn(Sending(q, FALSE), q)
        /\ Sending(q, FALSE).target.on = q.target.on /\ Sending(q, FALSE).target.reached = q.target.reached
    BY FlagFrame, FALSE \in BOOLEAN
  <2>3. PICK m \in States : /\ m = Sending(q, FALSE) /\ m.turn = s.turn /\ m.target.on = s.target.on
                            /\ m.target.reached = s.target.reached
    BY <2>1, <2>2 DEF SameTurn
  <2>4. Changed(m)
    BY <1>7, <2>1, <2>3
  <2>5. s'.turn = "running" => m.turn = "running" /\ (m.target.on => s'.target = m.target)
    BY <2>4, ChangedFrame
  <2> QED BY <2>3, <2>5 DEF KeepsRunning
<1>8. taken # {} /\ s.turn = "running" => s.target.on
  BY DEF AskedInv, TakenCounts
<1>9. KeepsTarget => KeepsRunning /\ (s'.turn = "running" /\ taken # {} => s'.target.reached = s.target.reached)
  BY <1>8 DEF KeepsTarget, KeepsRunning
<1>10. CASE WrapFlushed(w)
  <2>1. at[w] \in Before /\ UnderWay(w)
    BY <1>10 DEF WrapFlushed, UnderWay, Before
  <2> QED BY <1>1, <1>2, <1>3, <1>4, <1>5, <1>10, <2>1, MovesOn DEF WrapFlushed, Before
<1>11. CASE WrapMarks(w)
  <2>1. at[w] \in Before
    BY <1>11 DEF WrapMarks, Before
  <2> QED BY <1>1, <1>2, <1>5, <1>6, <1>11, <2>1, MovesOn DEF WrapMarks, Before
<1>12. CASE WrapHanded(w)
  <2>1. at[w] \in Before /\ UnderWay(w)
    BY <1>12 DEF WrapHanded, UnderWay, Before
  <2>2. CASE Unsent(w)
    BY <1>4, <2>1, <2>2
  <2>3. CASE PutBack(w, "putback") /\ UNCHANGED taken
    BY <1>1, <1>2, <1>6, <2>1, <2>3, MovesOn DEF PutBack, Before
  <2>4. CASE /\ Steerable /\ Go(w, "sent") /\ taken' = taken \cup {w}
             /\ s' = IF codex THEN Reached(s, TRUE) ELSE Sending(Reached(s, TRUE), FALSE)
    <3>1. s.turn = "running" /\ s.target.on /\ s.target.sending
      BY <2>1, <2>4 DEF Steerable, AskedInv, SendsOne
    <3>2. Reached(s, TRUE) \in States /\ Reached(s, TRUE).target.on /\ Reached(s, TRUE).target.reached /\ Reached(s, TRUE).target.sending
      BY <1>1, <3>1, FlagFrame, TRUE \in BOOLEAN
    <3>3. PICK r \in States : r = Reached(s, TRUE) /\ r.target.on /\ r.target.reached /\ r.target.sending
      BY <3>2
    <3>4. Sending(r, FALSE).target.on /\ Sending(r, FALSE).target.reached
      BY <3>3, FlagFrame, FALSE \in BOOLEAN
    <3>5. s'.target.on /\ s'.target.reached /\ (codex => s'.target.sending)
      BY <2>4, <3>3, <3>4
    <3>6. \A v \in Wraps : UnderWay(v) => v = w
      BY <2>1 DEF AskedInv, SendsOne
    <3>7. \A v \in Wraps : UnderWay(v)' => v = w /\ codex
      BY <1>1, <1>2, <2>4, <3>6 DEF UnderWay, Before, Go, Placed
    <3>8. taken' = {w}
      BY <2>1, <2>4 DEF AskedInv, TakenCounts
    <3>9. \A v \in Wraps : at'[v] \notin Before
      BY <1>1, <2>4, <3>6 DEF Go, Placed, UnderWay, Before
    <3>10. SendsOne'
      BY <1>2, <3>5, <3>7 DEF SendsOne
    <3>11. TakenCounts'
      BY <1>2, <3>5, <3>7, <3>8, <3>9 DEF TakenCounts, UnderWay
    <3> QED BY <3>10, <3>11 DEF AskedInv
  <2> QED BY <1>12, <2>2, <2>3, <2>4 DEF WrapHanded
<1>13. CASE WrapAnswered(w)
  <2>1. at[w] = "sent" /\ (codex => UnderWay(w)) /\ (~codex => ~UnderWay(w))
    BY <1>13 DEF WrapAnswered, UnderWay, Before
  <2>2. CASE Changed([s EXCEPT !.wrap[w] = "delivered"]) /\ Go(w, IF codex THEN "delivered" ELSE "idle") /\ UNCHANGED taken
    <3>1. KeepsTarget
      BY <1>6, <2>2
    <3>2. CASE ~codex
      BY <1>1, <1>2, <2>1, <2>2, <3>1, <3>2, EndsQuietly DEF Go, Placed
    <3>3. CASE codex
      <4>1. \A v \in Wraps : UnderWay(v)' <=> UnderWay(v)
        BY <1>1, <1>2, <2>1, <2>2, <3>3 DEF UnderWay, Before, Go, Placed
      <4>2. \A v \in Wraps : (at'[v] \in Before => at[v] \in Before) /\ (at'[v] = "sent" => at[v] = "sent")
        BY <1>1, <2>2, <3>3 DEF Before, Go, Placed
      <4>3. SendsOne'
        BY <3>1, <4>1 DEF AskedInv, SendsOne, KeepsTarget
      <4>4. TakenCounts'
        BY <1>2, <2>2, <3>1, <4>2 DEF AskedInv, TakenCounts, KeepsTarget
      <4> QED BY <4>3, <4>4 DEF AskedInv
    <3> QED BY <3>2, <3>3
  <2>3. CASE codex /\ Changed(Sending([s EXCEPT !.wrap[w] = "error"], FALSE)) /\ Go(w, "idle") /\ UNCHANGED taken
    <3>1. KeepsRunning /\ (s'.turn = "running" /\ taken # {} => s'.target.reached = s.target.reached)
      BY <1>7, <1>8, <2>3 DEF KeepsRunning
    <3> QED BY <1>1, <1>2, <2>1, <2>3, <3>1, EndsInsertion
  <2>4. CASE ~codex /\ Changed([s EXCEPT !.wrap[w] = "error"]) /\ Go(w, "idle") /\ UNCHANGED taken
    <3>1. KeepsTarget
      BY <1>6, <2>4
    <3> QED BY <1>1, <1>2, <2>1, <2>4, <3>1, EndsQuietly DEF Go, Placed
  <2>5. CASE codex /\ PutBack(w, "refused") /\ taken' = taken \ {w}
    <3>1. KeepsTarget
      BY <1>6, <2>5 DEF PutBack
    <3>2. taken' = {}
      BY <2>1, <2>5 DEF AskedInv, TakenCounts
    <3>3. \A v \in Wraps : UnderWay(v)' <=> UnderWay(v)
      BY <1>1, <1>2, <2>1, <2>5 DEF UnderWay, Before, Go, Placed, PutBack
    <3>4. SendsOne'
      BY <3>1, <3>3 DEF AskedInv, SendsOne, KeepsTarget
    <3>5. TakenCounts'
      BY <3>2 DEF TakenCounts
    <3> QED BY <3>4, <3>5 DEF AskedInv
  <2> QED BY <1>13, <2>2, <2>3, <2>4, <2>5 DEF WrapAnswered
<1>14. CASE WrapDelivered(w)
  <2>1. UnderWay(w) /\ Go(w, "idle") /\ UNCHANGED taken
    BY <1>14 DEF WrapDelivered, UnderWay, Before
  <2>2. KeepsRunning /\ (s'.turn = "running" /\ taken # {} => s'.target.reached = s.target.reached)
    <3>1. CASE s' = Sending(s, FALSE)
      <4>1. /\ Sending(s, FALSE).turn = s.turn /\ Sending(s, FALSE).target.on = s.target.on
            /\ Sending(s, FALSE).target.reached = s.target.reached
        BY <1>1, FlagFrame, FALSE \in BOOLEAN DEF SameTurn
      <4> QED BY <3>1, <4>1 DEF KeepsRunning
    <3>2. CASE Changed(Sending([s EXCEPT !.wrap[w] = "error"], FALSE))
      BY <1>7, <1>8, <3>2 DEF KeepsRunning
    <3>3. CASE Changed([s EXCEPT !.wrap[w] = "error"])
      BY <1>6, <1>9, <3>3
    <3> QED BY <1>14, <3>1, <3>2, <3>3 DEF WrapDelivered
  <2> QED BY <1>1, <1>2, <2>1, <2>2, EndsInsertion
<1>15. CASE WrapPutBack(w)
  <2>1. at[w] \in Before /\ UnderWay(w)
    BY <1>15 DEF WrapPutBack, UnderWay, Before
  <2> QED BY <1>1, <1>2, <1>3, <1>4, <1>5, <1>15, <2>1, EndsInsertion DEF WrapPutBack
<1> QED BY <1>10, <1>11, <1>12, <1>13, <1>14, <1>15 DEF Insertion

LEMMA AskedInvHolds == Spec => []AskedInv
<1>1. Init => AskedInv
  BY DEF Init, AskedInv, SendsOne, TakenCounts, UnderWay, Before
<1>2. TypeOK /\ AskedInv /\ [Next]_vars => AskedInv'
  <2> SUFFICES ASSUME StateTypes, OtherTypes, AskedInv, [Next]_vars
               PROVE  AskedInv'
    BY TypeParts
  <2>1. CASE UNCHANGED vars
    BY <2>1 DEF vars, fixed, AskedInv, SendsOne, TakenCounts, UnderWay
  <2>2. CASE SendWrapUp
    BY <2>2, SendKeepsAsked DEF OtherTypes, Placed
  <2>3. ASSUME NEW w \in Wraps, Insertion(w) PROVE AskedInv'
    BY <2>3, InsertionKeepsAsked
  <2>4. CASE Resolve
    <3>1. KeepsTarget
      BY <2>4, OthersKeepTarget
    <3>2. UNCHANGED <<taken, codex>> /\ \A v \in Wraps : at'[v] = at[v] \/ (at'[v] = "idle" /\ ~UnderWay(v))
      BY <2>4 DEF Resolve, Inserting, fixed, UnderWay, Before
    <3> QED BY <3>1, <3>2, EndsQuietly
  <2>5. CASE Begin \/ End \/ DeadlinePasses \/ DriveStop \/ OwnerStops
    <3>1. KeepsTarget
      BY <2>5, OthersKeepTarget
    <3>2. UNCHANGED <<at, taken, codex>>
      BY <2>5 DEF Begin, End, DeadlinePasses, DriveStop, OwnerStops, Updating, fixed
    <3> QED BY <3>1, <3>2, AskedKept
  <2>6. CASE Exited \/ AsksPermission \/ Approve \/ Supersede \/ ContinuationStarts \/ WrapUpStarts
    <3>1. KeepsTarget
      BY <2>6, OthersKeepTarget
    <3>2. UNCHANGED <<at, taken, codex>>
      BY <2>6 DEF Exited, AsksPermission, Approve, Supersede, ContinuationStarts, WrapUpStarts, Ending, fixed
    <3> QED BY <3>1, <3>2, AskedKept
  <2> QED BY <2>1, <2>2, <2>3, <2>4, <2>5, <2>6 DEF Next
<1> QED BY <1>1, <1>2, TypesHold, PTL DEF Spec

(* However the requests, answers, saves, updates and the turn's end        *)
(* interleave, the provider has at most one request to wrap up that it did *)
(* not surely refuse.                                                      *)
THEOREM AskedAtMostOnce == Spec => []AskedOnce
<1>1. AskedInv => AskedOnce
  <2> SUFFICES ASSUME AskedInv PROVE AskedOnce
    OBVIOUS
  <2>1. CASE taken = {}
    BY <2>1, FS_EmptySet DEF AskedOnce
  <2>2. CASE taken # {}
    <3>1. PICK w : taken = {w}
      BY <2>2 DEF AskedInv, TakenCounts
    <3> QED BY <3>1, FS_Singleton DEF AskedOnce
  <2> QED BY <2>1, <2>2
<1> QED BY <1>1, AskedInvHolds, PTL

(***************************************************************************)
(* Why nothing brings back a turn the owner stopped. Before a turn ends    *)
(* only a permission waits; the owner's stop leaves Claude's turn ended,   *)
(* and what waits when a stopped turn ends is swept in the same step.      *)
(***************************************************************************)
FinalInv ==
  /\ s.turn = "running" =>
       /\ provider /\ ~s.merged
       /\ s.cont["wakeup"] = "none" /\ s.cont["update"] = "none"
       /\ \A k \in Conts : s.cont[k] # "started"
  /\ (s.owner /\ ~codex) => s.turn # "running"
  /\ OwnerStopIsFinal

(* What a step must hand to changed() for the owner's stop to stay final.  *)
LEMMA FinalChanged ==
  ASSUME NEW m \in States, Changed(m),
         m.turn = "running" =>
           /\ provider' /\ ~m.merged /\ m.cont["wakeup"] = "none" /\ m.cont["update"] = "none"
           /\ \A k \in Conts : m.cont[k] # "started",
         (m.owner /\ ~codex') => m.turn # "running",
         (m.owner /\ m.turn # "running") =>
           /\ m.cont["wakeup"] \notin {"queued", "started"} /\ m.cont["update"] \notin {"queued", "started"}
           /\ m.cont["permission"] # "started"
  PROVE  FinalInv'
<1>1. s'.turn = m.turn /\ s'.owner = m.owner
  BY ChangedFrame
<1>2. (m.turn = "running" \/ m.owner) =>
        /\ s'.merged = m.merged /\ s'.cont["wakeup"] = m.cont["wakeup"]
        /\ \A k \in Conts : s'.cont[k] # m.cont[k] => m.cont[k] = "queued" /\ s'.cont[k] = "cancelled"
  BY ChangedFrame
<1>3. m.owner => s'.cont["permission"] # "queued"
  BY ChangedFrame
<1>4. CASE m.turn = "running"
  <2>1. ~Ended(s)'
    BY <1>1, <1>4 DEF Ended, Finished
  <2> QED BY <1>1, <1>2, <1>4, <2>1 DEF FinalInv, OwnerStopIsFinal, Conts
<1>5. CASE m.turn # "running"
  <2>1. m.owner => \A k \in Conts : s'.cont[k] \notin {"queued", "started"}
    BY <1>2, <1>3, <1>5 DEF Conts
  <2> QED BY <1>1, <1>5, <2>1 DEF FinalInv, OwnerStopIsFinal
<1> QED BY <1>4, <1>5

(* Steps that leave the turn, its owner and the continuations alone, or    *)
(* only remove continuations of a turn that ended.                         *)
LEMMA FinalSame ==
  ASSUME FinalInv, s \in States, NEW m \in States, Changed(m), UNCHANGED codex, provider' = provider \/ s.turn # "running",
         m.turn = s.turn, m.owner = s.owner, m.merged = s.merged,
         \/ m.cont = s.cont
         \/ s.turn # "running" /\ \A k \in Conts : m.cont[k] \in {s.cont[k], "removed"}
  PROVE  FinalInv'
<1>1. (m.owner /\ m.turn # "running") => \A k \in Conts : m.cont[k] \notin {"queued", "started"}
  BY DEF FinalInv, OwnerStopIsFinal, Ended, States
<1>2. m.turn = "running" =>
        /\ provider' /\ ~m.merged /\ m.cont["wakeup"] = "none" /\ m.cont["update"] = "none"
        /\ \A k \in Conts : m.cont[k] # "started"
  BY DEF FinalInv
<1>3. (m.owner /\ ~codex') => m.turn # "running"
  BY DEF FinalInv
<1> QED BY <1>1, <1>2, <1>3, FinalChanged DEF Conts

LEMMA FinalStutter ==
  ASSUME FinalInv, SameTurn(s', s), UNCHANGED <<codex, provider>>
  PROVE  FinalInv'
BY DEF FinalInv, OwnerStopIsFinal, Ended, SameTurn

(* Steps of the update and of its requests.                                *)
LEMMA InsertionKeepsFinal ==
  ASSUME FinalInv, StateTypes, NEW w \in Wraps, Insertion(w)
  PROVE  FinalInv'
<1>1. s \in States
  BY DEF StateTypes
<1>2. UNCHANGED <<codex, provider>>
  BY DEF Insertion, WrapFlushed, WrapMarks, WrapHanded, WrapAnswered, WrapDelivered, WrapPutBack, Inserting, fixed
<1>3. Unchanged => FinalInv'
  BY <1>2, FinalStutter DEF Unchanged, SameTurn
<1>4. ASSUME GivesUp(w) PROVE FinalInv'
  <2>1. PICK m \in States : /\ m = RemovedUnsent(s, w) /\ m.turn = s.turn /\ m.owner = s.owner /\ m.merged = s.merged
                            /\ s.turn # "completed" => m.cont = s.cont
                            /\ \A k \in Conts : m.cont[k] \in {s.cont[k], "removed"}
    BY <1>1, RemovedFrame
  <2>2. Changed(m)
    BY <1>4, <2>1 DEF GivesUp
  <2> QED BY <1>1, <1>2, <2>1, <2>2, FinalSame
<1>5. ASSUME NEW st \in {"queued", "inserting", "delivered", "error"}, Changed([s EXCEPT !.wrap[w] = st])
      PROVE  FinalInv'
  <2>1. PICK m \in States : m = [s EXCEPT !.wrap[w] = st] /\ SameTurn(m, s)
    BY <1>1, WrapFrame
  <2>2. Changed(m)
    BY <1>5, <2>1
  <2> QED BY <1>1, <1>2, <2>1, <2>2, FinalSame DEF SameTurn
<1>6. ASSUME Changed(Sending([s EXCEPT !.wrap[w] = "error"], FALSE)) PROVE FinalInv'
  <2>1. PICK q \in States : q = [s EXCEPT !.wrap[w] = "error"] /\ SameTurn(q, s)
    BY <1>1, WrapFrame
  <2>2. Sending(q, FALSE) \in States /\ SameTurn(Sending(q, FALSE), q)
    BY FlagFrame, FALSE \in BOOLEAN
  <2>3. PICK m \in States : m = Sending(q, FALSE) /\ SameTurn(m, s)
    BY <2>1, <2>2 DEF SameTurn
  <2>4. Changed(m)
    BY <1>6, <2>1, <2>3
  <2> QED BY <1>1, <1>2, <2>3, <2>4, FinalSame DEF SameTurn
<1>7. CASE WrapFlushed(w)
  BY <1>3, <1>4, <1>7 DEF WrapFlushed, Unsent
<1>8. CASE WrapMarks(w)
  BY <1>4, <1>5, <1>8 DEF WrapMarks
<1>9. CASE WrapHanded(w)
  <2>1. CASE s' = IF codex THEN Reached(s, TRUE) ELSE Sending(Reached(s, TRUE), FALSE)
    <3>1. Reached(s, TRUE) \in States /\ SameTurn(Reached(s, TRUE), s)
      BY <1>1, FlagFrame, TRUE \in BOOLEAN
    <3>2. PICK r \in States : r = Reached(s, TRUE) /\ SameTurn(r, s)
      BY <3>1
    <3>3. SameTurn(Sending(r, FALSE), r)
      BY FlagFrame, FALSE \in BOOLEAN
    <3>4. SameTurn(s', s)
      BY <2>1, <3>2, <3>3 DEF SameTurn
    <3> QED BY <1>2, <3>4, FinalStutter
  <2> QED BY <1>3, <1>5, <1>9, <2>1 DEF WrapHanded, Unsent, PutBack
<1>10. CASE WrapAnswered(w)
  BY <1>5, <1>6, <1>10 DEF WrapAnswered, PutBack
<1>11. CASE WrapDelivered(w)
  <2>1. CASE s' = Sending(s, FALSE)
    <3>1. SameTurn(Sending(s, FALSE), s)
      BY <1>1, FlagFrame, FALSE \in BOOLEAN
    <3> QED BY <1>2, <2>1, <3>1, FinalStutter
  <2> QED BY <1>5, <1>6, <1>11, <2>1 DEF WrapDelivered
<1>12. CASE WrapPutBack(w)
  BY <1>3, <1>4, <1>12 DEF WrapPutBack, Unsent
<1> QED BY <1>7, <1>8, <1>9, <1>10, <1>11, <1>12 DEF Insertion

LEMMA UpdateKeepsFinal ==
  ASSUME FinalInv, StateTypes, Begin \/ End \/ DeadlinePasses \/ DriveStop \/ OwnerStops \/ SendWrapUp \/ Resolve
  PROVE  FinalInv'
<1>1. s \in States
  BY DEF StateTypes
<1>2. UNCHANGED <<codex, provider>>
  BY DEF Begin, End, DeadlinePasses, DriveStop, OwnerStops, SendWrapUp, Resolve, Updating, Inserting, fixed
<1>3. ASSUME NEW m \in States, Changed(m), m.turn = s.turn, m.owner = s.owner, m.merged = s.merged, m.cont = s.cont
      PROVE  FinalInv'
  BY <1>1, <1>2, <1>3, FinalSame
<1>4. CASE DeadlinePasses
  BY <1>2, <1>4, FinalStutter DEF DeadlinePasses, Unchanged, SameTurn
<1>5. CASE Begin
  <2>1. s.seq + 1 \in Nat
    BY <1>1 DEF States
  <2>2. PICK m \in States : m = [s EXCEPT !.drain = "active", !.seq = s.seq + 1]
    BY <1>1, <2>1, BegunFrame
  <2>3. m.turn = s.turn /\ m.owner = s.owner /\ m.merged = s.merged /\ m.cont = s.cont
    BY <1>1, <2>2 DEF States
  <2> QED BY <1>3, <1>5, <2>2, <2>3 DEF Begin
<1>6. CASE End
  <2>1. PICK m \in States : m = [s EXCEPT !.drain = "ended"]
    BY <1>1 DEF States
  <2>2. m.turn = s.turn /\ m.owner = s.owner /\ m.merged = s.merged /\ m.cont = s.cont
    BY <1>1, <2>1 DEF States
  <2> QED BY <1>3, <1>6, <2>1, <2>2 DEF End
<1>7. ASSUME NEW m \in States, Cancels(m), s.turn = "running", m.turn = s.turn,
             m.owner = s.owner \/ m.owner, m.merged = s.merged, m.cont = s.cont
      PROVE  FinalInv'
  <2>1. /\ provider' /\ ~m.merged /\ m.cont["wakeup"] = "none" /\ m.cont["update"] = "none"
        /\ \A k \in Conts : m.cont[k] # "started"
    BY <1>2, <1>7 DEF FinalInv
  <2>2. CASE codex
    <3>1. Changed(m) /\ codex'
      BY <1>2, <1>7, <2>2 DEF Cancels
    <3> QED BY <1>7, <2>1, <3>1, FinalChanged
  <2>3. CASE ~codex
    <3>1. PICK n \in States : n = [m EXCEPT !.turn = "cancelled"]
      BY <1>7 DEF States, Finished
    <3>2. n.turn = "cancelled" /\ n.owner = m.owner /\ n.merged = m.merged /\ n.cont = m.cont
      BY <1>7, <3>1 DEF States
    <3>3. Changed(n)
      BY <1>7, <2>3, <3>1 DEF Cancels
    <3> QED BY <2>1, <3>2, <3>3, FinalChanged DEF Conts
  <2> QED BY <2>2, <2>3
<1>8. CASE DriveStop
  <2>1. PICK g \in Targets : g = [s.target EXCEPT !.stopSent = s.seq, !.stopping = TRUE]
    BY <1>1, StopFrame
  <2>2. PICK m \in States : m = [s EXCEPT !.target = g]
    BY <1>1, <2>1 DEF States
  <2>3. m = [s EXCEPT !.target.stopSent = s.seq, !.target.stopping = TRUE]
    BY <1>1, <2>1, <2>2 DEF States, Targets
  <2>4. m.turn = s.turn /\ m.owner = s.owner /\ m.merged = s.merged /\ m.cont = s.cont
    BY <1>1, <2>2 DEF States
  <2>5. s.turn = "running" /\ Cancels(m)
    BY <1>8, <2>3 DEF DriveStop, Driven
  <2> QED BY <1>7, <2>2, <2>4, <2>5
<1>9. CASE OwnerStops
  <2>1. PICK m \in States : m = [s EXCEPT !.owner = TRUE]
    BY <1>1 DEF States
  <2>2. m.turn = s.turn /\ m.owner /\ m.merged = s.merged /\ m.cont = s.cont
    BY <1>1, <2>1 DEF States
  <2>3. s.turn = "running" /\ Cancels(m)
    BY <1>9, <2>1 DEF OwnerStops
  <2> QED BY <1>7, <2>1, <2>2, <2>3
<1>10. CASE SendWrapUp
  <2>1. PICK w \in Wraps : Changed([s EXCEPT !.wrap[w] = "queued", !.target.sending = TRUE])
    BY <1>10 DEF SendWrapUp
  <2>2. PICK q \in States : q = [s EXCEPT !.wrap[w] = "queued"] /\ SameTurn(q, s) /\ q.target = s.target
    <3>1. "queued" \in {"none", "queued", "removed", "inserting", "delivered", "done", "error", "turn"}
      OBVIOUS
    <3>2. /\ [s EXCEPT !.wrap[w] = "queued"] \in States /\ SameTurn([s EXCEPT !.wrap[w] = "queued"], s)
          /\ [s EXCEPT !.wrap[w] = "queued"].target = s.target
      BY <1>1, <3>1, WrapFrame
    <3> QED BY <3>2
  <2>3. PICK g \in Targets : g = [s.target EXCEPT !.sending = TRUE]
    BY <1>1 DEF States, Targets
  <2>4. PICK m \in States : m = [q EXCEPT !.target = g]
    BY <2>2, <2>3 DEF States
  <2>5. m = [s EXCEPT !.wrap[w] = "queued", !.target.sending = TRUE]
    BY <1>1, <2>2, <2>3, <2>4 DEF States
  <2>6. m.turn = q.turn /\ m.owner = q.owner /\ m.merged = q.merged /\ m.cont = q.cont
    BY <2>2, <2>4 DEF States
  <2> QED BY <1>3, <2>1, <2>2, <2>4, <2>5, <2>6 DEF SameTurn
<1>11. CASE Resolve
  <2> DEFINE rows == [w \in Wraps |-> IF w \in {v \in Wraps : at[v] = "unsent"} THEN "error" ELSE s.wrap[w]]
  <2>1. rows \in [Wraps -> {"none", "queued", "removed", "inserting", "delivered", "done", "error", "turn"}]
    BY <1>1 DEF States
  <2>2. Changed([s EXCEPT !.wrap = rows])
    BY <1>11 DEF Resolve
  <2> HIDE DEF rows
  <2>3. PICK m \in States : m = [s EXCEPT !.wrap = rows]
    BY <1>1, <2>1 DEF States
  <2>4. m.turn = s.turn /\ m.owner = s.owner /\ m.merged = s.merged /\ m.cont = s.cont
    BY <1>1, <2>3 DEF States
  <2> QED BY <1>3, <2>2, <2>3, <2>4
<1> QED BY <1>4, <1>5, <1>6, <1>8, <1>9, <1>10, <1>11

LEMMA TurnKeepsFinal ==
  ASSUME FinalInv, StateTypes,
         Exited \/ AsksPermission \/ Approve \/ Supersede \/ ContinuationStarts \/ WrapUpStarts
  PROVE  FinalInv'
<1>1. s \in States
  BY DEF StateTypes
<1>2. UNCHANGED codex
  BY DEF Exited, AsksPermission, Approve, Supersede, ContinuationStarts, WrapUpStarts, Ending, fixed
<1>3. CASE Exited
  <2>1. CASE s.turn # "running"
    BY <1>1, <1>2, <1>3, <2>1, FinalSame DEF Exited
  <2>2. CASE s.turn = "running"
    <3>1. PICK n \in States : Changed(n) /\ n.turn \in Finished /\ n.owner = s.owner /\ (codex => n.cont = s.cont)
      BY <1>1, <1>3, <2>2, ExitFrame
    <3>2. n.turn # "running"
      BY <3>1 DEF Finished
    <3>3. n.owner => \A k \in Conts : n.cont[k] # "started" /\ (k # "permission" => n.cont[k] = "none")
      BY <2>2, <3>1 DEF FinalInv, Conts
    <3> QED BY <3>1, <3>2, <3>3, FinalChanged DEF Conts
  <2> QED BY <2>1, <2>2
<1>4. CASE AsksPermission
  BY <1>2, <1>4, FinalStutter DEF AsksPermission, Unchanged, SameTurn
<1>5. ASSUME NEW k \in Conts, NEW st \in {"queued", "cancelled", "started"}, Changed([s EXCEPT !.cont[k] = st]),
             provider' = provider, st # "cancelled" => ~s.owner, st = "started" => s.turn # "running",
             k \in {"wakeup", "update"} => s.turn # "running"
      PROVE  FinalInv'
  <2>1. PICK m \in States : m = [s EXCEPT !.cont[k] = st]
    BY <1>1, ContFrame
  <2>2. m.turn = s.turn /\ m.owner = s.owner /\ m.merged = s.merged /\ m.cont = [s.cont EXCEPT ![k] = st]
    BY <1>1, <2>1 DEF States
  <2>3. \A j \in Conts : m.cont[j] = IF j = k THEN st ELSE s.cont[j]
    BY <1>1, <2>2 DEF States
  <2>4. m.turn = "running" =>
          /\ provider' /\ ~m.merged /\ m.cont["wakeup"] = "none" /\ m.cont["update"] = "none"
          /\ \A j \in Conts : m.cont[j] # "started"
    BY <1>5, <2>2, <2>3 DEF FinalInv, Conts
  <2>5. (m.owner /\ m.turn # "running") => \A j \in Conts : m.cont[j] \notin {"queued", "started"}
    BY <1>1, <1>5, <2>2, <2>3 DEF FinalInv, OwnerStopIsFinal, Ended, States
  <2>6. (m.owner /\ ~codex') => m.turn # "running"
    BY <1>2, <2>2 DEF FinalInv
  <2>7. Changed(m)
    BY <1>5, <2>1
  <2> QED BY <2>4, <2>5, <2>6, <2>7, FinalChanged DEF Conts
<1>6. CASE Approve
  <2>1. \/ Changed([s EXCEPT !.receipt = TRUE])
        \/ Changed([s EXCEPT !.cont["permission"] = "cancelled"])
        \/ ~s.owner /\ Changed([s EXCEPT !.cont["permission"] = "queued"])
    BY <1>6 DEF Approve
  <2>2. provider' = provider
    BY <1>6 DEF Approve
  <2>3. CASE Changed([s EXCEPT !.receipt = TRUE])
    <3>1. PICK m \in States : m = [s EXCEPT !.receipt = TRUE]
      BY <1>1 DEF States
    <3>2. m.turn = s.turn /\ m.owner = s.owner /\ m.merged = s.merged /\ m.cont = s.cont
      BY <1>1, <3>1 DEF States
    <3>3. Changed(m)
      BY <2>3, <3>1
    <3> QED BY <1>1, <1>2, <2>2, <3>2, <3>3, FinalSame
  <2> QED BY <1>5, <2>1, <2>2, <2>3 DEF Conts
<1>7. CASE Supersede
  <2>1. PICK k \in {"permission", "update"} : s.cont[k] = "queued" /\ Changed([s EXCEPT !.cont[k] = "cancelled"])
    BY <1>7 DEF Supersede
  <2>2. k = "update" => s.turn # "running"
    BY <2>1 DEF FinalInv
  <2>3. provider' = provider
    BY <1>7 DEF Supersede
  <2> QED BY <1>5, <2>1, <2>2, <2>3 DEF Conts
<1>8. CASE ContinuationStarts
  <2>1. PICK k \in Conts : s.cont[k] = "queued" /\ Changed([s EXCEPT !.cont[k] = "started"])
    BY <1>8 DEF ContinuationStarts
  <2>2. s.turn # "running" /\ provider' = provider
    BY <1>8 DEF ContinuationStarts, MayLaunch, SessionFree, FinalInv
  <2>3. ~s.owner
    BY <1>1, <2>1, <2>2 DEF FinalInv, OwnerStopIsFinal, Ended, States
  <2> QED BY <1>5, <2>1, <2>2, <2>3
<1>9. CASE WrapUpStarts
  <2>1. PICK w \in Wraps : Changed([s EXCEPT !.wrap[w] = "turn"]) /\ provider' = provider
    BY <1>9 DEF WrapUpStarts
  <2>2. PICK m \in States : m = [s EXCEPT !.wrap[w] = "turn"] /\ SameTurn(m, s)
    BY <1>1, WrapFrame
  <2>3. Changed(m)
    BY <2>1, <2>2
  <2> QED BY <1>1, <1>2, <2>1, <2>2, <2>3, FinalSame DEF SameTurn
<1> QED BY <1>3, <1>4, <1>6, <1>7, <1>8, <1>9

LEMMA FinalInvHolds == Spec => []FinalInv
<1>1. Init => FinalInv
  <2>1. Init => /\ s.turn = "running" /\ s.owner = FALSE /\ s.merged = FALSE /\ s.cont = [k \in Conts |-> "none"]
                /\ provider = TRUE
    BY DEF Init
  <2> QED BY <2>1 DEF FinalInv, OwnerStopIsFinal, Ended, Finished, Conts
<1>2. TypeOK /\ FinalInv /\ [Next]_vars => FinalInv'
  <2> SUFFICES ASSUME StateTypes, FinalInv, [Next]_vars
               PROVE  FinalInv'
    BY TypeParts
  <2>1. CASE UNCHANGED vars
    BY <2>1, FinalStutter DEF vars, fixed, SameTurn
  <2>2. CASE Next
    BY <2>2, UpdateKeepsFinal, InsertionKeepsFinal, TurnKeepsFinal DEF Next
  <2> QED BY <2>1, <2>2
<1> QED BY <1>1, <1>2, TypesHold, PTL DEF Spec

(* Whatever waits, is approved, is refused or ends after the owner stopped *)
(* a turn, no continuation of that turn is queued or started once it ended *)
(* (settle and sweep, in the step that shows it ended).                    *)
THEOREM StopIsFinal == Spec => []OwnerStopIsFinal
<1>1. FinalInv => OwnerStopIsFinal
  BY DEF FinalInv
<1> QED BY <1>1, FinalInvHolds, PTL

(***************************************************************************)
(* Why an interrupted turn is carried on, and once. What an update owes a  *)
(* turn is settled in the one step that shows it ended: until then nothing *)
(* was made for the update, and what says that the turn is interrupted (it *)
(* was stopped, or has a request to wrap up) is in its target. From then   *)
(* on the turn has no target, so no step settles it again.                 *)
(***************************************************************************)
(* changed() carries a turn on.                                            *)
Carries(m) == Settles(m) /\ Interrupted(m)

(* A step only cancels continuations that waited.                          *)
OnlyCancels(c, d) == \A k \in Conts : d[k] # c[k] => c[k] = "queued" /\ d[k] = "cancelled"

(* The settlement, without the target.                                     *)
LEMMA TrackedCarries ==
  ASSUME NEW m \in States
  PROVE  /\ Carries(m) => Tracked(m).cont = Carried(m).cont /\ Tracked(m).merged = Carried(m).merged
         /\ ~Carries(m) => Tracked(m).cont = m.cont /\ Tracked(m).merged = m.merged
<1> DEFINE r == Registered(m)
           t == IF ~Settles(r) THEN r
                ELSE [(IF Interrupted(r) THEN Carried(r) ELSE r) EXCEPT !.target = NoTarget]
<1>1. /\ r \in States /\ r = [m EXCEPT !.target = r.target]
      /\ r.turn = m.turn /\ r.cont = m.cont /\ r.merged = m.merged
  <2>1. r \in States /\ r = [m EXCEPT !.target = r.target]
    BY RegisteredFrame
  <2> QED BY <2>1 DEF States
<1>2. m.turn # "running" => r = m
  BY DEF Registered
<1>3. Carries(m) => t = [Carried(m) EXCEPT !.target = NoTarget]
  BY <1>2 DEF Carries, Settles, Ended, Finished
<1>4. ~Carries(m) => t = r \/ t = [r EXCEPT !.target = NoTarget]
  BY <1>1, <1>2 DEF Carries, Settles, Ended, Finished
<1>5. Carried(m) \in States
  BY CarriedFrame
<1>6. NoTarget \in Targets
  BY DEF NoTarget, Targets
<1>7. ASSUME NEW q \in States
      PROVE  /\ [q EXCEPT !.target = NoTarget] \in States
             /\ [q EXCEPT !.target = NoTarget].cont = q.cont /\ [q EXCEPT !.target = NoTarget].merged = q.merged
  BY <1>6 DEF States
<1>8. t \in States
  BY <1>1, <1>3, <1>4, <1>5, <1>7
<1>9. Tracked(m) = IF t.drain = "ended" /\ ~t.target.on THEN [t EXCEPT !.drain = "off", !.seq = 0] ELSE t
  BY DEF Tracked
<1> HIDE DEF t, r
<1>10. Tracked(m).cont = t.cont /\ Tracked(m).merged = t.merged
  BY <1>8, <1>9, ForgottenFrame
<1>11. Carries(m) => t.cont = Carried(m).cont /\ t.merged = Carried(m).merged
  BY <1>3, <1>5, <1>7
<1>12. ~Carries(m) => t.cont = m.cont /\ t.merged = m.merged
  BY <1>1, <1>4, <1>7
<1> QED BY <1>10, <1>11, <1>12

(* What carries a turn on: a permission's continuation that waits, or one  *)
(* of the update's own in place of the agent's wakeup.                     *)
LEMMA CarriedParts ==
  ASSUME NEW m \in States
  PROVE  /\ (m.cont["permission"] = "queued" /\ ~m.merged) => Carried(m).cont = m.cont /\ Carried(m).merged
         /\ ~(m.cont["permission"] = "queued" /\ ~m.merged) =>
              /\ Carried(m).merged = m.merged
              /\ Carried(m).cont["update"] = "queued" /\ Carried(m).cont["wakeup"] # "queued"
              /\ Carried(m).cont["permission"] = m.cont["permission"]
<1>1. CASE m.cont["permission"] = "queued" /\ ~m.merged
  BY <1>1 DEF Carried, States
<1>2. CASE ~(m.cont["permission"] = "queued" /\ ~m.merged)
  BY <1>2 DEF Carried, States, Conts
<1> QED BY <1>1, <1>2

(* The continuations and the count that a change leaves.                   *)
LEMMA ChangedCarries ==
  ASSUME NEW m \in States, Changed(m)
  PROVE  LET joins == m.cont["permission"] = "queued" /\ ~m.merged IN
         /\ ~Carries(m) => OnlyCancels(m.cont, s'.cont) /\ s'.merged = m.merged /\ resumed' = resumed
         /\ (Carries(m) /\ joins) => OnlyCancels(m.cont, s'.cont) /\ s'.merged /\ resumed' = resumed + 1
         /\ (Carries(m) /\ ~joins /\ m.cont["update"] # "queued") =>
              /\ s'.merged = m.merged /\ resumed' = resumed + 1
              /\ s'.cont["update"] \in {"queued", "cancelled"} /\ s'.cont["wakeup"] # "queued"
              /\ s'.cont["permission"] = "queued" => m.cont["permission"] = "queued"
<1> DEFINE joins == m.cont["permission"] = "queued" /\ ~m.merged
<1>1. PICK a \in States : a = Mirrored(m) /\ a = [m EXCEPT !.wrap = a.wrap]
  BY MirroredFrame
<1>2. a.turn = m.turn /\ a.owner = m.owner /\ a.target = m.target /\ a.cont = m.cont /\ a.merged = m.merged
  BY <1>1 DEF States
<1>3. Carries(a) <=> Carries(m)
  BY <1>2 DEF Carries, Settles, Ended, Interrupted
<1>4. PICK n \in States : n = Tracked(a)
  BY TrackedFrame
<1>5. /\ Carries(m) => n.cont = Carried(a).cont /\ n.merged = Carried(a).merged
      /\ ~Carries(m) => n.cont = m.cont /\ n.merged = m.merged
  BY <1>2, <1>3, <1>4, TrackedCarries
<1>6. /\ joins => Carried(a).cont = m.cont /\ Carried(a).merged
      /\ ~joins => /\ Carried(a).merged = m.merged
                   /\ Carried(a).cont["update"] = "queued" /\ Carried(a).cont["wakeup"] # "queued"
                   /\ Carried(a).cont["permission"] = m.cont["permission"]
  BY <1>2, CarriedParts
<1>7. /\ s' = Swept(n)
      /\ resumed' = IF (n.merged /\ ~m.merged) \/ (n.cont["update"] = "queued" /\ m.cont["update"] # "queued")
                    THEN resumed + 1 ELSE resumed
  BY <1>1, <1>4 DEF Changed
<1>8. OnlyCancels(n.cont, s'.cont) /\ s'.cont["wakeup"] = n.cont["wakeup"] /\ s'.merged = n.merged
  <2>1. s' \in States /\ s' = [n EXCEPT !.cont = s'.cont] /\ s'.cont["wakeup"] = n.cont["wakeup"]
    BY <1>7, SweptFrame
  <2>2. OnlyCancels(n.cont, s'.cont)
    BY <1>7, SweptFrame DEF OnlyCancels
  <2>3. s'.merged = n.merged
    BY <2>1 DEF States
  <2> QED BY <2>1, <2>2, <2>3
<1>9. CASE ~Carries(m)
  <2>1. n.cont = m.cont /\ n.merged = m.merged
    BY <1>5, <1>9
  <2>2. ~(n.merged /\ ~m.merged) /\ ~(n.cont["update"] = "queued" /\ m.cont["update"] # "queued")
    BY <2>1
  <2>3. resumed' = resumed
    BY <1>7, <2>2
  <2> QED BY <1>8, <1>9, <2>1, <2>3
<1>10. CASE Carries(m) /\ joins
  <2>1. n.cont = m.cont /\ n.merged
    BY <1>5, <1>6, <1>10
  <2>2. resumed' = resumed + 1
    BY <1>7, <1>10, <2>1
  <2> QED BY <1>8, <1>10, <2>1, <2>2
<1>11. CASE Carries(m) /\ ~joins /\ m.cont["update"] # "queued"
  <2>1. /\ n.merged = m.merged /\ n.cont["update"] = "queued" /\ n.cont["wakeup"] # "queued"
        /\ n.cont["permission"] = m.cont["permission"]
    BY <1>5, <1>6, <1>11
  <2>2. resumed' = resumed + 1
    BY <1>7, <1>11, <2>1
  <2>3. s'.cont["update"] \in {"queued", "cancelled"}
    BY <1>8, <2>1 DEF OnlyCancels, Conts
  <2>4. s'.cont["permission"] = "queued" => m.cont["permission"] = "queued"
    BY <1>8, <2>1 DEF OnlyCancels, Conts
  <2> QED BY <1>8, <1>11, <2>1, <2>2, <2>3, <2>4
<1> QED BY <1>9, <1>10, <1>11

CarryInv ==
  /\ s.turn = "running" => resumed = 0
  /\ (deadline /\ s.turn = "running") => s.target.on /\ s.target.stopping
  /\ s.merged => s.cont["wakeup"] # "queued"
  /\ CarriedOnOnce
  /\ InterruptedIsCarried

(* The turn still runs: what it is owed stays noted in its target.         *)
LEMMA CarryRuns ==
  ASSUME CarryInv, FinalInv, s.turn = "running", NEW m \in States, Changed(m), m.turn = "running",
         m.merged = s.merged, m.cont["wakeup"] = "none", m.cont["update"] = "none",
         deadline' => m.target.on /\ m.target.stopping
  PROVE  CarryInv'
<1>1. ~Carries(m)
  BY DEF Carries, Settles, Ended, Finished
<1>2. OnlyCancels(m.cont, s'.cont) /\ s'.merged = m.merged /\ resumed' = resumed
  BY <1>1, ChangedCarries
<1>3. s'.cont["wakeup"] = "none" /\ s'.cont["update"] = "none"
  BY <1>2 DEF OnlyCancels, Conts
<1>4. s'.turn = "running" /\ (m.target.on => s'.target = m.target)
  BY ChangedFrame
<1>5. resumed' = 0 /\ ~s'.merged
  BY <1>2 DEF CarryInv, FinalInv
<1>6. CarriedOnOnce'
  BY <1>3, <1>5 DEF CarriedOnOnce
<1>7. InterruptedIsCarried'
  BY <1>4 DEF InterruptedIsCarried
<1>8. deadline' => s'.target.on /\ s'.target.stopping
  BY <1>4
<1> QED BY <1>5, <1>6, <1>7, <1>8 DEF CarryInv

(* The step that shows the turn ended settles it.                          *)
LEMMA CarryEnds ==
  ASSUME CarryInv, FinalInv, s.turn = "running", NEW m \in States, Changed(m), m.turn \in Finished,
         m.merged = s.merged, m.cont["update"] = "none",
         m.cont["permission"] = "queued" => m.cont["wakeup"] # "queued",
         deadline' => m.target.on /\ m.target.stopping,
         taken' # {} => m.target.on /\ m.target.reached,
         UNCHANGED delegated
  PROVE  CarryInv'
<1>1. s'.turn = m.turn /\ s'.owner = m.owner /\ m.turn # "running"
  BY ChangedFrame DEF Finished
<1>2. ~m.merged /\ resumed = 0 /\ m.cont["update"] # "queued"
  BY DEF CarryInv, FinalInv
<1>3. CASE ~Carries(m)
  <2>1. OnlyCancels(m.cont, s'.cont) /\ s'.merged = m.merged /\ resumed' = resumed
    BY <1>3, ChangedCarries
  <2>2. s'.cont["update"] = "none" /\ ~s'.merged /\ resumed' = 0
    BY <1>2, <2>1 DEF OnlyCancels, Conts
  <2>3. CarriedOnOnce'
    BY <2>2 DEF CarriedOnOnce
  <2>4. ~m.target.on \/ ~Interrupted(m)
    BY <1>3 DEF Carries, Settles, Ended
  <2>5. InterruptedIsCarried'
    BY <1>1, <2>4 DEF InterruptedIsCarried, Interrupted
  <2> QED BY <1>1, <2>2, <2>3, <2>5 DEF CarryInv
<1>4. CASE Carries(m) /\ m.cont["permission"] = "queued"
  <2>1. OnlyCancels(m.cont, s'.cont) /\ s'.merged /\ resumed' = resumed + 1
    BY <1>2, <1>4, ChangedCarries
  <2>2. resumed' = 1
    BY <1>2, <2>1
  <2>3. s'.cont["update"] = "none" /\ s'.cont["wakeup"] # "queued" /\ s'.cont["permission"] \in {"queued", "cancelled"}
    BY <1>4, <2>1 DEF OnlyCancels, Conts
  <2>4. CarriedOnOnce'
    BY <2>2, <2>3 DEF CarriedOnOnce
  <2>5. InterruptedIsCarried'
    BY <2>2, <2>3 DEF InterruptedIsCarried
  <2> QED BY <1>1, <2>2, <2>3, <2>4, <2>5 DEF CarryInv
<1>5. CASE Carries(m) /\ m.cont["permission"] # "queued"
  <2>1. /\ s'.merged = m.merged /\ resumed' = resumed + 1
        /\ s'.cont["update"] \in {"queued", "cancelled"} /\ s'.cont["wakeup"] # "queued"
        /\ s'.cont["permission"] # "queued"
    BY <1>2, <1>5, ChangedCarries
  <2>2. resumed' = 1 /\ ~s'.merged
    BY <1>2, <2>1
  <2>3. CarriedOnOnce'
    BY <2>1, <2>2 DEF CarriedOnOnce, Conts
  <2>4. InterruptedIsCarried'
    BY <2>1, <2>2 DEF InterruptedIsCarried
  <2> QED BY <1>1, <2>1, <2>2, <2>3, <2>4 DEF CarryInv
<1> QED BY <1>3, <1>4, <1>5

(* What the update owed the turn when it ended.                            *)
Owed == ~delegated /\ ~s.owner /\ ((s.turn = "cancelled" /\ deadline) \/ (s.turn = "completed" /\ taken # {}))

(* After the end nothing is settled again. A permission's continuation     *)
(* comes later only while none of the update's waits.                      *)
LEMMA CarryEnded ==
  ASSUME CarryInv, s.turn # "running", NEW m \in States, Changed(m), m.turn = s.turn, m.owner = s.owner,
         ~m.target.on, m.merged = s.merged, UNCHANGED <<delegated, deadline>>, taken' # {} => taken # {},
         \A k \in Conts : m.cont[k] = "queued" => s.cont[k] = "queued" \/ (k = "permission" /\ s.cont["update"] # "queued"),
         \A k \in Conts : (m.cont[k] = "removed" /\ Owed) => s.cont[k] = "removed"
  PROVE  CarryInv'
<1>1. s'.turn = s.turn /\ s'.owner = s.owner
  BY ChangedFrame
<1>2. ~Carries(m)
  BY DEF Carries, Settles
<1>3. OnlyCancels(m.cont, s'.cont) /\ s'.merged = s.merged /\ resumed' = resumed
  BY <1>2, ChangedCarries
<1>4. \A k \in Conts : s'.cont[k] = "queued" => s.cont[k] = "queued" \/ (k = "permission" /\ s.cont["update"] # "queued")
  BY <1>3 DEF OnlyCancels
<1>5. \A k \in Conts : (s'.cont[k] = "removed" /\ Owed) => s.cont[k] = "removed"
  BY <1>3 DEF OnlyCancels
<1>6. s'.merged => s'.cont["wakeup"] # "queued"
  BY <1>3, <1>4 DEF CarryInv, Conts
<1>7. CarriedOnOnce'
  BY <1>3, <1>4, <1>6 DEF CarryInv, CarriedOnOnce, Conts
<1>8. Owed' => Owed
  BY <1>1 DEF Owed
<1>9. InterruptedIsCarried'
  BY <1>3, <1>5, <1>8 DEF CarryInv, InterruptedIsCarried, Owed, Conts
<1> QED BY <1>1, <1>6, <1>7, <1>9 DEF CarryInv

(* The runs are saved, asked or answered without a change of them.         *)
LEMMA CarryStutter ==
  ASSUME CarryInv, SameTurn(s', s), UNCHANGED <<resumed, delegated, deadline>>,
         s'.target.on = s.target.on, s'.target.stopping = s.target.stopping,
         s.turn = "running" \/ UNCHANGED taken
  PROVE  CarryInv'
<1>1. CarriedOnOnce'
  BY DEF CarryInv, CarriedOnOnce, SameTurn
<1>2. InterruptedIsCarried'
  BY DEF CarryInv, InterruptedIsCarried, SameTurn
<1> QED BY <1>1, <1>2 DEF CarryInv, SameTurn

(* A change of the runs that leaves the turn, its owner, its target and    *)
(* the continuations alone, or removes some when nothing is owed.          *)
LEMMA CarrySame ==
  ASSUME CarryInv, FinalInv, StateTypes, NEW m \in States, Changed(m),
         m.turn = s.turn, m.owner = s.owner, m.merged = s.merged,
         m.target.on = s.target.on, m.target.stopping = s.target.stopping,
         UNCHANGED <<delegated, deadline>>, taken' # {} => taken # {},
         \/ m.cont = s.cont
         \/ s.turn # "running" /\ ~Owed /\ \A k \in Conts : m.cont[k] \in {s.cont[k], "removed"}
  PROVE  CarryInv'
<1>1. CASE s.turn = "running"
  BY <1>1, CarryRuns DEF CarryInv, FinalInv
<1>2. CASE s.turn # "running"
  <2>1. ~m.target.on
    BY <1>2 DEF StateTypes
  <2> QED BY <1>2, <2>1, CarryEnded
<1> QED BY <1>1, <1>2

(* Steps of the update and of its requests.                                *)
LEMMA InsertionKeepsCarry ==
  ASSUME CarryInv, FinalInv, AskedInv, StateTypes, NEW w \in Wraps, Insertion(w)
  PROVE  CarryInv'
<1>1. s \in States
  BY DEF StateTypes
<1>2. UNCHANGED <<delegated, deadline>>
  BY DEF Insertion, WrapFlushed, WrapMarks, WrapHanded, WrapAnswered, WrapDelivered, WrapPutBack, Inserting, fixed
<1>3. (Unchanged /\ UNCHANGED taken) => CarryInv'
  BY <1>2, CarryStutter DEF Unchanged, SameTurn
<1>4. ASSUME GivesUp(w), at[w] \in Before PROVE CarryInv'
  <2>1. PICK m \in States : /\ m = RemovedUnsent(s, w) /\ m.turn = s.turn /\ m.owner = s.owner /\ m.merged = s.merged
                            /\ m.target.on = s.target.on /\ m.target.stopping = s.target.stopping
                            /\ s.turn # "completed" => m.cont = s.cont
                            /\ \A k \in Conts : m.cont[k] \in {s.cont[k], "removed"}
    BY <1>1, RemovedFrame
  <2>2. Changed(m) /\ UNCHANGED taken
    BY <1>4, <2>1 DEF GivesUp
  <2>3. taken = {}
    BY <1>4 DEF AskedInv, TakenCounts
  <2>4. \/ m.cont = s.cont
        \/ s.turn # "running" /\ ~Owed /\ \A k \in Conts : m.cont[k] \in {s.cont[k], "removed"}
    BY <2>1, <2>3 DEF Owed
  <2>5. taken' # {} => taken # {}
    BY <2>2
  <2> QED BY <1>2, <2>1, <2>2, <2>4, <2>5, CarrySame
<1>5. ASSUME NEW st \in {"queued", "inserting", "delivered", "error"}, Changed([s EXCEPT !.wrap[w] = st]), taken' # {} => taken # {}
      PROVE  CarryInv'
  <2>0. /\ [s EXCEPT !.wrap[w] = st] \in States /\ SameTurn([s EXCEPT !.wrap[w] = st], s)
        /\ [s EXCEPT !.wrap[w] = st].target = s.target
    <3>1. st \in {"none", "queued", "removed", "inserting", "delivered", "done", "error", "turn"}
      BY <1>5
    <3> QED BY <1>1, <3>1, WrapFrame
  <2>1. PICK m \in States : m = [s EXCEPT !.wrap[w] = st] /\ SameTurn(m, s) /\ m.target = s.target
    BY <2>0
  <2>2. Changed(m)
    BY <1>5, <2>1
  <2> QED BY <1>2, <1>5, <2>1, <2>2, CarrySame DEF SameTurn
<1>6. ASSUME Changed(Sending([s EXCEPT !.wrap[w] = "error"], FALSE)), UNCHANGED taken PROVE CarryInv'
  <2>1. PICK q \in States : q = [s EXCEPT !.wrap[w] = "error"] /\ SameTurn(q, s) /\ q.target = s.target
    <3>1. "error" \in {"none", "queued", "removed", "inserting", "delivered", "done", "error", "turn"}
      OBVIOUS
    <3>2. /\ [s EXCEPT !.wrap[w] = "error"] \in States /\ SameTurn([s EXCEPT !.wrap[w] = "error"], s)
          /\ [s EXCEPT !.wrap[w] = "error"].target = s.target
      BY <1>1, <3>1, WrapFrame
    <3> QED BY <3>2
  <2>2. /\ Sending(q, FALSE) \in States /\ SameTurn(Sending(q, FALSE), q)
        /\ Sending(q, FALSE).target.on = q.target.on /\ Sending(q, FALSE).target.stopping = q.target.stopping
    BY FlagFrame, FALSE \in BOOLEAN
  <2>3. PICK m \in States : /\ m = Sending(q, FALSE) /\ SameTurn(m, s)
                            /\ m.target.on = s.target.on /\ m.target.stopping = s.target.stopping
    <3>1. SameTurn(Sending(q, FALSE), s)
      BY <2>1, <2>2 DEF SameTurn
    <3>2. Sending(q, FALSE).target.on = s.target.on /\ Sending(q, FALSE).target.stopping = s.target.stopping
      BY <2>1, <2>2
    <3> QED BY <2>2, <3>1, <3>2
  <2>4. Changed(m)
    BY <1>6, <2>1, <2>3
  <2> QED BY <1>2, <1>6, <2>3, <2>4, CarrySame DEF SameTurn
<1>7. CASE WrapFlushed(w)
  <2>1. at[w] \in Before
    BY <1>7 DEF WrapFlushed, Before
  <2> QED BY <1>3, <1>4, <1>7, <2>1 DEF WrapFlushed, Unsent
<1>8. CASE WrapMarks(w)
  <2>1. at[w] \in Before
    BY <1>8 DEF WrapMarks, Before
  <2> QED BY <1>4, <1>5, <1>8, <2>1 DEF WrapMarks
<1>9. CASE WrapHanded(w)
  <2>1. CASE Steerable /\ UNCHANGED resumed /\ s' = IF codex THEN Reached(s, TRUE) ELSE Sending(Reached(s, TRUE), FALSE)
    <3>1. /\ Reached(s, TRUE) \in States /\ SameTurn(Reached(s, TRUE), s)
          /\ Reached(s, TRUE).target.on = s.target.on /\ Reached(s, TRUE).target.stopping = s.target.stopping
      BY <1>1, FlagFrame, TRUE \in BOOLEAN
    <3>2. PICK r \in States : r = Reached(s, TRUE) /\ SameTurn(r, s) /\ r.target.on = s.target.on /\ r.target.stopping = s.target.stopping
      BY <3>1
    <3>3. /\ SameTurn(Sending(r, FALSE), r) /\ Sending(r, FALSE).target.on = r.target.on
          /\ Sending(r, FALSE).target.stopping = r.target.stopping
      BY FlagFrame, FALSE \in BOOLEAN
    <3>4. SameTurn(s', s) /\ s'.target.on = s.target.on /\ s'.target.stopping = s.target.stopping
      BY <2>1, <3>2, <3>3 DEF SameTurn
    <3>5. s.turn = "running"
      BY <2>1 DEF Steerable
    <3> QED BY <1>2, <2>1, <3>4, <3>5, CarryStutter
  <2> QED BY <1>3, <1>5, <1>9, <2>1 DEF WrapHanded, Unsent, PutBack
<1>10. CASE WrapAnswered(w)
  <2>1. taken' # {} => taken # {}
    BY <1>10 DEF WrapAnswered
  <2> QED BY <1>5, <1>6, <1>10, <2>1 DEF WrapAnswered, PutBack
<1>11. CASE WrapDelivered(w)
  <2>1. UNCHANGED taken
    BY <1>11 DEF WrapDelivered
  <2>2. CASE s' = Sending(s, FALSE) /\ UNCHANGED resumed
    <3>1. /\ SameTurn(Sending(s, FALSE), s) /\ Sending(s, FALSE).target.on = s.target.on
          /\ Sending(s, FALSE).target.stopping = s.target.stopping
      BY <1>1, FlagFrame, FALSE \in BOOLEAN
    <3> QED BY <1>2, <2>1, <2>2, <3>1, CarryStutter
  <2> QED BY <1>5, <1>6, <1>11, <2>1, <2>2 DEF WrapDelivered
<1>12. CASE WrapPutBack(w)
  <2>1. at[w] \in Before
    BY <1>12 DEF WrapPutBack, Before
  <2> QED BY <1>3, <1>4, <1>12, <2>1 DEF WrapPutBack, Unsent
<1> QED BY <1>7, <1>8, <1>9, <1>10, <1>11, <1>12 DEF Insertion

LEMMA UpdateKeepsCarry ==
  ASSUME CarryInv, FinalInv, AskedInv, StateTypes,
         Begin \/ End \/ DeadlinePasses \/ DriveStop \/ OwnerStops \/ SendWrapUp \/ Resolve
  PROVE  CarryInv'
<1>1. s \in States
  BY DEF StateTypes
<1>2. UNCHANGED <<delegated, taken>>
  BY DEF Begin, End, DeadlinePasses, DriveStop, OwnerStops, SendWrapUp, Resolve, Updating, Inserting, fixed
<1>3. ASSUME NEW m \in States, Changed(m), m.turn = s.turn, m.owner = s.owner, m.merged = s.merged, m.cont = s.cont,
             m.target.on = s.target.on, m.target.stopping = s.target.stopping, UNCHANGED deadline
      PROVE  CarryInv'
  BY <1>2, <1>3, CarrySame
<1>4. CASE DeadlinePasses
  BY <1>2, <1>4, CarryStutter DEF DeadlinePasses, Unchanged, SameTurn
<1>5. CASE Begin
  <2>1. s.seq + 1 \in Nat
    BY <1>1 DEF States
  <2>2. PICK m \in States : m = [s EXCEPT !.drain = "active", !.seq = s.seq + 1]
    BY <1>1, <2>1, BegunFrame
  <2>3. m.turn = s.turn /\ m.owner = s.owner /\ m.merged = s.merged /\ m.cont = s.cont /\ m.target = s.target
    BY <1>1, <2>2 DEF States
  <2> QED BY <1>3, <1>5, <2>2, <2>3 DEF Begin
<1>6. CASE End
  <2>1. PICK m \in States : m = [s EXCEPT !.drain = "ended"]
    BY <1>1 DEF States
  <2>2. m.turn = s.turn /\ m.owner = s.owner /\ m.merged = s.merged /\ m.cont = s.cont /\ m.target = s.target
    BY <1>1, <2>1 DEF States
  <2> QED BY <1>3, <1>6, <2>1, <2>2 DEF End
<1>7. ASSUME NEW m \in States, Cancels(m), s.turn = "running", m.turn = s.turn, m.merged = s.merged, m.cont = s.cont,
             m.target.on = s.target.on, m.target.reached = s.target.reached,
             deadline' => m.target.on /\ m.target.stopping
      PROVE  CarryInv'
  <2>1. m.cont["wakeup"] = "none" /\ m.cont["update"] = "none"
    BY <1>7 DEF FinalInv
  <2>2. CASE codex
    <3>1. Changed(m)
      BY <1>7, <2>2 DEF Cancels
    <3> QED BY <1>7, <2>1, <3>1, CarryRuns
  <2>3. CASE ~codex
    <3>1. PICK n \in States : n = [m EXCEPT !.turn = "cancelled"]
      BY <1>7 DEF States, Finished
    <3>2. n.turn = "cancelled" /\ n.merged = m.merged /\ n.cont = m.cont /\ n.target = m.target
      BY <1>7, <3>1 DEF States
    <3>3. Changed(n)
      BY <1>7, <2>3, <3>1 DEF Cancels
    <3>4. taken' # {} => n.target.on /\ n.target.reached
      BY <1>2, <1>7, <3>2 DEF AskedInv, TakenCounts
    <3>5. n.turn \in Finished
      BY <3>2 DEF Finished
    <3>6. n.cont["wakeup"] = "none" /\ n.cont["update"] = "none"
      BY <2>1, <3>2
    <3>7. n.merged = s.merged
      BY <1>7, <3>2
    <3>8. deadline' => n.target.on /\ n.target.stopping
      BY <1>7, <3>2
    <3>9. n.cont["permission"] = "queued" => n.cont["wakeup"] # "queued"
      BY <3>6
    <3> QED BY <1>2, <1>7, <3>3, <3>4, <3>5, <3>6, <3>7, <3>8, <3>9, CarryEnds
  <2> QED BY <2>2, <2>3
<1>8. CASE DriveStop
  <2>1. PICK g \in Targets : g = [s.target EXCEPT !.stopSent = s.seq, !.stopping = TRUE]
    BY <1>1, StopFrame
  <2>2. PICK m \in States : m = [s EXCEPT !.target = g]
    BY <1>1, <2>1 DEF States
  <2>3. m = [s EXCEPT !.target.stopSent = s.seq, !.target.stopping = TRUE]
    BY <1>1, <2>1, <2>2 DEF States, Targets
  <2>4. m.turn = s.turn /\ m.merged = s.merged /\ m.cont = s.cont /\ m.target = g
    BY <1>1, <2>2 DEF States
  <2>5. g.on = s.target.on /\ g.reached = s.target.reached /\ g.stopping
    BY <1>1, <2>1 DEF States, Targets
  <2>6. s.turn = "running" /\ s.target.on /\ Cancels(m)
    BY <1>8, <2>3 DEF DriveStop, Driven
  <2> QED BY <1>7, <2>2, <2>4, <2>5, <2>6
<1>9. CASE OwnerStops
  <2>1. PICK m \in States : m = [s EXCEPT !.owner = TRUE]
    BY <1>1 DEF States
  <2>2. m.turn = s.turn /\ m.merged = s.merged /\ m.cont = s.cont /\ m.target = s.target
    BY <1>1, <2>1 DEF States
  <2>3. s.turn = "running" /\ Cancels(m) /\ UNCHANGED deadline
    BY <1>9, <2>1 DEF OwnerStops
  <2>4. deadline' => m.target.on /\ m.target.stopping
    BY <2>2, <2>3 DEF CarryInv
  <2> QED BY <1>7, <2>1, <2>2, <2>3, <2>4
<1>10. CASE SendWrapUp
  <2>1. PICK w \in Wraps : Changed([s EXCEPT !.wrap[w] = "queued", !.target.sending = TRUE])
    BY <1>10 DEF SendWrapUp
  <2>2. PICK q \in States : q = [s EXCEPT !.wrap[w] = "queued"] /\ SameTurn(q, s) /\ q.target = s.target
    <3>1. "queued" \in {"none", "queued", "removed", "inserting", "delivered", "done", "error", "turn"}
      OBVIOUS
    <3>2. /\ [s EXCEPT !.wrap[w] = "queued"] \in States /\ SameTurn([s EXCEPT !.wrap[w] = "queued"], s)
          /\ [s EXCEPT !.wrap[w] = "queued"].target = s.target
      BY <1>1, <3>1, WrapFrame
    <3> QED BY <3>2
  <2>3. PICK g \in Targets : g = [s.target EXCEPT !.sending = TRUE]
    BY <1>1 DEF States, Targets
  <2>4. PICK m \in States : m = [q EXCEPT !.target = g]
    BY <2>2, <2>3 DEF States
  <2>5. m = [s EXCEPT !.wrap[w] = "queued", !.target.sending = TRUE]
    BY <1>1, <2>2, <2>3, <2>4 DEF States
  <2>6. m.turn = q.turn /\ m.owner = q.owner /\ m.merged = q.merged /\ m.cont = q.cont /\ m.target = g
    BY <2>2, <2>4 DEF States
  <2>7. g.on = s.target.on /\ g.stopping = s.target.stopping
    BY <1>1, <2>3 DEF States, Targets
  <2>8. UNCHANGED deadline
    BY <1>10 DEF SendWrapUp, Inserting
  <2>9. m.turn = s.turn /\ m.owner = s.owner /\ m.merged = s.merged /\ m.cont = s.cont
    BY <2>2, <2>6 DEF SameTurn
  <2>10. Changed(m)
    BY <2>1, <2>5
  <2> QED BY <1>3, <2>4, <2>6, <2>7, <2>8, <2>9, <2>10
<1>11. CASE Resolve
  <2> DEFINE rows == [w \in Wraps |-> IF w \in {v \in Wraps : at[v] = "unsent"} THEN "error" ELSE s.wrap[w]]
  <2>1. rows \in [Wraps -> {"none", "queued", "removed", "inserting", "delivered", "done", "error", "turn"}]
    BY <1>1 DEF States
  <2>2. Changed([s EXCEPT !.wrap = rows]) /\ UNCHANGED deadline
    BY <1>11 DEF Resolve, Inserting
  <2> HIDE DEF rows
  <2>3. PICK m \in States : m = [s EXCEPT !.wrap = rows]
    BY <1>1, <2>1 DEF States
  <2>4. m.turn = s.turn /\ m.owner = s.owner /\ m.merged = s.merged /\ m.cont = s.cont /\ m.target = s.target
    BY <1>1, <2>3 DEF States
  <2> QED BY <1>3, <2>2, <2>3, <2>4
<1> QED BY <1>4, <1>5, <1>6, <1>8, <1>9, <1>10, <1>11

(* The turn that ends keeps its target, and no wakeup is planned next to a *)
(* permission's continuation.                                              *)
LEMMA ExitParts ==
  ASSUME s \in States, Exited, s.turn = "running", s.cont["wakeup"] = "none", s.cont["update"] = "none"
  PROVE  \E n \in States : /\ Changed(n) /\ n.turn \in Finished /\ n.target = s.target /\ n.merged = s.merged
                           /\ n.cont["update"] = "none"
                           /\ n.cont["permission"] = "queued" => n.cont["wakeup"] # "queued"
<1>1. PICK outcome \in Finished, wakes \in BOOLEAN :
        LET m == [s EXCEPT !.turn = outcome] IN
        Changed(IF wakes THEN Planned(IF outcome = "error" THEN Swept(m) ELSE m) ELSE m)
  BY DEF Exited
<1>2. PICK m \in States : m = [s EXCEPT !.turn = outcome]
  BY DEF States
<1>3. m.turn = outcome /\ m.target = s.target /\ m.merged = s.merged /\ m.cont = s.cont
  BY <1>2 DEF States
<1>4. PICK z \in States : z = (IF outcome = "error" THEN Swept(m) ELSE m)
  BY SweptFrame
<1>5. /\ z.turn = outcome /\ z.target = s.target /\ z.merged = s.merged
      /\ z.cont["wakeup"] = "none" /\ z.cont["update"] = "none"
  <2>1. CASE outcome = "error"
    <3>1. /\ z = [m EXCEPT !.cont = z.cont] /\ z.cont["wakeup"] = m.cont["wakeup"]
          /\ \A k \in Conts : z.cont[k] # m.cont[k] => m.cont[k] = "queued" /\ z.cont[k] = "cancelled"
      BY <1>4, <2>1, SweptFrame
    <3>2. z.turn = m.turn /\ z.target = m.target /\ z.merged = m.merged
      BY <1>2, <3>1 DEF States
    <3>3. z.cont["update"] = "none" /\ z.cont["wakeup"] = "none"
      BY <1>3, <3>1 DEF Conts
    <3> QED BY <1>3, <3>2, <3>3
  <2>2. CASE outcome # "error"
    BY <1>3, <1>4, <2>2
  <2> QED BY <2>1, <2>2
<1>6. CASE ~wakes
  BY <1>1, <1>2, <1>3, <1>6
<1>7. CASE wakes /\ ~Plannable(z)
  <2>1. Changed(z)
    BY <1>1, <1>2, <1>4, <1>7 DEF Planned
  <2> QED BY <1>5, <2>1
<1>8. CASE wakes /\ Plannable(z)
  <2>1. "wakeup" \in Conts /\ "permission" \in Conts /\ "update" \in Conts
    BY DEF Conts
  <2>2. PICK n \in States : /\ n = [z EXCEPT !.cont["wakeup"] = "queued"] /\ n.turn = z.turn
                            /\ n.merged = z.merged /\ n.target = z.target /\ n.cont = [z.cont EXCEPT !["wakeup"] = "queued"]
    <3>1. "queued" \in {"none", "queued", "cancelled", "removed", "started"}
      OBVIOUS
    <3>2. /\ [z EXCEPT !.cont["wakeup"] = "queued"] \in States
          /\ [z EXCEPT !.cont["wakeup"] = "queued"].turn = z.turn
          /\ [z EXCEPT !.cont["wakeup"] = "queued"].merged = z.merged
          /\ [z EXCEPT !.cont["wakeup"] = "queued"].target = z.target
          /\ [z EXCEPT !.cont["wakeup"] = "queued"].cont = [z.cont EXCEPT !["wakeup"] = "queued"]
      BY <2>1, <3>1, ContFrame
    <3> QED BY <3>2
  <2>3. n.cont["update"] = z.cont["update"] /\ n.cont["permission"] = z.cont["permission"]
    BY <2>1, <2>2 DEF States
  <2>4. z.cont["permission"] # "queued"
    BY <1>8, <2>1 DEF Plannable
  <2>5. Changed(n)
    BY <1>1, <1>2, <1>4, <1>8, <2>2 DEF Planned
  <2> QED BY <1>5, <2>2, <2>3, <2>4, <2>5
<1> QED BY <1>6, <1>7, <1>8

(* The end of the turn, the owner's decisions, and what starts afterwards. *)
LEMMA TurnKeepsCarry ==
  ASSUME CarryInv, FinalInv, AskedInv, StateTypes,
         Exited \/ AsksPermission \/ Approve \/ Supersede \/ ContinuationStarts \/ WrapUpStarts
  PROVE  CarryInv'
<1>1. s \in States
  BY DEF StateTypes
<1>2. UNCHANGED <<delegated, deadline, taken>>
  BY DEF Exited, AsksPermission, Approve, Supersede, ContinuationStarts, WrapUpStarts, Ending, fixed
<1>3. CASE Exited
  <2>1. CASE s.turn # "running"
    <3>1. Changed(s)
      BY <1>3, <2>1 DEF Exited
    <3> QED BY <1>1, <1>2, <3>1, CarrySame
  <2>2. CASE s.turn = "running"
    <3>1. s.cont["wakeup"] = "none" /\ s.cont["update"] = "none"
      BY <2>2 DEF FinalInv
    <3>2. PICK n \in States : /\ Changed(n) /\ n.turn \in Finished /\ n.target = s.target /\ n.merged = s.merged
                              /\ n.cont["update"] = "none"
                              /\ n.cont["permission"] = "queued" => n.cont["wakeup"] # "queued"
      BY <1>1, <1>3, <2>2, <3>1, ExitParts
    <3>3. deadline' => n.target.on /\ n.target.stopping
      BY <1>2, <2>2, <3>2 DEF CarryInv
    <3>4. taken' # {} => n.target.on /\ n.target.reached
      BY <1>2, <2>2, <3>2 DEF AskedInv, TakenCounts
    <3> QED BY <1>2, <2>2, <3>2, <3>3, <3>4, CarryEnds
  <2> QED BY <2>1, <2>2
<1>4. CASE AsksPermission
  BY <1>2, <1>4, CarryStutter DEF AsksPermission, Unchanged, SameTurn
<1>5. ASSUME NEW k \in Conts, NEW st \in {"queued", "cancelled", "started"}, Changed([s EXCEPT !.cont[k] = st]),
             st = "queued" => k = "permission" /\ s.cont["update"] # "queued",
             k # "permission" => s.turn # "running"
      PROVE  CarryInv'
  <2>1. PICK m \in States : m = [s EXCEPT !.cont[k] = st]
    BY <1>1, ContFrame
  <2>2. m.turn = s.turn /\ m.owner = s.owner /\ m.merged = s.merged /\ m.target = s.target /\ m.cont = [s.cont EXCEPT ![k] = st]
    BY <1>1, <2>1 DEF States
  <2>3. \A j \in Conts : m.cont[j] = IF j = k THEN st ELSE s.cont[j]
    BY <1>1, <2>2 DEF States
  <2>4. Changed(m)
    BY <1>5, <2>1
  <2>5. CASE s.turn = "running"
    <3>1. m.cont["wakeup"] = "none" /\ m.cont["update"] = "none"
      BY <1>5, <2>3, <2>5 DEF FinalInv, Conts
    <3>2. deadline' => m.target.on /\ m.target.stopping
      BY <1>2, <2>2, <2>5 DEF CarryInv
    <3> QED BY <2>2, <2>4, <2>5, <3>1, <3>2, CarryRuns
  <2>6. CASE s.turn # "running"
    <3>1. ~m.target.on
      BY <2>2, <2>6 DEF StateTypes
    <3>2. \A j \in Conts : m.cont[j] = "queued" => s.cont[j] = "queued" \/ (j = "permission" /\ s.cont["update"] # "queued")
      BY <1>5, <2>3
    <3>3. \A j \in Conts : m.cont[j] = "removed" => s.cont[j] = "removed"
      BY <1>5, <2>3
    <3> QED BY <1>2, <2>2, <2>4, <2>6, <3>1, <3>2, <3>3, CarryEnded
  <2> QED BY <2>5, <2>6
<1>6. CASE Approve
  <2>1. \/ Changed([s EXCEPT !.receipt = TRUE])
        \/ Changed([s EXCEPT !.cont["permission"] = "cancelled"])
        \/ s.cont["update"] # "queued" /\ Changed([s EXCEPT !.cont["permission"] = "queued"])
    BY <1>6 DEF Approve
  <2>2. CASE Changed([s EXCEPT !.receipt = TRUE])
    <3>1. PICK m \in States : m = [s EXCEPT !.receipt = TRUE]
      BY <1>1 DEF States
    <3>2. m.turn = s.turn /\ m.owner = s.owner /\ m.merged = s.merged /\ m.cont = s.cont /\ m.target = s.target
      BY <1>1, <3>1 DEF States
    <3>3. Changed(m)
      BY <2>2, <3>1
    <3> QED BY <1>2, <3>2, <3>3, CarrySame
  <2> QED BY <1>5, <2>1, <2>2 DEF Conts
<1>7. CASE Supersede
  <2>1. PICK k \in {"permission", "update"} : s.cont[k] = "queued" /\ Changed([s EXCEPT !.cont[k] = "cancelled"])
    BY <1>7 DEF Supersede
  <2>2. k = "update" => s.turn # "running"
    BY <2>1 DEF FinalInv
  <2> QED BY <1>5, <2>1, <2>2 DEF Conts
<1>8. CASE ContinuationStarts
  <2>1. PICK k \in Conts : Changed([s EXCEPT !.cont[k] = "started"])
    BY <1>8 DEF ContinuationStarts
  <2>2. s.turn # "running"
    BY <1>8 DEF ContinuationStarts, MayLaunch, SessionFree, FinalInv
  <2> QED BY <1>5, <2>1, <2>2
<1>9. CASE WrapUpStarts
  <2>1. PICK w \in Wraps : Changed([s EXCEPT !.wrap[w] = "turn"])
    BY <1>9 DEF WrapUpStarts
  <2>2. PICK m \in States : m = [s EXCEPT !.wrap[w] = "turn"] /\ SameTurn(m, s) /\ m.target = s.target
    BY <1>1, WrapFrame
  <2>3. Changed(m)
    BY <2>1, <2>2
  <2> QED BY <1>2, <2>2, <2>3, CarrySame DEF SameTurn
<1> QED BY <1>3, <1>4, <1>6, <1>7, <1>8, <1>9

LEMMA CarryInvHolds == Spec => []CarryInv
<1>1. Init => CarryInv
  <2>1. Init => /\ s.turn = "running" /\ s.merged = FALSE /\ s.cont = [k \in Conts |-> "none"]
                /\ deadline = FALSE /\ resumed = 0
    BY DEF Init
  <2> QED BY <2>1 DEF CarryInv, CarriedOnOnce, InterruptedIsCarried, Conts
<1>2. TypeOK /\ FinalInv /\ AskedInv /\ CarryInv /\ [Next]_vars => CarryInv'
  <2> SUFFICES ASSUME StateTypes, FinalInv, AskedInv, CarryInv, [Next]_vars
               PROVE  CarryInv'
    BY TypeParts
  <2>1. CASE UNCHANGED vars
    BY <2>1, CarryStutter DEF vars, fixed, SameTurn
  <2>2. CASE Next
    BY <2>2, UpdateKeepsCarry, InsertionKeepsCarry, TurnKeepsCarry DEF Next
  <2> QED BY <2>1, <2>2
<1> QED BY <1>1, <1>2, TypesHold, FinalInvHolds, AskedInvHolds, PTL DEF Spec

(* The update makes one continuation of a turn at most (settle), over any  *)
(* number of updates, permissions and requests, and while it waits none of *)
(* the other continuations of that turn does.                              *)
THEOREM CarriedOnAtMostOnce == Spec => []CarriedOnOnce
<1>1. CarryInv => CarriedOnOnce
  BY DEF CarryInv
<1> QED BY <1>1, CarryInvHolds, PTL

(* No turn is left behind: one that a deadline stopped, or that completed  *)
(* with a request to wrap up, has its continuation from the step that      *)
(* shows it ended, and only its own start, the owner, or a newer           *)
(* instruction ends that (track, settle; ask's removal spares it).         *)
THEOREM InterruptedIsCarriedOn == Spec => []InterruptedIsCarried
<1>1. CarryInv => InterruptedIsCarried
  BY DEF CarryInv
<1> QED BY <1>1, CarryInvHolds, PTL

(***************************************************************************)
(* The trial of a new version (UpdateTrial): it can always go back.        *)
(***************************************************************************)
(* The shapes of what its variables hold.                                  *)
Stages == {"none", "installing", "checking", "switching", "verifying", "rolling-back", "failed", "done"}
Codes == {"none", "interrupted", "install-failed", "check-failed", "switch-failed", "start-failed", "link-failed",
          "rollback-failed"}
Places == {"unused", "spawned", "gone", "installing", "checking", "holding", "pointing", "giveup", "failed",
           "restart", "verify", "waiting", "stable", "release", "fail", "back", "backPoint",
           "backRestart", "backWait", "ends"}
WebPlaces == {"down", "judging", "holding", "removing", "settling", "up"}

Records == [stage : Stages, version : Nat, previous : Nat, code : Codes]
HelperStates == [at : Places, version : Nat, resume : BOOLEAN, previous : Nat, code : Codes]
WebStates == [at : WebPlaces, version : Nat, judged : Records]

TrialTypes ==
  /\ record \in Records /\ web \in WebStates /\ helper \in [Helpers -> HelperStates]
  /\ installed \subseteq Versions

(* Of a recorded update under way, the version to go back to is installed, *)
(* and after its switch the new one.                                       *)
RecordBack ==
  /\ record.previous \in installed \cup {None}
  /\ record.stage \in Active => record.previous \in installed /\ record.version \in Versions
  /\ record.stage \in {"switching", "verifying", "rolling-back"} => record.version \in installed

(* What a web that settles an update may write back.                       *)
JudgedBack ==
  /\ web.judged.previous \in installed \cup {None}
  /\ web.at = "up" => web.judged = NoRecord

(* Where a helper has checked what it installed.                           *)
Switches == {"checking", "holding", "pointing", "restart", "verify", "waiting", "stable",
             "back", "backPoint", "backRestart", "backWait"}

(* One helper is at work, the one the lock names; the version it goes back *)
(* to is installed, and after its check the one it tries.                  *)
HelperBack(h) ==
  /\ Alive(h) => lock = h
  /\ Alive(h) /\ ~At(h, "ends") => helper[h].version \in Versions /\ helper[h].previous \in installed
  /\ helper[h].at \in Switches => helper[h].version \in installed

(* A prune under way: no update is, and it keeps all that one may start    *)
(* from.                                                                   *)
PruneBack ==
  keep # {} =>
    /\ web.at = "up" /\ record.stage \notin Active /\ \A h \in Helpers : Alive(h) => At(h, "ends")
    /\ {current, web.version} \subseteq keep /\ record.previous \in keep \cup {None}

(* What keeps going back possible.                                         *)
BackInv ==
  /\ TrialTypes /\ {current, web.version} \subseteq installed
  /\ RecordBack /\ JudgedBack /\ (\A h \in Helpers : HelperBack(h)) /\ PruneBack

(* A step of a helper moves it and leaves what it was spawned for.         *)
Moved(h) ==
  /\ helper' \in [Helpers -> HelperStates]
  /\ \A g \in Helpers : g # h => helper'[g] = helper[g]
  /\ helper'[h].version = helper[h].version /\ helper'[h].previous = helper[h].previous

(* What a helper is after it goes on.                                      *)
LEMMA GoesMoves ==
  ASSUME TrialTypes, NEW h \in Helpers, NEW place \in Places, Goes(h, place)
  PROVE  Moved(h) /\ helper'[h].at = place
BY DEF TrialTypes, HelperStates, Goes, Moved

(* And when it also notes why the update failed.                           *)
LEMMA CodeMoves ==
  ASSUME TrialTypes, NEW h \in Helpers, NEW place \in Places, NEW code \in Codes,
         helper' = [helper EXCEPT ![h].at = place, ![h].code = code]
  PROVE  Moved(h) /\ helper'[h].at = place
BY DEF TrialTypes, HelperStates, Moved

(* A record that a helper at work writes names versions that are           *)
(* installed.                                                              *)
LEMMA StageWrites ==
  ASSUME BackInv, NEW h \in Helpers, Alive(h), ~At(h, "ends"),
         NEW stage \in Stages, NEW code \in Codes, Stage(h, stage, code), installed \subseteq installed',
         stage \in {"switching", "verifying", "rolling-back"} => helper[h].version \in installed
  PROVE  record' \in Records /\ RecordBack'
<1>1. helper[h] \in HelperStates /\ HelperBack(h)
  BY DEF BackInv, TrialTypes
<1>2. record' = [stage |-> stage, version |-> helper[h].version, previous |-> helper[h].previous, code |-> code]
  BY DEF Stage, WriteRecord
<1>3. record' \in Records
  BY <1>1, <1>2 DEF Records, HelperStates
<1>4. RecordBack'
  BY <1>1, <1>2 DEF RecordBack, HelperBack, None
<1> QED BY <1>3, <1>4

(* A record that is not written stays so, as long as nothing is removed.   *)
LEMMA RecordStays ==
  ASSUME BackInv, record' = record, installed \subseteq installed'
  PROVE  record' \in Records /\ RecordBack'
BY DEF BackInv, TrialTypes, RecordBack

(* The web stays as it is or stops.                                        *)
WebStays == UNCHANGED <<web, keep>> \/ WebGoes

(* What a step of the helper at work has to show, whichever it is.         *)
LEMMA Works ==
  ASSUME BackInv, NEW h \in Helpers, Alive(h), ~At(h, "ends"), Moved(h), lock' = lock, WebStays,
         installed \subseteq installed', installed' \subseteq Versions, current' \in installed',
         record' \in Records /\ RecordBack',
         helper'[h].at \in Switches => helper[h].version \in installed'
  PROVE  BackInv'
<1> USE DEF BackInv
<1>1. TrialTypes'
  <2>1. CASE web' = web
    BY <2>1 DEF Moved, TrialTypes
  <2>2. CASE WebGoes
    <3>1. NoRecord \in Records
      BY DEF NoRecord, Records, Stages, Codes, None
    <3>2. web' \in WebStates
      BY <2>2, <3>1 DEF WebGoes, TrialTypes, WebStates, WebPlaces
    <3> QED BY <3>2 DEF Moved, TrialTypes
  <2> QED BY <2>1, <2>2 DEF WebStays
<1>2. {current, web.version}' \subseteq installed'
  BY DEF WebStays, WebGoes
<1>3. JudgedBack'
  BY DEF WebStays, WebGoes, JudgedBack, NoRecord
<1>4. ASSUME NEW g \in Helpers PROVE HelperBack(g)'
  <2>1. HelperBack(g) /\ HelperBack(h)
    OBVIOUS
  <2>2. CASE g = h
    BY <2>1, <2>2 DEF Moved, HelperBack, Alive, At
  <2>3. CASE g # h
    BY <2>1, <2>3 DEF Moved, HelperBack, Alive, At
  <2> QED BY <2>2, <2>3
<1>5. PruneBack'
  <2>1. keep = {}
    BY DEF PruneBack
  <2> QED BY <2>1 DEF PruneBack, WebStays, WebGoes
<1> QED BY <1>1, <1>2, <1>3, <1>4, <1>5

(* The invariant says that going back is possible.                         *)
LEMMA BackEnough ==
  BackInv => BackIsPossible
BY DEF BackInv, BackIsPossible, HelperBack, Trying, Alive, At, Switches

(* It holds at first: nothing is recorded and no helper was spawned.       *)
LEMMA BackInit ==
  ASSUME TrialInit
  PROVE  BackInv
<1>1. NoRecord \in Records /\ 1 \in Versions
  BY TrialAssumption DEF NoRecord, Records, Stages, Codes, None, Versions
<1>2. web \in WebStates /\ web.judged = NoRecord /\ web.version = 1 /\ web.at = "down"
  BY <1>1 DEF TrialInit, WebStates, WebPlaces
<1>3. helper \in [Helpers -> HelperStates] /\ \A h \in Helpers : helper[h].at = "unused"
  BY DEF TrialInit, HelperStates, Places, Codes, None
<1>4. TrialTypes /\ {current, web.version} \subseteq installed /\ PruneBack
  BY <1>1, <1>2, <1>3 DEF TrialInit, TrialTypes, PruneBack
<1>5. RecordBack /\ JudgedBack
  BY <1>2 DEF TrialInit, RecordBack, JudgedBack, NoRecord, None, Active
<1>6. ASSUME NEW h \in Helpers PROVE HelperBack(h)
  BY <1>3 DEF HelperBack, Alive, At, Switches
<1> QED BY <1>4, <1>5, <1>6 DEF BackInv

(* The steps of a helper at work.                                          *)
LEMMA WorkStep ==
  ASSUME BackInv, NEW h \in Helpers,
         \/ Install(h) \/ Check(h) \/ Hold(h) \/ Point(h) \/ GiveUp(h)
         \/ Failed(h) \/ Restart(h) \/ Verify(h) \/ Waited(h) \/ Stable(h)
         \/ Release(h) \/ Fail(h) \/ Back(h) \/ BackPoint(h) \/ BackWaited(h)
  PROVE  BackInv'
<1>1. TrialTypes /\ installed \subseteq Versions /\ current \in installed /\ helper[h] \in HelperStates
  BY DEF BackInv, TrialTypes
<1>2. HelperBack(h)
  BY DEF BackInv
<1> USE DEF HelperBack, At, Switches, HelperStates, Places, Stages, Codes
<1>3. CASE Install(h)
  <2>1. Alive(h) /\ ~At(h, "ends")
    BY <1>3 DEF Install, Alive, At
  <2>2. /\ installed \subseteq installed' /\ installed' \subseteq Versions /\ current' \in installed'
        /\ lock' = lock /\ WebStays
    BY <1>3, <1>1, <1>2, <2>1 DEF Install, WebStays, webVars
  <2>3. Moved(h) /\ (helper'[h].at \in Switches => helper[h].version \in installed')
    BY <1>3, <1>1, <1>2, GoesMoves, CodeMoves DEF Install, GoesBack
  <2>4. record' \in Records /\ RecordBack'
    BY <1>3, <1>1, <1>2, <2>1, <2>2, StageWrites, RecordStays DEF Install, recordVars
  <2> QED BY <2>1, <2>2, <2>3, <2>4, Works
<1>4. CASE Check(h)
  <2>1. Alive(h) /\ ~At(h, "ends")
    BY <1>4 DEF Check, Alive, At
  <2>2. /\ installed \subseteq installed' /\ installed' \subseteq Versions /\ current' \in installed'
        /\ lock' = lock /\ WebStays
    BY <1>4, <1>1, <1>2, <2>1 DEF Check, WebStays, webVars
  <2>3. Moved(h) /\ (helper'[h].at \in Switches => helper[h].version \in installed')
    BY <1>4, <1>1, <1>2, GoesMoves, CodeMoves DEF Check, GoesBack
  <2>4. record' \in Records /\ RecordBack'
    BY <1>4, <1>1, <1>2, <2>1, <2>2, StageWrites, RecordStays DEF Check, recordVars
  <2> QED BY <2>1, <2>2, <2>3, <2>4, Works
<1>5. CASE Hold(h)
  <2>1. Alive(h) /\ ~At(h, "ends")
    BY <1>5 DEF Hold, Alive, At
  <2>2. /\ installed \subseteq installed' /\ installed' \subseteq Versions /\ current' \in installed'
        /\ lock' = lock /\ WebStays
    BY <1>5, <1>1, <1>2, <2>1 DEF Hold, WebStays, webVars
  <2>3. Moved(h) /\ (helper'[h].at \in Switches => helper[h].version \in installed')
    BY <1>5, <1>1, <1>2, GoesMoves, CodeMoves DEF Hold, GoesBack
  <2>4. record' \in Records /\ RecordBack'
    BY <1>5, <1>1, <1>2, <2>1, <2>2, StageWrites, RecordStays DEF Hold, recordVars
  <2> QED BY <2>1, <2>2, <2>3, <2>4, Works
<1>6. CASE Point(h)
  <2>1. Alive(h) /\ ~At(h, "ends")
    BY <1>6 DEF Point, Alive, At
  <2>2. /\ installed \subseteq installed' /\ installed' \subseteq Versions /\ current' \in installed'
        /\ lock' = lock /\ WebStays
    BY <1>6, <1>1, <1>2, <2>1 DEF Point, WebStays, webVars
  <2>3. Moved(h) /\ (helper'[h].at \in Switches => helper[h].version \in installed')
    BY <1>6, <1>1, <1>2, GoesMoves, CodeMoves DEF Point, GoesBack
  <2>4. record' \in Records /\ RecordBack'
    BY <1>6, <1>1, <1>2, <2>1, <2>2, StageWrites, RecordStays DEF Point, recordVars
  <2> QED BY <2>1, <2>2, <2>3, <2>4, Works
<1>7. CASE GiveUp(h)
  <2>1. Alive(h) /\ ~At(h, "ends")
    BY <1>7 DEF GiveUp, Alive, At
  <2>2. /\ installed \subseteq installed' /\ installed' \subseteq Versions /\ current' \in installed'
        /\ lock' = lock /\ WebStays
    BY <1>7, <1>1, <1>2, <2>1 DEF GiveUp, WebStays, webVars
  <2>3. Moved(h) /\ (helper'[h].at \in Switches => helper[h].version \in installed')
    BY <1>7, <1>1, <1>2, GoesMoves, CodeMoves DEF GiveUp, GoesBack
  <2>4. record' \in Records /\ RecordBack'
    BY <1>7, <1>1, <1>2, <2>1, <2>2, StageWrites, RecordStays DEF GiveUp, recordVars
  <2> QED BY <2>1, <2>2, <2>3, <2>4, Works
<1>8. CASE Failed(h)
  <2>1. Alive(h) /\ ~At(h, "ends")
    BY <1>8 DEF Failed, Alive, At
  <2>2. /\ installed \subseteq installed' /\ installed' \subseteq Versions /\ current' \in installed'
        /\ lock' = lock /\ WebStays
    BY <1>8, <1>1, <1>2, <2>1 DEF Failed, WebStays, webVars
  <2>3. Moved(h) /\ (helper'[h].at \in Switches => helper[h].version \in installed')
    BY <1>8, <1>1, <1>2, GoesMoves, CodeMoves DEF Failed, GoesBack
  <2>4. record' \in Records /\ RecordBack'
    BY <1>8, <1>1, <1>2, <2>1, <2>2, StageWrites, RecordStays DEF Failed, recordVars
  <2> QED BY <2>1, <2>2, <2>3, <2>4, Works
<1>9. CASE Restart(h)
  <2>1. Alive(h) /\ ~At(h, "ends")
    BY <1>9 DEF Restart, Alive, At
  <2>2. /\ installed \subseteq installed' /\ installed' \subseteq Versions /\ current' \in installed'
        /\ lock' = lock /\ WebStays
    BY <1>9, <1>1, <1>2, <2>1 DEF Restart, WebStays, webVars
  <2>3. Moved(h) /\ (helper'[h].at \in Switches => helper[h].version \in installed')
    BY <1>9, <1>1, <1>2, GoesMoves, CodeMoves DEF Restart, GoesBack
  <2>4. record' \in Records /\ RecordBack'
    BY <1>9, <1>1, <1>2, <2>1, <2>2, StageWrites, RecordStays DEF Restart, recordVars
  <2> QED BY <2>1, <2>2, <2>3, <2>4, Works
<1>10. CASE Verify(h)
  <2>1. Alive(h) /\ ~At(h, "ends")
    BY <1>10 DEF Verify, Alive, At
  <2>2. /\ installed \subseteq installed' /\ installed' \subseteq Versions /\ current' \in installed'
        /\ lock' = lock /\ WebStays
    BY <1>10, <1>1, <1>2, <2>1 DEF Verify, WebStays, webVars
  <2>3. Moved(h) /\ (helper'[h].at \in Switches => helper[h].version \in installed')
    BY <1>10, <1>1, <1>2, GoesMoves, CodeMoves DEF Verify, GoesBack
  <2>4. record' \in Records /\ RecordBack'
    BY <1>10, <1>1, <1>2, <2>1, <2>2, StageWrites, RecordStays DEF Verify, recordVars
  <2> QED BY <2>1, <2>2, <2>3, <2>4, Works
<1>11. CASE Waited(h)
  <2>1. Alive(h) /\ ~At(h, "ends")
    BY <1>11 DEF Waited, Alive, At
  <2>2. /\ installed \subseteq installed' /\ installed' \subseteq Versions /\ current' \in installed'
        /\ lock' = lock /\ WebStays
    BY <1>11, <1>1, <1>2, <2>1 DEF Waited, WebStays, webVars
  <2>3. Moved(h) /\ (helper'[h].at \in Switches => helper[h].version \in installed')
    BY <1>11, <1>1, <1>2, GoesMoves, CodeMoves DEF Waited, GoesBack
  <2>4. record' \in Records /\ RecordBack'
    BY <1>11, <1>1, <1>2, <2>1, <2>2, StageWrites, RecordStays DEF Waited, recordVars
  <2> QED BY <2>1, <2>2, <2>3, <2>4, Works
<1>12. CASE Stable(h)
  <2>1. Alive(h) /\ ~At(h, "ends")
    BY <1>12 DEF Stable, Alive, At
  <2>2. /\ installed \subseteq installed' /\ installed' \subseteq Versions /\ current' \in installed'
        /\ lock' = lock /\ WebStays
    BY <1>12, <1>1, <1>2, <2>1 DEF Stable, WebStays, webVars
  <2>3. Moved(h) /\ (helper'[h].at \in Switches => helper[h].version \in installed')
    BY <1>12, <1>1, <1>2, GoesMoves, CodeMoves DEF Stable, GoesBack
  <2>4. record' \in Records /\ RecordBack'
    BY <1>12, <1>1, <1>2, <2>1, <2>2, StageWrites, RecordStays DEF Stable, recordVars
  <2> QED BY <2>1, <2>2, <2>3, <2>4, Works
<1>13. CASE Release(h)
  <2>1. Alive(h) /\ ~At(h, "ends")
    BY <1>13 DEF Release, Alive, At
  <2>2. /\ installed \subseteq installed' /\ installed' \subseteq Versions /\ current' \in installed'
        /\ lock' = lock /\ WebStays
    BY <1>13, <1>1, <1>2, <2>1 DEF Release, WebStays, webVars
  <2>3. Moved(h) /\ (helper'[h].at \in Switches => helper[h].version \in installed')
    BY <1>13, <1>1, <1>2, GoesMoves, CodeMoves DEF Release, GoesBack
  <2>4. record' \in Records /\ RecordBack'
    BY <1>13, <1>1, <1>2, <2>1, <2>2, StageWrites, RecordStays DEF Release, recordVars
  <2> QED BY <2>1, <2>2, <2>3, <2>4, Works
<1>14. CASE Fail(h)
  <2>1. Alive(h) /\ ~At(h, "ends")
    BY <1>14 DEF Fail, Alive, At
  <2>2. /\ installed \subseteq installed' /\ installed' \subseteq Versions /\ current' \in installed'
        /\ lock' = lock /\ WebStays
    BY <1>14, <1>1, <1>2, <2>1 DEF Fail, WebStays, webVars
  <2>3. Moved(h) /\ (helper'[h].at \in Switches => helper[h].version \in installed')
    BY <1>14, <1>1, <1>2, GoesMoves, CodeMoves DEF Fail, GoesBack
  <2>4. record' \in Records /\ RecordBack'
    BY <1>14, <1>1, <1>2, <2>1, <2>2, StageWrites, RecordStays DEF Fail, recordVars
  <2> QED BY <2>1, <2>2, <2>3, <2>4, Works
<1>15. CASE Back(h)
  <2>1. Alive(h) /\ ~At(h, "ends")
    BY <1>15 DEF Back, Alive, At
  <2>2. /\ installed \subseteq installed' /\ installed' \subseteq Versions /\ current' \in installed'
        /\ lock' = lock /\ WebStays
    BY <1>15, <1>1, <1>2, <2>1 DEF Back, WebStays, webVars
  <2>3. Moved(h) /\ (helper'[h].at \in Switches => helper[h].version \in installed')
    BY <1>15, <1>1, <1>2, GoesMoves, CodeMoves DEF Back, GoesBack
  <2>4. record' \in Records /\ RecordBack'
    BY <1>15, <1>1, <1>2, <2>1, <2>2, StageWrites, RecordStays DEF Back, recordVars
  <2> QED BY <2>1, <2>2, <2>3, <2>4, Works
<1>16. CASE BackPoint(h)
  <2>1. Alive(h) /\ ~At(h, "ends")
    BY <1>16 DEF BackPoint, Alive, At
  <2>2. /\ installed \subseteq installed' /\ installed' \subseteq Versions /\ current' \in installed'
        /\ lock' = lock /\ WebStays
    BY <1>16, <1>1, <1>2, <2>1 DEF BackPoint, WebStays, webVars
  <2>3. Moved(h) /\ (helper'[h].at \in Switches => helper[h].version \in installed')
    BY <1>16, <1>1, <1>2, GoesMoves, CodeMoves DEF BackPoint, GoesBack
  <2>4. record' \in Records /\ RecordBack'
    BY <1>16, <1>1, <1>2, <2>1, <2>2, StageWrites, RecordStays DEF BackPoint, recordVars
  <2> QED BY <2>1, <2>2, <2>3, <2>4, Works
<1>17. CASE BackWaited(h)
  <2>1. Alive(h) /\ ~At(h, "ends")
    BY <1>17 DEF BackWaited, Alive, At
  <2>2. /\ installed \subseteq installed' /\ installed' \subseteq Versions /\ current' \in installed'
        /\ lock' = lock /\ WebStays
    BY <1>17, <1>1, <1>2, <2>1 DEF BackWaited, WebStays, webVars
  <2>3. Moved(h) /\ (helper'[h].at \in Switches => helper[h].version \in installed')
    BY <1>17, <1>1, <1>2, GoesMoves, CodeMoves DEF BackWaited, GoesBack
  <2>4. record' \in Records /\ RecordBack'
    BY <1>17, <1>1, <1>2, <2>1, <2>2, StageWrites, RecordStays DEF BackWaited, recordVars
  <2> QED BY <2>1, <2>2, <2>3, <2>4, Works
<1> QED BY <1>3, <1>4, <1>5, <1>6, <1>7, <1>8, <1>9, <1>10, <1>11, <1>12, <1>13, <1>14, <1>15, <1>16, <1>17

(* Steps that only end helpers, or the web, keep it.                       *)
LEMMA StandsOrEnds ==
  ASSUME BackInv, helper' \in [Helpers -> HelperStates],
         \A h \in Helpers : helper'[h] = helper[h] \/ helper'[h].at = "gone",
         lock' = lock \/ \A h \in Helpers : ~Alive(h)',
         UNCHANGED <<record, current, installed>>, WebStays
  PROVE  BackInv'
<1> USE DEF BackInv
<1>1. TrialTypes'
  <2>1. CASE web' = web
    BY <2>1 DEF TrialTypes
  <2>2. CASE WebGoes
    <3>1. NoRecord \in Records
      BY DEF NoRecord, Records, Stages, Codes, None
    <3>2. web' \in WebStates
      BY <2>2, <3>1 DEF WebGoes, TrialTypes, WebStates, WebPlaces
    <3> QED BY <3>2 DEF TrialTypes
  <2> QED BY <2>1, <2>2 DEF WebStays
<1>2. {current, web.version}' \subseteq installed' /\ RecordBack'
  BY DEF WebStays, WebGoes, RecordBack
<1>3. JudgedBack'
  BY DEF WebStays, WebGoes, JudgedBack, NoRecord
<1>4. ASSUME NEW g \in Helpers PROVE HelperBack(g)'
  <2>1. HelperBack(g)
    OBVIOUS
  <2> QED BY <2>1 DEF HelperBack, Alive, At, Switches
<1>5. PruneBack'
  BY DEF PruneBack, WebStays, WebGoes, Alive, At
<1> QED BY <1>1, <1>2, <1>3, <1>4, <1>5

(* Ends, crashes, the hold and the worker.                                 *)
LEMMA EndStep ==
  ASSUME BackInv,
         \/ \E h \in Helpers : Ends(h) \/ HelperCrash(h)
         \/ HoldAges \/ PollLooks \/ PollRemoves \/ PollAsks
         \/ WorkerDies \/ WorkerStarts \/ WebCrash \/ Reboot \/ UNCHANGED trialVars
  PROVE  BackInv'
<1>1. TrialTypes /\ \A h \in Helpers : HelperBack(h)
  BY DEF BackInv
<1>2. CASE \E h \in Helpers : Ends(h) \/ HelperCrash(h)
  <2>1. PICK h \in Helpers : Ends(h) \/ HelperCrash(h)
    BY <1>2
  <2>2. Goes(h, "gone")
    BY <2>1 DEF Ends, HelperCrash
  <2>3. Moved(h) /\ helper'[h].at = "gone"
    BY <1>1, <2>2, GoesMoves DEF Places
  <2>4. lock' = lock \/ \A g \in Helpers : ~Alive(g)'
    BY <1>1, <2>1, <2>3 DEF Ends, HelperCrash, HelperBack, Moved, Alive, At
  <2>5. UNCHANGED <<record, current, installed, web, keep>>
    BY <2>1 DEF Ends, HelperCrash, recordVars, webVars
  <2> QED BY <2>3, <2>4, <2>5, StandsOrEnds DEF Moved, WebStays
<1>3. CASE \/ HoldAges \/ PollLooks \/ PollRemoves \/ PollAsks
           \/ WorkerDies \/ WorkerStarts \/ UNCHANGED trialVars
  <2>1. UNCHANGED <<record, current, installed, lock, helper, web, keep>>
    BY <1>3 DEF HoldAges, PollLooks, PollRemoves, PollAsks, WorkerDies, WorkerStarts,
                trialVars, recordVars, webVars
  <2> QED BY <1>1, <2>1, StandsOrEnds DEF TrialTypes, WebStays
<1>4. CASE WebCrash
  BY <1>1, <1>4, StandsOrEnds DEF WebCrash, TrialTypes, WebStays, recordVars
<1>5. CASE Reboot
  <2>1. /\ helper' \in [Helpers -> HelperStates]
        /\ \A h \in Helpers : helper'[h] = helper[h] \/ helper'[h].at = "gone"
    BY <1>1, <1>5 DEF Reboot, TrialTypes, HelperStates, Places
  <2> QED BY <1>5, <2>1, StandsOrEnds DEF Reboot, WebStays, recordVars
<1> QED BY <1>2, <1>3, <1>4, <1>5

(* A helper that is spawned is no helper at work yet.                      *)
LEMMA SpawnMoves ==
  ASSUME TrialTypes, NEW h \in Helpers, NEW v \in Nat, NEW resume \in BOOLEAN, Spawn(h, v, resume)
  PROVE  /\ helper' \in [Helpers -> HelperStates]
         /\ \A g \in Helpers : g # h => helper'[g] = helper[g]
         /\ helper[h].at = "unused" /\ helper'[h].at = "spawned"
<1>1. helper' = [helper EXCEPT ![h].at = "spawned", ![h].version = v, ![h].resume = resume] /\ helper[h].at = "unused"
  BY DEF Spawn
<1>2. helper \in [Helpers -> HelperStates]
  BY DEF TrialTypes
<1>3. helper'[h] = [helper[h] EXCEPT !.at = "spawned", !.version = v, !.resume = resume]
  BY <1>1, <1>2
<1>4. helper'[h] \in HelperStates /\ helper'[h].at = "spawned"
  <2>1. PICK old \in HelperStates : old = helper[h]
    BY <1>2
  <2>2. [old EXCEPT !.at = "spawned"] \in HelperStates
    BY DEF HelperStates, Places
  <2>3. ASSUME NEW new \in HelperStates
        PROVE  /\ [new EXCEPT !.version = v, !.resume = resume] \in HelperStates
               /\ [new EXCEPT !.version = v, !.resume = resume].at = new.at
    BY DEF HelperStates
  <2>4. helper'[h] = [[old EXCEPT !.at = "spawned"] EXCEPT !.version = v, !.resume = resume]
    BY <1>3, <2>1
  <2>5. [old EXCEPT !.at = "spawned"].at = "spawned"
    BY DEF HelperStates
  <2> QED BY <2>2, <2>3, <2>4, <2>5
<1>5. helper' \in [Helpers -> HelperStates] /\ \A g \in Helpers : g # h => helper'[g] = helper[g]
  BY <1>1, <1>2, <1>4
<1> QED BY <1>1, <1>4, <1>5

(* So it changes nothing that is said of helpers.                          *)
LEMMA SpawnBack ==
  ASSUME BackInv, NEW h \in Helpers, helper[h].at = "unused", helper'[h].at = "spawned",
         \A g \in Helpers : g # h => helper'[g] = helper[g], lock' = lock, installed' = installed
  PROVE  \A g \in Helpers : HelperBack(g)' /\ (Alive(g)' => g # h /\ Alive(g))
<1> SUFFICES ASSUME NEW g \in Helpers PROVE HelperBack(g)' /\ (Alive(g)' => g # h /\ Alive(g))
  OBVIOUS
<1>1. HelperBack(g)
  BY DEF BackInv
<1> QED BY <1>1 DEF HelperBack, Alive, At, Switches

(* An update asked for goes back to the version of this web, which is      *)
(* installed; no prune is under way.                                       *)
LEMMA RequestStep ==
  ASSUME BackInv, NEW h \in Helpers, NEW v \in Versions, Request(h, v)
  PROVE  BackInv'
<1>1. TrialTypes /\ web \in WebStates /\ v \in Nat
  BY DEF BackInv, TrialTypes, Versions
<1>2. record' = [stage |-> "installing", version |-> v, previous |-> web.version, code |-> "none"]
  BY DEF Request, WriteRecord
<1>3. keep = {} /\ UNCHANGED <<current, installed, lock, web, keep>> /\ Spawn(h, v, FALSE)
  BY DEF Request, webVars
<1>4. /\ helper' \in [Helpers -> HelperStates]
      /\ \A g \in Helpers : g # h => helper'[g] = helper[g]
      /\ helper[h].at = "unused" /\ helper'[h].at = "spawned"
  BY <1>1, <1>3, SpawnMoves
<1>5. \A g \in Helpers : HelperBack(g)'
  BY <1>3, <1>4, SpawnBack
<1>6. record' \in Records
  BY <1>1, <1>2 DEF Records, WebStates, Stages, Codes
<1>7. RecordBack'
  BY <1>2, <1>3 DEF BackInv, RecordBack
<1> QED BY <1>1, <1>3, <1>4, <1>5, <1>6, <1>7 DEF BackInv, TrialTypes, JudgedBack, PruneBack

(* A helper that takes the lock is the only one at work; it goes on only   *)
(* with its own update, under way.                                         *)
LEMMA BeginStep ==
  ASSUME BackInv, NEW h \in Helpers, TakeLock(h)
  PROVE  BackInv'
<1>1. TrialTypes /\ record \in Records /\ RecordBack /\ JudgedBack /\ PruneBack /\ helper[h] \in HelperStates
      /\ \A g \in Helpers : HelperBack(g)
  BY DEF BackInv, TrialTypes
<1>2. UNCHANGED <<current, installed, web, keep>> /\ helper[h].at = "spawned"
  BY DEF TakeLock, webVars, At
<1>3. CASE HelperRunning /\ Goes(h, "gone") /\ UNCHANGED <<lock, recordVars>>
  <2>1. Moved(h) /\ helper'[h].at = "gone"
    BY <1>1, <1>3, GoesMoves DEF Places
  <2> QED BY <1>2, <1>3, <2>1, StandsOrEnds DEF Moved, WebStays, recordVars
<1>4. CASE ~HelperRunning /\ Owns(h)
  <2>1. \A g \in Helpers : ~Alive(g)
    BY <1>1, <1>4 DEF HelperRunning, HelperBack, Helpers, None
  <2>2. Place(h) \in Places /\ Place(h) \in {"ends", "installing", "back", "verify", "fail"}
    BY DEF Place, Places
  <2>3. (IF record.code = "none" THEN "interrupted" ELSE record.code) \in Codes /\ record.previous \in Nat
    BY <1>1 DEF Records, Codes
  <2>4. /\ helper' \in [Helpers -> HelperStates]
        /\ \A g \in Helpers : g # h => helper'[g] = helper[g]
        /\ helper'[h].at = Place(h) /\ helper'[h].version = helper[h].version /\ helper'[h].previous = record.previous
    BY <1>1, <1>4, <2>2, <2>3 DEF Owns, TrialTypes, HelperStates
  <2>5. /\ record' \in Records /\ RecordBack' /\ record'.previous = record.previous
        /\ record.stage \notin Active => record' = record
    <3>1. CASE Place(h) = "installing"
      <4>1. record.stage \in Active
        BY <3>1 DEF Place
      <4>2. record' = [record EXCEPT !.stage = "installing"]
        BY <1>4, <3>1 DEF Owns, WriteRecord
      <4> QED BY <1>1, <1>2, <4>1, <4>2 DEF RecordBack, Records, Stages, Active
    <3>2. CASE Place(h) # "installing"
      BY <1>1, <1>2, <1>4, <3>2 DEF Owns, RecordBack, recordVars
    <3> QED BY <3>1, <3>2
  <2>6. Place(h) # "ends" =>
          /\ record.version = helper[h].version /\ record.stage \in Active
          /\ record.previous \in installed /\ record.version \in Versions
    BY <1>1 DEF Place, RecordBack
  <2>7. Place(h) \in Switches => helper[h].version \in installed
    BY <1>1, <2>2, <2>6 DEF Place, RecordBack, Switches
  <2>8. ASSUME NEW g \in Helpers PROVE HelperBack(g)'
    <3>1. CASE g = h
      BY <1>2, <1>4, <2>4, <2>6, <2>7, <3>1 DEF Owns, HelperBack, At
    <3>2. CASE g # h
      BY <2>1, <2>4, <3>2 DEF HelperBack, Alive, Switches
    <3> QED BY <3>1, <3>2
  <2>9. PruneBack'
    BY <1>1, <1>2, <2>1, <2>4, <2>5, <2>6 DEF PruneBack, Alive, At
  <2> QED BY <1>1, <1>2, <2>4, <2>5, <2>8, <2>9 DEF BackInv, TrialTypes, JudgedBack
<1> QED BY <1>3, <1>4 DEF TakeLock

(* A web that starts settles with what it judged, of which no prune has    *)
(* removed a version since.                                                *)
LEMMA SettleStep ==
  ASSUME BackInv,
         WebStarts \/ Judge \/ RemoveOld \/ Settle \/ \E h \in Helpers : HoldAnew(h)
  PROVE  BackInv'
<1>1. TrialTypes /\ record \in Records /\ RecordBack /\ JudgedBack /\ PruneBack /\ web \in WebStates
      /\ current \in installed /\ web.version \in installed /\ \A g \in Helpers : HelperBack(g)
  BY DEF BackInv, TrialTypes
<1>2. NoRecord \in Records /\ NoRecord.previous = None
  BY DEF NoRecord, Records, Stages, Codes, None
<1>3. keep = {} /\ keep' = keep /\ UNCHANGED <<current, installed, lock>>
  BY <1>1 DEF PruneBack, WebStarts, Judge, RemoveOld, Settle, HoldAnew
<1>4. current \in Nat
  BY <1>1 DEF TrialTypes, Versions
<1>5. web' \in WebStates /\ web'.version \in installed /\ JudgedBack'
  <2>1. CASE WebStarts
    BY <1>1, <1>3, <1>4, <2>1 DEF WebStarts, WebStates, WebPlaces, JudgedBack, RecordBack
  <2>2. CASE Up
    BY <1>1, <1>2, <1>3, <2>2 DEF Up, WebStates, WebPlaces, JudgedBack
  <2>3. CASE \E place \in {"holding", "removing", "settling"} : web' = [web EXCEPT !.at = place]
    BY <1>1, <1>3, <2>3 DEF WebStates, WebPlaces, JudgedBack
  <2> QED BY <2>1, <2>2, <2>3 DEF Judge, RemoveOld, Settle, HoldAnew
<1>6. record' \in Records /\ RecordBack'
  <2>1. CASE record' = record
    BY <1>1, <1>3, <2>1 DEF RecordBack
  <2>2. CASE Settle /\ web.judged.stage \in Active
    <3>1. PICK code : /\ record' = [web.judged EXCEPT !.stage = "failed", !.code = code]
                      /\ code \in {web.judged.code, "interrupted"}
      BY <2>2 DEF Settle, WriteRecord
    <3>2. web.judged \in Records
      BY <1>1 DEF WebStates
    <3> QED BY <1>1, <1>3, <3>1, <3>2 DEF Records, Stages, Codes, JudgedBack, RecordBack, Active
  <2> QED BY <2>1, <2>2 DEF WebStarts, Judge, RemoveOld, Settle, HoldAnew, recordVars
<1>7. helper' \in [Helpers -> HelperStates] /\ \A g \in Helpers : HelperBack(g)'
  <2>1. CASE helper' = helper
    BY <1>1, <1>3, <2>1 DEF TrialTypes, HelperBack, Alive, At, Switches
  <2>2. CASE \E h \in Helpers : Spawn(h, web.version, TRUE)
    <3>1. PICK h \in Helpers : Spawn(h, web.version, TRUE)
      BY <2>2
    <3>2. web.version \in Nat
      BY <1>1 DEF WebStates
    <3> QED BY <1>1, <1>3, <3>1, <3>2, SpawnMoves, SpawnBack
  <2> QED BY <2>1, <2>2 DEF WebStarts, Judge, RemoveOld, Settle, HoldAnew
<1> QED BY <1>1, <1>3, <1>5, <1>6, <1>7 DEF BackInv, TrialTypes, PruneBack

(* A prune looks when no helper is at work and no update is under way, and *)
(* that stays so until it removes.                                         *)
LEMMA PruneStep ==
  ASSUME BackInv, PruneLooks \/ PruneRemoves
  PROVE  BackInv'
<1>1. TrialTypes /\ RecordBack /\ JudgedBack /\ PruneBack /\ {current, web.version} \subseteq installed
      /\ \A g \in Helpers : HelperBack(g)
  BY DEF BackInv
<1>2. UNCHANGED <<record, current, lock, helper, web>>
  BY DEF PruneLooks, PruneRemoves, recordVars
<1>3. CASE PruneLooks
  <2>1. \A g \in Helpers : ~Alive(g)
    BY <1>1, <1>3 DEF PruneLooks, HelperRunning, HelperBack, Helpers, None
  <2>2. installed' = installed /\ None \notin installed
    BY <1>1, <1>3 DEF PruneLooks, TrialTypes, Versions, None
  <2>3. PruneBack'
    BY <1>1, <1>2, <1>3, <2>1, <2>2 DEF PruneLooks, PruneBack, Alive
  <2>4. \A g \in Helpers : HelperBack(g)'
    BY <1>1, <1>2, <2>2 DEF HelperBack, Alive, At
  <2> QED BY <1>1, <1>2, <2>2, <2>3, <2>4 DEF BackInv, TrialTypes, RecordBack, JudgedBack
<1>4. CASE PruneRemoves
  <2>1. keep # {} /\ installed' = installed \cap keep /\ keep' = {}
    BY <1>4 DEF PruneRemoves
  <2>2. /\ web.at = "up" /\ record.stage \notin Active
        /\ \A h \in Helpers : Alive(h) => At(h, "ends")
        /\ {current, web.version} \subseteq keep /\ record.previous \in keep \cup {None}
    BY <1>1, <2>1 DEF PruneBack
  <2>3. {current, web.version}' \subseteq installed' /\ RecordBack'
    BY <1>1, <1>2, <2>1, <2>2 DEF RecordBack, Active
  <2>4. JudgedBack'
    BY <1>1, <1>2, <2>2 DEF JudgedBack, NoRecord
  <2>5. ASSUME NEW g \in Helpers PROVE HelperBack(g)'
    BY <1>1, <1>2, <2>2 DEF HelperBack, Alive, At, Switches
  <2>6. TrialTypes' /\ PruneBack'
    BY <1>1, <1>2, <2>1 DEF TrialTypes, PruneBack
  <2> QED BY <2>3, <2>4, <2>5, <2>6 DEF BackInv
<1> QED BY <1>3, <1>4

(* While an update is tried, the version it would go back to and the one   *)
(* it tries are installed, whatever requests, prunes, restarts and crashes *)
(* come between (link/update.ts, prune and recover): for every number of   *)
(* versions, helpers and faults.                                           *)
THEOREM BackIsPossibleHolds == TrialSpec => []BackIsPossible
<1>1. TrialInit => BackInv
  BY BackInit
<1>2. BackInv /\ [TrialNext]_trialVars => BackInv'
  BY WorkStep, EndStep, RequestStep, BeginStep, SettleStep, PruneStep DEF TrialNext, Helps, Starts
<1> QED BY <1>1, <1>2, BackEnough, PTL DEF TrialSpec

(***************************************************************************)
(* The version under trial is held (UpdateTrial).                          *)
(***************************************************************************)
(* A version the worker may take: the first one, or one whose update was   *)
(* kept, whose hold ran out, or whose update another one replaced.         *)
Firm(v) == v = 1 \/ v \in kept \/ v \in lapsed \/ v \in left

(* Or the one of the recorded update, which could not be undone.           *)
FirmNow(v) == Firm(v) \/ (record.code = "rollback-failed" /\ record.version = v)

(* Its hold is there, unless it ran out or its update was asked for again. *)
StillHeld(v) == hold.version = v \/ v \in lapsed \/ v \in left

(* A web that starts, and one that took helpers for gone.                  *)
StartingPlaces == {"judging", "holding", "removing", "settling"}
JudgedPlaces == {"holding", "removing", "settling"}

(* What the service would start, and what runs.                            *)
Runs(v) == v = current \/ (web.at # "down" /\ v = web.version)

(* A helper on its update, whose record is its own.                        *)
OnUpdate(h) == Alive(h) /\ ~At(h, "ends") /\ ~At(h, "release")

(* A recorded update goes back to a version the worker may take.           *)
RecordFirm ==
  /\ record # NoRecord => record.previous < record.version /\ Firm(record.previous)
  /\ record.code = "rollback-failed" => record.stage = "failed"

(* What runs and may not take the worker is the recorded update past its   *)
(* switch, and held.                                                       *)
RunsHeld ==
  \A v \in Versions : Runs(v) /\ ~FirmNow(v) =>
    /\ hold.version = v /\ record.version = v
    /\ record.stage \in {"switching", "verifying", "rolling-back"}
    /\ record.stage # "rolling-back" => current = v

(* A web that starts judges the recorded update, though perhaps not its    *)
(* last stage; once it took helpers for gone, none is on that update or on *)
(* its way to it, and the pointer moved to its version only before.        *)
JudgedFirm ==
  /\ web.at \in StartingPlaces =>
       /\ web.judged.version = record.version /\ web.judged.previous = record.previous
       /\ web.judged # NoRecord => web.judged.version # None
  /\ web.at \in JudgedPlaces =>
       /\ web.judged # NoRecord
       /\ \A h \in Helpers : (Alive(h) => At(h, "ends")) /\ (At(h, "spawned") => helper[h].version # web.judged.version)
       /\ current = web.judged.version => web.version = web.judged.version
       /\ (web.judged.stage \in Active /\ web.judged.version = web.version) <=> web.at = "holding"
  /\ web.at = "removing" => web.judged.previous = web.version

(* The worker is asked to move only to a version it may take.              *)
PollFirm ==
  /\ poll # "idle" => web.at = "up"
  /\ poll = "unheld" => FirmNow(web.version)

(* Nothing goes back below a version that was kept.                        *)
KeptStays ==
  \A v \in Versions : v \in kept /\ v \notin lapsed /\ v \notin left =>
    /\ current >= v /\ (web.at # "down" => web.version >= v)
    /\ record.previous >= v \/ (record.version <= v /\ record.stage \notin Active)

(* The record of a helper on its update, by how far it is.                 *)
UpdateFirm(h) ==
  /\ OnUpdate(h) =>
       /\ record.version = helper[h].version /\ record.previous = helper[h].previous
       /\ record.stage \in Active /\ helper[h].code # "rollback-failed"
  /\ helper[h].at \in {"installing", "checking", "fail"} => record.stage \in {"installing", "checking"}
  /\ helper[h].at \in {"holding", "pointing", "giveup", "restart", "verify", "waiting", "stable"}
       => record.stage \in {"switching", "verifying"}
  /\ helper[h].at \in {"backPoint", "backRestart", "backWait"} => record.stage = "rolling-back"

(* From the switch on, the hold is there.                                  *)
TrialHeld(h) == At(h, "pointing") \/ Trying(h) => StillHeld(helper[h].version)

(* Where a helper may release the hold, its version does not run, or the   *)
(* worker may take it.                                                     *)
ReleaseFirm(h) ==
  /\ helper[h].at \in {"holding", "pointing", "giveup", "failed", "release"} /\ Runs(helper[h].version)
       => Firm(helper[h].version)
  /\ helper[h].at \in {"backRestart", "backWait"} => current = helper[h].previous

(* A helper on its way to its lock: for an update under way, or one that   *)
(* was settled; one that is to check again has its hold.                   *)
SpawnedFirm(h) ==
  At(h, "spawned") =>
    /\ helper[h].version # None
    /\ \/ FirmNow(helper[h].version)
       \/ /\ record.version = helper[h].version /\ record.stage \in Active
          /\ helper[h].resume \/ record.stage = "installing"
    /\ helper[h].resume => StillHeld(helper[h].version)

(* Two helpers for one version, one of them on its way: only of a version  *)
(* that was asked for again.                                               *)
TwiceFirm(g, h) ==
  /\ g # h /\ At(g, "spawned") /\ helper[g].version = helper[h].version
  /\ At(h, "spawned") \/ OnUpdate(h) \/ (At(h, "release") /\ helper[g].resume)
  => helper[h].version \in lapsed \/ helper[h].version \in left

(* What keeps the version under trial from the worker, as long as no       *)
(* starting web overlooked a helper.                                       *)
FirmInv ==
  /\ RecordFirm /\ RunsHeld /\ JudgedFirm /\ PollFirm /\ KeptStays
  /\ \A h \in Helpers : UpdateFirm(h) /\ TrialHeld(h) /\ ReleaseFirm(h) /\ SpawnedFirm(h)
  /\ \A g, h \in Helpers : TwiceFirm(g, h)

(* The web stays as it is or stops.                                        *)
StandsOrGoes == UNCHANGED <<web, poll>> \/ WebGoes

(* Versions are numbers, of those that there are.                          *)
LEMMA VersionsKnown ==
  ASSUME BackInv
  PROVE  /\ current \in Versions /\ web.version \in Versions
         /\ record \in Records /\ web \in WebStates /\ web.judged \in Records
         /\ Versions \subseteq Nat /\ None \notin Versions
<1>1. TrialTypes /\ {current, web.version} \subseteq installed
  BY DEF BackInv
<1>2. web.judged \in Records
  BY <1>1 DEF TrialTypes, WebStates
<1>3. Versions \subseteq Nat /\ None \notin Versions
  BY DEF Versions, None
<1>4. {current, web.version} \subseteq Versions
  BY <1>1 DEF TrialTypes
<1> QED BY <1>1, <1>2, <1>3, <1>4 DEF TrialTypes

(* One helper is at work at a time.                                        *)
LEMMA OneAtWork ==
  ASSUME BackInv, NEW g \in Helpers, NEW h \in Helpers, Alive(g), Alive(h)
  PROVE  g = h
BY DEF BackInv, HelperBack

(* What a helper on its update knows of it.                                *)
LEMMA UpdateKnown ==
  ASSUME BackInv, FirmInv, NEW h \in Helpers, OnUpdate(h)
  PROVE  /\ helper[h].version \in Versions /\ helper[h].version \in Nat /\ helper[h].previous \in Nat
         /\ record.version = helper[h].version /\ record.previous = helper[h].previous
         /\ helper[h].previous < helper[h].version /\ Firm(helper[h].previous)
         /\ record # NoRecord /\ record.stage \in Active /\ record.code # "rollback-failed"
         /\ helper[h].code \in Codes /\ helper[h].code # "rollback-failed"
<1>1. helper[h] \in HelperStates /\ HelperBack(h) /\ UpdateFirm(h) /\ RecordFirm
  BY DEF BackInv, TrialTypes, FirmInv
<1>2. helper[h].version \in Versions
  BY <1>1 DEF OnUpdate, HelperBack
<1>3. record.version = helper[h].version /\ record.previous = helper[h].previous /\ record.stage \in Active
      /\ helper[h].code # "rollback-failed"
  BY <1>1 DEF UpdateFirm
<1>4. record # NoRecord
  BY <1>2, <1>3 DEF NoRecord, None, Versions
<1> QED BY <1>1, <1>2, <1>3, <1>4 DEF RecordFirm, HelperStates, Active

(* What a helper on its update writes is a record of that update.          *)
LEMMA StageMoves ==
  ASSUME BackInv, FirmInv, NEW h \in Helpers, OnUpdate(h), NEW stage \in Stages, NEW code \in Codes, Stage(h, stage, code)
  PROVE  record'.version = record.version /\ record'.previous = record.previous
         /\ record'.stage = stage /\ record'.code = code
BY UpdateKnown DEF Stage, WriteRecord

(* A version the worker may take stays one while a helper works.           *)
LEMMA FirmStays ==
  ASSUME BackInv, FirmInv, NEW h \in Helpers, OnUpdate(h) \/ record' = record,
         kept \subseteq kept', lapsed \subseteq lapsed', left \subseteq left', NEW v
  PROVE  (Firm(v) => Firm(v)') /\ (FirmNow(v) => FirmNow(v)')
<1>1. RecordFirm
  BY DEF FirmInv
<1>2. Firm(v) => Firm(v)'
  BY DEF Firm
<1>3. CASE OnUpdate(h)
  BY <1>1, <1>2, <1>3, UpdateKnown DEF FirmNow
<1>4. CASE record' = record
  BY <1>2, <1>4 DEF FirmNow
<1> QED BY <1>2, <1>3, <1>4

(* The hold of another version is not touched.                             *)
HoldOfItsOwn(h) == hold.version = None \/ hold.version = helper[h].version \/ hold' = hold

(* The record is written only by a helper on its update.                   *)
RecordOfItsOwn(h) ==
  /\ record'.version = record.version /\ record'.previous = record.previous
  /\ record' = record \/ (OnUpdate(h) /\ (record'.code = "rollback-failed" => record'.stage = "failed"))

(* What a step of the helper at work has to show, whichever it is.         *)
LEMMA WorkIsFirm ==
  ASSUME BackInv, FirmInv, NEW h \in Helpers, Alive(h), ~At(h, "ends"), Moved(h), lock' = lock, StandsOrGoes,
         helper'[h].at # "spawned", helper'[h].at = "ends" \/ OnUpdate(h),
         RecordOfItsOwn(h), HoldOfItsOwn(h),
         kept \subseteq kept', UNCHANGED <<lapsed, left>>,
         RunsHeld', KeptStays', UpdateFirm(h)', TrialHeld(h)', ReleaseFirm(h)'
  PROVE  FirmInv'
<1>1. TrialTypes /\ \A g \in Helpers : HelperBack(g)
  BY DEF BackInv
<1>2. RecordFirm /\ JudgedFirm /\ PollFirm
  BY DEF FirmInv
<1>3. \A g \in Helpers : g # h => ~Alive(g) /\ helper'[g] = helper[g]
  BY OneAtWork DEF Moved
<1>4. \A v : (Firm(v) => Firm(v)') /\ (FirmNow(v) => FirmNow(v)')
  BY FirmStays DEF RecordOfItsOwn
<1>5. RecordFirm'
  <2>1. CASE record' = record
    BY <1>2, <1>4, <2>1 DEF RecordFirm
  <2>2. CASE OnUpdate(h)
    BY <1>2, <1>4, <2>2, UpdateKnown DEF RecordFirm, RecordOfItsOwn
  <2> QED BY <2>1, <2>2 DEF RecordOfItsOwn
<1>6. web.at \notin JudgedPlaces
  BY <1>2 DEF JudgedFirm
<1>7. JudgedFirm'
  BY <1>2, <1>6 DEF JudgedFirm, StandsOrGoes, WebGoes, RecordOfItsOwn, JudgedPlaces, StartingPlaces
<1>8. PollFirm'
  BY <1>2, <1>4 DEF PollFirm, StandsOrGoes, WebGoes
<1>9. ASSUME NEW g \in Helpers, g # h
      PROVE  UpdateFirm(g)' /\ TrialHeld(g)' /\ ReleaseFirm(g)' /\ SpawnedFirm(g)'
  <2>1. ~Alive(g) /\ helper'[g] = helper[g] /\ SpawnedFirm(g) /\ TwiceFirm(g, h)
    BY <1>3, <1>9 DEF FirmInv
  <2>2. UpdateFirm(g)' /\ TrialHeld(g)' /\ ReleaseFirm(g)'
    BY <2>1 DEF UpdateFirm, TrialHeld, ReleaseFirm, Alive, OnUpdate, At, Trying
  <2>3. ASSUME At(g, "spawned"), helper[g].version = helper[h].version, helper[g].resume \/ OnUpdate(h)
        PROVE  helper[g].version \in lapsed \/ helper[g].version \in left
    BY <1>9, <2>1, <2>3 DEF TwiceFirm, OnUpdate
  <2>4. SpawnedFirm(g)'
    <3> SUFFICES ASSUME At(g, "spawned")'
                 PROVE  /\ helper[g].version # None
                        /\ \/ FirmNow(helper[g].version)'
                           \/ /\ record'.version = helper[g].version /\ record'.stage \in Active
                              /\ helper[g].resume \/ record'.stage = "installing"
                        /\ helper[g].resume => StillHeld(helper[g].version)'
      BY <2>1 DEF SpawnedFirm, FirmNow, Firm, StillHeld
    <3>1. At(g, "spawned") /\ helper[g].version # None
      BY <2>1 DEF At, SpawnedFirm
    <3>2. helper[g].resume => StillHeld(helper[g].version)'
      BY <2>1, <2>3, <3>1 DEF SpawnedFirm, StillHeld, HoldOfItsOwn
    <3>3. \/ FirmNow(helper[g].version)'
          \/ /\ record'.version = helper[g].version /\ record'.stage \in Active
             /\ helper[g].resume \/ record'.stage = "installing"
      <4>1. CASE FirmNow(helper[g].version)
        BY <1>4, <4>1, <2>1 DEF FirmNow, Firm
      <4>2. CASE record' = record
        BY <2>1, <3>1, <4>1, <4>2 DEF SpawnedFirm
      <4>3. CASE OnUpdate(h) /\ record.version = helper[g].version
        <5>1. helper[g].version \in lapsed \/ helper[g].version \in left
          BY <2>3, <3>1, <4>3, UpdateKnown
        <5> QED BY <2>1, <5>1 DEF FirmNow, Firm
      <4> QED BY <2>1, <3>1, <4>1, <4>2, <4>3 DEF SpawnedFirm, RecordOfItsOwn
    <3> QED BY <3>1, <3>2, <3>3
  <2> QED BY <2>2, <2>4
<1>10. SpawnedFirm(h)'
  BY DEF SpawnedFirm, At
<1>11. ASSUME NEW a \in Helpers, NEW b \in Helpers PROVE TwiceFirm(a, b)'
  <2>1. TwiceFirm(a, b)
    BY DEF FirmInv
  <2>2. CASE a = h
    BY <2>2 DEF TwiceFirm, At
  <2>3. CASE a # h /\ b # h
    BY <1>3, <2>1, <2>3 DEF TwiceFirm, At, OnUpdate, Alive
  <2>4. CASE a # h /\ b = h
    BY <1>3, <2>1, <2>4 DEF TwiceFirm, At, OnUpdate, Alive, Moved
  <2> QED BY <2>2, <2>3, <2>4
<1> QED BY <1>5, <1>7, <1>8, <1>9, <1>10, <1>11 DEF FirmInv

(* Nothing goes below a version that was kept: the pointer moves between   *)
(* the two versions of an update that began above it.                      *)
LEMMA KeptStaysKept ==
  ASSUME BackInv, FirmInv, NEW h \in Helpers, StandsOrGoes, RecordOfItsOwn(h), UNCHANGED <<kept, lapsed, left>>,
         current' = current \/ (OnUpdate(h) /\ current' \in {record.version, record.previous})
  PROVE  KeptStays'
<1>1. KeptStays
  BY DEF FirmInv
<1> SUFFICES ASSUME NEW v \in Versions, v \in kept, v \notin lapsed, v \notin left
             PROVE  /\ current' >= v /\ (web'.at # "down" => web'.version >= v)
                    /\ record'.previous >= v \/ (record'.version <= v /\ record'.stage \notin Active)
  BY DEF KeptStays
<1>2. /\ current >= v /\ (web.at # "down" => web.version >= v)
      /\ record.previous >= v \/ (record.version <= v /\ record.stage \notin Active)
  BY <1>1 DEF KeptStays
<1>3. web'.at # "down" => web'.version >= v
  BY <1>2 DEF StandsOrGoes, WebGoes
<1>4. CASE OnUpdate(h)
  <2>1. record.previous >= v
    BY <1>2, <1>4, UpdateKnown
  <2>2. record.previous \in Nat /\ record.version \in Nat /\ record.previous < record.version /\ v \in Nat
    BY <1>4, UpdateKnown DEF Versions
  <2> QED BY <1>2, <1>3, <2>1, <2>2 DEF RecordOfItsOwn
<1>5. CASE record' = record /\ current' = current
  BY <1>2, <1>3, <1>5
<1> QED BY <1>4, <1>5 DEF RecordOfItsOwn

(* What runs and is not held is a version the worker may take; while the   *)
(* update a helper is on has not switched, that is all that runs.          *)
LEMMA RunsFirm ==
  ASSUME BackInv, FirmInv, NEW h \in Helpers, OnUpdate(h), NEW v \in Versions, Runs(v),
         \/ helper[h].version # v
         \/ helper[h].at \in {"installing", "checking", "fail"}
         \/ helper[h].at \in {"holding", "pointing", "giveup", "failed"}
  PROVE  Firm(v)
<1>1. FirmNow(v) \/ (record.version = v /\ record.stage \in {"switching", "verifying", "rolling-back"})
  BY DEF FirmInv, RunsHeld
<1>2. UpdateFirm(h) /\ ReleaseFirm(h)
  BY DEF FirmInv
<1>3. record.version = helper[h].version /\ record.code # "rollback-failed"
  BY UpdateKnown
<1> QED BY <1>1, <1>2, <1>3 DEF UpdateFirm, ReleaseFirm, FirmNow

(* Nothing runs that did not.                                              *)
LEMMA RunsStay ==
  ASSUME StandsOrGoes, current' = current, NEW v, Runs(v)'
  PROVE  Runs(v)
BY DEF Runs, StandsOrGoes, WebGoes

(* A step of a helper whose update has not switched.                       *)
LEMMA RunsHeldBefore ==
  ASSUME BackInv, FirmInv, NEW h \in Helpers, OnUpdate(h), StandsOrGoes, current' = current,
         kept \subseteq kept', lapsed \subseteq lapsed', left \subseteq left',
         helper[h].at \in {"installing", "checking", "fail", "holding", "pointing", "giveup", "failed"}
  PROVE  RunsHeld'
<1> SUFFICES ASSUME NEW v \in Versions, Runs(v)' PROVE Firm(v)'
  BY DEF RunsHeld, FirmNow
<1>1. Runs(v)
  BY RunsStay
<1>2. Firm(v)
  BY <1>1, RunsFirm
<1> QED BY <1>2, FirmStays

(* A step that leaves the hold and the pointer, and does not end the       *)
(* update.                                                                 *)
LEMMA RunsHeldOn ==
  ASSUME BackInv, FirmInv, NEW h \in Helpers, Alive(h), ~At(h, "ends"), StandsOrGoes, current' = current, hold' = hold,
         kept \subseteq kept', lapsed \subseteq lapsed', left \subseteq left', RecordOfItsOwn(h),
         \/ record' = record
         \/ record'.stage = "rolling-back"
         \/ record'.stage = "verifying" /\ record.stage # "rolling-back"
  PROVE  RunsHeld'
<1> SUFFICES ASSUME NEW v \in Versions, Runs(v)', ~FirmNow(v)'
             PROVE  /\ hold'.version = v /\ record'.version = v
                    /\ record'.stage \in {"switching", "verifying", "rolling-back"}
                    /\ record'.stage # "rolling-back" => current' = v
  BY DEF RunsHeld
<1>1. Runs(v) /\ ~FirmNow(v)
  BY RunsStay, FirmStays DEF RecordOfItsOwn
<1>2. /\ hold.version = v /\ record.version = v
      /\ record.stage \in {"switching", "verifying", "rolling-back"}
      /\ record.stage # "rolling-back" => current = v
  BY <1>1 DEF FirmInv, RunsHeld
<1> QED BY <1>2 DEF RecordOfItsOwn

(* A step that leaves record, hold and pointer: a helper goes on where the *)
(* same is said of it.                                                     *)
LEMMA GoesOnFirm ==
  ASSUME BackInv, FirmInv, NEW h \in Helpers, OnUpdate(h), Moved(h), lock' = lock, StandsOrGoes,
         UNCHANGED <<record, hold, current, fate>>,
         helper'[h].code \in Codes \ {"rollback-failed"},
         \/ At(h, "pointing") /\ helper'[h].at \in {"giveup", "back"}
         \/ At(h, "holding") /\ helper'[h].at = "giveup"
         \/ At(h, "restart") /\ helper'[h].at = "verify"
         \/ At(h, "backRestart") /\ helper'[h].at = "backWait"
         \/ At(h, "waiting") /\ helper'[h].at \in {"stable", "back"}
         \/ At(h, "stable") /\ helper'[h].at = "back"
  PROVE  FirmInv'
<1>1. UpdateFirm(h) /\ TrialHeld(h) /\ ReleaseFirm(h) /\ OnUpdate(h)
  BY DEF FirmInv
<1>2. RecordOfItsOwn(h) /\ HoldOfItsOwn(h) /\ UNCHANGED <<kept, lapsed, left>>
  BY DEF RecordOfItsOwn, HoldOfItsOwn, fate, FirmInv, RecordFirm
<1>3. Alive(h) /\ ~At(h, "ends") /\ helper'[h].at # "spawned"
  BY DEF OnUpdate
<1>4. RunsHeld'
  BY <1>2, <1>3, RunsHeldOn
<1>5. KeptStays'
  BY <1>2, KeptStaysKept
<1>6. UpdateFirm(h)'
  BY <1>1 DEF UpdateFirm, OnUpdate, Moved, At, Active
<1>7. TrialHeld(h)'
  BY <1>1, <1>2 DEF TrialHeld, StillHeld, Trying, Moved, At
<1>8. ReleaseFirm(h)'
  <2>1. \A v : (Runs(v)' => Runs(v)) /\ (Firm(v) => Firm(v)')
    BY <1>2, RunsStay DEF Firm
  <2> QED BY <1>1, <2>1 DEF ReleaseFirm, Moved, At
<1> QED BY <1>2, <1>3, <1>4, <1>5, <1>6, <1>7, <1>8, WorkIsFirm

(* A step that writes the record, and leaves hold and pointer.             *)
LEMMA WritesFirm ==
  ASSUME BackInv, FirmInv, NEW h \in Helpers, OnUpdate(h), Moved(h), helper'[h].code = helper[h].code, lock' = lock,
         StandsOrGoes, UNCHANGED <<hold, current, lapsed, left>>, kept \subseteq kept', RunsHeld', KeptStays',
         NEW stage \in Stages, NEW code \in Codes, Stage(h, stage, code),
         code = "rollback-failed" => stage = "failed",
         \/ stage = "checking" /\ helper'[h].at = "checking"
         \/ stage = "switching" /\ At(h, "checking") /\ helper'[h].at = "holding"
         \/ stage = "verifying" /\ At(h, "verify") /\ helper'[h].at = "waiting"
         \/ stage = "rolling-back" /\ At(h, "back") /\ helper'[h].at = "backPoint"
         \/ helper'[h].at = "ends"
         \/ helper'[h].at = "release" /\ (Firm(helper[h].version)' \/ At(h, "fail"))
  PROVE  FirmInv'
<1>1. TrialHeld(h) /\ OnUpdate(h)
  BY DEF FirmInv
<1>2. record'.version = record.version /\ record'.previous = record.previous /\ record'.stage = stage /\ record'.code = code
  BY StageMoves
<1>3. RecordOfItsOwn(h) /\ HoldOfItsOwn(h)
  BY <1>2 DEF RecordOfItsOwn, HoldOfItsOwn
<1>4. Alive(h) /\ ~At(h, "ends") /\ helper'[h].at # "spawned"
  BY DEF OnUpdate
<1>5. UpdateFirm(h)'
  BY <1>2, UpdateKnown DEF UpdateFirm, OnUpdate, Moved, At, Alive, Active
<1>6. TrialHeld(h)'
  BY <1>1 DEF TrialHeld, StillHeld, Trying, Moved, At
<1>7. ReleaseFirm(h)'
  <2>1. \A v : (Runs(v)' => Runs(v)) /\ (Firm(v) => Firm(v)')
    BY RunsStay DEF Firm
  <2>2. At(h, "checking") \/ At(h, "fail") => (Runs(helper[h].version) => Firm(helper[h].version))
    BY UpdateKnown, RunsFirm DEF At
  <2> QED BY <2>1, <2>2 DEF ReleaseFirm, Moved, At, Firm
<1> QED BY <1>3, <1>4, <1>5, <1>6, <1>7, WorkIsFirm

(* Installing and checking, and what ends before anything switched.        *)
LEMMA InstallFirm ==
  ASSUME BackInv, FirmInv, NEW h \in Helpers, Install(h) \/ Check(h) \/ Fail(h) \/ Failed(h)
  PROVE  FirmInv'
<1>1. TrialTypes /\ OnUpdate(h) /\ helper[h].at \in {"installing", "checking", "fail", "failed"}
  BY DEF BackInv, Install, Check, Fail, Failed, OnUpdate, Alive, At
<1>2. UNCHANGED <<hold, current, kept, lapsed, left, lock, web, poll>>
  BY DEF Install, Check, Fail, Failed, holdVars, webVars, fate
<1>3. StandsOrGoes /\ kept \subseteq kept'
  BY <1>2 DEF StandsOrGoes
<1>4. RunsHeld'
  BY <1>1, <1>2, <1>3, RunsHeldBefore
<1>5. PICK stage \in Stages, code \in Codes, place \in Places :
        /\ Stage(h, stage, code) /\ Goes(h, place)
        /\ code = "rollback-failed" => stage = "failed"
        /\ \/ stage = "checking" /\ place = "checking"
           \/ stage = "switching" /\ At(h, "checking") /\ place = "holding"
           \/ place = "ends"
           \/ place = "release" /\ At(h, "fail")
  <2>1. helper[h].code \in Codes
    BY <1>1, UpdateKnown
  <2> USE DEF Stages, Codes, Places
  <2>2. CASE Install(h)
    BY <2>2 DEF Install
  <2>3. CASE Check(h)
    BY <2>3 DEF Check
  <2>4. CASE Fail(h)
    BY <2>4 DEF Fail
  <2>5. CASE Failed(h)
    BY <2>1, <2>5 DEF Failed
  <2> QED BY <2>2, <2>3, <2>4, <2>5
<1>6. Moved(h) /\ helper'[h].at = place
  BY <1>1, <1>5, GoesMoves
<1>7. helper'[h].code = helper[h].code
  BY <1>1, <1>5 DEF Goes, TrialTypes, HelperStates
<1>8. RecordOfItsOwn(h)
  BY <1>1, <1>5, StageMoves DEF RecordOfItsOwn
<1>9. KeptStays'
  BY <1>2, <1>3, <1>8, KeptStaysKept
<1> QED BY <1>1, <1>2, <1>3, <1>4, <1>5, <1>6, <1>7, <1>9, WritesFirm

(* The hold is written, of a version that does not run yet or may take the *)
(* worker.                                                                 *)
LEMMA HoldFirm ==
  ASSUME BackInv, FirmInv, NEW h \in Helpers, Hold(h)
  PROVE  FirmInv'
<1>1. TrialTypes /\ OnUpdate(h) /\ At(h, "holding") /\ UpdateFirm(h) /\ ReleaseFirm(h)
  BY DEF BackInv, FirmInv, Hold, OnUpdate, Alive, At
<1>2. UNCHANGED <<current, kept, lapsed, left, lock, web, poll>> /\ fate' = fate
  BY DEF Hold, webVars, fate
<1>3. StandsOrGoes /\ kept \subseteq kept' /\ lapsed \subseteq lapsed' /\ left \subseteq left'
  BY <1>2 DEF StandsOrGoes
<1>4. RunsHeld'
  BY <1>1, <1>2, <1>3, RunsHeldBefore DEF At
<1>5. helper[h].code \in Codes \ {"rollback-failed"}
  BY <1>1, UpdateKnown
<1>6. \A place : Goes(h, place) => helper'[h].code = helper[h].code
  BY <1>1 DEF Goes, TrialTypes, HelperStates
<1>7. CASE HoldIsFree(helper[h].version) /\ WriteHold(helper[h].version) /\ Goes(h, "pointing") /\ UNCHANGED recordVars
  <2>1. Moved(h) /\ helper'[h].at = "pointing"
    BY <1>1, <1>7, GoesMoves DEF Places
  <2>2. RecordOfItsOwn(h) /\ HoldOfItsOwn(h)
    BY <1>7 DEF RecordOfItsOwn, HoldOfItsOwn, HoldIsFree, recordVars
  <2>3. KeptStays'
    BY <1>2, <1>3, <2>2, KeptStaysKept
  <2>4. UpdateFirm(h)'
    BY <1>1, <1>6, <1>7, <2>1 DEF UpdateFirm, OnUpdate, Moved, At, recordVars
  <2>5. TrialHeld(h)'
    BY <1>7, <2>1 DEF TrialHeld, StillHeld, WriteHold, Moved
  <2>6. ReleaseFirm(h)'
    <3>1. \A v : (Runs(v)' => Runs(v)) /\ (Firm(v) => Firm(v)')
      BY <1>2, <1>3, RunsStay DEF Firm
    <3> QED BY <1>1, <2>1, <3>1 DEF ReleaseFirm, Moved, At
  <2> QED BY <1>1, <1>2, <1>3, <1>4, <2>1, <2>2, <2>3, <2>4, <2>5, <2>6, WorkIsFirm DEF OnUpdate
<1>8. CASE ~HoldIsFree(helper[h].version) /\ Stage(h, "failed", "switch-failed") /\ Goes(h, "ends") /\ UNCHANGED holdVars
  <2>1. Moved(h) /\ helper'[h].at = "ends" /\ helper'[h].code = helper[h].code
    BY <1>1, <1>6, <1>8, GoesMoves DEF Places
  <2>2. "failed" \in Stages /\ "switch-failed" \in Codes
    BY DEF Stages, Codes
  <2>3. RecordOfItsOwn(h)
    BY <1>1, <1>8, <2>2, StageMoves DEF RecordOfItsOwn
  <2>4. KeptStays'
    BY <1>2, <1>3, <2>3, KeptStaysKept
  <2> QED BY <1>1, <1>2, <1>3, <1>4, <1>8, <2>1, <2>2, <2>4, WritesFirm DEF holdVars
<1>9. CASE Goes(h, "giveup") /\ UNCHANGED <<recordVars, holdVars>>
  <2>1. Moved(h) /\ helper'[h].at = "giveup" /\ helper'[h].code = helper[h].code
    BY <1>1, <1>6, <1>9, GoesMoves DEF Places
  <2> QED BY <1>1, <1>2, <1>3, <1>5, <1>9, <2>1, GoesOnFirm DEF recordVars, holdVars
<1> QED BY <1>7, <1>8, <1>9 DEF Hold

(* The pointer moves to the version whose hold is there.                   *)
LEMMA PointFirm ==
  ASSUME BackInv, FirmInv, NEW h \in Helpers, Point(h)
  PROVE  FirmInv'
<1>1. TrialTypes /\ OnUpdate(h) /\ At(h, "pointing") /\ UpdateFirm(h) /\ TrialHeld(h)
  BY DEF BackInv, FirmInv, Point, OnUpdate, Alive, At
<1>2. UNCHANGED <<record, hold, kept, lapsed, left, lock, web, poll>> /\ fate' = fate
  BY DEF Point, webVars, recordVars, holdVars, fate
<1>3. StandsOrGoes
  BY <1>2 DEF StandsOrGoes
<1>4. helper[h].code \in Codes \ {"rollback-failed"}
  BY <1>1, UpdateKnown
<1>5. \A place : Goes(h, place) => helper'[h].code = helper[h].code
  BY <1>1 DEF Goes, TrialTypes, HelperStates
<1>6. CASE current' = helper[h].version /\ Goes(h, "restart")
  <2>1. Moved(h) /\ helper'[h].at = "restart"
    BY <1>1, <1>6, GoesMoves DEF Places
  <2>2. RecordOfItsOwn(h) /\ HoldOfItsOwn(h)
    BY <1>2 DEF RecordOfItsOwn, HoldOfItsOwn, FirmInv, RecordFirm
  <2>3. KeptStays'
    BY <1>1, <1>2, <1>3, <1>6, <2>2, UpdateKnown, KeptStaysKept
  <2>4. RunsHeld'
    <3> SUFFICES ASSUME NEW v \in Versions, Runs(v)', ~FirmNow(v)
                 PROVE  /\ hold.version = v /\ record.version = v
                        /\ record.stage \in {"switching", "verifying", "rolling-back"}
                        /\ current' = v
      BY <1>2 DEF RunsHeld, FirmNow, Firm
    <3>1. CASE v = helper[h].version
      BY <1>1, <1>6, <3>1, UpdateKnown DEF TrialHeld, StillHeld, UpdateFirm, At, FirmNow, Firm
    <3>2. CASE v # helper[h].version
      <4>1. Runs(v)
        BY <1>2, <1>6, <3>2 DEF Runs
      <4> QED BY <1>1, <3>2, <4>1, RunsFirm DEF FirmNow
    <3> QED BY <3>1, <3>2
  <2>5. UpdateFirm(h)'
    BY <1>1, <1>2, <1>5, <1>6, <2>1 DEF UpdateFirm, OnUpdate, Moved, At
  <2>6. TrialHeld(h)'
    BY <1>1, <1>2, <2>1 DEF TrialHeld, StillHeld, Moved
  <2>7. ReleaseFirm(h)'
    BY <2>1 DEF ReleaseFirm
  <2> QED BY <1>1, <1>2, <1>3, <2>1, <2>2, <2>3, <2>4, <2>5, <2>6, <2>7, WorkIsFirm DEF OnUpdate
<1>7. CASE current' = current /\ \E place \in {"giveup", "back"} : Goes(h, place)
  <2>1. Moved(h) /\ helper'[h].at \in {"giveup", "back"} /\ helper'[h].code = helper[h].code
    BY <1>1, <1>5, <1>7, GoesMoves DEF Places
  <2> QED BY <1>1, <1>2, <1>3, <1>4, <1>7, <2>1, GoesOnFirm
<1> QED BY <1>6, <1>7 DEF Point

(* The hold is removed where its version does not run, or may take the     *)
(* worker.                                                                 *)
LEMMA RemovalFirm ==
  ASSUME BackInv, FirmInv, NEW h \in Helpers, Alive(h), ~At(h, "ends"), Moved(h), lock' = lock, StandsOrGoes,
         UNCHANGED <<record, current, kept, lapsed, left>>, RemoveHold(helper[h].version),
         Runs(helper[h].version) => Firm(helper[h].version),
         \/ At(h, "release") /\ helper'[h].at = "ends"
         \/ OnUpdate(h) /\ helper'[h].at = "failed" /\ helper'[h].code # "rollback-failed"
  PROVE  FirmInv'
<1>1. RecordOfItsOwn(h) /\ HoldOfItsOwn(h) /\ helper'[h].at # "spawned"
  BY DEF RecordOfItsOwn, HoldOfItsOwn, RemoveHold, holdVars
<1>2. KeptStays'
  BY <1>1, KeptStaysKept
<1>3. \A v : (Runs(v)' => Runs(v)) /\ (Firm(v) => Firm(v)') /\ (FirmNow(v) => FirmNow(v)')
  BY RunsStay DEF Firm, FirmNow
<1>4. RunsHeld'
  <2> SUFFICES ASSUME NEW v \in Versions, Runs(v), ~FirmNow(v)
               PROVE  /\ hold'.version = v /\ record.version = v
                      /\ record.stage \in {"switching", "verifying", "rolling-back"}
                      /\ record.stage # "rolling-back" => current = v
    BY <1>3 DEF RunsHeld
  <2>1. v # helper[h].version
    BY DEF FirmNow
  <2> QED BY <2>1 DEF FirmInv, RunsHeld, RemoveHold, holdVars
<1>5. UpdateFirm(h)'
  <2>1. OnUpdate(h) => UpdateFirm(h)
    BY DEF FirmInv
  <2> QED BY <2>1 DEF UpdateFirm, OnUpdate, Moved, At, Alive
<1>6. TrialHeld(h)'
  BY DEF TrialHeld, Trying, At
<1>7. ReleaseFirm(h)'
  BY <1>3 DEF ReleaseFirm, Moved, At
<1> QED BY <1>1, <1>2, <1>4, <1>5, <1>6, <1>7, WorkIsFirm DEF OnUpdate, At

(* Nothing switched, the update was kept or never did, or the previous     *)
(* version answers.                                                        *)
LEMMA ReleaseIsFirm ==
  ASSUME BackInv, FirmInv, NEW h \in Helpers,
         \/ GiveUp(h) \/ Release(h)
         \/ BackWaited(h) /\ Answers(helper[h].previous) /\ RemoveHold(helper[h].version) /\ Goes(h, "failed") /\ UNCHANGED recordVars
  PROVE  FirmInv'
<1>1. TrialTypes /\ ReleaseFirm(h)
  BY DEF BackInv, FirmInv
<1>2. Alive(h) /\ ~At(h, "ends") /\ helper[h].at \in {"giveup", "release", "backWait"}
  BY DEF GiveUp, Release, BackWaited, Alive, At
<1>3. UNCHANGED <<record, current, kept, lapsed, left, lock, web, poll>> /\ RemoveHold(helper[h].version)
  BY DEF GiveUp, Release, BackWaited, webVars, recordVars, fate
<1>4. StandsOrGoes
  BY <1>3 DEF StandsOrGoes
<1>5. CASE GiveUp(h)
  <2>1. Moved(h) /\ helper'[h].at = "failed"
    BY <1>1, <1>5, CodeMoves DEF GiveUp, Places, Codes
  <2>2. helper'[h].code = "switch-failed"
    BY <1>1, <1>5 DEF GiveUp, TrialTypes, HelperStates
  <2>3. OnUpdate(h) /\ (Runs(helper[h].version) => Firm(helper[h].version))
    BY <1>1, <1>5 DEF GiveUp, ReleaseFirm, OnUpdate, Alive, At
  <2> QED BY <1>2, <1>3, <1>4, <2>1, <2>2, <2>3, RemovalFirm
<1>6. CASE Release(h)
  <2>1. Moved(h) /\ helper'[h].at = "ends" /\ At(h, "release")
    BY <1>1, <1>6, GoesMoves DEF Release, Places
  <2>2. Runs(helper[h].version) => Firm(helper[h].version)
    BY <1>1, <2>1 DEF ReleaseFirm, At
  <2> QED BY <1>2, <1>3, <1>4, <2>1, <2>2, RemovalFirm
<1>7. CASE BackWaited(h) /\ Answers(helper[h].previous) /\ Goes(h, "failed")
  <2>1. Moved(h) /\ helper'[h].at = "failed"
    BY <1>1, <1>7, GoesMoves DEF Places
  <2>2. OnUpdate(h) /\ At(h, "backWait")
    BY <1>7 DEF BackWaited, OnUpdate, Alive, At
  <2>3. ~Runs(helper[h].version)
    BY <1>1, <1>7, <2>2, UpdateKnown DEF ReleaseFirm, Runs, Answers, At
  <2>4. helper'[h].code = helper[h].code
    BY <1>1, <1>7 DEF Goes, TrialTypes, HelperStates
  <2>5. helper'[h].code # "rollback-failed"
    BY <2>2, <2>4, UpdateKnown
  <2> QED BY <1>2, <1>3, <1>4, <2>1, <2>2, <2>3, <2>5, RemovalFirm
<1> QED BY <1>5, <1>6, <1>7

(* The restarts, and what the helper waits for.                            *)
LEMMA WaitFirm ==
  ASSUME BackInv, FirmInv, NEW h \in Helpers, Restart(h) \/ Waited(h) \/ Verify(h) \/ Back(h)
  PROVE  FirmInv'
<1>1. TrialTypes /\ OnUpdate(h) /\ helper[h].at \in {"restart", "backRestart", "waiting", "verify", "back"} /\ UpdateFirm(h)
  BY DEF BackInv, FirmInv, Restart, Waited, Verify, Back, OnUpdate, Alive, At
<1>2. UNCHANGED <<hold, current, lock, fate, kept, lapsed, left>>
  BY DEF Restart, Waited, Verify, Back, holdVars, fate
<1>3. StandsOrGoes
  BY DEF Restart, Waited, Verify, Back, StandsOrGoes, webVars
<1>4. helper[h].code \in Codes \ {"rollback-failed"}
  BY <1>1, UpdateKnown
<1>5. \A place : Goes(h, place) => helper'[h].code = helper[h].code
  BY <1>1 DEF Goes, TrialTypes, HelperStates
<1>6. CASE Restart(h)
  <2>1. PICK place \in {"verify", "backWait"} : Goes(h, place) /\ (place = "verify" <=> At(h, "restart"))
    BY <1>6 DEF Restart
  <2>2. Moved(h) /\ helper'[h].at = place /\ helper'[h].code = helper[h].code
    BY <1>1, <1>5, <2>1, GoesMoves DEF Places
  <2>3. record' = record
    BY <1>6 DEF Restart, recordVars
  <2> QED BY <1>1, <1>2, <1>3, <1>4, <1>6, <2>1, <2>2, <2>3, GoesOnFirm DEF Restart, At
<1>7. CASE Waited(h)
  <2>1. record' = record
    BY <1>7 DEF Waited, recordVars
  <2>2. CASE Goes(h, "stable")
    <3>1. Moved(h) /\ helper'[h].at = "stable" /\ helper'[h].code = helper[h].code
      BY <1>1, <1>5, <2>2, GoesMoves DEF Places
    <3> QED BY <1>1, <1>2, <1>3, <1>4, <1>7, <2>1, <3>1, GoesOnFirm DEF Waited
  <2>3. CASE GoesBack(h, "start-failed")
    <3>1. Moved(h) /\ helper'[h].at = "back"
      BY <1>1, <2>3, CodeMoves DEF GoesBack, Places, Codes
    <3>2. helper'[h].code = "start-failed"
      BY <1>1, <2>3 DEF GoesBack, TrialTypes, HelperStates
    <3> QED BY <1>1, <1>2, <1>3, <1>7, <2>1, <3>1, <3>2, GoesOnFirm DEF Waited, Codes
  <2> QED BY <1>7, <2>2, <2>3 DEF Waited
<1>8. CASE Verify(h) \/ Back(h)
  <2>1. PICK stage \in Stages, code \in Codes, place \in Places :
          /\ Stage(h, stage, code) /\ Goes(h, place) /\ code # "rollback-failed"
          /\ \/ stage = "verifying" /\ At(h, "verify") /\ place = "waiting"
             \/ stage = "rolling-back" /\ At(h, "back") /\ place = "backPoint"
    BY <1>4, <1>8 DEF Verify, Back, Stages, Codes, Places
  <2>2. Moved(h) /\ helper'[h].at = place /\ helper'[h].code = helper[h].code
    BY <1>1, <1>5, <2>1, GoesMoves
  <2>3. /\ record'.version = record.version /\ record'.previous = record.previous
        /\ record'.stage = stage /\ record'.code = code
    BY <1>1, <2>1, StageMoves
  <2>4. RecordOfItsOwn(h)
    BY <1>1, <2>1, <2>3 DEF RecordOfItsOwn
  <2>5. KeptStays'
    BY <1>2, <1>3, <2>4, KeptStaysKept
  <2>6. RunsHeld'
    BY <1>1, <1>2, <1>3, <2>1, <2>3, <2>4, RunsHeldOn DEF UpdateFirm, OnUpdate, At
  <2> QED BY <1>1, <1>2, <1>3, <2>1, <2>2, <2>5, <2>6, WritesFirm
<1> QED BY <1>6, <1>7, <1>8

(* The update is kept, which is of the version that runs and stays the one *)
(* the service starts; or it goes back.                                    *)
LEMMA StableFirm ==
  ASSUME BackInv, FirmInv, NEW h \in Helpers, Stable(h)
  PROVE  FirmInv'
<1>1. TrialTypes /\ OnUpdate(h) /\ At(h, "stable") /\ UpdateFirm(h) /\ ReleaseFirm(h) /\ RunsHeld /\ KeptStays
  BY DEF BackInv, FirmInv, Stable, OnUpdate, Alive, At
<1>2. UNCHANGED <<hold, current, lapsed, left, lock, web, poll>>
  BY DEF Stable, webVars, holdVars
<1>3. StandsOrGoes
  BY <1>2 DEF StandsOrGoes
<1>4. CASE /\ Answers(helper[h].version) /\ Stage(h, "done", "none") /\ Goes(h, "release")
           /\ kept' = kept \cup {helper[h].version}
  <2>1. Moved(h) /\ helper'[h].at = "release" /\ helper'[h].code = helper[h].code
    <3>1. Moved(h) /\ helper'[h].at = "release"
      BY <1>1, <1>4, GoesMoves DEF Places
    <3>2. helper'[h].code = helper[h].code
      BY <1>1, <1>4 DEF Goes, TrialTypes, HelperStates
    <3> QED BY <3>1, <3>2
  <2>2. "done" \in Stages /\ "none" \in Codes
    BY DEF Stages, Codes
  <2>3. /\ record'.version = record.version /\ record'.previous = record.previous /\ record'.stage = "done"
    BY <1>1, <1>4, <2>2, StageMoves
  <2>4. \A v : (Firm(v) => Firm(v)') /\ (FirmNow(v) => FirmNow(v)') /\ (Runs(v)' => Runs(v))
    BY <1>1, <1>2, <1>3, <1>4, FirmStays, RunsStay
  <2>5. RunsHeld'
    <3> SUFFICES ASSUME NEW v \in Versions, Runs(v)' PROVE Firm(v)'
      BY DEF RunsHeld, FirmNow
    <3>1. CASE v = helper[h].version
      BY <1>4, <3>1 DEF Firm
    <3>2. CASE v # helper[h].version
      BY <1>1, <2>4, <3>2, RunsFirm
    <3> QED BY <3>1, <3>2
  <2>6. KeptStays'
    <3> SUFFICES ASSUME NEW v \in Versions, v \in kept', v \notin lapsed, v \notin left
                 PROVE  /\ current >= v /\ (web.at # "down" => web.version >= v)
                        /\ record'.previous >= v \/ (record'.version <= v /\ record'.stage \notin Active)
      BY <1>2 DEF KeptStays
    <3>1. helper[h].version \in Nat /\ helper[h].version = record.version /\ v \in Nat /\ record.code # "rollback-failed"
      BY <1>1, UpdateKnown, VersionsKnown
    <3>2. CASE v \in kept
      <4>1. /\ current >= v /\ (web.at # "down" => web.version >= v) /\ record.previous >= v
        BY <1>1, <3>2, UpdateKnown DEF KeptStays
      <4> QED BY <2>3, <4>1
    <3>3. CASE v \notin kept
      <4>1. v = helper[h].version /\ web.at = "up" /\ web.version = v
        BY <1>4, <3>3 DEF Answers
      <4>2. ~FirmNow(v) \/ v = 1
        BY <3>1, <3>3 DEF FirmNow, Firm
      <4>3. v # 1
        <5>1. helper[h].previous \in Versions /\ helper[h].previous < v
          BY <1>1, <4>1, UpdateKnown DEF BackInv, HelperBack, OnUpdate, TrialTypes
        <5> QED BY <3>1, <5>1 DEF Versions
      <4>4. current = v
        BY <1>1, <4>1, <4>2, <4>3 DEF RunsHeld, Runs, UpdateFirm, At
      <4> QED BY <2>3, <3>1, <4>1, <4>4 DEF Active
    <3> QED BY <3>2, <3>3
  <2>7. Firm(helper[h].version)'
    BY <1>4, <2>1 DEF Firm, Moved
  <2> QED BY <1>1, <1>2, <1>3, <1>4, <2>1, <2>2, <2>5, <2>6, <2>7, WritesFirm
<1>5. CASE \E code \in {"start-failed", "link-failed"} : GoesBack(h, code) /\ UNCHANGED <<recordVars, kept>>
  <2>1. PICK code \in {"start-failed", "link-failed"} : GoesBack(h, code) /\ UNCHANGED <<recordVars, kept>>
    BY <1>5
  <2>2. Moved(h) /\ helper'[h].at = "back"
    BY <1>1, <2>1, CodeMoves DEF GoesBack, Places, Codes
  <2>3. helper'[h].code \in Codes \ {"rollback-failed"}
    BY <1>1, <2>1 DEF GoesBack, TrialTypes, HelperStates, Codes
  <2>4. UNCHANGED <<record, hold, current, fate>>
    BY <1>2, <2>1 DEF fate, recordVars, Stable
  <2> QED BY <1>1, <1>2, <1>3, <2>2, <2>3, <2>4, GoesOnFirm
<1> QED BY <1>4, <1>5 DEF Stable

(* Going back: the pointer, or what could not be undone.                   *)
LEMMA BackFirm ==
  ASSUME BackInv, FirmInv, NEW h \in Helpers, BackPoint(h) \/ BackWaited(h)
  PROVE  FirmInv'
<1>1. TrialTypes /\ OnUpdate(h) /\ helper[h].at \in {"backPoint", "backWait"} /\ UpdateFirm(h) /\ TrialHeld(h)
  BY DEF BackInv, FirmInv, BackPoint, BackWaited, OnUpdate, Alive, At
<1>2. UNCHANGED <<kept, lapsed, left, lock, web, poll>>
  BY DEF BackPoint, BackWaited, webVars, fate
<1>3. StandsOrGoes
  BY <1>2 DEF StandsOrGoes
<1>4. \A place : Goes(h, place) => helper'[h].code = helper[h].code
  BY <1>1 DEF Goes, TrialTypes, HelperStates
<1>5. CASE current' = helper[h].previous /\ Goes(h, "backRestart") /\ record' = record /\ hold' = hold /\ At(h, "backPoint")
  <2>1. Moved(h) /\ helper'[h].at = "backRestart"
    BY <1>1, <1>5, GoesMoves DEF Places
  <2>2. RecordOfItsOwn(h) /\ HoldOfItsOwn(h)
    BY <1>5 DEF RecordOfItsOwn, HoldOfItsOwn
  <2>3. KeptStays'
    BY <1>1, <1>2, <1>3, <1>5, <2>2, UpdateKnown, KeptStaysKept
  <2>4. record.stage = "rolling-back"
    BY <1>1, <1>5 DEF UpdateFirm, At
  <2>5. RunsHeld'
    <3> SUFFICES ASSUME NEW v \in Versions, Runs(v)', ~FirmNow(v) PROVE hold.version = v /\ record.version = v
      BY <1>2, <1>5, <2>4 DEF RunsHeld, FirmNow, Firm
    <3>1. v # helper[h].previous
      BY <1>1, UpdateKnown DEF FirmNow
    <3>2. Runs(v)
      BY <1>2, <1>5, <3>1 DEF Runs
    <3> QED BY <3>2 DEF FirmInv, RunsHeld
  <2>6. UpdateFirm(h)'
    BY <1>1, <1>4, <1>5, <2>1 DEF UpdateFirm, OnUpdate, Moved, At
  <2>7. TrialHeld(h)'
    BY <1>1, <1>2, <1>5, <2>1 DEF TrialHeld, StillHeld, Trying, Moved, At
  <2>8. ReleaseFirm(h)'
    BY <1>5, <2>1 DEF ReleaseFirm, Moved, At
  <2> QED BY <1>1, <1>2, <1>3, <2>1, <2>2, <2>3, <2>5, <2>6, <2>7, <2>8, WorkIsFirm DEF OnUpdate
<1>6. CASE Stage(h, "failed", "rollback-failed") /\ Goes(h, "ends") /\ UNCHANGED <<current, hold>>
  <2>1. Moved(h) /\ helper'[h].at = "ends" /\ helper'[h].code = helper[h].code
    BY <1>1, <1>4, <1>6, GoesMoves DEF Places
  <2>2. "failed" \in Stages /\ "rollback-failed" \in Codes
    BY DEF Stages, Codes
  <2>3. /\ record'.version = record.version /\ record'.previous = record.previous
        /\ record'.stage = "failed" /\ record'.code = "rollback-failed"
    BY <1>1, <1>6, <2>2, StageMoves
  <2>4. RecordOfItsOwn(h)
    BY <1>1, <2>3 DEF RecordOfItsOwn
  <2>5. KeptStays'
    BY <1>2, <1>3, <1>6, <2>4, KeptStaysKept
  <2>6. RunsHeld'
    <3> SUFFICES ASSUME NEW v \in Versions, Runs(v)' PROVE FirmNow(v)'
      BY DEF RunsHeld
    <3>1. CASE v = helper[h].version
      BY <1>1, <2>3, <3>1, UpdateKnown DEF FirmNow
    <3>2. CASE v # helper[h].version
      <4>1. Firm(v)
        BY <1>1, <1>3, <1>6, <3>2, RunsStay, RunsFirm
      <4> QED BY <1>2, <4>1 DEF FirmNow, Firm
    <3> QED BY <3>1, <3>2
  <2> QED BY <1>1, <1>2, <1>3, <1>6, <2>1, <2>2, <2>5, <2>6, WritesFirm
<1>7. CASE Answers(helper[h].previous) /\ RemoveHold(helper[h].version) /\ Goes(h, "failed") /\ UNCHANGED recordVars /\ BackWaited(h)
  BY <1>7, ReleaseIsFirm
<1> QED BY <1>5, <1>6, <1>7 DEF BackPoint, BackWaited, recordVars, holdVars

(* Steps that only end helpers, or the web.                                *)
LEMMA EndsAreFirm ==
  ASSUME FirmInv, \A g \in Helpers : helper'[g] = helper[g] \/ helper'[g].at = "gone",
         UNCHANGED <<record, hold, current, kept, lapsed, left>>, StandsOrGoes
  PROVE  FirmInv'
<1>1. \A v : (Firm(v) <=> Firm(v)') /\ (FirmNow(v) <=> FirmNow(v)') /\ (StillHeld(v) <=> StillHeld(v)') /\ (Runs(v)' => Runs(v))
  BY RunsStay DEF Firm, FirmNow, StillHeld
<1>2. RecordFirm' /\ KeptStays'
  BY <1>1 DEF FirmInv, RecordFirm, KeptStays, StandsOrGoes, WebGoes
<1>3. RunsHeld' /\ PollFirm'
  BY <1>1 DEF FirmInv, RunsHeld, PollFirm, StandsOrGoes, WebGoes
<1>4. JudgedFirm'
  <2>1. CASE UNCHANGED web
    BY <2>1 DEF FirmInv, JudgedFirm, Alive, At
  <2>2. CASE WebGoes
    BY <2>2 DEF WebGoes, JudgedFirm, StartingPlaces, JudgedPlaces
  <2> QED BY <2>1, <2>2 DEF StandsOrGoes
<1>5. ASSUME NEW g \in Helpers PROVE UpdateFirm(g)' /\ TrialHeld(g)' /\ ReleaseFirm(g)' /\ SpawnedFirm(g)'
  <2>1. CASE helper'[g].at = "gone"
    BY <2>1 DEF UpdateFirm, OnUpdate, TrialHeld, Trying, ReleaseFirm, SpawnedFirm, Alive, At
  <2>2. CASE helper'[g] = helper[g]
    <3>1. UpdateFirm(g) /\ TrialHeld(g) /\ ReleaseFirm(g) /\ SpawnedFirm(g)
      BY DEF FirmInv
    <3>2. UpdateFirm(g)'
      BY <2>2, <3>1 DEF UpdateFirm, OnUpdate, Alive, At
    <3>3. TrialHeld(g)' /\ ReleaseFirm(g)'
      BY <1>1, <2>2, <3>1 DEF TrialHeld, Trying, ReleaseFirm, At
    <3>4. SpawnedFirm(g)'
      BY <1>1, <2>2, <3>1 DEF SpawnedFirm, At
    <3> QED BY <3>2, <3>3, <3>4
  <2> QED BY <2>1, <2>2
<1>6. ASSUME NEW g \in Helpers, NEW h \in Helpers PROVE TwiceFirm(g, h)'
  <2>1. TwiceFirm(g, h)
    BY DEF FirmInv
  <2> QED BY <2>1 DEF TwiceFirm, OnUpdate, Alive, At
<1> QED BY <1>2, <1>3, <1>4, <1>5, <1>6 DEF FirmInv

(* Ends and crashes.                                                       *)
LEMMA CrashFirm ==
  ASSUME BackInv, FirmInv,
         \/ \E h \in Helpers : Ends(h) \/ HelperCrash(h)
         \/ WebCrash \/ Reboot
  PROVE  FirmInv'
<1>1. TrialTypes
  BY DEF BackInv
<1>2. CASE \E h \in Helpers : Ends(h) \/ HelperCrash(h)
  <2>1. PICK h \in Helpers : Ends(h) \/ HelperCrash(h)
    BY <1>2
  <2>2. Goes(h, "gone")
    BY <2>1 DEF Ends, HelperCrash
  <2>3. Moved(h) /\ helper'[h].at = "gone"
    BY <1>1, <2>2, GoesMoves DEF Places
  <2>4. UNCHANGED <<record, hold, current, kept, lapsed, left, web, poll>>
    BY <2>1 DEF Ends, HelperCrash, recordVars, holdVars, webVars, fate
  <2> QED BY <2>3, <2>4, EndsAreFirm DEF Moved, StandsOrGoes
<1>3. CASE WebCrash
  BY <1>3, EndsAreFirm DEF WebCrash, StandsOrGoes, recordVars, holdVars, fate
<1>4. CASE Reboot
  <2>1. \A h \in Helpers : helper'[h] = helper[h] \/ helper'[h].at = "gone"
    BY <1>1, <1>4 DEF Reboot, TrialTypes, HelperStates, Places
  <2> QED BY <1>4, <2>1, EndsAreFirm DEF Reboot, StandsOrGoes, recordVars, holdVars, fate
<1> QED BY <1>2, <1>3, <1>4

(* A hold that goes has run out.                                           *)
LEMMA LapsesAreFirm ==
  ASSUME FirmInv, UNCHANGED <<record, current, helper, web, kept, left>>, lapsed \subseteq lapsed',
         hold'.version = hold.version \/ hold.version \in lapsed', PollFirm'
  PROVE  FirmInv'
<1>1. \A v : (Firm(v) => Firm(v)') /\ (FirmNow(v) => FirmNow(v)') /\ (StillHeld(v) => StillHeld(v)') /\ (Runs(v)' <=> Runs(v))
  BY DEF Firm, FirmNow, StillHeld, Runs
<1>2. RecordFirm' /\ KeptStays'
  BY <1>1 DEF FirmInv, RecordFirm, KeptStays
<1>3. RunsHeld'
  <2> SUFFICES ASSUME NEW v \in Versions, Runs(v), ~FirmNow(v)'
               PROVE  /\ hold'.version = v /\ record.version = v
                      /\ record.stage \in {"switching", "verifying", "rolling-back"}
                      /\ record.stage # "rolling-back" => current = v
    BY <1>1 DEF RunsHeld
  <2>1. v \notin lapsed'
    BY DEF FirmNow, Firm
  <2> QED BY <1>1, <2>1 DEF FirmInv, RunsHeld
<1>4. JudgedFirm'
  BY DEF FirmInv, JudgedFirm, Alive, At
<1>5. ASSUME NEW g \in Helpers PROVE UpdateFirm(g)' /\ TrialHeld(g)' /\ ReleaseFirm(g)' /\ SpawnedFirm(g)'
  <2>1. UpdateFirm(g) /\ TrialHeld(g) /\ ReleaseFirm(g) /\ SpawnedFirm(g)
    BY DEF FirmInv
  <2>2. UpdateFirm(g)'
    BY <2>1 DEF UpdateFirm, OnUpdate, Alive, At
  <2>3. TrialHeld(g)' /\ ReleaseFirm(g)'
    BY <1>1, <2>1 DEF TrialHeld, Trying, ReleaseFirm, At
  <2>4. SpawnedFirm(g)'
    BY <1>1, <2>1 DEF SpawnedFirm, At
  <2> QED BY <2>2, <2>3, <2>4
<1>6. ASSUME NEW g \in Helpers, NEW h \in Helpers PROVE TwiceFirm(g, h)'
  <2>1. TwiceFirm(g, h)
    BY DEF FirmInv
  <2> QED BY <2>1 DEF TwiceFirm, OnUpdate, Alive, At
<1> QED BY <1>2, <1>3, <1>4, <1>5, <1>6 DEF FirmInv

(* A web that looks at the hold and finds none, or one that ran out, runs  *)
(* a version that may take the worker.                                     *)
LEMMA HoldStepFirm ==
  ASSUME BackInv, FirmInv,
         \/ HoldAges \/ PollLooks \/ PollRemoves \/ PollAsks \/ WorkerDies \/ WorkerStarts
         \/ PruneLooks \/ PruneRemoves \/ UNCHANGED trialVars
  PROVE  FirmInv'
<1>1. PollFirm /\ RunsHeld /\ web.version \in Versions /\ None \notin Versions
  BY VersionsKnown DEF FirmInv
<1>2. UNCHANGED <<record, current, helper, web, kept, left>>
  BY DEF HoldAges, PollLooks, PollRemoves, PollAsks, WorkerDies, WorkerStarts, PruneLooks, PruneRemoves,
         trialVars, recordVars, webVars, fate
<1>3. web.at = "up" => FirmNow(web.version) \/ hold.version = web.version
  BY <1>1 DEF RunsHeld, Runs
<1>4. CASE HoldAges
  BY <1>1, <1>2, <1>4, LapsesAreFirm DEF HoldAges, PollFirm, FirmNow, Firm, webVars, fate
<1>5. CASE PollLooks
  BY <1>1, <1>2, <1>3, <1>5, LapsesAreFirm DEF PollLooks, PollFirm, FirmNow, Firm, fate
<1>6. CASE PollRemoves
  BY <1>1, <1>2, <1>3, <1>6, LapsesAreFirm DEF PollRemoves, PollFirm, FirmNow, Firm, holdVars
<1>7. CASE PollAsks
  BY <1>1, <1>2, <1>7, LapsesAreFirm DEF PollAsks, PollFirm, FirmNow, Firm, holdVars, fate
<1>8. CASE WorkerDies
  BY <1>1, <1>2, <1>8, LapsesAreFirm DEF WorkerDies, PollFirm, FirmNow, Firm, holdVars, fate, webVars
<1>9. CASE WorkerStarts
  BY <1>1, <1>2, <1>9, LapsesAreFirm DEF WorkerStarts, PollFirm, FirmNow, Firm, holdVars, webVars
<1>10. CASE PruneLooks \/ PruneRemoves \/ UNCHANGED trialVars
  BY <1>1, <1>2, <1>10, LapsesAreFirm DEF PruneLooks, PruneRemoves, PollFirm, FirmNow, Firm, holdVars, fate, webVars, trialVars
<1> QED BY <1>4, <1>5, <1>6, <1>7, <1>8, <1>9, <1>10

(* A helper is spawned for a version, to check it again or not.            *)
LEMMA SpawnGives ==
  ASSUME TrialTypes, NEW h \in Helpers, NEW v \in Nat, NEW resume \in BOOLEAN, Spawn(h, v, resume)
  PROVE  /\ \A g \in Helpers : g # h => helper'[g] = helper[g]
         /\ helper'[h].at = "spawned" /\ helper'[h].version = v /\ helper'[h].resume = resume
<1>1. PICK old \in HelperStates : old = helper[h]
  BY DEF TrialTypes
<1>2. helper'[h] = [[[old EXCEPT !.at = "spawned"] EXCEPT !.version = v] EXCEPT !.resume = resume]
  BY <1>1 DEF Spawn, TrialTypes
<1>3. [old EXCEPT !.at = "spawned"] \in HelperStates /\ [old EXCEPT !.at = "spawned"].at = "spawned"
  BY DEF HelperStates, Places
<1>4. ASSUME NEW new \in HelperStates
      PROVE  /\ [[new EXCEPT !.version = v] EXCEPT !.resume = resume].at = new.at
             /\ [[new EXCEPT !.version = v] EXCEPT !.resume = resume].version = v
             /\ [[new EXCEPT !.version = v] EXCEPT !.resume = resume].resume = resume
  BY DEF HelperStates
<1>5. \A g \in Helpers : g # h => helper'[g] = helper[g]
  BY DEF Spawn, TrialTypes
<1> QED BY <1>2, <1>3, <1>4, <1>5

(* No helper is on the update that was judged.                             *)
LEMMA JudgedAlone ==
  ASSUME FirmInv, web.at \in JudgedPlaces, NEW g \in Helpers
  PROVE  ~OnUpdate(g) /\ ~At(g, "release") /\ (At(g, "spawned") => helper[g].version # web.judged.version)
<1>1. (Alive(g) => At(g, "ends")) /\ (At(g, "spawned") => helper[g].version # web.judged.version)
  BY DEF FirmInv, JudgedFirm
<1> QED BY <1>1 DEF OnUpdate, Alive, At

(* An update asked for goes back to the version of this web; the version   *)
(* of the one it replaces is not checked again.                            *)
LEMMA RequestFirm ==
  ASSUME BackInv, FirmInv, NEW h \in Helpers, NEW w \in Versions, Request(h, w)
  PROVE  FirmInv'
<1>1. /\ TrialTypes /\ RecordFirm /\ RunsHeld /\ PollFirm /\ KeptStays
      /\ \A g \in Helpers : HelperBack(g)
  BY DEF BackInv, FirmInv
<1>2. /\ web.at = "up" /\ w > web.version /\ UNCHANGED <<hold, current, web, poll, kept, lapsed>>
      /\ ~(record.stage \in Active /\ (HelperRunning \/ Spawned))
      /\ record' = [stage |-> "installing", version |-> w, previous |-> web.version, code |-> "none"]
      /\ left' = IF record.stage \in Active \/ record.code = "rollback-failed" THEN left \cup {record.version} ELSE left
      /\ Spawn(h, w, FALSE)
  BY DEF Request, WriteRecord, holdVars, webVars
<1>3. web.version \in Nat /\ w \in Nat /\ web.version \in Versions /\ web.version >= 1 /\ w # None /\ w # 1
  BY <1>2, VersionsKnown DEF Versions, None
<1>4. \A v : (Firm(v) => Firm(v)') /\ (FirmNow(v) => Firm(v)') /\ (Runs(v)' <=> Runs(v)) /\ (StillHeld(v) => StillHeld(v)')
  BY <1>2 DEF Firm, FirmNow, Runs, StillHeld
<1>5. ASSUME NEW v \in Versions, Runs(v) PROVE Firm(v)'
  <2>1. CASE FirmNow(v)
    BY <1>4, <2>1
  <2>2. CASE record.version = v /\ record.stage \in Active
    BY <1>2, <2>2 DEF Firm
  <2> QED BY <1>1, <1>5, <2>1, <2>2 DEF RunsHeld, Active
<1>6. RecordFirm'
  <2>1. Firm(web.version)'
    BY <1>2, <1>3, <1>5 DEF Runs
  <2>2. record'.previous = web.version /\ record'.previous < record'.version /\ record'.code # "rollback-failed"
    BY <1>2, <1>3
  <2>3. Firm(record.previous)'
    BY <1>2, <2>1, <2>2 DEF Firm
  <2> QED BY <2>2, <2>3 DEF RecordFirm
<1>7. RunsHeld'
  BY <1>4, <1>5 DEF RunsHeld, FirmNow
<1>8. JudgedFirm'
  BY <1>2 DEF JudgedFirm, StartingPlaces, JudgedPlaces
<1>9. PollFirm'
  BY <1>1, <1>2, <1>4 DEF PollFirm, FirmNow, Firm
<1>10. KeptStays'
  BY <1>1, <1>2 DEF KeptStays
<1>11. /\ \A g \in Helpers : g # h => helper'[g] = helper[g]
       /\ helper'[h].at = "spawned" /\ helper'[h].version = w /\ helper'[h].resume = FALSE
  BY <1>1, <1>2, <1>3, SpawnGives
<1>12. ASSUME NEW g \in Helpers PROVE ~OnUpdate(g)
  <2> SUFFICES ASSUME OnUpdate(g) PROVE FALSE
    OBVIOUS
  <2>1. lock = g /\ Alive(g) /\ record.stage \in Active
    BY <1>1, UpdateKnown DEF OnUpdate, HelperBack
  <2>2. HelperRunning
    BY <2>1 DEF HelperRunning, Helpers, None
  <2> QED BY <1>2, <2>1, <2>2
<1>13. ASSUME NEW g \in Helpers, At(g, "spawned")
       PROVE  FirmNow(helper[g].version) /\ helper[g].version # None
  <2>1. record.stage \notin Active
    BY <1>2, <1>13 DEF Spawned, At
  <2>2. SpawnedFirm(g)
    BY DEF FirmInv
  <2>3. helper[g].version # None /\ (FirmNow(helper[g].version) \/ record.stage \in Active)
    BY <1>13, <2>2 DEF SpawnedFirm
  <2> QED BY <2>1, <2>3
<1>14. ASSUME NEW g \in Helpers, At(g, "spawned"), helper[g].version = w
       PROVE  w \in lapsed \/ w \in left'
  <2>1. FirmNow(w)
    BY <1>13, <1>14
  <2>2. w \in kept => w \in lapsed \/ w \in left
    BY <1>1, <1>2, <1>3 DEF KeptStays
  <2> QED BY <1>2, <1>3, <2>1, <2>2 DEF FirmNow, Firm
<1>15. ASSUME NEW g \in Helpers PROVE UpdateFirm(g)' /\ TrialHeld(g)' /\ ReleaseFirm(g)' /\ SpawnedFirm(g)'
  <2>1. CASE g = h
    <3>1. UpdateFirm(h)' /\ TrialHeld(h)' /\ ReleaseFirm(h)'
      BY <1>11 DEF UpdateFirm, OnUpdate, TrialHeld, Trying, ReleaseFirm, Alive, At
    <3>2. SpawnedFirm(h)'
      BY <1>2, <1>3, <1>11 DEF SpawnedFirm, Active
    <3> QED BY <2>1, <3>1, <3>2
  <2>2. CASE g # h
    <3>1. helper'[g] = helper[g] /\ ~OnUpdate(g) /\ ReleaseFirm(g) /\ SpawnedFirm(g)
      BY <1>11, <1>12, <2>2 DEF FirmInv
    <3>2. UpdateFirm(g)' /\ TrialHeld(g)'
      BY <3>1 DEF UpdateFirm, OnUpdate, TrialHeld, Trying, Alive, At
    <3>3. ReleaseFirm(g)'
      <4>1. helper[g].at \notin {"backRestart", "backWait"}
        BY <3>1 DEF OnUpdate, Alive, At
      <4> QED BY <1>4, <3>1, <4>1 DEF ReleaseFirm
    <3>4. SpawnedFirm(g)'
      BY <1>4, <1>13, <3>1 DEF SpawnedFirm, FirmNow, At
    <3> QED BY <3>2, <3>3, <3>4
  <2> QED BY <2>1, <2>2
<1>16. ASSUME NEW a \in Helpers, NEW b \in Helpers PROVE TwiceFirm(a, b)'
  <2>1. CASE a # h /\ b # h
    <3>1. TwiceFirm(a, b)
      BY DEF FirmInv
    <3> QED BY <1>2, <1>11, <2>1, <3>1 DEF TwiceFirm, OnUpdate, Alive, At
  <2>2. CASE a = h /\ b # h
    BY <1>2, <1>11, <1>12, <1>14, <2>2 DEF TwiceFirm, OnUpdate, Alive, At
  <2>3. CASE a # h /\ b = h
    BY <1>2, <1>11, <1>14, <2>3 DEF TwiceFirm, At
  <2>4. CASE a = h /\ b = h
    BY <2>4 DEF TwiceFirm
  <2> QED BY <2>1, <2>2, <2>3, <2>4
<1> QED BY <1>6, <1>7, <1>8, <1>9, <1>10, <1>15, <1>16 DEF FirmInv

(* A helper takes the lock, and goes on only with its own update, under    *)
(* way; one that starts anew finds that update not begun, or its version   *)
(* may take the worker.                                                    *)
LEMMA TakeLockFirm ==
  ASSUME BackInv, FirmInv, NEW h \in Helpers, TakeLock(h)
  PROVE  FirmInv'
<1>1. /\ TrialTypes /\ RecordFirm /\ RunsHeld /\ JudgedFirm /\ PollFirm /\ KeptStays /\ SpawnedFirm(h)
      /\ \A g \in Helpers : HelperBack(g)
  BY DEF BackInv, FirmInv
<1>2. UNCHANGED <<hold, current, web, poll, kept, lapsed, left>> /\ At(h, "spawned")
  BY DEF TakeLock, holdVars, webVars, fate
<1>3. CASE Goes(h, "gone") /\ UNCHANGED recordVars
  <2>1. Moved(h) /\ helper'[h].at = "gone"
    BY <1>1, <1>3, GoesMoves DEF Places
  <2> QED BY <1>2, <1>3, <2>1, EndsAreFirm DEF Moved, StandsOrGoes, recordVars
<1>4. CASE ~HelperRunning /\ Owns(h)
  <2>1. \A g \in Helpers : ~Alive(g)
    BY <1>1, <1>4 DEF HelperRunning, HelperBack, Helpers, None
  <2>2. Place(h) \in Places /\ Place(h) \in {"ends", "installing", "back", "verify", "fail"}
    BY DEF Place, Places
  <2>3. (IF record.code = "none" THEN "interrupted" ELSE record.code) \in Codes /\ record.previous \in Nat
    BY <1>1 DEF TrialTypes, Records, Codes
  <2>4. /\ \A g \in Helpers : g # h => helper'[g] = helper[g]
        /\ helper'[h].at = Place(h) /\ helper'[h].version = helper[h].version /\ helper'[h].previous = record.previous
        /\ helper'[h].code = IF record.code = "none" THEN "interrupted" ELSE record.code
    BY <1>1, <1>4, <2>2, <2>3 DEF Owns, TrialTypes, HelperStates
  <2>5. Place(h) # "ends" => record.version = helper[h].version /\ record.stage \in Active /\ record.code # "rollback-failed"
    BY <1>1 DEF Place, RecordFirm, Active
  <2>6. /\ record'.version = record.version /\ record'.previous = record.previous /\ record'.code = record.code
        /\ record' = record \/ (Place(h) = "installing" /\ record.stage \in Active)
        /\ Place(h) = "installing" => record'.stage = "installing"
    <3>1. CASE Place(h) = "installing"
      <4>1. record' = [record EXCEPT !.stage = "installing"]
        BY <1>4, <3>1 DEF Owns, WriteRecord
      <4> QED BY <1>1, <2>5, <3>1, <4>1 DEF TrialTypes, Records
    <3>2. CASE Place(h) # "installing"
      BY <1>4, <3>2 DEF Owns, recordVars
    <3> QED BY <3>1, <3>2
  <2>7. \A v : /\ Firm(v) <=> Firm(v)'
               /\ FirmNow(v) <=> FirmNow(v)'
               /\ Runs(v)' <=> Runs(v)
               /\ StillHeld(v) <=> StillHeld(v)'
    BY <1>2, <2>6 DEF Firm, FirmNow, Runs, StillHeld
  <2>8. RecordFirm'
    <3>1. record' # NoRecord => record # NoRecord
      BY <2>6 DEF NoRecord, Active
    <3> QED BY <1>1, <2>5, <2>6, <2>7, <3>1 DEF RecordFirm
  <2>9. RunsHeld'
    <3>1. CASE record' = record
      BY <1>1, <1>2, <2>7, <3>1 DEF RunsHeld
    <3>2. CASE Place(h) = "installing"
      <4>1. record.version = helper[h].version /\ helper[h].resume = FALSE
        BY <3>2 DEF Place
      <4>2. FirmNow(record.version) \/ record.stage = "installing"
        BY <1>1, <1>2, <4>1 DEF SpawnedFirm
      <4>3. ASSUME NEW v \in Versions, Runs(v) PROVE FirmNow(v)
        BY <1>1, <4>2, <4>3 DEF RunsHeld
      <4> QED BY <2>7, <4>3 DEF RunsHeld
    <3> QED BY <2>6, <3>1, <3>2
  <2>10. JudgedFirm'
    <3>1. web.at \in JudgedPlaces => Place(h) = "ends"
      BY <1>1, <1>2, <2>5 DEF JudgedFirm, JudgedPlaces, StartingPlaces
    <3>2. \A g \in Helpers : (Alive(g) => At(g, "ends"))' \/ web.at \notin JudgedPlaces
      BY <2>1, <2>4, <3>1 DEF Alive, At
    <3>3. \A g \in Helpers : At(g, "spawned")' => At(g, "spawned") /\ helper'[g].version = helper[g].version
      BY <1>2, <2>2, <2>4 DEF At
    <3> QED BY <1>1, <1>2, <2>6, <3>2, <3>3 DEF JudgedFirm
  <2>11. PollFirm' /\ KeptStays'
    <3>1. PollFirm'
      BY <1>1, <1>2, <2>7 DEF PollFirm
    <3>2. KeptStays'
      BY <1>1, <1>2, <2>6 DEF KeptStays
    <3> QED BY <3>1, <3>2
  <2>12. UpdateFirm(h)' /\ TrialHeld(h)' /\ ReleaseFirm(h)' /\ SpawnedFirm(h)'
    <3>1. UpdateFirm(h)'
      <4>1. CASE Place(h) = "ends"
        BY <2>4, <4>1 DEF UpdateFirm, OnUpdate, At
      <4>2. CASE Place(h) # "ends"
        <5>1. helper'[h].code # "rollback-failed"
          BY <2>4, <2>5, <4>2
        <5>2. Place(h) = "fail" => record.stage \in {"installing", "checking"}
          BY DEF Place, Active
        <5>3. Place(h) = "verify" => record.stage \in {"switching", "verifying"}
          BY DEF Place
        <5>4. record'.stage \in Active
          BY <2>5, <2>6, <4>2 DEF Active
        <5>5. helper'[h].at \in {"installing", "checking", "fail"} => record'.stage \in {"installing", "checking"}
          BY <2>2, <2>4, <2>6, <5>2
        <5> QED BY <2>2, <2>4, <2>5, <2>6, <4>2, <5>1, <5>3, <5>4, <5>5 DEF UpdateFirm
      <4> QED BY <4>1, <4>2
    <3>2. TrialHeld(h)'
      <4>1. Place(h) \in {"back", "verify"} => helper[h].resume
        BY DEF Place
      <4>2. helper[h].resume => StillHeld(helper[h].version)
        BY <1>1, <1>2 DEF SpawnedFirm
      <4> QED BY <1>2, <2>2, <2>4, <4>1, <4>2 DEF TrialHeld, StillHeld, Trying, At
    <3>3. ReleaseFirm(h)' /\ SpawnedFirm(h)'
      BY <2>2, <2>4 DEF ReleaseFirm, SpawnedFirm, At
    <3> QED BY <3>1, <3>2, <3>3
  <2>13. ASSUME NEW g \in Helpers, g # h PROVE UpdateFirm(g)' /\ TrialHeld(g)' /\ ReleaseFirm(g)' /\ SpawnedFirm(g)'
    <3>1. helper'[g] = helper[g] /\ ~Alive(g) /\ SpawnedFirm(g)
      BY <2>1, <2>4, <2>13 DEF FirmInv
    <3>2. UpdateFirm(g)' /\ TrialHeld(g)' /\ ReleaseFirm(g)'
      BY <3>1 DEF UpdateFirm, OnUpdate, TrialHeld, Trying, ReleaseFirm, Alive, At
    <3>3. SpawnedFirm(g)'
      <4> SUFFICES ASSUME At(g, "spawned")
                   PROVE  /\ helper[g].version # None
                          /\ \/ FirmNow(helper[g].version)
                             \/ /\ record'.version = helper[g].version /\ record'.stage \in Active
                                /\ helper[g].resume \/ record'.stage = "installing"
                          /\ helper[g].resume => StillHeld(helper[g].version)
        BY <2>7, <3>1 DEF SpawnedFirm, At
      <4>1. \/ FirmNow(helper[g].version)
            \/ /\ record.version = helper[g].version /\ record.stage \in Active
               /\ helper[g].resume \/ record.stage = "installing"
        BY <3>1 DEF SpawnedFirm
      <4>2. record.stage \in Active /\ (helper[g].resume \/ record.stage = "installing")
            => record'.stage \in Active /\ (helper[g].resume \/ record'.stage = "installing")
        BY <2>6 DEF Active
      <4> QED BY <2>6, <3>1, <4>1, <4>2 DEF SpawnedFirm
    <3> QED BY <3>2, <3>3
  <2>14. ASSUME NEW a \in Helpers, NEW b \in Helpers PROVE TwiceFirm(a, b)'
    <3>1. TwiceFirm(a, b)
      BY DEF FirmInv
    <3>2. CASE a = h
      BY <2>2, <2>4, <3>2 DEF TwiceFirm, At
    <3>3. CASE a # h /\ b = h
      BY <1>2, <2>4, <3>1, <3>3 DEF TwiceFirm, At
    <3>4. CASE a # h /\ b # h
      BY <1>2, <2>4, <3>1, <3>4 DEF TwiceFirm, OnUpdate, Alive, At
    <3> QED BY <3>2, <3>3, <3>4
  <2> QED BY <2>8, <2>9, <2>10, <2>11, <2>12, <2>13, <2>14 DEF FirmInv
<1> QED BY <1>3, <1>4 DEF TakeLock

(* A web that starts or judges changes nothing else.                       *)
LEMMA WebIsFirm ==
  ASSUME FirmInv, UNCHANGED <<record, hold, current, helper, kept, lapsed, left>>, JudgedFirm', PollFirm',
         web'.at # "down" => (web.at # "down" /\ web'.version = web.version) \/ web'.version = current
  PROVE  FirmInv'
<1>1. \A v : (Firm(v) <=> Firm(v)') /\ (FirmNow(v) <=> FirmNow(v)') /\ (StillHeld(v) <=> StillHeld(v)') /\ (Runs(v)' => Runs(v))
  BY DEF Firm, FirmNow, StillHeld, Runs
<1>2. RecordFirm' /\ KeptStays' /\ RunsHeld'
  BY <1>1 DEF FirmInv, RecordFirm, KeptStays, RunsHeld
<1>3. ASSUME NEW g \in Helpers PROVE UpdateFirm(g)' /\ TrialHeld(g)' /\ ReleaseFirm(g)' /\ SpawnedFirm(g)'
  <2>1. UpdateFirm(g) /\ TrialHeld(g) /\ ReleaseFirm(g) /\ SpawnedFirm(g)
    BY DEF FirmInv
  <2>2. UpdateFirm(g)'
    BY <2>1 DEF UpdateFirm, OnUpdate, Alive, At
  <2>3. TrialHeld(g)' /\ ReleaseFirm(g)'
    BY <1>1, <2>1 DEF TrialHeld, Trying, ReleaseFirm, At
  <2>4. SpawnedFirm(g)'
    BY <1>1, <2>1 DEF SpawnedFirm, At
  <2> QED BY <2>2, <2>3, <2>4
<1>4. ASSUME NEW g \in Helpers, NEW h \in Helpers PROVE TwiceFirm(g, h)'
  <2>1. TwiceFirm(g, h)
    BY DEF FirmInv
  <2> QED BY <2>1 DEF TwiceFirm, OnUpdate, Alive, At
<1> QED BY <1>2, <1>3, <1>4 DEF FirmInv

(* A web reads the record and then asks whether a helper runs.             *)
LEMMA JudgeFirm ==
  ASSUME BackInv, FirmInv, WebStarts \/ Judge, ~missed'
  PROVE  FirmInv'
<1>1. TrialTypes /\ RecordFirm /\ JudgedFirm /\ PollFirm /\ web \in WebStates /\ record \in Records
      /\ \A g \in Helpers : HelperBack(g)
  BY VersionsKnown DEF BackInv, FirmInv
<1>2. UNCHANGED <<record, hold, current, helper, kept, lapsed, left, poll>> /\ poll = "idle"
  BY <1>1 DEF WebStarts, Judge, PollFirm, recordVars, holdVars, fate
<1>3. PollFirm'
  BY <1>2 DEF PollFirm
<1>4. CASE WebStarts
  <2>1. web' = [at |-> "judging", version |-> current, judged |-> record]
    BY <1>4 DEF WebStarts
  <2>2. record # NoRecord => record.version # None
    BY <1>1 DEF RecordFirm, Records, None
  <2>3. JudgedFirm'
    BY <1>2, <2>1, <2>2 DEF JudgedFirm, JudgedPlaces
  <2> QED BY <1>2, <1>3, <2>1, <2>3, WebIsFirm
<1>5. CASE Judge
  <2>1. web'.version = web.version /\ web.at = "judging"
    BY <1>1, <1>5 DEF Judge, Up, WebStates
  <2>2. CASE Up
    <3>1. web'.at = "up"
      BY <1>1, <2>2 DEF Up, WebStates
    <3>2. JudgedFirm'
      BY <3>1 DEF JudgedFirm, JudgedPlaces, StartingPlaces
    <3> QED BY <1>2, <1>3, <2>1, <3>2, WebIsFirm
  <2>3. CASE ~Up
    <3>1. PICK place \in JudgedPlaces :
            /\ web' = [web EXCEPT !.at = place]
            /\ place = "holding" <=> (web.judged.stage \in Active /\ web.judged.version = web.version)
            /\ place = "removing" => web.judged.previous = web.version
      BY <1>5, <2>3 DEF Judge, JudgedPlaces
    <3>2. web'.at = place /\ web'.judged = web.judged
      BY <1>1, <3>1 DEF WebStates
    <3>3. web.judged # NoRecord /\ ~HelperRunning
      BY <1>5, <2>3 DEF Judge
    <3>4. \A g \in Helpers : ~Alive(g)
      BY <1>1, <3>3 DEF HelperRunning, HelperBack, Helpers, None
    <3>5. ~Overlooked(web.judged)
      BY <1>5, <3>2 DEF Judge, JudgedPlaces
    <3>6. JudgedFirm'
      <4>1. /\ web'.judged.version = record.version /\ web'.judged.previous = record.previous
            /\ web'.judged # NoRecord /\ web'.judged.version # None
        BY <1>1, <2>1, <3>2, <3>3 DEF JudgedFirm, StartingPlaces
      <4>2. \A g \in Helpers : (Alive(g)' => At(g, "ends")') /\ (At(g, "spawned")' => helper'[g].version # web'.judged.version)
        BY <1>2, <3>2, <3>4, <3>5 DEF Overlooked, Alive, At
      <4>3. current' = web'.judged.version => web'.version = web'.judged.version
        BY <1>2, <2>1, <3>2, <3>5 DEF Overlooked
      <4>4. /\ (web'.judged.stage \in Active /\ web'.judged.version = web'.version) <=> web'.at = "holding"
            /\ web'.at = "removing" => web'.judged.previous = web'.version
        BY <2>1, <3>1, <3>2
      <4> QED BY <1>2, <4>1, <4>2, <4>3, <4>4 DEF JudgedFirm
    <3> QED BY <1>2, <1>3, <2>1, <3>6, WebIsFirm
  <2> QED BY <2>2, <2>3
<1> QED BY <1>4, <1>5

(* The same after a step that leaves the helper.                           *)
LEMMA StaysQuiet ==
  ASSUME FirmInv, web.at \in JudgedPlaces, NEW g \in Helpers, helper'[g] = helper[g]
  PROVE  UpdateFirm(g)' /\ TrialHeld(g)' /\ ReleaseFirm(g)'
<1>1. ~OnUpdate(g) /\ ~At(g, "release")
  BY JudgedAlone
<1>2. helper'[g].at \notin {"installing", "checking", "fail", "holding", "pointing", "giveup", "restart", "verify",
                            "waiting", "stable", "back", "backPoint", "backRestart", "backWait", "failed", "release"}
  BY <1>1 DEF OnUpdate, Alive, At
<1>3. ~OnUpdate(g)'
  BY <1>1 DEF OnUpdate, Alive, At
<1> QED BY <1>2, <1>3 DEF UpdateFirm, TrialHeld, Trying, ReleaseFirm, At

(* A starting web that took helpers for gone judged the recorded update.   *)
LEMMA JudgedKnown ==
  ASSUME BackInv, FirmInv, web.at \in JudgedPlaces
  PROVE  /\ record # NoRecord /\ web.judged.version = record.version /\ web.judged.previous = record.previous
         /\ record.previous < record.version /\ record.version # None /\ poll = "idle"
         /\ record.previous \in Nat /\ record.version \in Nat
<1>1. JudgedFirm /\ RecordFirm /\ PollFirm /\ record \in Records
  BY VersionsKnown DEF FirmInv
<1>2. web.judged.version = record.version /\ web.judged.previous = record.previous /\ record.version # None
  BY <1>1 DEF JudgedFirm, JudgedPlaces, StartingPlaces
<1>3. record # NoRecord
  BY <1>2 DEF NoRecord
<1>4. poll = "idle"
  BY <1>1 DEF PollFirm, JudgedPlaces
<1> QED BY <1>1, <1>2, <1>3, <1>4 DEF RecordFirm, Records

(* The hold of the judged update is removed by a web of the version before *)
(* it, which runs alone.                                                   *)
LEMMA RemoveOldFirm ==
  ASSUME BackInv, FirmInv, RemoveOld
  PROVE  FirmInv'
<1>1. JudgedFirm /\ RunsHeld /\ RecordFirm /\ PollFirm /\ KeptStays /\ web.at \in JudgedPlaces /\ web \in WebStates
  BY VersionsKnown DEF FirmInv, RemoveOld, JudgedPlaces
<1>2. /\ record # NoRecord /\ web.judged.version = record.version /\ web.judged.previous = record.previous
      /\ record.previous < record.version /\ record.version # None /\ poll = "idle"
      /\ record.previous \in Nat /\ record.version \in Nat
  BY <1>1, JudgedKnown
<1>3. UNCHANGED <<record, current, helper, poll, kept, lapsed, left>> /\ web.at = "removing"
  BY DEF RemoveOld, recordVars, fate
<1>4. web'.at = "settling" /\ web'.version = web.version /\ web'.judged = web.judged
  BY <1>1 DEF RemoveOld, WebStates
<1>5. hold' = hold \/ hold.version = web.judged.version
  BY DEF RemoveOld, RemoveHold, holdVars
<1>6. \A v : (Firm(v) <=> Firm(v)') /\ (FirmNow(v) <=> FirmNow(v)') /\ (Runs(v)' <=> Runs(v))
  BY <1>3, <1>4 DEF Firm, FirmNow, Runs
<1>7. web.judged.previous = web.version /\ ~Runs(record.version)
  BY <1>1, <1>2, <1>3 DEF JudgedFirm, JudgedPlaces, Runs
<1>8. RunsHeld'
  BY <1>1, <1>6, <1>7 DEF RunsHeld
<1>9. RecordFirm' /\ KeptStays' /\ PollFirm'
  <2>1. RecordFirm'
    BY <1>1, <1>3, <1>6 DEF RecordFirm
  <2>2. KeptStays'
    BY <1>1, <1>3, <1>4 DEF KeptStays
  <2> QED BY <1>2, <1>3, <2>1, <2>2 DEF PollFirm
<1>10. JudgedFirm'
  <2>1. ~(web.judged.stage \in Active /\ web.judged.version = web.version)
    BY <1>2, <1>7
  <2>2. \A g \in Helpers : (Alive(g) => At(g, "ends"))' /\ (At(g, "spawned")' => helper'[g].version # web.judged.version)
    BY <1>1, <1>3 DEF JudgedFirm, Alive, At
  <2> QED BY <1>1, <1>3, <1>4, <2>1, <2>2 DEF JudgedFirm, JudgedPlaces, StartingPlaces
<1>11. ASSUME NEW g \in Helpers PROVE SpawnedFirm(g)'
  <2>1. SpawnedFirm(g) /\ (At(g, "spawned") => helper[g].version # web.judged.version)
    BY <1>1, JudgedAlone DEF FirmInv
  <2>2. At(g, "spawned") => (StillHeld(helper[g].version) => StillHeld(helper[g].version)')
    BY <1>3, <1>5, <2>1 DEF StillHeld
  <2> QED BY <1>3, <1>6, <2>1, <2>2 DEF SpawnedFirm, At, StillHeld
<1>12. ASSUME NEW g \in Helpers, NEW h \in Helpers PROVE TwiceFirm(g, h)'
  <2>1. TwiceFirm(g, h)
    BY DEF FirmInv
  <2> QED BY <1>3, <2>1 DEF TwiceFirm, OnUpdate, Alive, At
<1>13. \A g \in Helpers : UpdateFirm(g)' /\ TrialHeld(g)' /\ ReleaseFirm(g)'
  BY <1>1, <1>3, StaysQuiet
<1> QED BY <1>8, <1>9, <1>10, <1>11, <1>12, <1>13 DEF FirmInv

(* The judged update is recorded as failed by a web of another version,    *)
(* with the pointer elsewhere.                                             *)
LEMMA SettleFirm ==
  ASSUME BackInv, FirmInv, Settle
  PROVE  FirmInv'
<1>1. /\ JudgedFirm /\ RunsHeld /\ RecordFirm /\ PollFirm /\ KeptStays /\ web.at \in JudgedPlaces
      /\ web \in WebStates /\ web.judged \in Records
  BY VersionsKnown DEF FirmInv, Settle, JudgedPlaces
<1>2. /\ record # NoRecord /\ web.judged.version = record.version /\ web.judged.previous = record.previous
      /\ record.previous < record.version /\ record.version # None /\ poll = "idle"
      /\ record.previous \in Nat /\ record.version \in Nat
  BY <1>1, JudgedKnown
<1>3. UNCHANGED <<hold, current, helper, poll, kept, lapsed, left>> /\ web.at = "settling"
  BY DEF Settle, holdVars, fate
<1>4. web'.at = "up" /\ web'.version = web.version
  BY <1>1 DEF Settle, Up, WebStates
<1>5. JudgedFirm' /\ PollFirm'
  BY <1>2, <1>3, <1>4 DEF JudgedFirm, JudgedPlaces, StartingPlaces, PollFirm
<1>6. CASE web.judged.stage \notin Active
  <2>1. record' = record
    BY <1>6 DEF Settle, recordVars
  <2> QED BY <1>3, <1>4, <1>5, <2>1, WebIsFirm
<1>7. CASE web.judged.stage \in Active
  <2>1. PICK code : record' = [web.judged EXCEPT !.stage = "failed", !.code = code]
    BY <1>7 DEF Settle, WriteRecord
  <2>2. record'.version = record.version /\ record'.previous = record.previous /\ record'.stage = "failed"
    BY <1>1, <1>2, <2>1 DEF Records
  <2>3. web.version # record.version /\ current # record.version
    BY <1>1, <1>2, <1>3, <1>7 DEF JudgedFirm, JudgedPlaces
  <2>4. \A v : (Firm(v) <=> Firm(v)') /\ (Runs(v)' <=> Runs(v)) /\ (StillHeld(v) <=> StillHeld(v)')
    BY <1>3, <1>4 DEF Firm, Runs, StillHeld
  <2>5. \A v \in Versions : Runs(v) => Firm(v)
    BY <1>1, <2>3 DEF RunsHeld, FirmNow, Runs
  <2>6. RunsHeld'
    BY <2>4, <2>5 DEF RunsHeld, FirmNow
  <2>7. RecordFirm'
    BY <1>1, <1>2, <2>2, <2>4 DEF RecordFirm
  <2>8. KeptStays'
    BY <1>1, <1>3, <1>4, <2>2 DEF KeptStays, Active
  <2>9. ASSUME NEW g \in Helpers PROVE SpawnedFirm(g)'
    <3>1. SpawnedFirm(g) /\ (At(g, "spawned") => helper[g].version # record.version)
      BY <1>1, <1>2, JudgedAlone DEF FirmInv
    <3>2. At(g, "spawned") => Firm(helper[g].version)
      BY <3>1 DEF SpawnedFirm, FirmNow
    <3> QED BY <1>3, <2>4, <3>1, <3>2 DEF SpawnedFirm, FirmNow, At
  <2>10. ASSUME NEW g \in Helpers, NEW h \in Helpers PROVE TwiceFirm(g, h)'
    <3>1. TwiceFirm(g, h)
      BY DEF FirmInv
    <3> QED BY <1>3, <3>1 DEF TwiceFirm, OnUpdate, Alive, At
  <2>11. \A g \in Helpers : UpdateFirm(g)' /\ TrialHeld(g)' /\ ReleaseFirm(g)'
    BY <1>1, <1>3, StaysQuiet
  <2> QED BY <1>5, <2>6, <2>7, <2>8, <2>9, <2>10, <2>11 DEF FirmInv
<1> QED BY <1>6, <1>7

(* A starting web of the version under trial holds it anew and has it      *)
(* checked again, or finds another hold and does nothing.                  *)
LEMMA HoldAnewFirm ==
  ASSUME BackInv, FirmInv, NEW h \in Helpers, HoldAnew(h)
  PROVE  FirmInv'
<1>1. /\ TrialTypes /\ JudgedFirm /\ RunsHeld /\ RecordFirm /\ PollFirm /\ KeptStays /\ web.at \in JudgedPlaces
      /\ web \in WebStates /\ web.version \in Versions /\ web.version \in Nat
  BY VersionsKnown DEF BackInv, FirmInv, HoldAnew, JudgedPlaces
<1>2. poll = "idle" /\ web.judged.version = record.version /\ record.version # None
  BY <1>1, JudgedKnown
<1>3. UNCHANGED <<record, current, poll, kept, lapsed, left>> /\ web.at = "holding"
  BY DEF HoldAnew, recordVars, fate
<1>4. web'.at = "up" /\ web'.version = web.version
  BY <1>1 DEF HoldAnew, Up, WebStates
<1>5. JudgedFirm' /\ PollFirm'
  BY <1>2, <1>3, <1>4 DEF JudgedFirm, JudgedPlaces, StartingPlaces, PollFirm
<1>6. CASE ~HoldIsFree(web.version)
  BY <1>3, <1>4, <1>5, <1>6, WebIsFirm DEF HoldAnew, holdVars
<1>7. CASE HoldIsFree(web.version)
  <2>1. WriteHold(web.version) /\ Spawn(h, web.version, TRUE) /\ hold.version \in {None, web.version}
    BY <1>7 DEF HoldAnew, HoldIsFree
  <2>2. /\ \A g \in Helpers : g # h => helper'[g] = helper[g]
        /\ helper'[h].at = "spawned" /\ helper'[h].version = web.version /\ helper'[h].resume = TRUE
    BY <1>1, <2>1, SpawnGives
  <2>3. hold'.version = web.version
    BY <2>1 DEF WriteHold
  <2>4. record.version = web.version
    BY <1>1, <1>2, <1>3 DEF JudgedFirm, JudgedPlaces
  <2>5. \A v : (Firm(v) <=> Firm(v)') /\ (FirmNow(v) <=> FirmNow(v)') /\ (Runs(v)' <=> Runs(v))
    BY <1>3, <1>4 DEF Firm, FirmNow, Runs
  <2>6. RecordFirm' /\ KeptStays'
    <3>1. RecordFirm'
      BY <1>1, <1>3, <2>5 DEF RecordFirm
    <3>2. KeptStays'
      BY <1>1, <1>3, <1>4 DEF KeptStays
    <3> QED BY <3>1, <3>2
  <2>7. RunsHeld'
    BY <1>1, <1>3, <2>3, <2>4, <2>5 DEF RunsHeld
  <2>8. ASSUME NEW g \in Helpers, At(g, "spawned") PROVE helper[g].version # web.version
    BY <1>1, <1>2, <2>4, <2>8, JudgedAlone
  <2>9. ASSUME NEW g \in Helpers PROVE UpdateFirm(g)' /\ TrialHeld(g)' /\ ReleaseFirm(g)' /\ SpawnedFirm(g)'
    <3>1. CASE g = h
      <4>1. UpdateFirm(h)' /\ TrialHeld(h)' /\ ReleaseFirm(h)'
        BY <2>2 DEF UpdateFirm, OnUpdate, TrialHeld, Trying, ReleaseFirm, Alive, At
      <4>2. FirmNow(web.version) \/ record.stage \in Active
        BY <1>1, <1>3 DEF RunsHeld, Runs, Active
      <4>3. SpawnedFirm(h)'
        BY <1>2, <1>3, <2>2, <2>3, <2>4, <2>5, <4>2 DEF SpawnedFirm, StillHeld, FirmNow, Firm
      <4> QED BY <3>1, <4>1, <4>3
    <3>2. CASE g # h
      <4>1. helper'[g] = helper[g] /\ SpawnedFirm(g)
        BY <2>2, <3>2 DEF FirmInv
      <4>2. UpdateFirm(g)' /\ TrialHeld(g)' /\ ReleaseFirm(g)'
        BY <1>1, <4>1, StaysQuiet
      <4>3. At(g, "spawned") => (StillHeld(helper[g].version) => helper[g].version \in lapsed \/ helper[g].version \in left)
        BY <2>1, <2>8, <4>1 DEF StillHeld, SpawnedFirm
      <4>4. SpawnedFirm(g)'
        BY <1>3, <2>5, <4>1, <4>3 DEF SpawnedFirm, At, StillHeld, FirmNow, Firm
      <4> QED BY <4>2, <4>4
    <3> QED BY <3>1, <3>2
  <2>10. ASSUME NEW a \in Helpers, NEW b \in Helpers PROVE TwiceFirm(a, b)'
    <3>1. TwiceFirm(a, b)
      BY DEF FirmInv
    <3>2. CASE a = h /\ b = h
      BY <3>2 DEF TwiceFirm
    <3>3. CASE a # h /\ b # h
      BY <1>3, <2>2, <3>1, <3>3 DEF TwiceFirm, OnUpdate, Alive, At
    <3>4. CASE a = h /\ b # h
      <4>1. ~OnUpdate(b) /\ ~At(b, "release") /\ helper'[b] = helper[b]
        BY <1>1, <2>2, <3>4, JudgedAlone
      <4> QED BY <2>2, <2>8, <3>4, <4>1 DEF TwiceFirm, OnUpdate, Alive, At
    <3>5. CASE a # h /\ b = h
      BY <2>2, <2>8, <3>5 DEF TwiceFirm, At
    <3> QED BY <3>2, <3>3, <3>4, <3>5
  <2> QED BY <1>5, <2>6, <2>7, <2>9, <2>10 DEF FirmInv
<1> QED BY <1>6, <1>7

(* At first nothing is recorded, held or under way.                        *)
LEMMA FirmStarts == TrialInit => FirmInv
<1> SUFFICES ASSUME TrialInit PROVE FirmInv
  OBVIOUS
<1>1. record = NoRecord /\ current = 1 /\ web.at = "down" /\ poll = "idle" /\ kept = {}
  BY DEF TrialInit
<1>2. \A h \in Helpers : helper[h].at = "unused"
  BY DEF TrialInit
<1>3. RecordFirm /\ JudgedFirm /\ PollFirm /\ KeptStays
  BY <1>1 DEF NoRecord, RecordFirm, JudgedFirm, PollFirm, KeptStays, StartingPlaces, JudgedPlaces
<1>4. RunsHeld
  BY <1>1 DEF RunsHeld, Runs, FirmNow, Firm
<1>5. ASSUME NEW h \in Helpers PROVE UpdateFirm(h) /\ TrialHeld(h) /\ ReleaseFirm(h) /\ SpawnedFirm(h)
  BY <1>2 DEF UpdateFirm, OnUpdate, TrialHeld, Trying, ReleaseFirm, SpawnedFirm, Alive, At
<1>6. \A g, h \in Helpers : TwiceFirm(g, h)
  BY <1>2 DEF TwiceFirm, At
<1> QED BY <1>3, <1>4, <1>5, <1>6 DEF FirmInv

(* Only a starting web overlooks a helper, once and for all.               *)
LEMMA MissedStays ==
  ASSUME [TrialNext]_trialVars, missed
  PROVE  missed'
<1>1. CASE \E h \in Helpers : Helps(h)
  <2>1. PICK h \in Helpers : Helps(h)
    BY <1>1
  <2>2. CASE TakeLock(h) \/ Install(h) \/ Check(h) \/ Hold(h) \/ Point(h) \/ GiveUp(h)
    BY <2>2 DEF TakeLock, Install, Check, Hold, Point, GiveUp, fate
  <2>3. CASE Failed(h) \/ Restart(h) \/ Verify(h) \/ Waited(h) \/ Stable(h) \/ Release(h)
    BY <2>3 DEF Failed, Restart, Verify, Waited, Stable, Release, fate
  <2>4. CASE Fail(h) \/ Back(h) \/ BackPoint(h) \/ BackWaited(h) \/ Ends(h)
    BY <2>4 DEF Fail, Back, BackPoint, BackWaited, Ends, fate
  <2> QED BY <2>1, <2>2, <2>3, <2>4 DEF Helps
<1>2. CASE \E h \in Helpers : HelperCrash(h) \/ \E v \in Versions : Request(h, v)
  BY <1>2 DEF HelperCrash, Request, fate
<1>3. CASE Judge
  BY <1>3 DEF Judge
<1>4. CASE WebStarts \/ RemoveOld \/ Settle \/ \E h \in Helpers : HoldAnew(h)
  BY <1>4 DEF WebStarts, RemoveOld, Settle, HoldAnew, fate
<1>5. CASE PruneLooks \/ PruneRemoves \/ HoldAges \/ PollLooks \/ PollRemoves \/ PollAsks
  BY <1>5 DEF PruneLooks, PruneRemoves, HoldAges, PollLooks, PollRemoves, PollAsks, fate
<1>6. CASE WorkerDies \/ WorkerStarts \/ WebCrash \/ Reboot \/ UNCHANGED trialVars
  BY <1>6 DEF WorkerDies, WorkerStarts, WebCrash, Reboot, trialVars, fate
<1> QED BY <1>1, <1>2, <1>3, <1>4, <1>5, <1>6 DEF TrialNext, Starts

(* Whatever a helper does, the version under trial stays held.             *)
LEMMA HelpsFirm ==
  ASSUME BackInv, FirmInv, NEW h \in Helpers, Helps(h)
  PROVE  FirmInv'
<1>1. CASE TakeLock(h)
  BY <1>1, TakeLockFirm
<1>2. CASE Install(h) \/ Check(h) \/ Fail(h) \/ Failed(h)
  BY <1>2, InstallFirm
<1>3. CASE Hold(h) \/ Point(h)
  BY <1>3, HoldFirm, PointFirm
<1>4. CASE Restart(h) \/ Waited(h) \/ Verify(h) \/ Back(h)
  BY <1>4, WaitFirm
<1>5. CASE GiveUp(h) \/ Release(h)
  BY <1>5, ReleaseIsFirm
<1>6. CASE Stable(h) \/ BackPoint(h) \/ BackWaited(h)
  BY <1>6, StableFirm, BackFirm
<1>7. CASE Ends(h)
  BY <1>7, CrashFirm
<1> QED BY <1>1, <1>2, <1>3, <1>4, <1>5, <1>6, <1>7 DEF Helps

(* So does every step, unless a starting web overlooks a helper.           *)
LEMMA FirmStep ==
  ASSUME BackInv, FirmInv, [TrialNext]_trialVars, ~missed'
  PROVE  FirmInv'
<1>1. CASE \E h \in Helpers : Helps(h)
  BY <1>1, HelpsFirm
<1>2. CASE \E h \in Helpers : HelperCrash(h)
  BY <1>2, CrashFirm
<1>3. CASE \E h \in Helpers : \E v \in Versions : Request(h, v)
  BY <1>3, RequestFirm
<1>4. CASE Starts
  BY <1>4, JudgeFirm, RemoveOldFirm, SettleFirm, HoldAnewFirm DEF Starts
<1>5. CASE \/ HoldAges \/ PollLooks \/ PollRemoves \/ PollAsks \/ WorkerDies \/ WorkerStarts
           \/ PruneLooks \/ PruneRemoves \/ UNCHANGED trialVars
  BY <1>5, HoldStepFirm
<1>6. CASE WebCrash \/ Reboot
  BY <1>6, CrashFirm
<1> QED BY <1>1, <1>2, <1>3, <1>4, <1>5, <1>6 DEF TrialNext

(* Held as it should be, unless a starting web overlooked a helper: the    *)
(* invariant that what follows rests on.                                   *)
LEMMA TrialIsFirm == TrialSpec => [](BackInv /\ (missed \/ FirmInv))
<1>1. TrialInit => BackInv /\ (missed \/ FirmInv)
  BY BackInit, FirmStarts
<1>2. BackInv /\ (missed \/ FirmInv) /\ [TrialNext]_trialVars => (BackInv /\ (missed \/ FirmInv))'
  <2> SUFFICES ASSUME BackInv, missed \/ FirmInv, [TrialNext]_trialVars
               PROVE  BackInv' /\ (missed' \/ FirmInv')
    OBVIOUS
  <2>1. BackInv'
    BY WorkStep, EndStep, RequestStep, BeginStep, SettleStep, PruneStep DEF TrialNext, Helps, Starts
  <2>2. missed' \/ FirmInv'
    BY MissedStays, FirmStep
  <2> QED BY <2>1, <2>2
<1> QED BY <1>1, <1>2, PTL DEF TrialSpec

(* While an update is tried its hold is there, until the update is kept or *)
(* undone, whatever webs started, judged and crashed before and whoever    *)
(* else asked, pruned or polled (link/update.ts, storage-hold.ts): for     *)
(* every number of versions, helpers and faults. Not one that ran out, or  *)
(* was asked for again, or once a starting web overlooked a helper.        *)
THEOREM TrialIsHeldHolds == TrialSpec => []TrialIsHeld
<1>1. BackInv /\ (missed \/ FirmInv) => TrialIsHeld
  <2> SUFFICES ASSUME FirmInv, NEW h \in Helpers, Trying(h)
               PROVE  hold.version = helper[h].version \/ helper[h].version \in lapsed \cup left
    BY DEF TrialIsHeld
  <2>1. TrialHeld(h)
    BY DEF FirmInv
  <2> QED BY <2>1 DEF TrialHeld, StillHeld
<1> QED BY <1>1, TrialIsFirm, PTL

(* What the worker takes as it starts may take it: while the update is     *)
(* held, the version before it, else the one that runs.                    *)
LEMMA StartsSettled ==
  ASSUME BackInv, FirmInv, WorkerStarts
  PROVE  worker' = 1 \/ Settled(worker') \/ worker' \in left
<1>1. RecordFirm /\ RunsHeld /\ web.version \in Versions /\ None \notin Versions /\ lapsed \subseteq lapsed' /\ web.at = "up"
  BY VersionsKnown DEF FirmInv, WorkerStarts
<1>2. \A v : FirmNow(v) => v = 1 \/ Settled(v) \/ v \in left
  BY <1>1 DEF FirmNow, Firm, Settled
<1>3. CASE Held /\ record.stage \in Active /\ record.previous \in installed
  <2>1. worker' = record.previous /\ record # NoRecord
    BY <1>3 DEF WorkerStarts, NoRecord, Active
  <2>2. FirmNow(record.previous)
    BY <1>1, <2>1 DEF RecordFirm, FirmNow
  <2> QED BY <1>2, <2>1, <2>2
<1>4. CASE ~(Held /\ record.stage \in Active /\ record.previous \in installed)
  <2>1. worker' = web.version
    BY <1>4 DEF WorkerStarts
  <2>2. CASE FirmNow(web.version)
    BY <1>2, <2>1, <2>2
  <2>3. CASE ~FirmNow(web.version)
    <3>1. hold.version = web.version /\ record.stage \in Active
      BY <1>1, <2>3 DEF RunsHeld, Runs, Active
    <3>2. record.previous \in installed
      BY <3>1 DEF BackInv, RecordBack
    <3>3. hold.version # None /\ ~Held
      BY <1>1, <1>4, <3>1, <3>2
    <3>4. web.version \in lapsed'
      BY <3>1, <3>3 DEF WorkerStarts
    <3> QED BY <2>1, <3>4 DEF Settled
  <2> QED BY <2>2, <2>3
<1> QED BY <1>3, <1>4

(* The worker moves to a version only once the update to it was kept, its  *)
(* hold ran out with no helper left, going back failed, or another update  *)
(* replaced it (server/execution/storage-hold.ts): for every number of     *)
(* versions, helpers and faults, as long as no starting web overlooked a   *)
(* helper.                                                                 *)
THEOREM OnlyKeptTakesOverHolds == TrialSpec => OnlyKeptTakesOver
<1>1. ASSUME BackInv, missed \/ FirmInv, [TrialNext]_trialVars
      PROVE  worker' \in {None, worker, 1} \/ Settled(worker') \/ worker' \in left \/ missed
  <2> SUFFICES ASSUME FirmInv PROVE worker' \in {None, worker, 1} \/ Settled(worker') \/ worker' \in left
    BY <1>1
  <2>1. CASE PollAsks
    <3>1. worker' \in {None, web.version} /\ FirmNow(web.version) /\ lapsed' = lapsed
      BY <2>1 DEF PollAsks, FirmInv, PollFirm, fate
    <3> QED BY <3>1 DEF FirmNow, Firm, Settled
  <2>2. CASE WorkerStarts
    BY <1>1, <2>2, StartsSettled
  <2>3. CASE WorkerDies \/ Reboot
    BY <2>3 DEF WorkerDies, Reboot
  <2>4. CASE UNCHANGED worker
    BY <2>4
  <2>5. PollAsks \/ WorkerStarts \/ WorkerDies \/ Reboot \/ UNCHANGED worker
    <3>1. ASSUME NEW h \in Helpers, Helps(h) PROVE UNCHANGED worker
      <4>1. CASE TakeLock(h) \/ Install(h) \/ Check(h) \/ Hold(h) \/ Point(h) \/ GiveUp(h)
        BY <4>1 DEF TakeLock, Install, Check, Hold, Point, GiveUp
      <4>2. CASE Failed(h) \/ Restart(h) \/ Verify(h) \/ Waited(h) \/ Stable(h) \/ Release(h)
        BY <4>2 DEF Failed, Restart, Verify, Waited, Stable, Release
      <4>3. CASE Fail(h) \/ Back(h) \/ BackPoint(h) \/ BackWaited(h) \/ Ends(h)
        BY <4>3 DEF Fail, Back, BackPoint, BackWaited, Ends
      <4> QED BY <3>1, <4>1, <4>2, <4>3 DEF Helps
    <3>2. CASE Starts \/ \E h \in Helpers : HelperCrash(h) \/ \E v \in Versions : Request(h, v)
      BY <3>2 DEF Starts, WebStarts, Judge, RemoveOld, Settle, HoldAnew, HelperCrash, Request
    <3>3. CASE \/ PruneLooks \/ PruneRemoves \/ HoldAges \/ PollLooks \/ PollRemoves
               \/ WebCrash \/ UNCHANGED trialVars
      BY <3>3 DEF PruneLooks, PruneRemoves, HoldAges, PollLooks, PollRemoves, WebCrash, trialVars
    <3> QED BY <1>1, <3>1, <3>2, <3>3 DEF TrialNext
  <2> QED BY <2>1, <2>2, <2>3, <2>4, <2>5
<1> QED BY <1>1, TrialIsFirm, PTL DEF TrialSpec, OnlyKeptTakesOver
=============================================================================
