--------------------------- MODULE DeliveryProofs ---------------------------
(***************************************************************************)
(* Proofs about Delivery, for any messages and destinations: a sender that *)
(* cannot repeat is entered once for each preparation, no destination of a *)
(* first selection is lost or added, and settled receipts stay.            *)
(***************************************************************************)
EXTENDS Delivery, TLAPS

TaskPlaces == [pc : Holding \cup {"none", "new", "wait"},
               active : BOOLEAN, passive : BOOLEAN, seen : Record]
Drives == [pc : {"none", "recover", "recovering", "loop", "read", "selected", "sending"},
           todo : SUBSET Effects, attempted : SUBSET Effects]
Selections == [owner : Owners \cup {"none"}, passive : BOOLEAN, sinks : SUBSET Sinks]

-----------------------------------------------------------------------------
(* The invariant, by effect.                                               *)

(* What the record r, the task w and the counts of an effect that is       *)
(* prepared owe each other.                                                *)
Fits(e, r, w, n, a) ==
    /\ r.phase # "absent"
    /\ e[2] \notin idempotent => n <= a
    /\ w.pc \in Holding =>
        /\ w.seen.version <= r.version
        /\ w.seen.version = r.version => w.seen = r
        /\ w.seen.phase \in {"prepared", "started"}
        /\ w.pc # "open" => w.seen.phase = "started"
    /\ r.phase = "prepared" /\ e[2] \notin idempotent => n < a

EffectOK(e) ==
    /\ e[2] \in selection[e[1]].sinks <=> delivery[e].phase # "absent"
    /\ delivery[e].phase = "absent" =>
            delivery[e] = Absent /\ sends[e] = 0 /\ task[e] = NoTask
    /\ delivery[e].phase # "absent" => Fits(e, delivery[e], task[e], sends[e], armed[e])

CursorOK ==
    /\ \A m \in routed : m <= cursor => selection[m] # NoSelection
    /\ \A e \in recovery : delivery[e].phase # "absent"
    /\ drive.pc = "selected" => cursor > 0

LEMMA DeliveryParts == DeliveryInv <=> TypeOK /\ (\A e \in Effects : EffectOK(e)) /\ CursorOK
<1>1. ASSUME DeliveryInv
      PROVE  TypeOK /\ (\A e \in Effects : EffectOK(e)) /\ CursorOK
  BY <1>1 DEF DeliveryInv, SentOnce, SelectionCovered, SnapshotsHold, PreparedFirst,
              EffectOK, Fits, CursorOK
<1>2. ASSUME TypeOK, \A e \in Effects : EffectOK(e), CursorOK
      PROVE  DeliveryInv
  <2>1. ASSUME NEW e \in Effects
        PROVE  /\ e[2] \notin idempotent => sends[e] <= armed[e]
               /\ task[e].pc \in Holding => delivery[e].phase # "absent"
    <3>1. EffectOK(e) /\ sends[e] \in Nat /\ armed[e] \in Nat
      BY <1>2 DEF TypeOK
    <3>2. CASE delivery[e].phase = "absent"
      BY <3>1, <3>2 DEF EffectOK, NoTask, Holding
    <3>3. CASE delivery[e].phase # "absent"
      BY <3>1, <3>3 DEF EffectOK, Fits
    <3> QED BY <3>2, <3>3
  <2>2. SentOnce
    BY <2>1 DEF SentOnce
  <2>3. SelectionCovered
    BY <1>2 DEF SelectionCovered, EffectOK, CursorOK
  <2>4. SnapshotsHold
    BY <1>2, <2>1 DEF SnapshotsHold, EffectOK, Fits
  <2>5. PreparedFirst
    BY <1>2 DEF PreparedFirst, EffectOK, Fits, CursorOK
  <2> QED BY <1>2, <2>2, <2>3, <2>4, <2>5 DEF DeliveryInv
<1> QED BY <1>1, <1>2

LEMMA DeliveryPartsNext ==
    DeliveryInv' <=> TypeOK' /\ (\A e \in Effects : EffectOK(e)') /\ CursorOK'
<1>1. (DeliveryInv <=> TypeOK /\ (\A e \in Effects : EffectOK(e)) /\ CursorOK)'
  BY DeliveryParts, PTL
<1>2. Effects' = Effects
  BY DEF Effects, Messages
<1> QED BY <1>1, <1>2

LEMMA Kinds ==
    /\ Absent \in Record /\ NoTask \in TaskPlaces /\ NoDrive \in Drives
    /\ Absent.phase = "absent" /\ Absent.version = 0
    /\ NoTask.pc = "none" /\ NoTask.pc \notin Holding /\ NoDrive.pc = "none"
    /\ NoSelection \in Selections /\ NoSelection.sinks = {} /\ NoSelection.owner = "none"
    /\ \A e \in Effects : e[1] \in Messages /\ e[2] \in Sinks
BY DEF Absent, Record, Phases, NoTask, TaskPlaces, Holding, NoDrive, Drives, NoSelection,
       Selections, Owners, Effects

LEMMA SavedRecord ==
    ASSUME NEW r \in Record, NEW phase \in Phases
    PROVE  /\ Saved(r, phase) \in Record /\ Saved(r, phase).phase = phase
           /\ Saved(r, phase).version = r.version + 1 /\ r.version \in Nat /\ r.phase \in Phases
           /\ Saved(r, phase) # r
BY DEF Saved, Record

-----------------------------------------------------------------------------
(* A step of one effect that is prepared.                                  *)
LEMMA EffectStep ==
    ASSUME DeliveryInv, NEW e \in Effects, delivery[e].phase # "absent",
           NEW r \in Record, NEW w \in TaskPlaces, NEW n \in Nat, NEW a \in Nat,
           Fits(e, r, w, n, a),
           delivery' = [delivery EXCEPT ![e] = r],
           task' = [task EXCEPT ![e] = w],
           sends' = [sends EXCEPT ![e] = n],
           armed' = [armed EXCEPT ![e] = a],
           drive' \in Drives, drive'.pc = drive.pc, holds' \subseteq Effects,
           starts' \in Nat,
           UNCHANGED <<head, selection, cursor, idempotent, routed, wake, followed, recovery,
                       replied, failures, crashes>>
    PROVE  DeliveryInv'
<1>1. TypeOK /\ (\A f \in Effects : EffectOK(f)) /\ CursorOK
  BY DeliveryParts
<1>2. TypeOK'
  <2>1. delivery' \in [Effects -> Record] /\ task' \in [Effects -> TaskPlaces]
    BY <1>1 DEF TypeOK, TaskPlaces
  <2>2. sends' \in [Effects -> Nat] /\ armed' \in [Effects -> Nat]
    BY <1>1 DEF TypeOK
  <2> QED BY <1>1, <2>1, <2>2 DEF TypeOK, TaskPlaces, Drives
<1>3. ASSUME NEW f \in Effects
      PROVE  EffectOK(f)'
  <2>1. CASE f = e
    <3>1. delivery'[f] = r /\ task'[f] = w /\ sends'[f] = n /\ armed'[f] = a
      BY <1>1, <2>1 DEF TypeOK
    <3>2. f[2] \in selection'[f[1]].sinks
      BY <1>1, <2>1 DEF EffectOK
    <3> QED BY <2>1, <3>1, <3>2 DEF EffectOK, Fits
  <2>2. CASE f # e
    <3>1. /\ delivery'[f] = delivery[f] /\ task'[f] = task[f]
          /\ sends'[f] = sends[f] /\ armed'[f] = armed[f]
      BY <1>1, <2>2 DEF TypeOK
    <3> QED BY <1>1, <3>1 DEF EffectOK, Fits
  <2> QED BY <2>1, <2>2
<1>4. CursorOK'
  <2>1. \A f \in Effects : delivery[f].phase # "absent" => delivery'[f].phase # "absent"
    BY <1>1 DEF TypeOK, Fits
  <2> QED BY <1>1, <2>1 DEF CursorOK, TypeOK
<1> QED BY <1>2, <1>3, <1>4, DeliveryPartsNext

(* The values that a step of an effect does not change.                    *)
LEMMA Kept ==
    ASSUME DeliveryInv, NEW e \in Effects
    PROVE  /\ delivery[e] \in Record /\ task[e] \in TaskPlaces
           /\ sends[e] \in Nat /\ armed[e] \in Nat
           /\ delivery = [delivery EXCEPT ![e] = delivery[e]]
           /\ task = [task EXCEPT ![e] = task[e]]
           /\ sends = [sends EXCEPT ![e] = sends[e]]
           /\ armed = [armed EXCEPT ![e] = armed[e]]
           /\ drive \in Drives /\ holds \subseteq Effects /\ starts \in Nat
           /\ delivery[e].phase = "absent" => task[e] = NoTask
           /\ delivery[e].phase # "absent" =>
                Fits(e, delivery[e], task[e], sends[e], armed[e])
<1>1. TypeOK /\ EffectOK(e)
  BY DeliveryParts
<1> QED BY <1>1 DEF TypeOK, EffectOK, TaskPlaces, Drives

(* The task of an effect leaves its slot.                                  *)
LEMMA Leaving ==
    ASSUME DeliveryInv, NEW e \in Effects, Ends(e)
    PROVE  /\ task' = [task EXCEPT ![e] = NoTask]
           /\ drive' \in Drives /\ drive'.pc = drive.pc /\ holds' \subseteq Effects
           /\ UNCHANGED <<wake, followed, recovery>>
<1>1. drive \in Drives /\ holds \subseteq Effects
  BY Kept
<1> QED BY <1>1 DEF Ends, Drives

(* What is held inside the section is saved against the record.            *)
LEMMA Saving ==
    ASSUME DeliveryInv, NEW e \in Effects, task[e].pc \in Holding,
           NEW phase \in Terminal \cup {"started"}, Save(e, phase)
    PROVE  /\ delivery[e].phase # "absent"
           /\ \E r \in Record :
                /\ delivery' = [delivery EXCEPT ![e] = r]
                /\ \/ r = delivery[e] /\ delivery' = delivery
                   \/ /\ delivery[e] = task[e].seen /\ delivery' # delivery
                      /\ r.phase = phase /\ r.version = delivery[e].version + 1
<1>1. /\ delivery[e] \in Record /\ delivery = [delivery EXCEPT ![e] = delivery[e]]
      /\ delivery[e].phase # "absent"
  BY Kept, Kinds
<1>2. phase \in Phases
  BY DEF Phases, Terminal
<1>3. CASE task[e].seen.version = delivery[e].version
  <2>1. task[e].seen = delivery[e]
    BY <1>1, <1>3, Kept DEF Fits
  <2>2. delivery' = [delivery EXCEPT ![e] = Saved(delivery[e], phase)]
    BY <1>3 DEF Save
  <2>3. /\ Saved(delivery[e], phase) \in Record /\ Saved(delivery[e], phase).phase = phase
        /\ Saved(delivery[e], phase).version = delivery[e].version + 1
        /\ Saved(delivery[e], phase) # delivery[e]
    BY <1>1, <1>2, SavedRecord
  <2>4. delivery'[e] # delivery[e]
    <3>1. delivery \in [Effects -> Record]
      BY DeliveryParts DEF TypeOK
    <3> QED BY <2>2, <2>3, <3>1
  <2> QED BY <1>1, <2>1, <2>2, <2>3, <2>4
<1>4. CASE task[e].seen.version # delivery[e].version
  BY <1>1, <1>4 DEF Save
<1> QED BY <1>3, <1>4

-----------------------------------------------------------------------------
(* The steps of a task.                                                    *)

(* It moves without a save.                                                *)
LEMMA MovingSteps ==
    ASSUME DeliveryInv, NEW e \in Effects,
           TaskEnds(e) \/ TaskReads(e) \/ TaskEnters(e) \/ TaskQueries(e) \/ Cancel(e)
    PROVE  DeliveryInv'
<1> USE DEF durable, follower, bounds, fixed
<1>1. task[e] # NoTask /\ delivery[e].phase # "absent" /\ Fits(e, delivery[e], task[e], sends[e], armed[e])
  <2>1. task[e] # NoTask
    BY DEF TaskEnds, TaskReads, TaskEnters, TaskQueries, Cancel, NoTask
  <2> QED BY <2>1, Kept
<1>2. ASSUME NEW w \in TaskPlaces, task' = [task EXCEPT ![e] = w],
             Fits(e, delivery[e], w, sends[e], armed[e]),
             drive' \in Drives, drive'.pc = drive.pc, holds' \subseteq Effects,
             UNCHANGED <<durable, wake, followed, recovery, bounds>>
      PROVE  DeliveryInv'
  <2>1. /\ delivery' = [delivery EXCEPT ![e] = delivery[e]] /\ delivery[e] \in Record
        /\ sends' = [sends EXCEPT ![e] = sends[e]] /\ sends[e] \in Nat
        /\ armed' = [armed EXCEPT ![e] = armed[e]] /\ armed[e] \in Nat
        /\ starts' \in Nat
    BY <1>2, Kept
  <2>2. UNCHANGED <<head, selection, cursor, idempotent, routed, wake, followed, recovery,
                    replied, failures, crashes>>
    BY <1>2
  <2>3. /\ task' = [task EXCEPT ![e] = w] /\ Fits(e, delivery[e], w, sends[e], armed[e])
        /\ drive' \in Drives /\ drive'.pc = drive.pc /\ holds' \subseteq Effects
    BY <1>2
  <2>4. delivery[e].phase # "absent"
    BY <1>1
  <2> HIDE DEF durable, follower, bounds, fixed
  <2> HIDE <1>1, <1>2
  <2> QED BY <2>1, <2>2, <2>3, <2>4, EffectStep
<1>3. ASSUME Ends(e), UNCHANGED <<durable, bounds>>
      PROVE  DeliveryInv'
  <2>1. NoTask \in TaskPlaces /\ Fits(e, delivery[e], NoTask, sends[e], armed[e])
    BY <1>1, Kinds DEF Fits
  <2> QED BY <1>2, <1>3, <2>1, Leaving
<1>4. ASSUME NEW w \in TaskPlaces, task' = [task EXCEPT ![e] = w],
             Fits(e, delivery[e], w, sends[e], armed[e]),
             UNCHANGED <<durable, follower, bounds>>
      PROVE  DeliveryInv'
  BY <1>2, <1>4, Kept
<1>5. task[e] \in TaskPlaces /\ delivery[e] \in Record
  BY Kept
<1>6. CASE TaskEnds(e)
  BY <1>3, <1>6 DEF TaskEnds
<1>7. CASE TaskReads(e)
  <2>1. CASE delivery[e].phase \in Terminal
    BY <1>3, <1>7, <2>1 DEF TaskReads
  <2>2. CASE delivery[e].phase \notin Terminal
    <3>1. task' = [task EXCEPT ![e] = [task[e] EXCEPT !.pc = "wait"]] /\ UNCHANGED <<durable, follower, bounds>>
      BY <1>7, <2>2 DEF TaskReads
    <3>2. [task[e] EXCEPT !.pc = "wait"] \in TaskPlaces /\ [task[e] EXCEPT !.pc = "wait"].pc \notin Holding
      BY <1>5 DEF TaskPlaces, Holding
    <3>3. Fits(e, delivery[e], [task[e] EXCEPT !.pc = "wait"], sends[e], armed[e])
      BY <1>1, <3>2 DEF Fits
    <3> QED BY <1>4, <3>1, <3>2, <3>3
  <2> QED BY <2>1, <2>2
<1>8. CASE TaskEnters(e)
  <2>1. CASE delivery[e].phase \in Terminal
    BY <1>3, <1>8, <2>1 DEF TaskEnters
  <2>2. CASE delivery[e].phase \notin Terminal
    <3> DEFINE w == [task[e] EXCEPT !.pc = "open", !.seen = delivery[e]]
    <3>1. task' = [task EXCEPT ![e] = w] /\ UNCHANGED <<durable, follower, bounds>>
      BY <1>8, <2>2 DEF TaskEnters
    <3>2. w \in TaskPlaces /\ w.pc = "open" /\ w.seen = delivery[e]
      BY <1>5 DEF TaskPlaces, Holding
    <3>3. delivery[e].phase \in {"prepared", "started"} /\ delivery[e].version \in Nat
      BY <1>1, <1>5, <2>2 DEF Record, Phases
    <3> HIDE DEF w
    <3>4. Fits(e, delivery[e], w, sends[e], armed[e])
      BY <1>1, <3>2, <3>3 DEF Fits
    <3> QED BY <1>4, <3>1, <3>2, <3>4
  <2> QED BY <2>1, <2>2
<1>9. CASE TaskQueries(e)
  <2> DEFINE w == [task[e] EXCEPT !.pc = "query"]
  <2>1. task' = [task EXCEPT ![e] = w] /\ UNCHANGED <<durable, follower, bounds>>
    BY <1>9 DEF TaskQueries
  <2>2. w \in TaskPlaces /\ w.pc = "query" /\ w.seen = task[e].seen
    BY <1>5 DEF TaskPlaces, Holding
  <2>3. task[e].pc \in Holding /\ task[e].seen.phase = "started"
    BY <1>9 DEF TaskQueries, Holding
  <2> HIDE DEF w
  <2>4. Fits(e, delivery[e], w, sends[e], armed[e])
    BY <1>1, <2>2, <2>3 DEF Fits
  <2> QED BY <1>4, <2>1, <2>2, <2>4
<1>10. CASE Cancel(e)
  <2> DEFINE w == [task[e] EXCEPT !.active = FALSE]
  <2>1. task' = [task EXCEPT ![e] = w] /\ UNCHANGED <<durable, follower, bounds>>
    BY <1>10 DEF Cancel
  <2>2. w \in TaskPlaces /\ w.pc = task[e].pc /\ w.seen = task[e].seen
    BY <1>5 DEF TaskPlaces
  <2> HIDE DEF w
  <2>3. Fits(e, delivery[e], w, sends[e], armed[e])
    BY <1>1, <2>2 DEF Fits
  <2> QED BY <1>4, <2>1, <2>2, <2>3
<1> QED BY <1>6, <1>7, <1>8, <1>9, <1>10

(* It ends with a receipt, a loss or a refusal.                            *)
LEMMA SettlingSteps ==
    ASSUME DeliveryInv, NEW e \in Effects,
           \/ TaskLost(e) \/ TaskRefused(e)
           \/ \E phase \in Terminal : TaskFound(e, phase) \/ TaskReceipt(e, phase)
    PROVE  DeliveryInv'
<1>1. PICK phase \in Terminal : Save(e, phase) /\ Ends(e) /\ UNCHANGED <<sends, Others>>
  BY DEF TaskLost, TaskRefused, TaskFound, TaskReceipt, Terminal
<1>2. task[e].pc \in Holding
  BY DEF TaskLost, TaskRefused, TaskFound, TaskReceipt, Holding
<1>3. PICK r \in Record :
        /\ delivery' = [delivery EXCEPT ![e] = r]
        /\ r = delivery[e] \/ r.phase = phase
  BY <1>1, <1>2, Saving
<1>4. delivery[e].phase # "absent" /\ Fits(e, delivery[e], task[e], sends[e], armed[e])
  BY <1>1, <1>2, Saving, Kept
<1>5. NoTask \in TaskPlaces /\ Fits(e, r, NoTask, sends[e], armed[e])
  <2>1. CASE r = delivery[e]
    BY <1>4, <2>1, Kinds DEF Fits
  <2>2. CASE r.phase = phase
    <3>1. r.phase \notin {"absent", "prepared"}
      BY <2>2 DEF Terminal
    <3> QED BY <1>4, <3>1, Kinds DEF Fits
  <2> QED BY <1>3, <2>1, <2>2, Kinds
<1>6. /\ sends' = [sends EXCEPT ![e] = sends[e]] /\ armed' = [armed EXCEPT ![e] = armed[e]]
      /\ sends[e] \in Nat /\ armed[e] \in Nat /\ starts' \in Nat
      /\ UNCHANGED <<head, selection, cursor, idempotent, routed, replied, failures, crashes>>
  BY <1>1, Kept DEF Others, fixed, bounds
<1> QED BY <1>1, <1>3, <1>4, <1>5, <1>6, Leaving, EffectStep

(* Nothing is awaited between the last read and the durable start.         *)
LEMMA TaskSendsStep ==
    ASSUME DeliveryInv, NEW e \in Effects, TaskSends(e)
    PROVE  DeliveryInv'
<1>1. Save(e, "started") /\ MaySend(e) /\ UNCHANGED Others
  BY DEF TaskSends
<1>2. task[e].pc \in Holding
  BY <1>1 DEF MaySend, Holding
<1>3. PICK r \in Record :
        /\ delivery' = [delivery EXCEPT ![e] = r]
        /\ \/ r = delivery[e] /\ delivery' = delivery
           \/ /\ delivery[e] = task[e].seen /\ delivery' # delivery
              /\ r.phase = "started" /\ r.version = delivery[e].version + 1
  BY <1>1, <1>2, Saving
<1>4. delivery[e].phase # "absent" /\ Fits(e, delivery[e], task[e], sends[e], armed[e])
  BY <1>1, <1>2, Saving, Kept
<1>5. /\ armed' = [armed EXCEPT ![e] = armed[e]]
      /\ sends[e] \in Nat /\ armed[e] \in Nat /\ starts' \in Nat
      /\ UNCHANGED <<head, selection, cursor, idempotent, routed, replied, failures, crashes>>
  BY <1>1, Kept DEF Others, fixed, bounds
<1>6. CASE delivery' = delivery
  <2>1. Ends(e) /\ UNCHANGED sends
    BY <1>6 DEF TaskSends
  <2>2. NoTask \in TaskPlaces /\ Fits(e, delivery[e], NoTask, sends[e], armed[e])
    BY <1>4, Kinds DEF Fits
  <2>3. sends' = [sends EXCEPT ![e] = sends[e]] /\ delivery' = [delivery EXCEPT ![e] = delivery[e]]
    BY <1>6, <2>1, Kept
  <2>4. /\ task' = [task EXCEPT ![e] = NoTask] /\ delivery[e] \in Record
        /\ drive' \in Drives /\ drive'.pc = drive.pc /\ holds' \subseteq Effects
        /\ UNCHANGED <<wake, followed, recovery>>
    BY <2>1, Kept, Leaving
  <2> QED BY <1>4, <1>5, <2>2, <2>3, <2>4, EffectStep
<1>7. CASE delivery' # delivery
  <2> DEFINE w == [task[e] EXCEPT !.pc = "send", !.seen = delivery'[e]]
  <2>1. sends' = [sends EXCEPT ![e] = sends[e] + 1] /\ task' = [task EXCEPT ![e] = w] /\ UNCHANGED follower
    BY <1>7 DEF TaskSends
  <2>2. delivery[e] = task[e].seen /\ r.phase = "started"
    BY <1>3, <1>7
  <2>3. delivery'[e] = r
    <3>1. delivery \in [Effects -> Record]
      BY DeliveryParts DEF TypeOK
    <3> QED BY <1>3, <3>1
  <2>4. w \in TaskPlaces /\ w.pc = "send" /\ w.seen = r
    BY <2>3, Kept DEF TaskPlaces, Holding
  <2> HIDE DEF w
  <2>5. e[2] \notin idempotent => sends[e] < armed[e]
    BY <1>1, <1>4, <2>2 DEF MaySend, Fits
  <2>6. r.version \in Nat
    BY DEF Record
  <2>7. Fits(e, r, w, sends[e] + 1, armed[e]) /\ sends[e] + 1 \in Nat
    BY <1>5, <2>2, <2>4, <2>5, <2>6 DEF Fits
  <2>8. drive' \in Drives /\ drive'.pc = drive.pc /\ holds' \subseteq Effects /\ UNCHANGED <<wake, followed, recovery>>
    BY <2>1, Kept DEF follower
  <2> QED BY <1>3, <1>4, <1>5, <2>1, <2>4, <2>7, <2>8, EffectStep
<1> QED BY <1>6, <1>7

-----------------------------------------------------------------------------
(* Steps that prepare and start effects.                                   *)

(* An effect is left alone, or it is prepared with the first selection.    *)
Prepares(e) ==
    \/ /\ delivery'[e] = delivery[e] /\ armed'[e] = armed[e]
       /\ e[2] \in selection'[e[1]].sinks <=> e[2] \in selection[e[1]].sinks
    \/ /\ delivery[e].phase = "absent" /\ delivery'[e].phase = "prepared"
       /\ armed'[e] = 1 /\ e[2] \in selection'[e[1]].sinks

(* A task is left alone, or a prepared effect gets one.                    *)
StartsTask(e) ==
    \/ task'[e] = task[e]
    \/ task'[e].pc \notin Holding /\ task[e] = NoTask /\ delivery'[e].phase # "absent"

LEMMA SpreadStep ==
    ASSUME DeliveryInv, TypeOK', CursorOK', UNCHANGED <<idempotent, sends>>,
           \A e \in Effects : Prepares(e) /\ StartsTask(e)
    PROVE  DeliveryInv'
<1>1. TypeOK /\ \A e \in Effects : EffectOK(e)
  BY DeliveryParts
<1>2. ASSUME NEW e \in Effects
      PROVE  EffectOK(e)'
  <2>1. EffectOK(e) /\ sends'[e] = sends[e] /\ sends[e] \in Nat
    BY <1>1 DEF TypeOK
  <2>2. CASE delivery[e].phase = "absent" /\ delivery'[e].phase = "prepared" /\ armed'[e] = 1
             /\ e[2] \in selection'[e[1]].sinks
    <3>1. sends'[e] = 0 /\ task[e] = NoTask
      BY <2>1, <2>2 DEF EffectOK
    <3>2. task'[e].pc \notin Holding
      BY <3>1, Kinds DEF StartsTask
    <3> QED BY <2>2, <3>1, <3>2 DEF EffectOK, Fits
  <2>3. CASE delivery'[e] = delivery[e] /\ armed'[e] = armed[e]
             /\ (e[2] \in selection'[e[1]].sinks <=> e[2] \in selection[e[1]].sinks)
    <3>1. CASE task'[e] = task[e]
      BY <2>1, <2>3, <3>1 DEF EffectOK, Fits
    <3>2. CASE task'[e].pc \notin Holding /\ delivery'[e].phase # "absent"
      BY <2>1, <2>3, <3>2 DEF EffectOK, Fits
    <3> QED BY <3>1, <3>2 DEF StartsTask
  <2> QED BY <2>2, <2>3 DEF Prepares
<1> QED BY <1>2, DeliveryPartsNext

(* The first selection of a message prepares its effects; a later one      *)
(* does nothing.                                                           *)
LEMMA Selecting ==
    ASSUME DeliveryInv, NEW m \in Messages, NEW new \in Selections, Select(m, new)
    PROVE  /\ selection' \in [Messages -> Selections]
           /\ delivery' \in [Effects -> Record] /\ armed' \in [Effects -> Nat]
           /\ \A e \in Effects : Prepares(e)
           /\ \A k \in Messages : selection[k] # NoSelection => selection'[k] = selection[k]
           /\ new # NoSelection => selection'[m] # NoSelection
           /\ \A e \in Effects : delivery[e].phase # "absent" => delivery'[e] = delivery[e]
<1>1. TypeOK /\ \A e \in Effects : EffectOK(e)
  BY DeliveryParts
<1>2. CASE selection[m] # NoSelection
  <2>1. UNCHANGED <<selection, delivery, armed>>
    BY <1>2 DEF Select
  <2> QED BY <1>1, <1>2, <2>1 DEF Prepares, TypeOK, Selections
<1>3. CASE selection[m] = NoSelection
  <2>1. /\ selection' = [selection EXCEPT ![m] = new]
        /\ delivery' = [e \in Effects |->
              IF e \in {m} \X new.sinks THEN Saved(Absent, "prepared") ELSE delivery[e]]
        /\ armed' = [e \in Effects |-> IF e \in {m} \X new.sinks THEN 1 ELSE armed[e]]
    BY <1>3 DEF Select
  <2>2. /\ selection' \in [Messages -> Selections] /\ selection'[m] = new
        /\ \A k \in Messages : k # m => selection'[k] = selection[k]
    BY <1>1, <2>1 DEF TypeOK, Selections
  <2>3. Saved(Absent, "prepared") \in Record /\ Saved(Absent, "prepared").phase = "prepared"
    BY Kinds, SavedRecord DEF Phases
  <2>4. delivery' \in [Effects -> Record] /\ armed' \in [Effects -> Nat]
    BY <1>1, <2>1, <2>3 DEF TypeOK
  <2>5. ASSUME NEW e \in Effects
        PROVE  Prepares(e) /\ (delivery[e].phase # "absent" => delivery'[e] = delivery[e])
    <3>1. CASE e[1] = m
      <4>1. delivery[e].phase = "absent"
        BY <1>1, <1>3, <3>1, Kinds DEF EffectOK
      <4>2. e = <<m, e[2]>>
        BY <3>1 DEF Effects
      <4>3. CASE e[2] \in new.sinks
        <5>1. e \in {m} \X new.sinks
          BY <4>2, <4>3
        <5>2. delivery'[e] = Saved(Absent, "prepared") /\ armed'[e] = 1
          BY <2>1, <5>1
        <5> QED BY <2>2, <2>3, <3>1, <4>1, <4>3, <5>2 DEF Prepares
      <4>4. CASE e[2] \notin new.sinks
        <5>1. e \notin {m} \X new.sinks
          BY <4>2, <4>4
        <5>2. e[2] \notin selection[e[1]].sinks
          BY <1>3, <3>1, Kinds
        <5>3. delivery'[e] = delivery[e] /\ armed'[e] = armed[e]
          BY <2>1, <5>1
        <5> QED BY <2>2, <3>1, <4>4, <5>2, <5>3 DEF Prepares
      <4> QED BY <4>3, <4>4
    <3>2. CASE e[1] # m
      <4>1. e \notin {m} \X new.sinks
        BY <3>2
      <4>2. delivery'[e] = delivery[e] /\ armed'[e] = armed[e]
        BY <2>1, <4>1
      <4> QED BY <2>2, <3>2, <4>2, Kinds DEF Prepares
    <3> QED BY <3>1, <3>2
  <2> QED BY <1>3, <2>2, <2>4, <2>5
<1> QED BY <1>2, <1>3

LEMMA Starting ==
    ASSUME TypeOK, NEW es, Started(es),
           selection' \in [Messages -> Selections], delivery' \in [Effects -> Record],
           \A e \in Effects : e \in es => delivery'[e].phase # "absent"
    PROVE  /\ task' \in [Effects -> TaskPlaces]
           /\ \A e \in Effects : StartsTask(e)
<1> DEFINE New(e) == [pc |-> "new", active |-> TRUE, seen |-> Absent,
                      passive |-> selection'[e[1]].passive /\ delivery'[e].phase \notin Terminal]
<1>1. \A e \in Effects : New(e) \in TaskPlaces /\ New(e).pc = "new"
  BY Kinds DEF TaskPlaces, Selections
<1>2. task \in [Effects -> TaskPlaces]
  BY DEF TypeOK, TaskPlaces
<1>3. task' = [e \in Effects |-> IF e \in es /\ task[e] = NoTask THEN New(e) ELSE task[e]]
  BY DEF Started
<1> HIDE DEF New
<1>4. task' \in [Effects -> TaskPlaces]
  BY <1>1, <1>2, <1>3
<1>5. ASSUME NEW e \in Effects
      PROVE  StartsTask(e)
  <2>1. task'[e] = (IF e \in es /\ task[e] = NoTask THEN New(e) ELSE task[e])
    BY <1>3
  <2> QED BY <1>1, <2>1 DEF StartsTask, Holding
<1> QED BY <1>4, <1>5

(* Nothing is selected, prepared or started.                               *)
LEMMA QuietStep ==
    ASSUME DeliveryInv, UNCHANGED <<selection, delivery, armed, idempotent, sends, routed>>,
           \/ task' = task
           \/ task' = [e \in Effects |-> NoTask],
           head' \in 0 .. MaxMessages, head' >= head, cursor' = cursor, followed' \in 0 .. head',
           drive' \in Drives, drive'.pc = "selected" => drive.pc = "selected",
           wake' \in BOOLEAN, \A e \in recovery' : e \in recovery \/ e \in Pending,
           holds' \subseteq Effects, replied' \subseteq Messages,
           starts' \in Nat, failures' \in Nat, crashes' \in Nat
    PROVE  DeliveryInv'
<1>1. TypeOK /\ (\A f \in Effects : EffectOK(f)) /\ CursorOK
  BY DeliveryParts
<1>2. \A e \in recovery' : e \in Effects /\ delivery[e].phase # "absent"
  BY <1>1 DEF Pending, CursorOK, TypeOK
<1>3. task' \in [Effects -> TaskPlaces] /\ \A e \in Effects : task'[e] \in {task[e], NoTask}
  BY <1>1, Kinds DEF TypeOK, TaskPlaces
<1>4. TypeOK'
  <2>1. cursor' \in 0 .. head'
    BY <1>1 DEF TypeOK
  <2>2. recovery' \subseteq Effects
    BY <1>2
  <2> QED BY <1>1, <1>3, <2>1, <2>2 DEF TypeOK, TaskPlaces, Drives
<1>5. CursorOK'
  BY <1>1, <1>2 DEF CursorOK
<1>6. ASSUME NEW e \in Effects
      PROVE  EffectOK(e)'
  <2>1. EffectOK(e) /\ task'[e] \in {task[e], NoTask}
    BY <1>1, <1>3
  <2> QED BY <2>1, Kinds DEF EffectOK, Fits
<1> QED BY <1>4, <1>5, <1>6, DeliveryPartsNext

-----------------------------------------------------------------------------
(* The owners of effects.                                                  *)

LEMMA CancelPreparedStep ==
    ASSUME DeliveryInv, NEW e \in Effects, CancelPrepared(e)
    PROVE  DeliveryInv'
<1> DEFINE r == Saved(delivery[e], "rejected")
           w == [task[e] EXCEPT !.active = FALSE]
<1>1. /\ delivery[e].phase = "prepared" /\ task[e] \in TaskPlaces /\ delivery[e] \in Record
      /\ Fits(e, delivery[e], task[e], sends[e], armed[e])
  BY Kept DEF CancelPrepared
<1>2. delivery' = [delivery EXCEPT ![e] = r] /\ task' = [task EXCEPT ![e] = w]
  BY DEF CancelPrepared
<1>3. r \in Record /\ r.phase = "rejected" /\ r.version = delivery[e].version + 1 /\ delivery[e].version \in Nat
  BY <1>1, SavedRecord DEF Phases, Terminal
<1>4. w \in TaskPlaces /\ w.pc = task[e].pc /\ w.seen = task[e].seen /\ w.seen \in Record
  BY <1>1 DEF TaskPlaces
<1> HIDE DEF r, w
<1>5. Fits(e, r, w, sends[e], armed[e])
  <2>1. w.seen.version \in Nat
    BY <1>4 DEF Record
  <2> QED BY <1>1, <1>3, <1>4, <2>1 DEF Fits
<1>6. /\ sends' = [sends EXCEPT ![e] = sends[e]] /\ armed' = [armed EXCEPT ![e] = armed[e]]
      /\ sends[e] \in Nat /\ armed[e] \in Nat /\ starts' \in Nat
      /\ drive' \in Drives /\ drive'.pc = drive.pc /\ holds' \subseteq Effects
      /\ UNCHANGED <<head, selection, cursor, idempotent, routed, wake, followed, recovery,
                     replied, failures, crashes>>
  BY Kept DEF CancelPrepared, fixed, follower, bounds
<1> QED BY <1>1, <1>2, <1>3, <1>4, <1>5, <1>6, EffectStep

(* A rejected effect without a task is prepared again and started: its     *)
(* place is the one of a new task.                                         *)
LEMMA RetryStep ==
    ASSUME DeliveryInv, NEW e \in Effects, Retry(e)
    PROVE  DeliveryInv'
<1>1. /\ delivery[e].phase = "rejected" /\ delivery[e] \in Record
      /\ Fits(e, delivery[e], task[e], sends[e], armed[e]) /\ task[e] = NoTask
      /\ sends[e] \in Nat /\ armed[e] \in Nat
  BY Kept DEF Retry
<1> DEFINE r == Saved(delivery[e], "prepared")
<1>2. delivery' = [delivery EXCEPT ![e] = r] /\ armed' = [armed EXCEPT ![e] = armed[e] + 1]
  BY DEF Retry
<1>3. r \in Record /\ r.phase = "prepared"
  BY <1>1, SavedRecord DEF Phases
<1> HIDE DEF r
<1>4. TypeOK /\ \A f \in Effects : EffectOK(f)
  BY DeliveryParts
<1>5. delivery' \in [Effects -> Record] /\ delivery'[e] = r /\ selection' \in [Messages -> Selections]
  BY <1>2, <1>3, <1>4 DEF TypeOK, Retry, Selections
<1>6. task' \in [Effects -> TaskPlaces] /\ StartsTask(e)
  <2>1. Started({e}) /\ \A f \in Effects : f \in {e} => delivery'[f].phase # "absent"
    BY <1>3, <1>5 DEF Retry
  <2> QED BY <1>4, <1>5, <2>1, Starting
<1>7. task' = [task EXCEPT ![e] = task'[e]]
  <2>1. task' = [f \in Effects |-> IF f \in {e} /\ task[f] = NoTask THEN task'[f] ELSE task[f]]
    BY <1>6 DEF Retry, Started
  <2>2. \A f \in Effects : f # e => task'[f] = task[f]
    BY <2>1
  <2> QED BY <1>4, <1>6, <2>2 DEF TypeOK
<1>8. task'[e].pc \notin Holding /\ task'[e] \in TaskPlaces
  BY <1>1, <1>6, Kinds DEF StartsTask
<1>9. Fits(e, r, task'[e], sends[e], armed[e] + 1)
  BY <1>1, <1>3, <1>8 DEF Fits
<1>10. /\ sends' = [sends EXCEPT ![e] = sends[e]] /\ starts' \in Nat
       /\ drive' \in Drives /\ drive'.pc = drive.pc /\ holds' \subseteq Effects
       /\ UNCHANGED <<head, selection, cursor, idempotent, routed, wake, followed, recovery,
                      replied, failures, crashes>>
  BY Kept DEF Retry, fixed, follower
<1>11. PICK w \in TaskPlaces : task' = [task EXCEPT ![e] = w] /\ Fits(e, r, w, sends[e], armed[e] + 1)
  BY <1>7, <1>8, <1>9
<1>12. delivery[e].phase # "absent" /\ sends[e] \in Nat /\ armed[e] + 1 \in Nat
  BY <1>1
<1> HIDE <1>1, <1>7, <1>8, <1>9
<1> QED BY <1>2, <1>3, <1>10, <1>11, <1>12, EffectStep

LEMMA StartStep ==
    ASSUME DeliveryInv, NEW e \in Effects, Start(e)
    PROVE  DeliveryInv'
<1>1. TypeOK /\ CursorOK
  BY DeliveryParts
<1>2. /\ Started({e}) /\ starts' = starts + 1 /\ delivery[e].phase # "absent"
      /\ UNCHANGED <<durable, follower, replied, failures, crashes>>
  <2>1. delivery[e] # Absent
    BY DEF Start, Owned
  <2>2. delivery[e].phase # "absent"
    BY <2>1, DeliveryParts DEF EffectOK
  <2> QED BY <2>2 DEF Start
<1> USE DEF durable, follower, fixed
<1>3. task' \in [Effects -> TaskPlaces] /\ \A f \in Effects : StartsTask(f)
  <2>1. \A f \in Effects : f \in {e} => delivery'[f].phase # "absent"
    BY <1>2
  <2>2. selection' \in [Messages -> Selections] /\ delivery' \in [Effects -> Record]
    BY <1>1, <1>2 DEF TypeOK, Selections
  <2> QED BY <1>1, <1>2, <2>1, <2>2, Starting
<1>4. TypeOK' /\ CursorOK'
  BY <1>1, <1>2, <1>3 DEF TypeOK, CursorOK, TaskPlaces
<1>5. \A f \in Effects : Prepares(f)
  BY <1>2 DEF Prepares
<1> QED BY <1>2, <1>3, <1>4, <1>5, SpreadStep

(* Steps that only move the log or the drive, and the restart.             *)
LEMMA QuietSteps ==
    ASSUME DeliveryInv,
           \/ Append \/ Follow \/ DriveWaits \/ DriveLoop \/ DriveCaughtUp \/ DriveFails \/ Crash
           \/ (DriveRecovers /\ recovery = {}) \/ UNCHANGED vars
    PROVE  DeliveryInv'
<1> USE DEF durable, follower, fixed, bounds
<1>1. /\ TypeOK /\ drive \in Drives /\ head \in 0 .. MaxMessages /\ followed \in 0 .. head
      /\ wake \in BOOLEAN /\ holds \subseteq Effects /\ replied \subseteq Messages
      /\ starts \in Nat /\ failures \in Nat /\ crashes \in Nat /\ head \in Nat /\ MaxMessages \in Nat
  BY DeliveryParts, BoundsAssumption DEF TypeOK, Drives
<1>2. UNCHANGED <<selection, delivery, armed, idempotent, sends, routed>> /\ cursor' = cursor
  BY DEF Append, Follow, DriveWaits, DriveLoop, DriveCaughtUp, DriveFails, Crash, DriveRecovers, vars
<1>3. task' = task \/ task' = [e \in Effects |-> NoTask]
  BY DEF Append, Follow, DriveWaits, DriveLoop, DriveCaughtUp, DriveFails, Crash, DriveRecovers, vars
<1>4. head' \in 0 .. MaxMessages /\ head' >= head /\ followed' \in 0 .. head'
  BY <1>1 DEF Append, Follow, DriveWaits, DriveLoop, DriveCaughtUp, DriveFails, Crash, DriveRecovers, vars
<1>5. drive' \in Drives /\ (drive'.pc = "selected" => drive.pc = "selected")
  <2>1. CASE Follow
    <3>1. [NoDrive EXCEPT !.pc = "recover"] \in Drives /\ [NoDrive EXCEPT !.pc = "recover"].pc = "recover"
      BY DEF NoDrive, Drives
    <3> QED BY <1>1, <2>1, <3>1 DEF Follow
  <2>2. CASE DriveLoop
    <3>1. [drive EXCEPT !.pc = "read"] \in Drives /\ [drive EXCEPT !.pc = "read"].pc = "read"
      BY <1>1 DEF Drives
    <3> QED BY <1>1, <2>2, <3>1, Kinds DEF DriveLoop
  <2>3. CASE DriveWaits
    BY <1>1, <2>3 DEF DriveWaits, Drives
  <2>4. CASE DriveCaughtUp \/ (DriveRecovers /\ recovery = {})
    BY <1>1, <2>4 DEF DriveCaughtUp, DriveRecovers, Drives
  <2>5. CASE Append \/ DriveFails \/ Crash \/ UNCHANGED vars
    BY <1>1, <2>5, Kinds DEF Append, DriveFails, Crash, vars
  <2> QED BY <2>1, <2>2, <2>3, <2>4, <2>5
<1>6. \A e \in recovery' : e \in recovery \/ e \in Pending
  BY DEF Append, Follow, Recovered, DriveWaits, DriveLoop, DriveCaughtUp, DriveFails, Crash, DriveRecovers, vars
<1>7. wake' \in BOOLEAN /\ holds' \subseteq Effects
  BY <1>1 DEF Append, Follow, DriveWaits, DriveLoop, DriveCaughtUp, DriveFails, Crash, MarksPending, DriveRecovers, vars,
              Pending
<1>8. replied' \subseteq Messages /\ starts' \in Nat /\ failures' \in Nat /\ crashes' \in Nat
  BY <1>1 DEF Append, Follow, DriveWaits, DriveLoop, DriveCaughtUp, DriveFails, Crash, DriveRecovers, vars,
              Messages
<1> HIDE DEF durable, follower, fixed, bounds
<1> QED BY <1>2, <1>3, <1>4, <1>5, <1>6, <1>7, <1>8, QuietStep

(* A message is committed with the selection of its publisher.             *)
LEMMA PublishStep ==
    ASSUME DeliveryInv, NEW sinks \in SUBSET Sinks, NEW passive \in BOOLEAN, Publish(sinks, passive)
    PROVE  DeliveryInv'
<1> DEFINE new == [owner |-> "other", passive |-> passive, sinks |-> sinks]
<1>1. TypeOK /\ CursorOK /\ head \in Nat /\ MaxMessages \in Nat
  BY DeliveryParts, BoundsAssumption DEF TypeOK
<1>2. /\ head' = head + 1 /\ head + 1 \in Messages /\ Select(head + 1, new)
      /\ UNCHANGED <<cursor, fixed, sends, task, follower, bounds>>
  BY <1>1 DEF Publish, Messages
<1>3. new \in Selections
  BY DEF Selections, Owners
<1> HIDE DEF new
<1>4. /\ selection' \in [Messages -> Selections]
      /\ delivery' \in [Effects -> Record] /\ armed' \in [Effects -> Nat]
      /\ \A e \in Effects : Prepares(e)
      /\ \A k \in Messages : selection[k] # NoSelection => selection'[k] = selection[k]
      /\ \A e \in Effects : delivery[e].phase # "absent" => delivery'[e] = delivery[e]
  BY <1>2, <1>3, Selecting
<1>5. TypeOK'
  <2>1. head' \in 0 .. MaxMessages /\ cursor' \in 0 .. head' /\ followed' \in 0 .. head'
    BY <1>1, <1>2 DEF Messages, TypeOK, follower
  <2>2. /\ UNCHANGED <<idempotent, routed, sends, task, drive, wake, recovery, holds>>
        /\ UNCHANGED <<replied, starts, failures, crashes>>
    BY <1>2 DEF fixed, follower, bounds
  <2> QED BY <1>1, <1>4, <2>1, <2>2 DEF TypeOK, Selections
<1>6. CursorOK'
  BY <1>1, <1>2, <1>4 DEF CursorOK, TypeOK, fixed, follower
<1>7. (\A e \in Effects : StartsTask(e)) /\ UNCHANGED <<idempotent, sends>>
  BY <1>2 DEF StartsTask, fixed
<1> QED BY <1>4, <1>5, <1>6, <1>7, SpreadStep

(* The reply selects for a message and starts its effects.                 *)
LEMMA CompleteStep ==
    ASSUME DeliveryInv, NEW m \in Messages, NEW sinks \in SUBSET Sinks, Complete(m, sinks)
    PROVE  DeliveryInv'
<1>1. TypeOK /\ CursorOK /\ \A e \in Effects : EffectOK(e)
  BY DeliveryParts
<1>2. /\ Select(m, Routes(sinks)) /\ Started({m} \X selection'[m].sinks) /\ replied' = replied \cup {m}
      /\ UNCHANGED <<head, cursor, fixed, sends, follower, starts, failures, crashes>>
  BY DEF Complete
<1>3. Routes(sinks) \in Selections
  BY DEF Routes, Selections, Owners
<1>4. /\ selection' \in [Messages -> Selections]
      /\ delivery' \in [Effects -> Record] /\ armed' \in [Effects -> Nat]
      /\ \A e \in Effects : Prepares(e)
      /\ \A k \in Messages : selection[k] # NoSelection => selection'[k] = selection[k]
      /\ \A e \in Effects : delivery[e].phase # "absent" => delivery'[e] = delivery[e]
  BY <1>2, <1>3, Selecting
<1>5. ASSUME NEW e \in Effects, e \in {m} \X selection'[m].sinks
      PROVE  delivery'[e].phase # "absent"
  <2>1. e[2] \in selection'[e[1]].sinks
    BY <1>5
  <2> QED BY <1>1, <1>4, <2>1 DEF Prepares, EffectOK
<1>6. task' \in [Effects -> TaskPlaces] /\ \A e \in Effects : StartsTask(e)
  BY <1>1, <1>2, <1>4, <1>5, Starting
<1>7. TypeOK'
  <2>1. UNCHANGED <<head, cursor, followed, idempotent, routed, sends, drive, wake, recovery, holds,
                    starts, failures, crashes>>
    BY <1>2 DEF fixed, follower
  <2>2. replied' \subseteq Messages
    BY <1>1, <1>2 DEF TypeOK
  <2> QED BY <1>1, <1>4, <1>6, <2>1, <2>2 DEF TypeOK, Selections, TaskPlaces
<1>8. CursorOK'
  BY <1>1, <1>2, <1>4 DEF CursorOK, TypeOK, fixed, follower
<1>9. UNCHANGED <<idempotent, sends>>
  BY <1>2 DEF fixed
<1> QED BY <1>4, <1>6, <1>7, <1>8, <1>9, SpreadStep

-----------------------------------------------------------------------------
(* The drive of the policy.                                                *)

(* Selection, prepared effects and cursor move together.                   *)
LEMMA DriveConsumesStep ==
    ASSUME DeliveryInv, NEW sinks \in SUBSET Sinks, DriveConsumes(sinks)
    PROVE  DeliveryInv'
<1>1. /\ TypeOK /\ CursorOK /\ drive \in Drives /\ head \in Nat /\ cursor \in Nat
      /\ MaxMessages \in Nat /\ head <= MaxMessages
  BY DeliveryParts, BoundsAssumption DEF TypeOK, Drives
<1>2. /\ cursor < head /\ cursor' = cursor + 1 /\ cursor + 1 \in Messages
      /\ drive' = [drive EXCEPT !.pc =
            IF selection'[cursor'].owner = "policy" THEN "selected" ELSE "read"]
      /\ UNCHANGED <<head, idempotent, routed, sends, task, wake, followed, recovery, holds>>
      /\ UNCHANGED <<replied, starts, failures, crashes>>
  BY <1>1 DEF DriveConsumes, Consume, Messages, fixed, bounds
<1>3. /\ selection' \in [Messages -> Selections]
      /\ delivery' \in [Effects -> Record] /\ armed' \in [Effects -> Nat]
      /\ \A e \in Effects : Prepares(e)
      /\ \A k \in Messages : selection[k] # NoSelection => selection'[k] = selection[k]
      /\ \A e \in Effects : delivery[e].phase # "absent" => delivery'[e] = delivery[e]
      /\ cursor + 1 \in routed => selection'[cursor + 1] # NoSelection
  <2>1. CASE cursor + 1 \in routed
    <3>1. Select(cursor + 1, Routes(sinks))
      BY <2>1 DEF DriveConsumes, Consume
    <3>2. Routes(sinks) \in Selections /\ Routes(sinks) # NoSelection
      <4>1. Routes(sinks) \in Selections /\ Routes(sinks).owner = "policy"
        BY DEF Routes, Selections, Owners
      <4> QED BY <4>1, Kinds
    <3> QED BY <1>2, <3>1, <3>2, Selecting
  <2>2. CASE cursor + 1 \notin routed
    <3>1. UNCHANGED <<selection, delivery, armed>>
      BY <2>2 DEF DriveConsumes, Consume
    <3> QED BY <1>1, <2>2, <3>1 DEF Prepares, TypeOK, Selections
  <2> QED BY <2>1, <2>2
<1>4. TypeOK'
  <2>1. drive' \in Drives
    BY <1>1, <1>2 DEF Drives
  <2>2. cursor' \in 0 .. head'
    BY <1>1, <1>2
  <2> QED BY <1>1, <1>2, <1>3, <2>1, <2>2 DEF TypeOK, Selections, Drives
<1>5. CursorOK'
  <2>1. ASSUME NEW m \in routed, m <= cursor + 1
        PROVE  selection'[m] # NoSelection
    <3>1. m \in Messages /\ m \in Nat
      BY <1>1 DEF TypeOK, Messages
    <3>2. CASE m = cursor + 1
      BY <1>3, <3>2
    <3>3. CASE m <= cursor
      <4>1. selection[m] # NoSelection
        BY <1>1, <3>3 DEF CursorOK
      <4> QED BY <1>3, <3>1, <4>1
    <3> QED BY <1>1, <2>1, <3>1, <3>2, <3>3
  <2>2. \A e \in recovery' : delivery'[e].phase # "absent"
    BY <1>1, <1>2, <1>3 DEF CursorOK, TypeOK
  <2>3. cursor' > 0
    BY <1>1, <1>2
  <2> QED BY <1>2, <2>1, <2>2, <2>3 DEF CursorOK
<1>6. \A e \in Effects : StartsTask(e)
  BY <1>2 DEF StartsTask
<1> QED BY <1>2, <1>3, <1>4, <1>5, <1>6, SpreadStep

LEMMA SendAllStep ==
    ASSUME DeliveryInv, NEW es \in SUBSET Effects, NEW pc \in {"recovering", "sending"}, SendAll(es, pc),
           \A e \in es : delivery[e].phase # "absent",
           recovery' \subseteq recovery, UNCHANGED <<durable, wake, followed, holds, bounds>>
    PROVE  DeliveryInv'
<1>1. TypeOK /\ CursorOK /\ drive \in Drives
  BY DeliveryParts DEF TypeOK, Drives
<1> USE DEF durable, fixed, bounds
<1>2. drive' \in Drives /\ drive'.pc = pc
  BY <1>1 DEF SendAll, Drives
<1>3. task' \in [Effects -> TaskPlaces] /\ \A e \in Effects : StartsTask(e)
  <2>1. Started(es \ drive.attempted)
    BY DEF SendAll
  <2>2. selection' \in [Messages -> Selections] /\ delivery' \in [Effects -> Record]
    BY <1>1 DEF TypeOK, Selections
  <2>3. \A e \in Effects : e \in es \ drive.attempted => delivery'[e].phase # "absent"
    OBVIOUS
  <2> QED BY <1>1, <2>1, <2>2, <2>3, Starting
<1>4. TypeOK'
  BY <1>1, <1>2, <1>3 DEF TypeOK, TaskPlaces, Drives
<1>5. CursorOK'
  BY <1>1, <1>2 DEF CursorOK
<1>6. \A e \in Effects : Prepares(e)
  BY DEF Prepares
<1> QED BY <1>3, <1>4, <1>5, <1>6, SpreadStep

LEMMA SendingSteps ==
    ASSUME DeliveryInv, (DriveRecovers /\ recovery # {}) \/ DriveSends
    PROVE  DeliveryInv'
<1>1. TypeOK /\ CursorOK /\ \A e \in Effects : EffectOK(e)
  BY DeliveryParts
<1>2. CASE DriveRecovers /\ recovery # {}
  <2> DEFINE first == {e \in recovery : \A f \in recovery : e[1] <= f[1]}
  <2>1. /\ SendAll(first, "recovering") /\ recovery' = recovery \ first
        /\ UNCHANGED <<durable, wake, followed, holds, bounds>>
    BY <1>2 DEF DriveRecovers
  <2>2. first \in SUBSET Effects /\ \A e \in first : delivery[e].phase # "absent"
    BY <1>1 DEF TypeOK, CursorOK
  <2> HIDE DEF first
  <2> QED BY <2>1, <2>2, SendAllStep
<1>3. CASE DriveSends
  <2> DEFINE es == {cursor} \X selection[cursor].sinks
  <2>1. /\ SendAll(es, "sending") /\ recovery' = recovery
        /\ UNCHANGED <<durable, wake, followed, holds, bounds>>
    BY <1>3 DEF DriveSends
  <2>2. cursor \in Messages
    <3>1. cursor > 0 /\ cursor \in 0 .. head /\ head \in 0 .. MaxMessages
      BY <1>1, <1>3 DEF DriveSends, CursorOK, TypeOK
    <3> QED BY <3>1, BoundsAssumption DEF Messages
  <2>3. es \in SUBSET Effects
    BY <1>1, <2>2 DEF TypeOK, Effects
  <2>4. \A e \in es : delivery[e].phase # "absent"
    BY <1>1, <2>3 DEF EffectOK
  <2> HIDE DEF es
  <2> QED BY <2>1, <2>3, <2>4, SendAllStep
<1> QED BY <1>2, <1>3

-----------------------------------------------------------------------------
LEMMA DeliveryInvInit == Init => DeliveryInv
<1> SUFFICES ASSUME Init PROVE DeliveryInv
  OBVIOUS
<1>1. TypeOK
  <2>1. idempotent \subseteq Sinks /\ routed \subseteq Messages
    BY ChoicesAssumption DEF Init, Messages
  <2>2. head \in 0 .. MaxMessages /\ cursor \in 0 .. head /\ followed \in 0 .. head
    BY BoundsAssumption DEF Init
  <2>3. /\ selection \in [Messages -> Selections] /\ delivery \in [Effects -> Record]
        /\ task \in [Effects -> TaskPlaces] /\ drive \in Drives
    BY Kinds DEF Init
  <2> QED BY <2>1, <2>2, <2>3 DEF Init, TypeOK, Selections, TaskPlaces, Drives
<1>2. \A e \in Effects : EffectOK(e)
  BY Kinds DEF Init, EffectOK
<1>3. CursorOK
  <2>1. \A m \in routed : ~(m <= cursor)
    BY <1>1, BoundsAssumption DEF Init, TypeOK, Messages
  <2> QED BY <2>1, Kinds DEF Init, CursorOK
<1> QED BY <1>1, <1>2, <1>3, DeliveryParts

LEMMA DeliveryInvStep == DeliveryInv /\ [Next]_vars => DeliveryInv'
<1> SUFFICES ASSUME DeliveryInv, [Next]_vars PROVE DeliveryInv'
  OBVIOUS
<1>1. CASE Caller
  <2>1. ASSUME NEW sinks \in SUBSET Sinks, NEW passive \in BOOLEAN, Publish(sinks, passive)
        PROVE  DeliveryInv'
    BY <2>1, PublishStep
  <2>2. ASSUME NEW m \in Messages, NEW sinks \in SUBSET Sinks, Complete(m, sinks)
        PROVE  DeliveryInv'
    BY <2>2, CompleteStep
  <2>3. ASSUME NEW e \in Effects, Start(e) \/ Cancel(e) \/ CancelPrepared(e) \/ Retry(e)
        PROVE  DeliveryInv'
    BY <2>3, StartStep, MovingSteps, CancelPreparedStep, RetryStep
  <2> QED BY <1>1, <2>1, <2>2, <2>3, QuietSteps DEF Caller
<1>2. CASE Drive
  <2>1. ASSUME NEW sinks \in SUBSET Sinks, DriveConsumes(sinks)
        PROVE  DeliveryInv'
    BY <2>1, DriveConsumesStep
  <2> QED BY <1>2, <2>1, QuietSteps, SendingSteps DEF Drive
<1>3. CASE Follow \/ DriveFails \/ Crash \/ UNCHANGED vars
  BY <1>3, QuietSteps
<1>4. ASSUME NEW e \in Effects, Task(e)
      PROVE  DeliveryInv'
  BY <1>4, MovingSteps, SettlingSteps, TaskSendsStep DEF Task
<1> QED BY <1>1, <1>2, <1>3, <1>4 DEF Next

(* Whatever owners, replies, tasks, drives and crashes do, in any order.   *)
THEOREM DeliveryInvariant == Spec => []DeliveryInv
<1> QED BY DeliveryInvInit, DeliveryInvStep, PTL DEF Spec

(* A sender that cannot repeat is entered at most once for each time the   *)
(* effect was prepared.                                                    *)
THEOREM SentOnceAlways == Spec => []SentOnce
<1>1. DeliveryInv => SentOnce
  BY DEF DeliveryInv
<1> QED BY <1>1, DeliveryInvariant, PTL

(* Every consumed message the policy routes is selected, and the effects   *)
(* of a message are those of its first selection, all of them.             *)
THEOREM SelectionCoveredAlways == Spec => []SelectionCovered
<1>1. DeliveryInv => SelectionCovered
  BY DEF DeliveryInv
<1> QED BY <1>1, DeliveryInvariant, PTL

-----------------------------------------------------------------------------
(* Who writes a record, and from what to what.                             *)
Written(e) ==
    delivery'[e] # delivery[e] =>
        \/ delivery[e].phase \in {"absent", "rejected"} /\ delivery'[e].phase = "prepared"
        \/ delivery[e].phase = "prepared"
        \/ /\ delivery[e].phase = "started"
           /\ \/ delivery'[e].phase # "rejected"
              \/ task[e].pc \in {"query", "send"} /\ task'[e] = NoTask

Final(m) == selection[m] # NoSelection => selection'[m] = selection[m]

LEMMA SelectingWrites ==
    ASSUME DeliveryInv, NEW m \in Messages, NEW new \in Selections, Select(m, new)
    PROVE  (\A e \in Effects : Written(e)) /\ \A k \in Messages : Final(k)
BY Selecting DEF Prepares, Written, Final

(* A task saves what it read inside the section, and a late answer meets a *)
(* newer record.                                                           *)
LEMMA TaskWrites ==
    ASSUME DeliveryInv, NEW e \in Effects, Task(e)
    PROVE  \A f \in Effects : Written(f)
<1> SUFFICES ASSUME NEW f \in Effects, delivery'[f] # delivery[f]
             PROVE  Written(f)
  BY DEF Written
<1>1. delivery \in [Effects -> Record] /\ task \in [Effects -> TaskPlaces]
  BY DeliveryParts DEF TypeOK, TaskPlaces
<1>2. delivery' # delivery
  OBVIOUS
<1>3. PICK phase \in Terminal \cup {"started"} :
        /\ Save(e, phase) /\ task[e].pc \in Holding
        /\ \/ TaskLost(e) /\ phase = "failed"
           \/ TaskRefused(e) /\ phase = "rejected"
           \/ TaskSends(e) /\ phase = "started"
           \/ TaskFound(e, phase)
           \/ TaskReceipt(e, phase)
  <2>1. ~(TaskEnds(e) \/ TaskReads(e) \/ TaskEnters(e) \/ TaskQueries(e))
    BY <1>2 DEF TaskEnds, TaskReads, TaskEnters, TaskQueries, durable
  <2>2. CASE TaskLost(e) \/ TaskRefused(e) \/ TaskSends(e)
    BY <2>2 DEF TaskLost, TaskRefused, TaskSends, MaySend, Holding, Terminal
  <2>3. ASSUME NEW phase \in Terminal, TaskFound(e, phase) \/ TaskReceipt(e, phase)
        PROVE  Save(e, phase) /\ task[e].pc \in Holding
    BY <2>3 DEF TaskFound, TaskReceipt, Holding
  <2> QED BY <2>1, <2>2, <2>3 DEF Task
<1>4. delivery[e].phase # "absent" /\ Fits(e, delivery[e], task[e], sends[e], armed[e])
  BY <1>3, Saving, Kept
<1>5. PICK r \in Record :
        /\ delivery' = [delivery EXCEPT ![e] = r]
        /\ delivery[e] = task[e].seen /\ r.phase = phase
  BY <1>2, <1>3, Saving
<1>6. f = e /\ delivery'[e].phase = phase
  BY <1>1, <1>5
<1>7. delivery[e].phase \in {"prepared", "started"}
  BY <1>3, <1>4, <1>5 DEF Fits
<1>8. CASE TaskRefused(e)
  BY <1>5, <1>6, <1>8 DEF TaskRefused, Written
<1>9. CASE (TaskLost(e) /\ phase = "failed") \/ (TaskSends(e) /\ phase = "started")
  BY <1>6, <1>7, <1>9 DEF Written
<1>10. CASE TaskFound(e, phase) \/ TaskReceipt(e, phase)
  <2>1. task[e].pc \in {"query", "send"} /\ Ends(e)
    BY <1>10 DEF TaskFound, TaskReceipt
  <2>2. task'[e] = NoTask
    BY <1>1, <2>1 DEF Ends
  <2> QED BY <1>6, <1>7, <2>1, <2>2 DEF Written
<1> QED BY <1>3, <1>8, <1>9, <1>10

LEMMA WritingStep ==
    DeliveryInv /\ [Next]_vars => (\A e \in Effects : Written(e)) /\ \A m \in Messages : Final(m)
<1> SUFFICES ASSUME DeliveryInv, [Next]_vars
             PROVE  (\A e \in Effects : Written(e)) /\ \A m \in Messages : Final(m)
  OBVIOUS
<1>1. ASSUME UNCHANGED <<delivery, selection>>
      PROVE  (\A e \in Effects : Written(e)) /\ \A m \in Messages : Final(m)
  BY <1>1 DEF Written, Final
<1>2. ASSUME NEW m \in Messages, NEW new \in Selections, Select(m, new)
      PROVE  (\A e \in Effects : Written(e)) /\ \A k \in Messages : Final(k)
  BY <1>2, SelectingWrites
<1>3. TypeOK /\ head \in Nat /\ MaxMessages \in Nat
  BY DeliveryParts, BoundsAssumption DEF TypeOK
<1>4. \A sinks \in SUBSET Sinks : Routes(sinks) \in Selections
  BY DEF Routes, Selections, Owners
<1>5. CASE Append \/ Follow \/ DriveFails \/ Crash \/ UNCHANGED vars
           \/ DriveRecovers \/ DriveWaits \/ DriveSends \/ DriveLoop \/ DriveCaughtUp
  BY <1>1, <1>5 DEF Append, Follow, DriveFails, Crash, vars, DriveRecovers, DriveWaits, DriveSends,
                    DriveLoop, DriveCaughtUp, durable
<1>6. ASSUME NEW sinks \in SUBSET Sinks, NEW passive \in BOOLEAN, Publish(sinks, passive)
      PROVE  (\A e \in Effects : Written(e)) /\ \A m \in Messages : Final(m)
  <2>1. [owner |-> "other", passive |-> passive, sinks |-> sinks] \in Selections
    BY DEF Selections, Owners
  <2>2. head + 1 \in Messages
    BY <1>3, <1>6 DEF Publish, Messages
  <2> QED BY <1>2, <1>6, <2>1, <2>2 DEF Publish
<1>7. ASSUME NEW m \in Messages, NEW sinks \in SUBSET Sinks, Complete(m, sinks)
      PROVE  (\A e \in Effects : Written(e)) /\ \A k \in Messages : Final(k)
  BY <1>2, <1>4, <1>7 DEF Complete
<1>8. ASSUME NEW sinks \in SUBSET Sinks, DriveConsumes(sinks)
      PROVE  (\A e \in Effects : Written(e)) /\ \A m \in Messages : Final(m)
  <2>1. CASE cursor + 1 \in routed
    <3>1. cursor + 1 \in Messages
      BY <1>3, <2>1 DEF TypeOK
    <3> QED BY <1>2, <1>4, <1>8, <2>1, <3>1 DEF DriveConsumes, Consume
  <2>2. CASE cursor + 1 \notin routed
    BY <1>1, <1>8, <2>2 DEF DriveConsumes, Consume
  <2> QED BY <2>1, <2>2
<1>9. ASSUME NEW e \in Effects, Start(e) \/ Cancel(e) \/ CancelPrepared(e) \/ Retry(e)
      PROVE  (\A f \in Effects : Written(f)) /\ \A m \in Messages : Final(m)
  <2>1. CASE Start(e) \/ Cancel(e)
    BY <1>1, <2>1 DEF Start, Cancel, durable
  <2>2. CASE CancelPrepared(e) \/ Retry(e)
    <3>1. PICK r \in Record :
            /\ delivery' = [delivery EXCEPT ![e] = r] /\ UNCHANGED selection
            /\ \/ delivery[e].phase = "prepared"
               \/ delivery[e].phase = "rejected" /\ r.phase = "prepared"
      <4>1. /\ Saved(delivery[e], "rejected") \in Record
            /\ Saved(delivery[e], "prepared") \in Record /\ Saved(delivery[e], "prepared").phase = "prepared"
        BY Kept, SavedRecord DEF Phases, Terminal
      <4> QED BY <2>2, <4>1 DEF CancelPrepared, Retry
    <3>2. ASSUME NEW f \in Effects
          PROVE  delivery'[f] = (IF f = e THEN r ELSE delivery[f])
      BY <1>3, <3>1 DEF TypeOK
    <3> QED BY <3>1, <3>2 DEF Written, Final
  <2> QED BY <1>9, <2>1, <2>2
<1>10. ASSUME NEW e \in Effects, Task(e)
       PROVE  (\A f \in Effects : Written(f)) /\ \A m \in Messages : Final(m)
  <2>1. UNCHANGED selection
    BY <1>10 DEF Task, TaskEnds, TaskReads, TaskEnters, TaskQueries, TaskLost, TaskRefused, TaskSends,
                 TaskFound, TaskReceipt, durable, Others
  <2> QED BY <1>10, <2>1, TaskWrites DEF Final
<1> QED BY <1>5, <1>6, <1>7, <1>8, <1>9, <1>10 DEF Next, Caller, Drive

(* A first selection is never replaced, a delivered effect keeps its       *)
(* receipt, and a settled effect is only reopened by a retry of a          *)
(* rejection.                                                              *)
THEOREM SettledStaysAlways == Spec => SettledStays
<1>1. DeliveryInv /\ [Next]_vars => (\A e \in Effects : Written(e)) /\ \A m \in Messages : Final(m)
  BY WritingStep
<1>2. DeliveryInv /\ [Next]_vars =>
        [/\ \A m \in Messages :
              selection[m] # NoSelection => selection'[m] = selection[m]
         /\ \A e \in Effects : delivery[e].phase \in Terminal /\ delivery'[e] # delivery[e] =>
              /\ delivery[e].phase = "rejected"
              /\ delivery'[e].phase = "prepared"]_vars
  BY <1>1 DEF Written, Final, Terminal
<1> QED BY <1>2, DeliveryInvariant, PTL DEF Spec, SettledStays

(* An effect that began to be sent is only called rejected by the answer   *)
(* of its sender to the task that ends with it.                            *)
THEOREM WithdrawnUnsentAlways == Spec => WithdrawnUnsent
<1>1. DeliveryInv /\ [Next]_vars => \A e \in Effects : Written(e)
  BY WritingStep
<1>2. DeliveryInv /\ [Next]_vars =>
        [\A e \in Effects :
            delivery[e].phase # "rejected" /\ delivery'[e].phase = "rejected" =>
                \/ delivery[e].phase = "prepared"
                \/ task[e].pc \in {"query", "send"} /\ task'[e] = NoTask]_vars
  BY <1>1 DEF Written
<1> QED BY <1>2, DeliveryInvariant, PTL DEF Spec, WithdrawnUnsent
=============================================================================
