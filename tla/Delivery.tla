------------------------------ MODULE Delivery ------------------------------
(***************************************************************************)
(* Sending the messages of one Session to their destinations: the durable  *)
(* selections, prepared effects and cursor (plugins/delivery/records.py),  *)
(* the task of each effect (plugins/delivery/execution.py), the follower   *)
(* of the default policy (plugins/delivery_policy/follow.py) and the reply *)
(* completion that selects and starts early                                *)
(* (plugins/delivery_policy/plugin.py).                                    *)
(*                                                                         *)
(* Messages are 1, 2, ... in the order of the log.  A step is what the     *)
(* event loop runs between two awaits.  Senders are external: they return  *)
(* any receipt, raise, hang or swallow a cancellation.                     *)
(***************************************************************************)
EXTENDS Naturals, FiniteSets

CONSTANTS
    Sinks,        \* destinations; one address each
    Protocols,    \* the sets of sinks whose sender may be idempotent
    Routings,     \* the sets of messages the policy may have to route
    MaxMessages,  \* bound on messages of the Session
    MaxStarts,    \* bound on explicit starts and retries by owners of effects
    MaxFailures,  \* bound on failures of the policy
    MaxCrashes    \* bound on process restarts

ASSUME BoundsAssumption ==
    /\ MaxMessages \in Nat /\ MaxStarts \in Nat
    /\ MaxFailures \in Nat /\ MaxCrashes \in Nat

ASSUME ChoicesAssumption ==
    Protocols \subseteq SUBSET Sinks /\ Routings \subseteq SUBSET (1 .. MaxMessages)

VARIABLES
    head,        \* messages in the log, durable
    selection,   \* the first selection of each message, durable
    cursor,      \* last message consumed by the policy, durable
    delivery,    \* the record of each effect, durable
    idempotent,  \* the sinks whose sender repeats safely: fixed
    routed,      \* the messages of the sources the policy routes: fixed
    sends,       \* how often sender.send was entered: history
    armed,       \* how often an effect was prepared: history
    task,        \* the task in the slot of each effect
    drive,       \* the drive coroutine of the follower
    wake,        \* _Wake.changed
    followed,    \* head the follower read last; 0 is before the first
    recovery,    \* effects pending when the follower started
    holds,       \* effects whose target the policy keeps busy since the restart
    replied,     \* messages whose reply ended, here or before the last restart
    starts,      \* explicit starts and retries so far
    failures,    \* failures of the policy so far
    crashes      \* restarts so far

fixed == <<idempotent, routed>>
durable == <<head, selection, cursor, delivery, fixed, sends, armed>>
follower == <<drive, wake, followed, recovery, holds>>
bounds == <<replied, starts, failures, crashes>>
vars == <<durable, task, follower, bounds>>

Messages == 1 .. MaxMessages
Effects == Messages \X Sinks
Owners == {"policy", "other"}

Terminal == {"delivered", "rejected", "failed"}

NoSelection == [owner |-> "none", passive |-> FALSE, sinks |-> {}]
Absent == [phase |-> "absent", version |-> 0]
Saved(r, phase) == [phase |-> phase, version |-> r.version + 1]

NoTask == [pc |-> "none", active |-> FALSE, passive |-> FALSE, seen |-> Absent]

NoDrive == [pc |-> "none", todo |-> {}, attempted |-> {}]

-----------------------------------------------------------------------------
Init ==
    /\ head = 0
    /\ selection = [m \in Messages |-> NoSelection]
    /\ cursor = 0
    /\ delivery = [e \in Effects |-> Absent]
    /\ idempotent \in Protocols
    /\ routed \in Routings
    /\ sends = [e \in Effects |-> 0]
    /\ armed = [e \in Effects |-> 0]
    /\ task = [e \in Effects |-> NoTask]
    /\ drive = NoDrive
    /\ wake = FALSE
    /\ followed = 0
    /\ recovery = {}
    /\ holds = {}
    /\ replied = {}
    /\ starts = 0
    /\ failures = 0
    /\ crashes = 0

(* Mutant: the latest selection wins. *)
Select_Latest(m, new) ==
    /\ selection' = [selection EXCEPT ![m] = new]
    /\ delivery' = [e \in Effects |->
          IF e[1] = m /\ e[2] \in new.sinks /\ delivery[e] = Absent
          THEN Saved(Absent, "prepared") ELSE delivery[e]]
    /\ armed' = [e \in Effects |-> IF delivery'[e] # delivery[e] THEN 1 ELSE armed[e]]

(* DeliveryRecords._prepare: the first selection of a message is final; it *)
(* is saved with all its prepared effects.                                 *)
Select(m, new) ==
    IF selection[m] # NoSelection
    THEN UNCHANGED <<selection, delivery, armed>>
    ELSE /\ selection' = [selection EXCEPT ![m] = new]
         /\ delivery' = [e \in Effects |->
               IF e \in {m} \X new.sinks THEN Saved(Absent, "prepared") ELSE delivery[e]]
         /\ armed' = [e \in Effects |-> IF e \in {m} \X new.sinks THEN 1 ELSE armed[e]]

Routes(sinks) == [owner |-> "policy", passive |-> TRUE, sinks |-> sinks]

(* A message enters the log; publish commits it with its selection.        *)
Append ==
    /\ head < MaxMessages
    /\ head' = head + 1
    /\ UNCHANGED <<selection, cursor, delivery, fixed, sends, armed, task, follower, bounds>>

Publish(sinks, passive) ==
    /\ head < MaxMessages
    /\ head' = head + 1
    /\ Select(head + 1, [owner |-> "other", passive |-> passive, sinks |-> sinks])
    /\ UNCHANGED <<cursor, fixed, sends, task, follower, bounds>>

(* Deliveries._start: join the task that is there, or start one that marks *)
(* the target busy when the effect is passive and not settled.             *)
Started(es) ==
    task' = [e \in Effects |->
        IF e \in es /\ task[e] = NoTask
        THEN [pc |-> "new", active |-> TRUE, seen |-> Absent,
              passive |-> selection'[e[1]].passive /\ delivery'[e].phase \notin Terminal]
        ELSE task[e]]

(* ReplyCompletion: select for a message of the reply and start its        *)
(* effects; nobody keeps the right to cancel them.                         *)
Complete(m, sinks) ==
    /\ m <= head /\ m \in routed \ replied
    /\ replied' = replied \cup {m}
    /\ selection[m].owner # "other"
    /\ Select(m, Routes(sinks))
    /\ Started({m} \X selection'[m].sinks)
    /\ UNCHANGED <<head, cursor, fixed, sends, follower, starts, failures, crashes>>

(* The plugins that publish own their effects (check_owner).               *)
Owned(e) == selection[e[1]].owner = "other" /\ delivery[e] # Absent

(* Deliveries.send by the owner.                                           *)
Start(e) ==
    /\ starts < MaxStarts
    /\ starts' = starts + 1
    /\ Owned(e)
    /\ UNCHANGED <<durable, follower, replied, failures, crashes>>
    /\ Started({e})

(* The caller of send that started the task is cancelled.                  *)
Cancel(e) ==
    /\ Owned(e) /\ task[e].active
    /\ task' = [task EXCEPT ![e].active = FALSE]
    /\ UNCHANGED <<durable, follower, bounds>>

(* Mutant: whatever is not delivered may be withdrawn. *)
CancelPrepared_Started(e) ==
    /\ Owned(e) /\ delivery[e].phase \in {"prepared", "started"}
    /\ delivery' = [delivery EXCEPT ![e] = Saved(@, "rejected")]
    /\ task' = [task EXCEPT ![e].active = FALSE]
    /\ UNCHANGED <<head, selection, cursor, fixed, sends, armed, follower, bounds>>

(* Deliveries.cancel_prepared.                                             *)
CancelPrepared(e) ==
    /\ Owned(e) /\ delivery[e].phase = "prepared"
    /\ delivery' = [delivery EXCEPT ![e] = Saved(@, "rejected")]
    /\ task' = [task EXCEPT ![e].active = FALSE]
    /\ UNCHANGED <<head, selection, cursor, fixed, sends, armed, follower, bounds>>

(* Deliveries.retry: a rejected effect whose task has drained is prepared  *)
(* again, then sent.                                                       *)
Retry(e) ==
    /\ starts < MaxStarts
    /\ starts' = starts + 1
    /\ Owned(e) /\ delivery[e].phase = "rejected"
    /\ task[e] = NoTask
    /\ delivery' = [delivery EXCEPT ![e] = Saved(@, "prepared")]
    /\ armed' = [armed EXCEPT ![e] = @ + 1]
    /\ UNCHANGED <<head, selection, cursor, fixed, sends, follower, replied, failures, crashes>>
    /\ Started({e})

-----------------------------------------------------------------------------
(* The task of an effect: Deliveries._send.                                *)

(* Inside the exclusive section of the target.                             *)
Holding == {"open", "query", "send"}

(* Some passive work marks the target busy: Tasks.activity.                *)
Busy(sink) ==
    \E f \in Effects : f[2] = sink /\ (f \in holds \/ task[f].passive)

(* Tasks.exclusive: nobody is inside; what is not passive also waits for   *)
(* an idle target.                                                         *)
TargetFree(e) ==
    /\ ~ \E f \in Effects : f[2] = e[2] /\ f # e /\ task[f].pc \in Holding
    /\ selection[e[1]].passive \/ ~ Busy(e[2])

(* DeliveryRecords.save: compare and set on the version that was read.     *)
Save(e, phase) ==
    delivery' = IF task[e].seen.version = delivery[e].version
                THEN [delivery EXCEPT ![e] = Saved(@, phase)]
                ELSE delivery

(* Mutant: what was held since the restart is not released. *)
Ends_Held(e) ==
    /\ task' = [task EXCEPT ![e] = NoTask]
    /\ drive' = [drive EXCEPT !.todo = @ \ {e}]
    /\ UNCHANGED <<wake, followed, recovery, holds>>

(* The task leaves its slot; the send of the drive that joined it returns  *)
(* and releases what was held for the effect since the restart.            *)
Ends(e) ==
    /\ task' = [task EXCEPT ![e] = NoTask]
    /\ drive' = [drive EXCEPT !.todo = @ \ {e}]
    /\ holds' = holds \ (drive.todo \cap {e})
    /\ UNCHANGED <<wake, followed, recovery>>

Others == <<head, selection, cursor, fixed, armed, bounds>>

(* It ends without a save: cancelled before or during an await, or the     *)
(* binding or the query raises.                                            *)
TaskEnds(e) ==
    /\ \/ task[e].pc \in {"new", "wait", "open", "query"} /\ ~ task[e].active
       \/ task[e].pc \in {"open", "query"}
    /\ Ends(e)
    /\ UNCHANGED <<durable, bounds>>

(* First read: a settled effect is only reported.                          *)
TaskReads(e) ==
    /\ task[e].pc = "new" /\ task[e].active
    /\ IF delivery[e].phase \in Terminal
       THEN Ends(e)
       ELSE task' = [task EXCEPT ![e].pc = "wait"] /\ UNCHANGED follower
    /\ UNCHANGED <<durable, bounds>>

(* The exclusive section is entered and the record is read again.          *)
TaskEnters(e) ==
    /\ task[e].pc = "wait" /\ task[e].active
    /\ TargetFree(e)
    /\ IF delivery[e].phase \in Terminal
       THEN Ends(e)
       ELSE /\ task' = [task EXCEPT ![e] = [@ EXCEPT !.pc = "open", !.seen = delivery[e]]]
            /\ UNCHANGED follower
    /\ UNCHANGED <<durable, bounds>>

TaskQueries(e) ==
    /\ task[e].pc = "open"
    /\ task[e].seen.phase = "started"
    /\ task' = [task EXCEPT ![e].pc = "query"]
    /\ UNCHANGED <<durable, follower, bounds>>

(* The sender knows the receipt of the earlier send.                       *)
TaskFound(e, phase) ==
    /\ task[e].pc = "query"
    /\ sends[e] > 0
    /\ Save(e, phase)
    /\ Ends(e)
    /\ UNCHANGED <<sends, Others>>

TaskLost(e) ==
    /\ task[e].pc = "query"
    /\ e[2] \notin idempotent
    /\ Save(e, "failed")
    /\ Ends(e)
    /\ UNCHANGED <<sends, Others>>

(* before_start refuses an effect that has certainly not begun.            *)
TaskRefused(e) ==
    /\ Owned(e)
    /\ task[e].pc = "open" /\ task[e].active
    /\ task[e].seen.phase = "prepared"
    /\ Save(e, "rejected")
    /\ Ends(e)
    /\ UNCHANGED <<sends, Others>>

(* Mutant: a started effect is sent again without asking. *)
MaySend_Again(e) == task[e].active /\ task[e].pc = "open"

(* Nothing is awaited between this point and the durable start.            *)
MaySend(e) ==
    /\ task[e].active
    /\ \/ task[e].pc = "open" /\ task[e].seen.phase = "prepared"
       \/ task[e].pc = "query" /\ e[2] \in idempotent

TaskSends(e) ==
    /\ MaySend(e)
    /\ Save(e, "started")
    /\ IF delivery' # delivery
       THEN /\ sends' = [sends EXCEPT ![e] = @ + 1]
            /\ task' = [task EXCEPT ![e] = [@ EXCEPT !.pc = "send", !.seen = delivery'[e]]]
            /\ UNCHANGED follower
       ELSE Ends(e) /\ UNCHANGED sends
    /\ UNCHANGED Others

(* The sender returns a receipt; raising or being cancelled is "failed".   *)
TaskReceipt(e, phase) ==
    /\ task[e].pc = "send"
    /\ Save(e, phase)
    /\ Ends(e)
    /\ UNCHANGED <<sends, Others>>

-----------------------------------------------------------------------------
(* The follower of the policy.                                             *)

Pending == {e \in Effects :
    selection[e[1]].owner = "policy" /\ delivery[e].phase \in {"prepared", "started"}}

(* Mutant: the first heads do not look at what was pending. *)
Recovered_Nothing == {}

Recovered == IF followed = 0 THEN Pending ELSE recovery

(* Mutant: a running drive is not told of the new head. *)
Follow_Quiet ==
    /\ followed # head
    /\ followed' = head
    /\ wake' = (wake \/ drive.pc = "none")
    /\ drive' = IF drive.pc = "none" THEN [NoDrive EXCEPT !.pc = "recover"] ELSE drive
    /\ recovery' = Recovered
    /\ UNCHANGED <<durable, task, holds, bounds>>

(* New heads: the first ones fetch what was pending; a drive is started    *)
(* or told.                                                                *)
Follow ==
    /\ followed # head
    /\ followed' = head
    /\ wake' = TRUE
    /\ drive' = IF drive.pc = "none" THEN [NoDrive EXCEPT !.pc = "recover"] ELSE drive
    /\ recovery' = Recovered
    /\ UNCHANGED <<durable, task, holds, bounds>>

(* send_all: the effects of one message are started together and waited    *)
(* for; an effect is attempted once per drive.                             *)
SendAll(es, pc) ==
    /\ drive' = [pc |-> pc, todo |-> es \ drive.attempted, attempted |-> drive.attempted \cup es]
    /\ Started(es \ drive.attempted)

(* The pending effects, message by message in the order of the log.        *)
DriveRecovers ==
    /\ drive.pc = "recover"
    /\ UNCHANGED <<durable, wake, followed, holds, bounds>>
    /\ IF recovery = {}
       THEN drive' = [drive EXCEPT !.pc = "loop"] /\ UNCHANGED <<task, recovery>>
       ELSE LET first == {e \in recovery : \A f \in recovery : e[1] <= f[1]}
            IN  SendAll(first, "recovering") /\ recovery' = recovery \ first

(* The tasks that send_all joined have ended.                              *)
DriveWaits ==
    /\ drive.pc \in {"recovering", "sending"}
    /\ drive.todo = {}
    /\ drive' = [drive EXCEPT !.pc = IF @ = "recovering" THEN "recover" ELSE "read"]
    /\ UNCHANGED <<durable, task, wake, followed, recovery, holds, bounds>>

(* while wake.changed; leaving the loop and active is one step.            *)
DriveLoop ==
    /\ drive.pc = "loop"
    /\ wake' = FALSE
    /\ drive' = IF wake THEN [drive EXCEPT !.pc = "read"] ELSE NoDrive
    /\ UNCHANGED <<durable, task, followed, recovery, holds, bounds>>

(* No message after the cursor.                                            *)
DriveCaughtUp ==
    /\ drive.pc = "read"
    /\ cursor = head
    /\ drive' = [drive EXCEPT !.pc = "loop"]
    /\ UNCHANGED <<durable, task, wake, followed, recovery, holds, bounds>>

(* Mutant: the cursor is committed without the selection. *)
Consume_CursorOnly(sinks) ==
    /\ cursor' = cursor + 1
    /\ UNCHANGED <<selection, delivery, armed>>

(* DeliveryRecords.consume of the next message: the selection, its         *)
(* prepared effects and the cursor in one transaction; a message the       *)
(* policy does not route only moves the cursor.                            *)
Consume(sinks) ==
    /\ IF cursor + 1 \in routed THEN Select(cursor + 1, Routes(sinks))
       ELSE UNCHANGED <<selection, delivery, armed>>
    /\ cursor' = cursor + 1

DriveConsumes(sinks) ==
    /\ drive.pc = "read"
    /\ cursor < head
    /\ Consume(sinks)
    /\ drive' = [drive EXCEPT !.pc =
          IF selection'[cursor'].owner = "policy" THEN "selected" ELSE "read"]
    /\ UNCHANGED <<head, fixed, sends, task, wake, followed, recovery, holds, bounds>>

(* The message at the cursor is committed; its effects are started.        *)
DriveSends ==
    /\ drive.pc = "selected"
    /\ UNCHANGED <<durable, wake, followed, recovery, holds, bounds>>
    /\ SendAll({cursor} \X selection[cursor].sinks, "sending")

(* select or consume raises: the drive ends, the cursor stays.             *)
DriveFails ==
    /\ failures < MaxFailures
    /\ failures' = failures + 1
    /\ drive.pc = "read"
    /\ cursor < head
    /\ drive' = NoDrive
    /\ UNCHANGED <<durable, task, wake, followed, recovery, holds, replied, starts, crashes>>

\* At a start, before anything is admitted, the policy marks the targets of its
\* pending effects busy.
MarksPending == holds' = Pending

\* The process dies and starts again.
Crash ==
    /\ crashes < MaxCrashes
    /\ crashes' = crashes + 1
    /\ task' = [e \in Effects |-> NoTask]
    /\ drive' = NoDrive
    /\ wake' = FALSE
    /\ followed' = 0
    /\ recovery' = {}
    /\ MarksPending
    /\ replied' = 1 .. head
    /\ UNCHANGED <<durable, starts, failures>>

Caller ==
    \/ Append
    \/ \E sinks \in SUBSET Sinks, passive \in BOOLEAN : Publish(sinks, passive)
    \/ \E m \in Messages, sinks \in SUBSET Sinks : Complete(m, sinks)
    \/ \E e \in Effects : Start(e) \/ Cancel(e) \/ CancelPrepared(e) \/ Retry(e)

Task(e) ==
    \/ TaskEnds(e) \/ TaskReads(e) \/ TaskEnters(e) \/ TaskQueries(e)
    \/ TaskLost(e) \/ TaskRefused(e) \/ TaskSends(e)
    \/ \E phase \in Terminal : TaskFound(e, phase) \/ TaskReceipt(e, phase)

Drive ==
    \/ DriveRecovers \/ DriveWaits \/ DriveSends \/ DriveLoop \/ DriveCaughtUp
    \/ \E sinks \in SUBSET Sinks : DriveConsumes(sinks)

Next ==
    \/ Caller \/ Follow \/ Drive \/ DriveFails \/ Crash
    \/ \E e \in Effects : Task(e)

(* The loop runs the follower, its drive and every task; senders answer    *)
(* or fail.                                                                *)
Fairness ==
    /\ WF_vars(Follow)
    /\ WF_vars(Drive)
    /\ \A e \in Effects : WF_vars(Task(e))

Spec == Init /\ [][Next]_vars /\ Fairness

-----------------------------------------------------------------------------
(* Properties.                                                             *)

Phases == Terminal \cup {"absent", "prepared", "started"}
Record == [phase : Phases, version : Nat]

(* Records, tasks and the follower have their form.                        *)
TypeOK ==
    /\ head \in 0 .. MaxMessages /\ cursor \in 0 .. head /\ followed \in 0 .. head
    /\ selection \in [Messages ->
          [owner : Owners \cup {"none"}, passive : BOOLEAN, sinks : SUBSET Sinks]]
    /\ delivery \in [Effects -> Record]
    /\ idempotent \subseteq Sinks /\ routed \subseteq Messages
    /\ sends \in [Effects -> Nat] /\ armed \in [Effects -> Nat]
    /\ task \in [Effects -> [pc : Holding \cup {"none", "new", "wait"},
                             active : BOOLEAN, passive : BOOLEAN, seen : Record]]
    /\ drive \in [pc : {"none", "recover", "recovering", "loop", "read", "selected", "sending"},
                  todo : SUBSET Effects, attempted : SUBSET Effects]
    /\ wake \in BOOLEAN
    /\ recovery \subseteq Effects /\ holds \subseteq Effects
    /\ replied \subseteq Messages
    /\ starts \in Nat /\ failures \in Nat /\ crashes \in Nat

(* A sender that does not repeat safely is entered at most once for each   *)
(* time the effect was prepared, whatever crashes, withdrawals, retries    *)
(* and late answers do (_send re-reads, asks, then commits started).       *)
SentOnce ==
    \A e \in Effects : e[2] \notin idempotent => sends[e] <= armed[e]

(* Every consumed message the policy routes is selected, and the effects   *)
(* of a message are those of its first selection, all of them: no          *)
(* destination is lost or added between the policy, the reply completion,  *)
(* the publishers and a crash (_prepare, consume).                         *)
SelectionCovered ==
    /\ \A m \in routed : m <= cursor => selection[m] # NoSelection
    /\ \A e \in Effects : e[2] \in selection[e[1]].sinks <=> delivery[e].phase # "absent"

(* What a task read inside the exclusive section is not newer than the     *)
(* record and, under the same version, is the record; only the task of an  *)
(* effect that was asked about or sent saw it started (_send, save).       *)
SnapshotsHold ==
    \A e \in Effects : task[e].pc \in Holding =>
        /\ task[e].seen.version <= delivery[e].version
        /\ task[e].seen.version = delivery[e].version => task[e].seen = delivery[e]
        /\ task[e].seen.phase \in {"prepared", "started"}
        /\ task[e].pc # "open" => task[e].seen.phase = "started"

(* An effect that is not prepared has no record, no send and no task, and  *)
(* a prepared one has a send left that its last preparation allows.        *)
PreparedFirst ==
    /\ \A e \in Effects :
          /\ delivery[e].phase = "absent" =>
                delivery[e] = Absent /\ sends[e] = 0 /\ task[e] = NoTask
          /\ delivery[e].phase = "prepared" /\ e[2] \notin idempotent => sends[e] < armed[e]
    /\ \A e \in recovery : delivery[e].phase # "absent"
    /\ drive.pc = "selected" => cursor > 0

(* The inductive invariant.                                                *)
DeliveryInv == TypeOK /\ SentOnce /\ SelectionCovered /\ SnapshotsHold /\ PreparedFirst

(* A first selection is never replaced, a delivered effect keeps its       *)
(* receipt, and a settled effect is only reopened by a retry of a          *)
(* rejection.                                                              *)
SettledStays ==
    [][/\ \A m \in Messages :
             selection[m] # NoSelection => selection'[m] = selection[m]
       /\ \A e \in Effects : delivery[e].phase \in Terminal /\ delivery'[e] # delivery[e] =>
             /\ delivery[e].phase = "rejected"
             /\ delivery'[e].phase = "prepared"]_vars

(* "rejected" is the truth: an effect that began to be sent is only called *)
(* rejected by the answer of its sender to the task that ends with it, not *)
(* by a withdrawal or a refusal that came too late.                        *)
WithdrawnUnsent ==
    [][\A e \in Effects :
          delivery[e].phase # "rejected" /\ delivery'[e].phase = "rejected" =>
              \/ delivery[e].phase = "prepared"
              \/ task[e].pc \in {"query", "send"} /\ task'[e] = NoTask]_vars

(* Every message is consumed, in spite of restarts, unless the policy      *)
(* failed on one: no wake-up of the drive is lost.                         *)
AllConsumed ==
    \A m \in Messages : head >= m ~> (cursor >= m \/ failures > 0)

(* What the policy selected is attempted by its drive: always after a      *)
(* restart, also when the process died between the selection and the send, *)
(* and otherwise unless the policy failed.                                 *)
PendingIsAttempted ==
    \A e \in Effects :
        /\ (followed = 0 /\ e \in Pending)
               ~> (delivery[e].phase \in Terminal \/ e \in drive.attempted)
        /\ (cursor < e[1] /\ e \in Pending)
               ~> (delivery[e].phase \in Terminal \/ e \in drive.attempted \/ failures > 0)

(* Nothing waits for its target for ever: every mark of passive work is    *)
(* taken back, those put there at the restart too, and everyone who enters *)
(* the exclusive section leaves it.                                        *)
WaitersEnter ==
    \A e \in Effects : task[e].pc = "wait" ~> task[e].pc # "wait"
=============================================================================
