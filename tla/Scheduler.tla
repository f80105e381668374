------------------------------ MODULE Scheduler ------------------------------
(***************************************************************************)
(* Scheduled jobs: the durable file of jobs, operations and fires          *)
(* (plugins/scheduler/store.py), the runtime that follows it and runs one  *)
(* task per fire (plugins/scheduler/runtime.py), and the schedule and      *)
(* cancel tools (plugins/scheduler/tools.py).                              *)
(*                                                                         *)
(* A fire is a job at one of its due times: <<job, at>> is its fire_key.   *)
(* Its notification is sent by Delivery, of which this module keeps what   *)
(* the scheduler sees: the phase of the one effect of the notification.    *)
(* The file changes under a lock in one atomic replace, task admission     *)
(* does not suspend, and a step is what the event loop runs between two    *)
(* awaits.                                                                 *)
(***************************************************************************)
EXTENDS Integers, FiniteSets

CONSTANTS
    Jobs,        \* the job ids that may be registered
    Every,       \* those that repeat; the others fire once
    Soft,        \* those whose content a program writes
    Interval,    \* of the jobs that repeat
    Grace,       \* how late a one-shot job may still fire after a restart
    MaxActive,   \* SCHEDULE_MAX_ACTIVE_JOBS
    MaxAdds,     \* bound on jobs that are added
    MaxTime,     \* bound on the clock
    MaxErrors,   \* bound on programs and sends that raise
    MaxReplays,  \* bound on repeated cancellations and cleanups that raise
    MaxStops     \* bound on crashes and reloads

ASSUME SchedulerAssumption ==
    /\ Every \subseteq Jobs /\ Soft \subseteq Jobs /\ IsFiniteSet(Jobs)
    /\ Interval \in Nat \ {0} /\ Grace \in Nat /\ MaxActive \in Nat /\ MaxAdds \in Nat
    /\ MaxTime \in Nat /\ MaxErrors \in Nat /\ MaxReplays \in Nat /\ MaxStops \in Nat

VARIABLES
    \* durable: schedules.json
    jobs,       \* the registered jobs
    ops,        \* the receipt of the operation that adds each job
    dropped,    \* jobs with a receipt of a cancellation
    fires,      \* the status of each fire
    \* durable: the log and the records of Delivery
    output,     \* the finished Output of a fire's own session
    note,       \* the phase of the notification's effect
    \* SchedulerRuntime
    follower,   \* "up", "stopping" or "down"
    dirty,      \* the file changed since the follower read it
    active,     \* _active
    attempted,  \* _attempted
    task,       \* the task in the slot of each fire
    \* the environment and its bounds
    now, errors, replays, stops

store == <<jobs, ops, dropped, fires>>
durable == <<store, output, note>>
runtime == <<follower, dirty, active, attempted>>
bounds == <<errors, replays, stops>>
vars == <<durable, runtime, task, now, bounds>>

Times == 0 .. (MaxTime + Interval)
Fires == Jobs \X Times

NoJob == [at |-> -1, enabled |-> FALSE, count |-> 0]
NoTask == [pc |-> "none", live |-> FALSE]

Key(j) == <<j, jobs[j].at>>

Init ==
    /\ jobs = [j \in Jobs |-> NoJob]
    /\ ops = [j \in Jobs |-> "none"]
    /\ dropped = {}
    /\ fires = [f \in Fires |-> "none"]
    /\ output = [f \in Fires |-> "none"]
    /\ note = [f \in Fires |-> "absent"]
    /\ follower = "down" /\ dirty = TRUE
    /\ active = {} /\ attempted = {}
    /\ task = [f \in Fires |-> NoTask]
    /\ now = 0 /\ errors = 0 /\ replays = 0 /\ stops = 0

-----------------------------------------------------------------------------
(* The store.                                                              *)

\* advance: the first due time after `after` on the job's own grid.
Advance(at, after) == at + ((IF after > at THEN after - at ELSE 0) \div Interval + 1) * Interval

Later(a, b) == IF a > b THEN a ELSE b

\* JobStore.add: the job and the receipt of the operation in one write; a
\* receipt, of success or of refused capacity, is final.  The due time was
\* fixed when the call was prepared, so it may have passed.
Add(j, at) ==
    /\ ops[j] = "none"
    /\ IF Cardinality({i \in Jobs : jobs[i].enabled}) >= MaxActive
       THEN /\ ops' = [ops EXCEPT ![j] = "refused"]
            /\ UNCHANGED jobs
       ELSE /\ Cardinality({i \in Jobs : ops[i] = "added"}) < MaxAdds
            /\ ops' = [ops EXCEPT ![j] = "added"]
            /\ jobs' = [jobs EXCEPT ![j] = [at |-> at, enabled |-> TRUE, count |-> 0]]
    /\ dirty' = TRUE
    /\ UNCHANGED <<dropped, fires, output, note, follower, active, attempted, task, now, bounds>>

\* cancel_fires: the tasks of the job's cancelled fires lose their right.
Revoked(j) == [f \in Fires |->
    IF f[1] = j /\ fires'[f] = "cancelled" /\ task[f] # NoTask
    THEN [task[f] EXCEPT !.live = FALSE] ELSE task[f]]

\* Mutant: only the job is removed.
Cancel_JobOnly(j) ==
    /\ jobs[j] # NoJob
    /\ jobs' = [jobs EXCEPT ![j] = NoJob]
    /\ dropped' = dropped \cup {j}
    /\ fires' = fires
    /\ task' = Revoked(j)
    /\ dirty' = TRUE
    /\ UNCHANGED <<ops, output, note, follower, active, attempted, now, bounds>>

\* The cancel tool: JobStore.cancel removes the job and cancels its pending
\* fire in one write, and cancel_fires follows without an await in between.
Cancel(j) ==
    /\ jobs[j] # NoJob
    /\ jobs' = [jobs EXCEPT ![j] = NoJob]
    /\ fires' = [f \in Fires |-> IF f[1] = j /\ fires[f] = "pending" THEN "cancelled" ELSE fires[f]]
    /\ dropped' = dropped \cup {j}
    /\ task' = Revoked(j)
    /\ dirty' = TRUE
    /\ UNCHANGED <<ops, output, note, follower, active, attempted, now, bounds>>

\* A repeated cancellation: a second cancel that had matched the same job adds
\* a receipt of its own, a query after the receipt was saved changes nothing.
\* Both come to cancel_fires again.
CancelAgain(j) ==
    /\ j \in dropped /\ replays < MaxReplays
    /\ replays' = replays + 1
    /\ fires' = fires
    /\ task' = Revoked(j)
    /\ dirty' \in {dirty, TRUE}
    /\ UNCHANGED <<jobs, ops, dropped, output, note, follower, active, attempted, now, errors, stops>>

\* JobStore.settle: only a pending fire is settled; the job moves on if it
\* still stands at this due time.
Settle(f, status) ==
    LET j == f[1] IN
    IF fires[f] # "pending"
    THEN UNCHANGED <<jobs, fires, dirty>>
    ELSE /\ fires' = [fires EXCEPT ![f] = status]
         /\ jobs' = IF jobs[j] = NoJob \/ Key(j) # f THEN jobs
                    ELSE [jobs EXCEPT ![j] =
                        [at |-> IF j \in Every THEN Advance(@.at, Later(now, @.at)) ELSE @.at,
                         enabled |-> j \in Every,
                         count |-> @.count + (IF status = "delivered" THEN 1 ELSE 0)]]
         /\ dirty' = TRUE

\* JobStore.recover: what was due before the start and has no fire is moved to
\* the future or, when too late, given up.
Recovered(j) ==
    IF ~jobs[j].enabled \/ jobs[j].at > now \/ fires[Key(j)] # "none" THEN jobs[j]
    ELSE IF j \in Every THEN [jobs[j] EXCEPT !.at = Advance(@, now)]
    ELSE IF now - jobs[j].at > Grace THEN [jobs[j] EXCEPT !.enabled = FALSE]
    ELSE jobs[j]

-----------------------------------------------------------------------------
(* SchedulerRuntime.follow.                                                *)

\* The runtime starts, in a new process or after a reload whose stop has
\* drained the tasks of the one before.
Boot ==
    /\ follower = "down"
    /\ jobs' = [j \in Jobs |-> Recovered(j)]
    /\ follower' = "up"
    /\ dirty' = TRUE
    /\ active' = {} /\ attempted' = {}
    /\ UNCHANGED <<ops, dropped, fires, output, note, task, now, bounds>>

\* Mutant: due jobs are looked at only when the file changed.
Due_OnChange(lead) ==
    {j \in Jobs : /\ dirty
                  /\ jobs[j].enabled /\ jobs[j].at <= MaxTime
                  /\ jobs[j].at <= now + (IF j \in Soft THEN lead ELSE 0)
                  /\ <<Key(j), "pending">> \notin attempted
                  /\ fires[Key(j)] \in {"none", "pending"}}

\* The jobs that are due, a soft one some time early, and for which start_fire
\* finds or makes a pending fire; fires after MaxTime are cut off.
Due(lead) ==
    {j \in Jobs : /\ jobs[j].enabled /\ jobs[j].at <= MaxTime
                  /\ jobs[j].at <= now + (IF j \in Soft THEN lead ELSE 0)
                  /\ <<Key(j), "pending">> \notin attempted
                  /\ fires[Key(j)] \in {"none", "pending"}}

\* Mutant: a cancelled fire that could not be started is not tried again.
Listed_Once ==
    {f \in Fires : /\ fires[f] \in {"pending", "cancelled"}
                   /\ <<f, fires[f]>> \notin attempted
                   /\ dirty}

\* The fires to perform or to clean up that a changed file shows, and the
\* cancelled ones whose task was still draining when they were shown.
Listed ==
    {f \in Fires : /\ fires[f] \in {"pending", "cancelled"}
                   /\ <<f, fires[f]>> \notin attempted
                   /\ dirty \/ (fires[f] = "cancelled" /\ f \notin active)}

\* One round of the loop: due jobs get their fire, and what is listed or due
\* gets a task unless its slot is taken.  Tasks that were created have run
\* before the timer ends.
Tick(lead) ==
    /\ follower = "up"
    /\ \A f \in Fires : task[f].pc # "new"
    /\ LET due == {Key(j) : j \in Due(lead)}
           started == {f \in Listed \cup due : task[f] = NoTask}
       IN /\ fires' = [f \in Fires |-> IF f \in due THEN "pending" ELSE fires[f]]
          /\ task' = [f \in Fires |-> IF f \in started THEN [pc |-> "new", live |-> TRUE] ELSE task[f]]
          /\ active' = active \cup started
          /\ attempted' = attempted \cup {<<f, fires'[f]>> : f \in started}
          /\ dirty' = (fires' # fires)
    /\ UNCHANGED <<jobs, ops, dropped, output, note, follower, now, bounds>>

\* RUNTIME_STOPPING: the watcher is cancelled, and with it every active task.
Stop ==
    /\ follower = "up" /\ stops < MaxStops
    /\ stops' = stops + 1
    /\ follower' = "stopping"
    /\ task' = [f \in Fires |-> IF f \in active /\ task[f] # NoTask
                                THEN [task[f] EXCEPT !.live = FALSE] ELSE task[f]]
    /\ UNCHANGED <<durable, dirty, active, attempted, now, errors, replays>>

Stopped ==
    /\ follower = "stopping"
    /\ \A f \in active : task[f] = NoTask
    /\ follower' = "down"
    /\ UNCHANGED <<durable, dirty, active, attempted, task, now, bounds>>

Crash ==
    /\ follower # "down" /\ stops < MaxStops
    /\ stops' = stops + 1
    /\ follower' = "down"
    /\ task' = [f \in Fires |-> NoTask]
    /\ UNCHANGED <<durable, dirty, active, attempted, now, errors, replays>>

Clock ==
    /\ now < MaxTime
    /\ now' = now + 1
    /\ UNCHANGED <<durable, runtime, task, bounds>>

-----------------------------------------------------------------------------
(* The task of a fire: run and _fire.                                      *)

GoTo(f, pc) == task' = [task EXCEPT ![f].pc = pc] /\ UNCHANGED active

\* The task leaves its slot; the finally of run takes it from _active.
Ends(f) == task' = [task EXCEPT ![f] = NoTask] /\ active' = active \ {f}

\* Deliveries.cancel_prepared.
Withdraw(f) == note' = IF note[f] = "prepared" THEN [note EXCEPT ![f] = "rejected"] ELSE note

Elsewhere == <<ops, dropped, follower, attempted, now, replays, stops>>

\* Revoked before it ran: the operation, and the finally of run with it, is
\* never entered, so the entry of _active stays.
NeverRuns(f) ==
    /\ task[f].pc = "new" /\ ~task[f].live
    /\ task' = [task EXCEPT ![f] = NoTask]
    /\ UNCHANGED <<durable, runtime, now, bounds>>

\* Mutant: the status is not read again.
Begins_Unread(f) ==
    /\ task[f].pc = "new" /\ task[f].live
    /\ GoTo(f, IF note[f] = "absent" THEN "idle" ELSE "send")
    /\ UNCHANGED note
    /\ UNCHANGED <<store, output, dirty, errors, Elsewhere>>

\* The first look: a cancelled fire is withdrawn, and its delivery task
\* drained; a settled one is left alone, a published one sent on, and any other
\* waits for its target to be idle.
Begins(f) ==
    /\ task[f].pc = "new" /\ task[f].live
    /\ CASE fires[f] = "cancelled" -> /\ Withdraw(f)
                                      /\ IF note[f] = "prepared" THEN GoTo(f, "drain") ELSE Ends(f)
         [] fires[f] \in {"delivered", "failed"} -> Ends(f) /\ UNCHANGED note
         [] fires[f] = "pending" -> /\ GoTo(f, IF note[f] = "absent" THEN "idle" ELSE "send")
                                    /\ UNCHANGED note
    /\ UNCHANGED <<store, output, dirty, errors, Elsewhere>>

\* The delivery task is drained, or this task is interrupted while it waits.
Drained(f) ==
    /\ task[f].pc = "drain"
    /\ Ends(f)
    /\ UNCHANGED <<durable, dirty, errors, Elsewhere>>

\* Deliveries.publish: the notification is appended with its prepared effect.
Publish(f) ==
    /\ note' = [note EXCEPT ![f] = "prepared"]
    /\ GoTo(f, "send")
    /\ UNCHANGED <<jobs, fires, dirty>>

\* The target is idle.  The message of an instant job is at hand; a soft job
\* runs its program, unless its session holds a finished Output already.
TargetIdle(f) ==
    /\ task[f].pc = "idle" /\ task[f].live
    /\ IF f[1] \in Soft
       THEN GoTo(f, "program") /\ UNCHANGED <<jobs, fires, dirty, note>>
       ELSE Publish(f)
    /\ UNCHANGED <<output, errors, Elsewhere>>

\* The program saves its final Output: complete, with a content to send, or
\* not.
ProgramSaves(f, finish) ==
    /\ task[f].pc = "program" /\ task[f].live
    /\ output[f] = "none"
    /\ output' = [output EXCEPT ![f] = finish]
    /\ UNCHANGED <<store, note, runtime, task, now, bounds>>

\* ... and returns it: a complete one is published, any other has no content.
ProgramReturns(f) ==
    /\ task[f].pc = "program" /\ task[f].live
    /\ output[f] # "none"
    /\ IF output[f] = "complete"
       THEN Publish(f)
       ELSE Settle(f, "failed") /\ Ends(f) /\ UNCHANGED note
    /\ UNCHANGED <<output, errors, Elsewhere>>

\* A store, a binding, the wait for the target, the program, the publication,
\* the sender's query or the settlement raises: logged, and the fire stays
\* pending without another attempt by this runtime.
Raises(f) ==
    /\ task[f].pc \in {"new", "idle", "program", "send", "query", "settle"}
    /\ task[f].pc = "new" => task[f].live /\ fires[f] = "pending"
    /\ errors < MaxErrors
    /\ errors' = errors + 1
    /\ Ends(f)
    /\ UNCHANGED <<durable, dirty, Elsewhere>>

\* The first look at a cancelled fire raises: it is not cleaned up.
CleanupRaises(f) ==
    /\ task[f].pc = "new" /\ task[f].live /\ fires[f] = "cancelled"
    /\ replays < MaxReplays
    /\ replays' = replays + 1
    /\ Ends(f)
    /\ UNCHANGED <<durable, dirty, follower, attempted, now, errors, stops>>

\* Deliveries.send, as Delivery specifies it: a prepared effect is started, a
\* started one queried, and a settled one only reported.  The delivery task
\* loses its right only when the fire's task has seen its own revocation.
SendStarts(f) ==
    /\ task[f].pc = "send" /\ note[f] = "prepared"
    /\ note' = [note EXCEPT ![f] = "started"]
    /\ GoTo(f, "sending")
    /\ UNCHANGED <<store, output, dirty, errors, Elsewhere>>

SendQueries(f) ==
    /\ task[f].pc = "send" /\ note[f] = "started"
    /\ GoTo(f, "query")
    /\ UNCHANGED <<durable, dirty, errors, Elsewhere>>

SendRepeats(f) ==
    /\ task[f].pc = "query"
    /\ GoTo(f, "sending")
    /\ UNCHANGED <<durable, dirty, errors, Elsewhere>>

SendReports(f) ==
    /\ task[f].pc = "send" /\ note[f] \in {"delivered", "rejected", "failed"}
    /\ GoTo(f, "settle")
    /\ UNCHANGED <<durable, dirty, errors, Elsewhere>>

Receipt(f, phase) ==
    /\ task[f].pc \in {"query", "sending"}
    /\ note' = [note EXCEPT ![f] = phase]
    /\ GoTo(f, "settle")
    /\ UNCHANGED <<store, output, dirty, errors, Elsewhere>>

\* The receipt decides about the fire.
Settles(f) ==
    /\ task[f].pc = "settle" /\ task[f].live
    /\ Settle(f, IF note[f] = "delivered" THEN "delivered" ELSE "failed")
    /\ Ends(f)
    /\ UNCHANGED <<output, note, errors, Elsewhere>>

\* CancelledError reaches the task.  A send under way is drained first: it
\* ends with its receipt or "failed".  Only a fire whose cancellation is saved
\* withdraws its notification; a shutdown does not.
Interrupted(f) ==
    /\ task[f].pc \in {"idle", "program", "send", "query", "sending", "settle"} /\ ~task[f].live
    /\ Ends(f)
    /\ \/ task[f].pc # "sending" /\ (IF fires[f] = "cancelled" THEN Withdraw(f) ELSE UNCHANGED note)
       \/ /\ task[f].pc \in {"query", "sending"}
          /\ \E phase \in {"delivered", "rejected", "failed"} : note' = [note EXCEPT ![f] = phase]
    /\ UNCHANGED <<store, output, dirty, errors, Elsewhere>>

Runs(f) ==
    \/ NeverRuns(f) \/ Begins(f) \/ Drained(f) \/ TargetIdle(f) \/ ProgramReturns(f)
    \/ \E finish \in {"complete", "incomplete"} : ProgramSaves(f, finish)
    \/ SendStarts(f) \/ SendQueries(f) \/ SendRepeats(f) \/ SendReports(f)
    \/ \E phase \in {"delivered", "rejected", "failed"} : Receipt(f, phase)
    \/ Settles(f) \/ Interrupted(f)

Follows == Boot \/ Stopped \/ \E lead \in {0, 1} : Tick(lead)

Next ==
    \/ \E j \in Jobs : Cancel(j) \/ CancelAgain(j) \/ \E at \in 0 .. MaxTime : Add(j, at)
    \/ Follows \/ Stop \/ Crash \/ Clock
    \/ \E f \in Fires : Runs(f) \/ Raises(f) \/ CleanupRaises(f)

Spec == Init /\ [][Next]_vars

\* The event loop runs what is runnable and timers fire; targets become idle,
\* programs and senders answer, raise or are interrupted.
Fairness ==
    /\ WF_vars(Boot) /\ WF_vars(Stopped) /\ WF_vars(Tick(0)) /\ WF_vars(Clock)
    /\ \A f \in Fires : WF_vars(Runs(f))

FairSpec == Spec /\ Fairness

-----------------------------------------------------------------------------
TypeOK ==
    /\ jobs \in [Jobs -> [at : Times, enabled : BOOLEAN, count : Nat] \cup {NoJob}]
    /\ ops \in [Jobs -> {"none", "added", "refused"}]
    /\ dropped \subseteq Jobs
    /\ fires \in [Fires -> {"none", "pending", "delivered", "failed", "cancelled"}]
    /\ output \in [Fires -> {"none", "complete", "incomplete"}]
    /\ note \in [Fires -> {"absent", "prepared", "started", "delivered", "rejected", "failed"}]
    /\ follower \in {"up", "stopping", "down"}
    /\ dirty \in BOOLEAN
    /\ active \subseteq Fires
    /\ attempted \subseteq Fires \X {"pending", "cancelled"}
    /\ task \in [Fires -> [pc : {"none", "new", "drain", "idle", "program", "send", "query", "sending", "settle"},
                           live : BOOLEAN]]
    /\ now \in 0 .. MaxTime
    /\ errors \in 0 .. MaxErrors /\ replays \in 0 .. MaxReplays /\ stops \in 0 .. MaxStops

\* A cancelled job stays cancelled: whatever replays of its operations, stale
\* reads of the follower, restarts and late settlements do, it never comes
\* back and none of its fires is pending.
CancelHolds ==
    \A j \in dropped : jobs[j] = NoJob /\ \A f \in Fires : f[1] = j => fires[f] # "pending"

\* run_count counts the due times whose notification was delivered, each once,
\* although a fire is taken up again after a crash at any point between its
\* send, its receipt and its settlement.
CountsDelivered ==
    /\ \A j \in Jobs : jobs[j] # NoJob =>
            jobs[j].count = Cardinality({f \in Fires : f[1] = j /\ fires[f] = "delivered"})
    /\ \A f \in Fires : fires[f] = "delivered" => note[f] = "delivered"

\* A fire whose cancellation is saved publishes nothing, and begins to send
\* only in the task that was about to send when the cancellation came; no task
\* started later does, in this boot or the next.
CancelledUnsent ==
    [][\A f \in Fires :
        /\ note[f] = "absent" /\ note'[f] # "absent" => fires[f] = "pending"
        /\ note[f] = "prepared" /\ note'[f] = "started" =>
                fires[f] = "pending" \/ (fires[f] = "cancelled" /\ task[f].pc = "send" /\ ~task[f].live)]_vars

\* A pending fire is the current due time of an enabled job, so a job has at
\* most one; no fire lies ahead of its job, so that a due time is never used
\* twice.
FiresCurrent ==
    /\ \A f \in Fires :
        /\ fires[f] = "pending" => jobs[f[1]].enabled /\ Key(f[1]) = f
        /\ fires[f] # "none" => ops[f[1]] = "added" /\ f[2] <= MaxTime
        /\ fires[f] # "none" /\ jobs[f[1]] # NoJob => f[2] <= jobs[f[1]].at
    /\ \A j \in Jobs :
        /\ jobs[j].enabled => fires[Key(j)] \in {"none", "pending"}
        /\ jobs[j] # NoJob => ops[j] = "added" /\ j \notin dropped
        /\ j \in dropped => ops[j] = "added"

\* A task past its first look that has not been revoked works on a pending
\* fire, and where it is fits the phase of the notification.
TasksFit ==
    \A f \in Fires :
        /\ fires[f] = "none" => note[f] = "absent" /\ task[f] = NoTask
        /\ task[f].pc = "drain" => fires[f] = "cancelled"
        /\ task[f].pc \notin {"none", "new", "drain"} =>
                fires[f] = "pending" \/ (fires[f] = "cancelled" /\ ~task[f].live)
        /\ task[f].pc = "none" => task[f] = NoTask
        /\ task[f].pc \in {"idle", "program"} => note[f] = "absent"
        /\ task[f].pc \in {"send", "query", "sending"} => note[f] # "absent"
        /\ task[f].pc \in {"query", "sending"} => note[f] = "started"
        /\ task[f].pc = "settle" => note[f] \in {"delivered", "rejected", "failed"}

\* The inductive invariant.
SchedInv == TypeOK /\ FiresCurrent /\ TasksFit /\ CancelHolds /\ CountsDelivered

\* Every due time passes: the job fires and is settled, is moved on or given up
\* by a restart, or is cancelled, unless a program or a send raised.
DueTimesPass ==
    \A j \in Jobs, a \in 0 .. MaxTime :
        (jobs[j].enabled /\ jobs[j].at = a) ~> (~jobs[j].enabled \/ jobs[j].at # a \/ errors > 0)

\* The unsent notification of a cancelled fire is withdrawn, even if its task
\* had raised before, was still draining when the follower looked, or the
\* process died in between; a repeated cancellation can hit the task that does
\* it, or that task can raise, which leaves it to the next start.
CancelledWithdrawn ==
    \A j \in Jobs, a \in 0 .. MaxTime :
        (fires[<<j, a>>] = "cancelled" /\ note[<<j, a>>] = "prepared")
            ~> (note[<<j, a>>] # "prepared" \/ replays > 0)
=============================================================================
