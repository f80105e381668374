--------------------------- MODULE ToolExecution ----------------------------
(***************************************************************************)
(* One tool call from its request to its result: ToolExecution             *)
(* (plugins/tools/execution.py) with its durable receipt, the task in the  *)
(* slot of the call, the callers that wait for it, and abandon_call        *)
(* (plugins/tools/abandon.py).  Calls of different keys share nothing, so  *)
(* one call is the whole story.                                            *)
(*                                                                         *)
(* A step is what the event loop runs between two awaits; a transaction    *)
(* of the OwnerStore is inside one step.  The tool itself is external: it  *)
(* may return, raise, swallow a cancellation or hang.                      *)
(***************************************************************************)
EXTENDS Naturals, Sequences

CONSTANTS
    Waiters,      \* concurrent callers of execute_call, execute, deny_call
    MaxAttempts,  \* bound on calls of those
    MaxNews,      \* bound on Inputs and Controls before or without an abandon
    MaxCrashes    \* bound on process restarts

ASSUME BoundsAssumption == MaxAttempts \in Nat /\ MaxNews \in Nat /\ MaxCrashes \in Nat

VARIABLES
    call,       \* [message, idempotent]: fixed when the call is made
    record,     \* the receipt of the call, durable
    results,    \* outcomes of the ToolResults of the call in the log, durable
    abandoned,  \* an abandon control covers the call, durable
    news,       \* Inputs and Controls of the source so far, durable
    effects,    \* how often tool.invoke was entered: history
    task,       \* the task in the slot of the call
    waiter,     \* the callers
    consumed,   \* follow_abandon has handled the control in this process
    attempts,   \* calls made so far
    crashes     \* restarts so far

vars == <<call, record, results, abandoned, news, effects, task, waiter, consumed,
          attempts, crashes>>

source == <<abandoned, news>>
bounds == <<attempts, crashes>>

Phases == {"none", "requested", "prepared", "started", "done"}
Outcomes == {"reported", "denied", "interrupted", "error"}
Returns == Outcomes \cup {"raised"}

NoRecord == [phase |-> "none", version |-> 0, result |-> "none"]

(* OwnerTransaction.save of the next phase.                                *)
Saved(r, phase) ==
    [phase |-> phase, version |-> r.version + 1, result |-> r.result]

NoTask == [pc |-> "none", kind |-> "none", active |-> FALSE, seen |-> NoRecord,
           head |-> 0, ret |-> "raised"]

(* The head is what the check_start of its caller compares with.           *)
NewTask(kind, head) ==
    [pc |-> "new", kind |-> kind, active |-> TRUE, seen |-> NoRecord,
     head |-> head, ret |-> "raised"]

CancelTask(t) == [t EXCEPT !.active = FALSE]

(* The caller of a message call is a reply program: it reads the head of   *)
(* its source once, when it starts.                                        *)
IdleWaiter == [state |-> "idle", kind |-> "none", owned |-> FALSE, head |-> 0,
               ret |-> "raised"]

-----------------------------------------------------------------------------
(* finish: the result and the receipt in one transaction.  A receipt that  *)
(* is done is only read; a receipt of another version or a second result   *)
(* raises.                                                                 *)
CanFinish(seen) ==
    /\ record.phase # "done"
    /\ seen.version = record.version
    /\ call.message => results = <<>>

Done(o) == [phase |-> "done", version |-> record.version + 1, result |-> o]

(* Mutant: the result is appended in a transaction of its own. *)
Finish_TwoTransactions(seen, o) ==
    /\ results' = IF call.message /\ results = <<>> THEN Append(results, o) ELSE results
    /\ record' = IF results # <<>> \/ ~ call.message THEN Done(o) ELSE record

Finish(seen, o) ==
    IF CanFinish(seen)
    THEN /\ record' = Done(o)
         /\ results' = IF call.message THEN Append(results, o) ELSE results
    ELSE UNCHANGED <<record, results>>

(* Mutant: the caller is told its own outcome, whatever was committed. *)
Finished_Own(seen, o) == o

(* What finish returns.                                                    *)
Finished(seen, o) ==
    IF record.phase = "done" THEN record.result
    ELSE IF CanFinish(seen) THEN o ELSE "raised"

-----------------------------------------------------------------------------
Init ==
    /\ call \in [message : BOOLEAN, idempotent : BOOLEAN]
    /\ record = NoRecord
    /\ results = <<>>
    /\ abandoned = FALSE
    /\ news = 0
    /\ effects = 0
    /\ task = NoTask
    /\ waiter = [w \in Waiters |-> IdleWaiter]
    /\ consumed = FALSE
    /\ attempts = 0
    /\ crashes = 0

Live == task.pc # "none"

(* run_reply starts: it keeps the head of its source for check_start.      *)
Begin(w) ==
    /\ call.message
    /\ waiter[w].state \in {"idle", "returned", "raised"}
    /\ waiter' = [waiter EXCEPT ![w] = [IdleWaiter EXCEPT !.state = "begun", !.head = news]]
    /\ UNCHANGED <<call, record, results, source, effects, task, consumed, bounds>>

(* _pending_calls of a later round of the program: the call is listed when *)
(* it has no result and is not abandoned.                                  *)
List(w) ==
    /\ waiter[w].state = "begun"
    /\ call.message /\ results = <<>> /\ ~ abandoned
    /\ waiter' = [waiter EXCEPT ![w].state = "listed"]
    /\ UNCHANGED <<call, record, results, source, effects, task, consumed, bounds>>

(* _execute and deny_call: join the task in the slot or start one.         *)
Enlist(w, kind, head) ==
    /\ attempts < MaxAttempts
    /\ attempts' = attempts + 1
    /\ task' = IF Live THEN task ELSE NewTask(kind, head)
    /\ waiter' = [waiter EXCEPT ![w] =
          [IdleWaiter EXCEPT !.state = "waiting", !.kind = kind, !.owned = ~ Live]]
    /\ UNCHANGED <<call, record, results, source, effects, consumed, crashes>>

Ready(w) ==
    waiter[w].state \in IF call.message THEN {"listed"} ELSE {"idle", "returned", "raised"}

(* Mutant: the head is read when the call is made. *)
Execute_HeadAtCall(w) == Ready(w) /\ Enlist(w, "run", news)

Execute(w) == Ready(w) /\ Enlist(w, "run", waiter[w].head)

Deny(w) ==
    /\ call.message
    /\ waiter[w].state \in {"idle", "returned", "raised"}
    /\ Enlist(w, "deny", 0)

(* The call of w is over for its caller.                                   *)
Leaves(w, ret) ==
    waiter' = [waiter EXCEPT ![w] = [IdleWaiter EXCEPT
        !.state = IF ret = "raised" THEN "raised" ELSE "returned", !.ret = ret]]

(* The caller is cancelled; only the one that started the task of an       *)
(* execution takes the task with it.                                       *)
WaiterCancelled(w) ==
    /\ waiter[w].state = "waiting"
    /\ Leaves(w, "raised")
    /\ task' = IF waiter[w].owned /\ waiter[w].kind = "run" /\ Live
               THEN CancelTask(task) ELSE task
    /\ UNCHANGED <<call, record, results, source, effects, consumed, bounds>>

(* Mutant: the caller waits for the task to end. *)
SettledFirst_Never(w) == FALSE

(* _wait_result prefers the committed outcome of an abandoned call.        *)
SettledFirst(w) ==
    /\ waiter[w].kind = "run"
    /\ call.message /\ abandoned
    /\ record.phase = "done"

WaiterSettled(w) ==
    /\ waiter[w].state = "waiting"
    /\ SettledFirst(w)
    /\ Leaves(w, record.result)
    /\ UNCHANGED <<call, record, results, source, effects, task, consumed, bounds>>

WaiterJoined(w) ==
    /\ waiter[w].state = "joined"
    /\ Leaves(w, IF SettledFirst(w) THEN record.result ELSE waiter[w].ret)
    /\ UNCHANGED <<call, record, results, source, effects, task, consumed, bounds>>

-----------------------------------------------------------------------------
(* The task.                                                               *)

TaskEnds(ret) ==
    /\ task' = NoTask
    /\ waiter' = [w \in Waiters |->
          IF waiter[w].state = "waiting"
          THEN [waiter[w] EXCEPT !.state = "joined", !.ret = ret]
          ELSE waiter[w]]

(* Cancelled before its first step: the operation never runs.              *)
TaskNeverRuns ==
    /\ task.pc = "new" /\ ~ task.active
    /\ TaskEnds("raised")
    /\ UNCHANGED <<call, record, results, source, effects, consumed, bounds>>

(* _run, first step: a settled call is only read.                          *)
TaskReads ==
    /\ task.pc = "new" /\ task.kind = "run" /\ task.active
    /\ record.phase = "done"
    /\ TaskEnds(record.result)
    /\ UNCHANGED <<call, record, results, source, effects, consumed, bounds>>

TaskRequests ==
    /\ task.pc = "new" /\ task.kind = "run" /\ task.active
    /\ record.phase # "done"
    /\ record' = IF record.phase = "none" THEN Saved(record, "requested") ELSE record
    /\ task' = [task EXCEPT !.pc = "open", !.seen = record']
    /\ UNCHANGED <<call, results, source, effects, waiter, consumed, bounds>>

(* deny of a call that has a receipt.                                      *)
TaskDenies ==
    /\ task.pc = "new" /\ task.kind = "deny" /\ task.active
    /\ record.phase # "none"
    /\ LET o == IF record.phase = "started" THEN "interrupted" ELSE "denied"
       IN  Finish(record, o) /\ TaskEnds(Finished(record, o))
    /\ UNCHANGED <<call, source, effects, consumed, bounds>>

(* deny of a call without one: a receipt first, the result in a second     *)
(* transaction, no await in between.                                       *)
TaskDeniesFirst ==
    /\ task.pc = "new" /\ task.kind = "deny" /\ task.active
    /\ record.phase = "none"
    /\ IF CanFinish(record)
       THEN /\ record' = [Saved(Saved(record, "prepared"), "done") EXCEPT !.result = "denied"]
            /\ results' = IF call.message THEN Append(results, "denied") ELSE results
            /\ TaskEnds("denied")
       ELSE /\ record' = Saved(record, "prepared")
            /\ TaskEnds("raised")
            /\ UNCHANGED results
    /\ UNCHANGED <<call, source, effects, consumed, bounds>>

(* CancelledError at an await before the effect, or out of check_start     *)
(* (news, or the reply itself was revoked); the outer handler settles an   *)
(* intent that was started before.                                         *)
TaskUnwinds ==
    /\ task.pc \in {"open", "prepare", "query", "authorize"}
    /\ ~ task.active \/ (task.pc = "authorize" /\ call.message)
    /\ IF record.phase = "started" THEN Finish(record, "interrupted")
       ELSE UNCHANGED <<record, results>>
    /\ TaskEnds("raised")
    /\ UNCHANGED <<call, source, effects, consumed, bounds>>

(* The binding, the tool or the authorization raises something else.       *)
TaskRaises ==
    /\ task.pc \in {"open", "prepare", "query", "authorize"}
    /\ TaskEnds("raised")
    /\ UNCHANGED <<call, record, results, source, effects, consumed, bounds>>

(* Mutant: recovery sends the started call again without a query. *)
TaskOpened_NoQuery ==
    /\ task.pc = "open" /\ task.active
    /\ task' = [task EXCEPT !.pc =
          IF task.seen.phase = "requested" THEN "prepare" ELSE "authorize"]
    /\ UNCHANGED <<call, record, results, source, effects, waiter, consumed, bounds>>

TaskOpened ==
    /\ task.pc = "open" /\ task.active
    /\ task' = [task EXCEPT !.pc =
          CASE task.seen.phase = "requested" -> "prepare"
            [] task.seen.phase = "prepared" -> "authorize"
            [] task.seen.phase = "started" -> "query"]
    /\ UNCHANGED <<call, record, results, source, effects, waiter, consumed, bounds>>

(* The task settles the call and goes on to close the tool.                *)
TaskSettles(o) ==
    /\ Finish(task.seen, o)
    /\ task' = [task EXCEPT !.pc = "closing", !.ret = Finished(task.seen, o)]
    /\ UNCHANGED <<call, source, effects, waiter, consumed, bounds>>

(* tool.prepare refuses the arguments.                                     *)
TaskInvalid ==
    /\ task.pc = "prepare"
    /\ TaskSettles("error")

TaskPrepared ==
    /\ task.pc = "prepare" /\ task.active
    /\ IF task.seen.version = record.version
       THEN /\ record' = Saved(record, "prepared")
            /\ task' = [task EXCEPT !.pc = "authorize", !.seen = record']
            /\ UNCHANGED waiter
       ELSE TaskEnds("raised") /\ UNCHANGED record
    /\ UNCHANGED <<call, results, source, effects, consumed, bounds>>

(* tool.query knows the outcome of the earlier effect.                     *)
TaskFound ==
    /\ task.pc = "query"
    /\ effects > 0
    /\ TaskSettles("reported")

(* It does not: only an idempotent tool may be called again.               *)
TaskLost ==
    /\ task.pc = "query" /\ ~ call.idempotent
    /\ TaskSettles("error")

TaskResends ==
    /\ task.pc = "query" /\ call.idempotent
    /\ task' = [task EXCEPT !.pc = "authorize"]
    /\ UNCHANGED <<call, record, results, source, effects, waiter, consumed, bounds>>

(* The authorization refuses.                                              *)
TaskRefused ==
    /\ task.pc = "authorize"
    /\ TaskSettles(IF task.seen.phase = "started" THEN "interrupted" ELSE "denied")

(* Authorized, still active, and no Input or Control in the source since   *)
(* the program of the caller started (check_start): no await follows until *)
(* the intent is durable.                                                  *)
MayStart ==
    /\ task.pc = "authorize" /\ task.active
    /\ call.message => task.head = news

TaskStarts ==
    /\ MayStart
    /\ IF task.seen.version = record.version
       THEN /\ record' = Saved(record, "started")
            /\ effects' = effects + 1
            /\ task' = [task EXCEPT !.pc = "invoke", !.seen = record']
            /\ UNCHANGED waiter
       ELSE TaskEnds("raised") /\ UNCHANGED <<record, effects>>
    /\ UNCHANGED <<call, results, source, consumed, bounds>>

(* tool.invoke returns, also after a cancellation it swallowed.            *)
TaskReturns ==
    /\ task.pc = "invoke"
    /\ TaskSettles("reported")

(* tool.invoke raises, a CancelledError of its own too, or is cancelled:   *)
(* settle and raise on.                                                    *)
TaskThrows ==
    /\ task.pc = "invoke"
    /\ \E o \in {"error", "interrupted"} : Finish(task.seen, o)
    /\ task' = [task EXCEPT !.pc = "closing", !.ret = "raised"]
    /\ UNCHANGED <<call, source, effects, waiter, consumed, bounds>>

(* The tool and the task are closed after the result is committed.         *)
TaskClosed ==
    /\ task.pc = "closing"
    /\ TaskEnds(task.ret)
    /\ UNCHANGED <<call, record, results, source, effects, consumed, bounds>>

-----------------------------------------------------------------------------
(* The user abandons the work the call belongs to: a Control of the source *)
(* as any other.                                                           *)
Abandon ==
    /\ call.message /\ ~ abandoned
    /\ abandoned' = TRUE
    /\ news' = news + 1
    /\ UNCHANGED <<call, record, results, effects, task, waiter, consumed, bounds>>

(* Another Input or Control of the source.                                 *)
Speak ==
    /\ call.message /\ news < MaxNews
    /\ news' = news + 1
    /\ UNCHANGED <<call, record, results, abandoned, effects, task, waiter, consumed, bounds>>

AbandonOutcome == IF record.phase = "started" THEN "interrupted" ELSE "denied"

(* abandon_call inside the admission of the slot: settle, then cancel.     *)
AbandonCall ==
    /\ abandoned /\ ~ consumed
    /\ consumed' = TRUE
    /\ Finish(record, AbandonOutcome)
    /\ task' = IF Live THEN CancelTask(task) ELSE task
    /\ UNCHANGED <<call, source, effects, waiter, bounds>>

(* Mutant: follow_abandon does not look back after a restart. *)
Dies_Forgetful ==
    /\ crashes < MaxCrashes
    /\ crashes' = crashes + 1
    /\ task' = NoTask
    /\ waiter' = [w \in Waiters |-> IdleWaiter]
    /\ consumed' = abandoned
    /\ UNCHANGED <<call, results, source, effects, attempts>>

(* The process dies and starts again: receipts, results and controls stay. *)
Dies ==
    /\ crashes < MaxCrashes
    /\ crashes' = crashes + 1
    /\ task' = NoTask
    /\ waiter' = [w \in Waiters |-> IdleWaiter]
    /\ consumed' = FALSE
    /\ UNCHANGED <<call, results, source, effects, attempts>>

Crash == Dies /\ UNCHANGED record

(* It dies between the durable intent and tool.invoke.                     *)
CrashAtStart ==
    /\ MayStart
    /\ task.seen.version = record.version
    /\ record' = Saved(record, "started")
    /\ Dies

(* Or between the receipt of a denial and its result.                      *)
CrashAtDeny ==
    /\ task.pc = "new" /\ task.kind = "deny" /\ task.active
    /\ record.phase = "none"
    /\ record' = Saved(record, "prepared")
    /\ Dies

TaskStep ==
    \/ TaskNeverRuns \/ TaskReads \/ TaskRequests \/ TaskDenies \/ TaskDeniesFirst
    \/ TaskUnwinds \/ TaskRaises \/ TaskOpened \/ TaskInvalid \/ TaskPrepared \/ TaskFound
    \/ TaskLost \/ TaskResends \/ TaskRefused \/ TaskStarts \/ TaskReturns
    \/ TaskThrows \/ TaskClosed

Caller(w) == Begin(w) \/ List(w) \/ Execute(w) \/ Deny(w) \/ WaiterCancelled(w)

Wakes(w) == WaiterSettled(w) \/ WaiterJoined(w)

Next ==
    \/ \E w \in Waiters : Caller(w) \/ Wakes(w)
    \/ TaskStep \/ Abandon \/ Speak \/ AbandonCall
    \/ Crash \/ CrashAtStart \/ CrashAtDeny

(* Only this program is fair: its consumer of controls and its wake-ups.   *)
(* Nothing is assumed of the tool, which may hang in any await.            *)
Fairness ==
    /\ WF_vars(AbandonCall)
    /\ \A w \in Waiters : WF_vars(Wakes(w))

Spec == Init /\ [][Next]_vars /\ Fairness

-----------------------------------------------------------------------------
(* Properties.                                                             *)

Records == [phase : Phases, version : Nat, result : Outcomes \cup {"none"}]

Kinds == {"none", "run", "deny"}

Tasks ==
    [pc : {"none", "new", "open", "prepare", "query", "authorize", "invoke", "closing"},
     kind : Kinds, active : BOOLEAN, seen : Records, head : Nat, ret : Returns]

WaiterStates ==
    [state : {"idle", "begun", "listed", "waiting", "joined", "returned", "raised"},
     kind : Kinds, owned : BOOLEAN, head : Nat, ret : Returns]

(* Receipts, results, tasks and callers have their form.                   *)
TypeOK ==
    /\ call \in [message : BOOLEAN, idempotent : BOOLEAN]
    /\ record \in Records
    /\ results \in Seq(Outcomes)
    /\ abandoned \in BOOLEAN /\ consumed \in BOOLEAN
    /\ news \in Nat /\ effects \in Nat /\ attempts \in Nat /\ crashes \in Nat
    /\ task \in Tasks
    /\ waiter \in [Waiters -> WaiterStates]

(* The outcome as the contract sees it.                                    *)
Outcome == IF record.phase = "done" THEN record.result ELSE "none"

Contract == INSTANCE EffectContract
    WITH repeatable <- call.idempotent, effects <- effects, outcome <- Outcome

(* ToolExecution keeps the effect contract: a tool that is not idempotent  *)
(* is entered at most once over all crashes, retries and waiters, nothing  *)
(* is entered after the call was settled, the outcome never changes, and   *)
(* "denied" is only ever said of a call that was not entered.              *)
ImplementsContract == Contract!ContractSpec

(* The log holds the result of a call exactly when its receipt is done,    *)
(* the same outcome, once (finish commits both in one transaction).        *)
ReceiptMatchesLog ==
    call.message =>
        results = IF record.phase = "done" THEN <<record.result>> ELSE <<>>

(* Every caller that gets an outcome gets the committed one, also when the *)
(* tool's own result, a denial and an abandon race.                        *)
CallersAgree ==
    \A w \in Waiters : waiter[w].state = "returned" =>
        record.phase = "done" /\ waiter[w].ret = record.result

(* No effect is entered for a call that the user has abandoned, even while *)
(* the consumer of the control has not run yet: check_start only asks for  *)
(* news since the program started, so a program that started before the    *)
(* abandon must see it there, and one that started later must not list the *)
(* call.                                                                   *)
NoEffectAfterAbandon == [][effects' # effects => ~ abandoned]_vars

(* An abandoned call is settled although its tool never returns and the    *)
(* process dies in between.                                                *)
AbandonedIsSettled == abandoned ~> record.phase = "done"

(* A caller of an abandoned execution is let go although the tool hangs.   *)
CallersAreReleased ==
    \A w \in Waiters :
        (abandoned /\ waiter[w].state = "waiting" /\ waiter[w].kind = "run")
            ~> waiter[w].state # "waiting"
=============================================================================
