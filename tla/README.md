# A TLA+ verification of mono-agent's reply chain

mono-agent is a long-running Python agent. A user message arrives in a
*Session*, is written to a durable message log, wakes a follower, is answered by
a ReAct loop of model requests and tool calls, and the answer is sent to one or
more channels. Everything runs on one asyncio event loop; the process may be
stopped, restarted or killed at any point, and every component is expected to go
on from what SQLite holds. The log, the receipts and the cursors are the
authority: tasks, wake flags and subscriptions are rebuilt after a start.

This directory holds the TLA+ modules of that chain, the TLC configurations that
check them and the TLAPS proofs about them. Source paths below are relative to
the repository.

## 1. Inventory

Components with their state, operations and what makes them correct. The
complete list, with the parts that are not modelled, is in `PROJECT.json`.

### Message log and owner stores — `session/log.py`, `session/message.py`

* **State.** Table `messages` (id, Session, seq, author, source, body),
  `sessions.next_seq`, `owner_records` (versioned JSON per owner and key), the
  writer objects (`MessageWriter`) with their grant and their active flag.
* **Operations.** `append` (with an optional `expected_source_head`), replay of
  a known id, `expire`, `OwnerStore.transact` with `append` and `save`, commit,
  rollback; readers, pages and subscriptions.
* **Interactions.** Every other component writes through a writer or an owner
  store and reads or follows the log.
* **Hard.** Owner callbacks may swallow the error of one operation and go on; an
  answer may be lost after its commit; writers are revoked while their holder is
  inside an await.
* **Correct when** a Session is numbered without gaps, rows are never changed, a
  call has one result in its own source, an Output stands directly after what
  its author read, no record points at a message that was rolled back, and what
  a caller was told stays true.

### Conversation source — `plugins/conversation/source.py`

* **State.** None of its own but the slot of the source: the log decides.
* **Operations.** `accept`, `control` (pause, resume, abandon), `pause`,
  `resume`, `start`, `complete`, the recording of a failure.
* **Hard.** Inputs and controls meet a running reply between any two of its
  awaits; prefixes of controls overlap.
* **Correct when** nothing is committed, started or blamed on behalf of work
  that is stopped, closed or abandoned, and every wanted input is settled.

### Reply program and ReAct loop — `plugins/conversation/program.py`, `plugins/react/plugin.py`

* **State.** Local to the task: the head its program started from, the head of
  its snapshot, the calls still to settle.
* **Operations.** Settle the pending calls, check the step budget, take the
  snapshot, ask the model, append with the expected head, fail.
* **Hard.** The snapshot is minutes old when it is used; a crash leaves calls
  without results; the budget must not be reset by a restart.

### Reply follower — `plugins/reply/follow.py`

* **State.** The heads read last, one drive coroutine and one `_Wake` flag per
  source.
* **Hard.** Lost wake-ups between the read of the log, the end of the drive, the
  slot and the restart gate.

### Task slots and groups — `agent/plugin_composition/tasks.py`

* **State.** One task per key; per key a group with its references, its activity
  count, its exclusive flag, its queue of requests and its event.
* **Operations.** Admission, start, cancel, join; `activity`, `wait_idle`,
  `exclusive`, `close`.
* **Hard.** A cancelled task is revoked at once but keeps its slot until its
  coroutine really ends; cancellations may be swallowed. A request that wants an
  idle key is passed over while the key is busy; the group object is dropped and
  made anew while calls come and go; everyone sleeps on an event that is
  replaced by each notification.
* **Correct when** two sections of a key never overlap, nobody sleeps on an
  event nobody will set, requests that do not want an idle key enter, and
  `close` returns after the last call.

### Tool execution — `plugins/tools/execution.py`, `plugins/tools/abandon.py`

* **State.** One durable receipt per call (requested, prepared, started, done),
  the task in the slot of the call, its waiters; the consumer of abandon
  controls with its `seen` set.
* **Operations.** `execute`, `execute_call`, `deny_call`, `finish`,
  `abandon_call`, `follow_abandon`.
* **Hard.** The outcome of the tool, a denial, an abandon, a cancellation and a
  crash race for one receipt; an effect that was started may or may not have
  happened; a tool may hang or swallow its cancellation.
* **Correct when** an effect that cannot be repeated is entered once, the call
  has one outcome for ever, the log and the receipt agree, everyone is told the
  same, and an abandoned call ends although its tool does not.

### Delivery — `plugins/delivery/*`, `plugins/delivery_policy/*`

* **State.** Per message a final selection of destinations, per destination a
  versioned record (prepared, started, delivered, rejected, failed), the cursor
  of the policy; tasks, activity marks, the drive and its wake flag.
* **Operations.** `publish`, `prepare`, `consume`, `send`, `retry`,
  `cancel_prepared`; the follower; the reply completion.
* **Hard.** Three ways to select for one message; a crash around the durable
  start of a send; withdrawals against a task that waits for its target; marks
  that must be taken back.
* **Correct when** nothing is sent twice to a sender that cannot repeat, no
  destination is lost or added, no receipt is rewritten, "rejected" means not
  sent, and everything selected is attempted.

### Restart gate and guarded self-restart — `agent/restart.py`, `plugins/message_push/restart.py`, `main.py`, `agent/supervisor.py`

* **State.** The gate: the pending request, whether it accepts, the permits out,
  `drained`, `committed`. The watcher of agent_restart results with its cursors;
  the settings restart of SIGUSR2; the serve loop; the supervisor's boot.
* **Operations.** `acquire`, child permits, `prepare`, `commit`, `abort`,
  `wait_until_open`; the watcher's wait for the turn, its delivery and the
  drain.
* **Hard.** `commit` does not look again after its wait; two callers of
  `commit`; time limits that strike while a commit is being woken; a ToolResult
  that the next boot finds again.
* **Correct when** a restart interrupts no reply and no effect, follows the
  delivery of the answer that announced it, happens once per request, and every
  other end of a request reopens the gate and starts the replies it held back.

### Scheduler — `plugins/scheduler/store.py`, `runtime.py`, `tools.py`

* **State.** A file of jobs, operations and fires; per fire a child session, a
  notification with its delivery record, a task; what the follower has
  attempted.
* **Operations.** `add`, `cancel`, `start_fire`, `settle`, `recover`; the round
  of the follower; the task of a fire; the schedule and cancel tools.
* **Hard.** Cancellation at any point of a fire; crashes between a send, its
  receipt and the settlement; repeated tool calls; the cleanup of a cancelled
  fire while its old task still drains.
* **Correct when** a cancelled job stays cancelled and starts no send, a due
  time counts once, every due time passes, and a cancelled notification is
  withdrawn.

### Subagents — `plugins/subagent/runtime.py`, `tools.py`

* **State.** Per job an owner record (settled or not), the outcome as the child
  session's messages tell it, the report in the parent session with its delivery
  record; a task in the slot of the job, the calls and waiters that joined it,
  the follower's `attempted` and `active`.
* **Operations.** `accept`, `start`, `cancel`, `_run`, `_announce`, `follow`;
  the spawn call with its repetition and cancellation; spawn_manage.
* **Hard.** A waiting call, a cancellation, the follower and its shutdown join
  and revoke the same task; a program may fail after its result is saved; a
  crash between the outcome, the report, its receipt and the settlement.
* **Correct when** everybody is told the one outcome, a place is given back only
  after the report has its receipt, and every job is settled.

### Around the chain, not modelled

| Component | State and operations | Why it is hard |
|---|---|---|
| Session stores (`session/store.py`, `session/manager.py`, `session/artifact_store.py`) | inbound admission, artifacts | publication in two places |
| Message bus (`bus/`) | bounded queue, event dispatch | the queue at its limit |
| Composition runtime (`agent/plugin_composition/`) | scopes, effects, events | disposal order, failing disposals |
| Plugin manager and reload (`agent/plugins/`) | snapshot leases, reload journal | crash inside a reload, rollback |
| Event mail, wake, drift (`plugins/eventmail`, `wake`, `drift`) | claims, retries | duplicated work after a crash |
| Turn projection (`plugins/turn_projection`) | pure function of the log | must agree with `needs_reply` |

Models, context and compaction, memory, channels and mobile front ends, host
bridge and command execution, MCP, bootstrap and migrations, the web front end,
SDK and evaluation are network, process or data handling around the chain. Their
behaviour towards it (a provider, a tool or a sender returns, raises, hangs) is
a nondeterministic choice in the modules here.

## 2. Modules

| Module | Models | State |
|---|---|---|
| `MessageLog` | `session/log.py`, bodies of `session/message.py` | tables, writers, one open transaction |
| `Conversation` | `conversation/source.py`, `program.py`, `react/plugin.py`, `reply/follow.py`, `tools/abandon.py` | one source of one Session, the reply task, its follower and drive, the abandon consumer, the gate |
| `EffectContract` | nothing: an abstract specification | what the owner of one external effect promises |
| `ToolExecution` | `tools/execution.py`, `abandon_call` | one call: receipt, result, task, callers |
| `Delivery` | `delivery/records.py`, `delivery/execution.py`, `delivery_policy/*` | the messages of one Session, all their effects, the follower |
| `TaskGroup` | `agent/plugin_composition/tasks.py`: groups | the calls of activity, wait_idle and exclusive, the group objects, close |
| `RestartGate` | `agent/restart.py`, `message_push/restart.py`, `main.py`, `supervisor.py` | turns with their permits, the gate, its two committers, the process and its boots |
| `Scheduler` | `scheduler/store.py`, `runtime.py`, `tools.py` | the jobs file, the fires with their tasks and notifications, the follower, the clock |
| `Subagents` | `subagent/runtime.py`, `tools.py` | job records, outcomes and reports, tasks, calls, waiters, the follower |
| `MessageLogProofs`, `ConversationProofs`, `ToolExecutionProofs`, `DeliveryProofs`, `TaskGroupProofs`, `RestartGateProofs`, `SchedulerProofs`, `SubagentsProofs` | — | theorems and proofs |
| `MC…` | — | instances for TLC |

Operators named `X_Something` directly before `X` are deliberate errors in `X`;
each property of a run is shown to be violated when the one named for it in
`PROJECT.json` takes its place.

**Steps.** An action is what the event loop runs between two awaits. A
synchronous SQLite transaction is inside one step, so other coroutines never see
half of it. `MessageLog` alone opens it up, since the callback of
`OwnerStore.transact` is arbitrary code: `TxBegin`, `TxAppend`, `TxSave`,
`TxCommit`, `TxRollback` work on a copy, and nothing else runs while the log's
lock is held. A crash may occur between any two steps and, where a durable write
is followed by an external call without an await, also between those two
(`ToolExecution!CrashAtStart`).

**History variables.** `receipts`, the `basis` and `by` fields of messages,
`effects`, `sends`, `armed`, and `seen`, `basis`, `cause` of a failure record
what the code did and are read by properties only; no guard depends on them,
except that a query of a tool or a sender finds a receipt only if there was an
effect to report.

### MessageLog

`Append`, `Replay` and the transaction's `TxAppend` share `Accepts` (all the
checks of `MessageWriter._append` in one conjunction: grant, id, active flag,
expected head, parts, the referenced call, the prefix of a Control), `Replays`
and `NewMessage`. A refused append outside a transaction changes nothing and is
no step; inside one it marks the transaction failed, as
`OwnerTransaction._perform` does. `Grant` says what each writer is bound to,
`Offers` what callers try to append: the model explores every order of those
offers under every id. `Restart` drops an open transaction and hands out fresh
writers.

### Conversation

`log` is the source's part of the message log, positions 1, 2, …; `NeedsReply`,
`PendingCalls`, `Steps`, `AbandonedBy` are the scans of `needs_reply`,
`_pending_calls`, `_steps` and `abandoned_calls` as functions of it. User
actions append and revoke in one step. `Follow` and `Drive…` are the follower,
`Task…` the reply program, `Abandon…` the consumer of controls. A revoked task
normally unwinds at its next await (`TaskUnwind`), but since code of other
plugins may swallow a cancellation it may also run on until one of the checks
(`check_source`, the expired writer, the expected head) stops it. Tool execution
is seen as: answered without an effect, or started and later answered.
`Complete…` is a caller of `complete`, the second program that competes for the
slot: it reads the log message by message, joins whatever is in the slot, gives
way to a wanted reply and tries again when it is preempted. A task that ends
releases whoever joined it, also when its slot is taken again at once. An active
task can also end in silence: a resume changes the source without revoking
anybody, and `check_source` then raises `CancelledError` (`TaskStops`).
`TaskRaises` is any other exception on the way, which is recorded as a failure
by a task that still has its right. Testing the gate right after `start` has
returned nothing is one step (`DriveAdmit`): nothing suspends in between.

### ToolExecution and EffectContract

Calls of different keys share no state, so one call with several callers is the
whole component. `record` is the receipt, `results` the tool results of the call
in the log. The task goes through `open`, `prepare` or `query`, `authorize`,
`invoke`, `closing`; each await may be cancelled, raise or hang. `news` counts
the Inputs and Controls of the source, as far as the call can tell them apart. A
program remembers the count it starts from (`Begin`), the task it starts for the
call keeps that (`head`), and `check_start` (`MayStart`) compares it with the
present count before the effect; nothing in the guard knows of an abandon. A
program does not list an abandoned call (`List`), but one that has listed it
before may still come to it afterwards. `TaskDeniesFirst` and `CrashAtDeny` take
the two transactions of a denial apart; a tool that raises `CancelledError`
itself is recorded as interrupted, in a task that is active too (`TaskThrows`).
`seen` is the receipt the task read, compared by version at every save.
`EffectContract` says in two actions what all that is for: the effect is entered
(again only when it is repeatable), then settled once, with an outcome that does
not lie.

### Delivery

`Select` is `DeliveryRecords._prepare`; `Publish`, `Complete` and `Consume`
reach it from the publishers, the reply completion and the follower. Publishers
own their effects and may start, cancel, withdraw and retry them; effects of the
policy are run by its drive or by the reply completion. `Holding` is the
exclusive section of a target, `Busy` its activity marks: those of passive tasks
and those the policy puts on at the start for what is still pending (`holds`).
The step `TaskSends` commits the durable start and enters the sender; a crash
between the two counts as a send, which can only make `SentOnce` harder to keep.

### TaskGroup

An element of `Calls` is one call of `activity`, `wait_idle` or `exclusive`; the
key, and for `exclusive` whether it wants an idle key, are chosen when it
begins. The queue `_Group.waiting` is kept as `ahead`: for each request those
before it. `current` is the dictionary of groups; a `_Group` object is named
after one of the calls that can hold it, so that a group that is dropped and one
made later for the same key are different objects. A call that awaits the event
is `parked`; `Notify` makes it runnable, and at some later turn of the loop it
looks again (`Resume`). Every call may be cancelled while it waits. `close`
refuses who waits and returns when the last reference is gone.

### RestartGate

A turn is an Input and its reply. The reply's task holds the root permit
(`Start`), its tools and its send hold children (`StartEffect`, `StartSend`,
`Child`), which may outlive it (`EffectDone`). `Ask` is the result of
agent_restart; `Notice`, `TurnClosed`, `OutputArrived`, `WatchTimeout` and
`WatchCommit` are the watcher's steps, `Settings…` those of the other committer.
`woken` holds the committers whose wait for `drained` was resolved and who have
not run yet: between the two anything may happen, and `commit` does not look
again. A `prepare` that is refused because another request is pending calls
`abort` all the same (`Notice`), with an id that is not the pending one.
`ServeEnds` and `Die` end the process, `Reboot` and `SupervisorReturns` are the
supervisor. Two things the model shows on the way: a settings restart while
another request is pending, or one whose drain times out, makes `serve` raise,
so that the supervisor returns instead of restarting; and a failed reply leaves
its turn open, so the watcher waits for its time limit.

### Scheduler

A fire is a job at one of its due times, `<<job, at>>`. A cron expression is a
job on a grid, like an interval. Admission and changes of the file do not
suspend, so a cancellation together with `cancel_fires` is one step (`Cancel`),
and so is one round of the follower (`Tick`), which uses the file it read
(`dirty` says that there is a newer one). `Begins`, `TargetIdle`, `Program…`,
`Publish`, `Send…`, `Receipt`, `Settles` are the task of a fire. `Raises` logs
an exception of any of its awaits and keeps the fire pending. A task that finds
its fire cancelled withdraws the notification and then drains the effect
(`Drained`); it may be revoked or raise in between (`CleanupRaises`).
`Interrupted` is the cancellation of a task, which lets a send under way end and
withdraws a notification only when the cancellation of its fire is saved. `Boot`
is `recover`: missed due times are moved on or given up. `note` is what Delivery
keeps of the notification's one effect, with the steps its own module specifies.

### Subagents

`job` is the owner record, `outcome` what the latest message of the child
session says, `report` the outcome the parent session was told, `note` the phase
of the report's effect, `answer` what the spawn call returned. `call` is where
the spawn call and a cancellation by spawn_manage are; both use `cancel`
(`CancelIntent`, `CancelAgain`), and a spawn call that waits for its job turns
into one when its join is cancelled. `Ends` releases everybody who joined a
task, with the way it ended: after a cancellation the waiting call cancels the
job itself, after an exception the waiter and the caller of `cancel` give up. A
program may also return without a terminal Output, which raises
(`ReturnsNothing`). A spawn call that was revoked may be left without an answer,
to be asked again by the next reply. When the plugin stops, a waiter whose send
is under way waits for it (`ask`) and saves its receipt or not (`Halted`).
Receipts are told apart as far as the code does: delivered, or the end of the
attempt. `seen` holds the jobs whose heads equal their entry of `attempted`;
`notified` says that the catalog has new heads. The follower's round starts or
joins the task of every open job that is not in `active` and has moved.

Two behaviours of the code the model has and no property forbids. A shutdown
revokes the task of a synchronous job; the spawn call takes this for its own
cancellation and saves a pause, so that the job is reported as cancelled by the
user and not resumed, although a comment (`plugins/subagent/runtime.py:117`)
says that a shutdown leaves the input as it was. And when the revoked program
raises anything but `CancelledError`, or a program returns without a terminal
Output, nobody starts the job again: it keeps one of the three places until
another message of its sessions or the next start; `JobsSettle` exempts it.

## 3. What the runs check

Each run finishes in less than four minutes on two workers.

| Run | Bounds | Shows |
|---|---|---|
| `message_log` | 2 Sessions, 3 ids, 4 writers, 7 offers, 1 record, any number of restarts | one result per call, heads respected, records backed, append-only |
| `conversation` | 2 inputs, 1 control of any kind and prefix, 1 step, 1 call, 1 crash | nothing stale is committed (`OutputsWereWanted`), started (`EffectsWanted`) or blamed (`FailuresBlameSeenWork`); the step budget survives |
| `conversation_report` | 2 inputs, 2 of pause, resume and report, no calls, 1 crash | no wake-up is lost (`InputsSettle`), whenever during a drive, its end or a running task an input or a resume makes a reply wanted again; a subagent's result is reported however often inputs, pauses and revoked replies preempt it |
| `conversation_recovery` | 1 input, 2 steps, 1 call, 1 abandon, the gate, 1 crash | calls are answered before the model is asked; the consumer of abandons, starting from nothing, catches up with abandoned calls |
| `conversation_abandon` | 2 inputs, 1 abandon | expected violation, see the finding |
| `tool_execution` | 2 callers, 3 attempts, an abandon and 1 other Input or Control, 2 crashes, all four kinds of call | refinement of `EffectContract`; receipt and log agree; callers agree; no effect after an abandon; abandoned calls are settled and their callers released, with tools that hang |
| `delivery` | 2 destinations, 1 message, 2 starts or retries, 1 policy failure, 1 crash, every sender and routing | one send where a sender cannot repeat, selections complete and final, no receipt rewritten, "rejected" means not sent |
| `delivery_follower` | 1 destination, a routed and a published message, 1 start, 1 crash | everything is consumed and attempted, no activity mark leaks, everyone enters |
| `task_group` | 4 calls of any operation on 2 keys, cancellations, close | `GroupInv`: sections exclude each other, no wake-up is lost, closing is final; requests enter and close returns |
| `restart_gate` | 2 turns, one over a control connection, one with tools, a settings restart, 2 boots | a restart interrupts nothing, follows its delivery, happens once; the gate reopens and held replies start |
| `scheduler` | a one-shot and a repeating job of which one is added, capacity 1, 1 error, 1 repeated cancellation or failed cleanup, 2 stops or crashes, times 0 to 1 and one interval beyond | `SchedInv`: cancellation holds and each delivered due time counts once; no new send of a cancelled fire; due times pass; cancelled notifications are withdrawn |
| `subagents` | a synchronous and a background job, capacity 1, 1 managed cancellation, 1 job with a logged exception, 1 reload or crash | `JobInv`: what is told is true, places are given back last; an outcome is decided once; jobs are settled |

`TypeOK` of every module is part of its inductive invariant, which section 4
proves; `ConvInv`, `DeliveryInv` and `GateInv` also hold as invariants of the
instances here, where the runs check the parts a reader asks for.

**Why the bounds are enough to be interesting.** Two inputs are the smallest
number at which a reply computed for one meets the other; one control with a
chosen prefix already overlaps both. `InputsSettle` is checked with two inputs
and two controls, so that a reply becomes wanted up to three times, before,
during and after a drive and its task; a crash there adds a follower that starts
from nothing. The restart gate is left out of that run: whether a reply held
back by the gate starts again is `WantedStarts` of `restart_gate`, where the
gate is the real one. `MaxControls` counts `complete` as well. A pause or a
resume of the whole source is a Control of a chosen prefix too, so the first run
needs no action of its own for them. A budget of one step is used up by the
first Output, so that a crash, an input or a resume that reset it would show at
the next one; two steps with one call each let the model be asked again after a
crash between a call and its result. Two callers are the owner of a task and one
that joins; three attempts let a call be executed, denied and executed again;
two crashes allow a crash during recovery. Two effects of one target are needed
for the exclusive section, two destinations of one message for partial
selections. Four calls are two requests behind an idle one while an activity
comes and goes, or a group that is dropped while another call arrives. Two boots
are enough for a restart that repeats itself, two turns for a request beside a
reply that is still at work. With one due time and the interval after it a job
is early, due, late and moved on. The scheduler's jobs share only the capacity
and the file, so one added job and one that is refused show each of its steps;
two jobs at work at the same time are not covered by the run, and that a job
which is late by several intervals is moved past the clock is a theorem
(`AdvanceAhead`). With one place for two subagents the second is refused as busy
until the first is settled. Bounds are in the guards (`MaxInputs`,
`MaxControls`, `MaxCrashes`, `MaxAttempts`, `MaxNews`, `MaxMessages`,
`MaxStarts`, `MaxFailures`, `MaxVersion`, `Tooled`, `MaxBoots`, `MaxAdds`,
`MaxTime`, `MaxErrors`, `MaxReplays`, `MaxCancels`, `MaxStops`, and the set
`Calls`) and limit the environment only: no bound stops the program itself.
`MaxActive` is the program's own limit, as `MaxSteps` is. In `MessageLog` the
sets of ids and offers bound the log.

**Deadlock.** All modules but MessageLog come to rest when the user stops and
everything is settled, so deadlock is not checked there; the liveness properties
say what must have happened by then. `MessageLog` is checked for deadlock.

**Fairness.**

* Conversation: weak fairness of the follower, the drive, the reply task, the
  caller of `complete` with its program and the abandon consumer: the event loop
  runs every ready coroutine. For the reply task this includes that providers
  and tools answer or fail, an assumption about the environment: a source whose
  provider hangs is only freed by the user. A tool that hangs is the subject of
  ToolExecution, which assumes nothing of it. User, gate and crashes are not
  fair.
* ToolExecution: weak fairness of `AbandonCall` and of the wake-ups of callers
  only. Nothing is assumed of the tool or of its task.
* Delivery: weak fairness of the follower, the drive and each task: senders
  answer or fail. Publishers, owners, failures and crashes are not fair.
* TaskGroup: the event loop runs every runnable call, and bodies of activities
  and sections end. Nobody has to call, to cancel or to close. `Calls` is
  finite, so activities that begin for ever behind each other are not covered:
  an idle request may then wait for ever, by design, and `RequestsEnter` does
  not speak of idle requests.
* RestartGate: the event loop runs the drivers, the watcher and the settings
  restart, timers fire, the supervisor notices its child's end. Nothing is
  assumed of replies, tools, sends or users: the gate reopens even if they hang.
* Scheduler: the follower, the clock and the task of each fire; targets become
  idle, programs and senders answer, raise or are interrupted. `DueTimesPass`
  exempts runs with an exception, which by design leaves its fire to the next
  start; `CancelledWithdrawn` exempts a repeated cancellation, which revokes the
  very task that withdraws, and a cleanup that raises. Without the exemption TLC
  ends with the notification prepared for as long as this runtime lives.
* Subagents: the follower and its restart, tasks, waiters and calls; programs,
  the main program and senders answer. Calls, cancellations, other messages,
  exceptions and stops are not fair.

### Finding: an abandoned call's late result fails the new reply

`conversation_abandon` checks `AbandonLeavesNewWorkAlone` and TLC violates it.
An abandon covers a call without a result; the user has sent a new input; the
new reply takes its snapshot; then the abandon consumer appends the result of
the old call in the same source (`plugins/tools/abandon.py`), which moves the
source head. The Output of the new reply is refused by its expected head
(`plugins/react/plugin.py:274`, `session/log.py:928`) and
`plugins/conversation/source.py` records a failure over the new input, which
stays unanswered until the user acts. In the trace TLC prints the call was not
started yet and the result says so; a call whose tool still runs, or is just
ending, meets the new reply in the same way. The design
(`docs/design/0902-reviewed-v4.md`,
`docs/decisions/0059-abandon-settles-tool-calls.md`) says that the input after
the abandoned prefix is independent and that its reply can complete while the
old tool has not exited. The interleaving is narrow: the consumer must run after
the snapshot of the new reply.

## 4. What is proved

For every value of the constants, by TLAPS.

**`MessageLogProofs`** (assumptions: `GrantAssumption`, each writer has a
well-formed grant; `OfferAssumption`, offers are well-formed and `MaxVersion` is
a natural number).

* `LogInvariant`: `Spec => []LogInv`. The invariants of the runs are not
  inductive: a commit replaces the tables by the working copy, so the copy must
  be legal too. `LogInv` therefore holds types, the four parts of a legal log
  (`Dense`, `Answers`, `Seen`, `LookBack`) for the committed tables and, in
  `TxOK`, for the copy of an open transaction, that the copy extends the
  committed tables with rows of active writers, and that an unfailed transaction
  has every id it was offered. The last part is what makes `RecordsBacked`
  survive callbacks that swallow errors.
* The central lemma, `AppendLogOK`, shows that one accepted append keeps a legal
  log legal, one part at a time (`AppendDense`, `AppendAnswers`, `AppendSeen`,
  `AppendLookBack`); `Append` uses it on the tables, `TxAppend` on the copy.
  `LogInvStep` then goes through the actions.
* Corollaries: `SeqDenseAlways`, `OneResultAlways`, `NoUnseenPrefixAlways`,
  `ControlsLookBackAlways`, `ReceiptsDurableAlways`, `RecordsBackedAlways`,
  `AppendOnlyAlways`. Density, the Controls and the receipts are proved only:
  they are not repeated in the run.

**`ToolExecutionProofs`** (assumption: `BoundsAssumption`, the bounds are
natural numbers; any set of callers).

* `ToolInvariant`: `Spec => []Inv`. Besides types and `ReceiptMatchesLog` the
  invariant says that the receipt a task holds is the durable one, unless the
  call was settled behind its back and the task is revoked (`SeenIsCurrent`),
  which phase it has at each point of the task (`SeenPhase`), that an entered
  effect was intended before (`EffectsIntended`) and that what a task or a
  caller is about to return is committed (`ReturnsCommitted`). Without the
  second, a save by an old version could not be excluded; without the fourth,
  "denied" could be said of a call that was entered.
* `ReceiptMatchesLogAlways`, `CallersAgreeAlways`, `NoEffectAfterAbandonAlways`.
  The last does not follow from the guard of the start, which only compares two
  counts. `AbandonIsNews` carries it: an abandon is news, and a head read after
  it is that of a program which found the call closed, so that whoever can still
  come to the effect holds a head from before the abandon.
* `ExecutionImplementsContract`: initial states map to initial states of
  `EffectContract`, every step to `Enter`, `Settle` or a stutter.

**`TaskGroupProofs`** (assumptions: `CallsAssumption`, the calls are finitely
many and none is the null value; `KeysAssumption`, there is a key).

* `GroupInvariant`: `Spec => []GroupInv`. `MutualExclusion` alone is not
  inductive: that two sections of a key meet the same flag follows only from
  `References` (a holder's group is its key's group, a group serves one key, the
  count is the number of holders, so that a group goes exactly with its last
  holder) and from `FlagTellsInside`. `NoLostWakeup` needs `Queues`: a request
  ahead of another one is a waiter of the same group, so its leaving wakes it.
  `CloseIsFinal` needs `Closing`.
* `StepShapes` says that every step takes a reference, gives one back or leaves
  them alone; `AcquireReferences` and `ReleaseReferences` are the two lemmas
  that count. Then one lemma per part of the invariant goes through the actions;
  `SameView` is the fact behind `WakeupStep`, that a sleeper's test reads its
  own group only.
* Corollaries: `MutualExclusionAlways`, `NoLostWakeupAlways`,
  `CloseIsFinalAlways`.

**`ConversationProofs`** (assumption: `BoundsAssumption`, the bounds are natural
numbers and `max_steps` is not 0; any set of `Moves`).

* `ConvInvariant`: `Spec => []ConvInv`. What the log says of its past (each
  Output was wanted, found every call answered and a step left; each failure
  blames seen work) is not inductive: that the *next* message is as good depends
  on the task. `ReplyFresh` says that a reply that still has its right is wanted
  and that nobody has spoken since its program started, which holds because
  `accept` and `control` revoke it in the step that appends; a resume and a
  result may come. `ListCovers` says that the list of a task holds every open
  call, although the abandon consumer may answer some of them first, and that at
  a snapshot that is still the head no call is open and a step is left; so the
  expected head of the append carries the check over the model's await.
  `AbandonedClosed` ties abandons to the closed part: an open call is not
  abandoned.
* The scans of the log are functions defined by recursion over positions.
  `NatMin` (every set of numbers has a least one), `ScanExists` and `ScanUnique`
  prove by a least counterexample that such a function exists and is the only
  one, and `ScansGrow` that one more message takes `Boundary` and
  `PausedThrough` one step further. The lemmas after it (`BoundaryGrows`,
  `WantedGrows`, `PendingGrows`, `StepsGrow`, `AbandonedGrows`) say what each
  kind of message does to what is asked for, and are all that the steps use.
  `LogGrows` and `TaskGrows` then carry log and task over any append, and there
  is one lemma per action.
* `OutputsWereWantedAlways`, `CallsAnsweredFirstAlways`, `StepBudgetAlways`,
  `FailuresBlameSeenWorkAlways`, and the action property `EffectsWantedAlways`.

**`DeliveryProofs`** (assumptions: `BoundsAssumption`; `ChoicesAssumption`, the
protocols are sets of sinks and the routings sets of messages; any sets of sinks
and owners).

* `DeliveryInvariant`: `Spec => []DeliveryInv`. `SentOnce` needs to know what a
  task that is about to enter a sender has read: `SnapshotsHold` says that it is
  the durable record unless that has a newer version (then the save is refused),
  and that whoever asks or sends has seen the effect started. `PreparedFirst`
  says that a prepared record has a send left, and that an effect that was never
  selected has nothing. `DeliveryParts` splits the invariant into one predicate
  per effect and one of the cursor, so that a step is looked at where it writes;
  `EffectStep` and `SpreadStep` are its frame rules.
* `SentOnceAlways`, `SelectionCoveredAlways`, and the action properties
  `SettledStaysAlways` and `WithdrawnUnsentAlways`.

**`RestartGateProofs`** (assumption: `RestartAssumption`: finitely many turns,
`Settings` and the null request are none of them, at least one boot).

* `GateInvariant`: `Spec => []GateInv`. Nothing in `commit` looks at the permits
  after its wait, so that nothing is under way at the commit frame follows only
  from all of `PermitsCounted` (the counter is the number of running tasks and
  effects; a drained gate is an empty one), and `Quiet` (who was woken is behind
  a closed gate with no permit out, and so it stays until it has run).
  `PermitTaken` and `PermitGiven` are the two lemmas that count. `TurnsClose`
  and `CommitsOrdered` keep what the log says of a closed turn, and which
  results the watcher may still act on.
* `NothingInterrupted`, `CommittedAfterDelivery`, `BootsAccounted`.

**`SchedulerProofs`** (assumption: `SchedulerAssumption`: finitely many jobs, an
interval of at least 1, bounds that are natural numbers).

* `SchedInvariant`: `Spec => []SchedInv`. That a due time is counted once needs
  `FiresCurrent`: a pending fire is the current due time of its enabled job, and
  no fire lies ahead of its job, which is where the arithmetic of `advance`
  matters (`NextDue`: it goes forward, on the grid). `TasksFit` fits the place
  of a task to its fire and its notification. `FireOK` and `JobOK` are the
  invariant for one fire and one job; `TaskStep` and `TaskEnd` its frame rules.
* `AdvanceAhead`: for any due time and clock the next due time is the first
  point of the job's grid after both. It bounds nothing by `MaxTime`, so it
  covers a job that is late by any number of intervals.
* `CancelsHoldAndCount`, and the action property `CancelledUnsentAlways`.

**`SubagentsProofs`** (assumption: `SubagentsAssumption`: finitely many jobs,
any of them in the background, bounds that are natural numbers).

* `JobInvariant`: `Spec => []JobInv`. `ToldTruly` and `SettledLast` are about
  what is told and when a place is given back; they need `TasksFit` (who may
  still replace an outcome), `WaitersFit` (a waiter announces an outcome that no
  task can change any more) and `JoinsHeld` (who waits for a task has one, and
  who cancels has saved the outcome). `Ends` moves a task, a waiter and two
  callers at once; `EndsFacts` says what it leaves them with.
* `JobsToldTruly`, and the action property `OutcomesHoldAlways`.

**Assumptions.** Each constant is constrained only by the named assumption of
its module, which TLC evaluates in the runs: types, finiteness where something
is counted, and `MaxSteps`, `Interval` and `MaxBoots` being at least 1. No
theorem bounds the number of inputs, calls, jobs, turns, destinations or
crashes.

**Only model-checked.** All liveness properties (`InputsSettle`,
`AbandonedCallsSettle`, `ReportsEnd`, `AbandonedIsSettled`,
`CallersAreReleased`, `AllConsumed`, `PendingIsAttempted`, `WaitersEnter`,
`RequestsEnter`, `CloseReturns`, `GateReopens`, `WantedStarts`, `DueTimesPass`,
`CancelledWithdrawn`, `JobsSettle`): they depend on fairness, which is outside
the prover's reach. Every invariant and every action property of a passing run
is also a theorem.

## 5. What is left out, and why

* MessageLog: `ensure_session`, bindings and Session attributes, attachments and
  metadata columns, backup (no property here tells them apart); readers, which
  change nothing.
* Conversation: `terminal_tools`, replays of an id (in MessageLog), several
  sources (they share only the gate), the cancellation of a caller of `complete`
  (only at shutdown), status and previews. The program that `complete` runs
  writes in a source of its own, so only its use of the slot is modelled.
* ToolExecution: fingerprints of mismatching requests, receipts of older
  versions, child permits.
* Delivery: `add` (no caller in the repository), FIFO order of the exclusive
  section, the activity a running reply holds on its target, the index of
  confirmation times.
* Task slots appear in each client module as far as it uses them; the errors of
  cleanups and plugin scopes are not modelled.
* RestartGate: the frames and their pipe (a frame is written or the process has
  died), several sessions, the settings bridge's `request_and_wait`, which has
  no caller.
* Scheduler: two changes of the file with the same inode, time and size; a
  follower that reads a file while the tool of an older generation writes it;
  parsing of times; the list tool; several destinations.
* Subagents: `prepare`, the trace file, the listing, several parent sessions,
  the closing of the task service at the end of the process (a crash stands for
  it).
* Not modelled at all: the parts of the table in section 1 and the network,
  process, data and interface code named below it, which is most of the
  repository's 190,000 lines. What is modelled is the code that decides what
  happens to a message, a call, a send, a job or a restart.
* The modules are separate: Conversation sees tool execution and the log through
  what their own modules promise (one result per call, one transaction per
  append), by abstraction and not by a checked composition.

## 6. Plan

1. Proofs: every safety property of the runs is a theorem. Next an
   abstract specification of one delivery (prepared, entered, settled, reopened
   by a retry, which `EffectContract` does not allow) and the refinement of it by
   each effect of Delivery, checked by TLC first.
2. Composition: Conversation with MessageLog's append as the abstract log; the
   groups of Delivery's targets as TaskGroup.
3. `TurnProjection` as a pure function of the log, checked against `NeedsReply`
   on all short logs, and the incremental reader against a full scan.
4. Plugin snapshot leases and the reload journal; scopes and disposal.
5. Event mail and wake claims; inbound admission of channel messages.

## 7. Running it

    tlc -workers 2 -config MCDelivery.cfg MCDelivery
    tlapm MessageLogProofs.tla
    tlapm ConversationProofs.tla

and likewise for the other seven proof modules of section 2.

`PROJECT.json` lists every run with its module, configuration and properties,
the source lines of every definition, the hazards each property is for, and the
mutation that violates it.
