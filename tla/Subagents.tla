------------------------------ MODULE Subagents ------------------------------
(***************************************************************************)
(* Subagents (plugins/subagent/runtime.py, tools.py): a spawn call accepts *)
(* a job, a task in the slot of the job runs its program, and the outcome  *)
(* is read from the messages of the child session.  A synchronous job is   *)
(* answered by its call; a background one is reported in the parent        *)
(* session by the follower, and its report is sent by Delivery.            *)
(*                                                                         *)
(* Admission and the changes of the log do not suspend: a step is what the *)
(* event loop runs between two awaits.  All jobs have one parent session.  *)
(***************************************************************************)
EXTENDS Integers, FiniteSets

CONSTANTS
    Jobs,        \* the effect keys of the spawn calls
    Background,  \* those with run_in_background
    MaxActive,   \* _MAX_ACTIVE
    MaxErrors,   \* bound on jobs with an exception that is only logged
    MaxCancels,  \* bound on cancellations by spawn_manage
    MaxStops     \* bound on reloads and crashes

ASSUME SubagentsAssumption ==
    /\ Background \subseteq Jobs /\ IsFiniteSet(Jobs) /\ MaxActive \in Nat
    /\ MaxErrors \in Nat /\ MaxCancels \in Nat /\ MaxStops \in Nat

VARIABLES
    \* durable: the owner records, the logs, the records of Delivery
    job,        \* "none", "open" or "settled"
    outcome,    \* what the child session says of the job
    answer,     \* what the spawn call has returned
    report,     \* the outcome that the report in the parent session tells
    note,       \* the phase of the report's effect
    \* volatile
    task,       \* the task in the slot of each job
    call,       \* where the spawn call and the cancellation of a job are
    waiter,     \* wait of follow, for each key in active
    follower,   \* "up", "stopping" or "down"
    notified,   \* the catalog has a new head for the follower
    seen,       \* jobs whose heads equal their entry of attempted
    \* the environment and its bounds
    erred, cancels, stops

log == <<outcome, report>>
durable == <<job, log, answer, note>>
reader == <<notified, seen>>
bounds == <<erred, cancels, stops>>
vars == <<durable, task, call, waiter, follower, reader, bounds>>

Outcomes == {"completed", "cancelled", "failed"}
Receipts == {"delivered", "failed"}   \* a rejected one closes the report like a failed one
Callers == {"spawn", "manage"}

NoTask == [pc |-> "none", live |-> FALSE]
NewTask == [pc |-> "new", live |-> TRUE]
NoWaiter == [pc |-> "none", heard |-> "none"]

Free(k) == task[k].pc = "none"
Revoked(k) == [task EXCEPT ![k].live = FALSE]

\* start: the task in the slot, or a new one.
Started(K) == [k \in Jobs |-> IF k \in K /\ Free(k) THEN NewTask ELSE task[k]]

\* A message of the child's session, and one of the parent's session.
ChildWrites(k) == notified' = TRUE /\ seen' = seen \ {k}
ParentWrites == notified' = TRUE /\ seen' = {}

Open == {k \in Jobs : job[k] = "open"}

Init ==
    /\ job = [k \in Jobs |-> "none"] /\ outcome = [k \in Jobs |-> "none"]
    /\ answer = [k \in Jobs |-> "none"]
    /\ report = [k \in Jobs |-> "none"] /\ note = [k \in Jobs |-> "absent"]
    /\ task = [k \in Jobs |-> NoTask]
    /\ call = [c \in Jobs \X Callers |-> "none"]
    /\ waiter = [k \in Jobs |-> NoWaiter]
    /\ follower = "down" /\ notified = TRUE /\ seen = {}
    /\ erred = {} /\ cancels = 0 /\ stops = 0

-----------------------------------------------------------------------------
(* The spawn call and the cancellation of a job.                           *)

\* invoke: accept, and for a synchronous job start and join.  The execution of
\* the tool repeats a call that a crash left unanswered.
Invoke(k) ==
    /\ call[<<k, "spawn">>] = "none" /\ answer[k] = "none"
    /\ IF job[k] = "none" /\ Cardinality(Open) >= MaxActive
       THEN /\ answer' = [answer EXCEPT ![k] = "busy"]
            /\ UNCHANGED <<job, task, call, reader>>
       ELSE LET joins == k \notin Background /\ job[k] # "settled"
            IN  /\ call' = [call EXCEPT ![<<k, "spawn">>] = IF joins THEN "join" ELSE "query"]
                /\ task' = IF joins THEN Started({k}) ELSE task
                /\ IF job[k] = "none"
                   THEN job' = [job EXCEPT ![k] = "open"] /\ ChildWrites(k)
                   ELSE UNCHANGED <<job, reader>>
                /\ UNCHANGED answer
    /\ UNCHANGED <<log, note, waiter, follower, bounds>>

\* query and the end of the call.  An exception is the result of the effect, or
\* leaves it as it is for the next reply to ask again if it had been revoked.
Answers(k) ==
    LET at == call[<<k, "spawn">>] IN
    /\ at \in {"query", "raise"}
    /\ call' = [call EXCEPT ![<<k, "spawn">>] = "none"]
    /\ \E a \in IF at = "query" /\ k \in Background THEN {"created"}
               ELSE IF at = "query" /\ job[k] = "settled" THEN {outcome[k]}
               ELSE {"raised", "none"} : answer' = [answer EXCEPT ![k] = a]
    /\ UNCHANGED <<job, log, note, task, waiter, follower, reader, bounds>>

\* The effect of the spawn call is cancelled while it waits for its job.
CallerCancelled(k) ==
    /\ call[<<k, "spawn">>] = "join"
    /\ call' = [call EXCEPT ![<<k, "spawn">>] = "cancel"]
    /\ UNCHANGED <<durable, task, waiter, follower, reader, bounds>>

\* spawn_manage cancels a job.
Manage(k) ==
    /\ call[<<k, "manage">>] = "none" /\ job[k] # "none" /\ cancels < MaxCancels
    /\ cancels' = cancels + 1
    /\ call' = [call EXCEPT ![<<k, "manage">>] = "cancel"]
    /\ UNCHANGED <<durable, task, waiter, follower, reader, erred, stops>>

\* What the caller of cancel does when it returns.
After(c) == IF c[2] = "spawn" THEN "raise" ELSE "none"

\* Mutant: the running task keeps its right.
CancelIntent_Unrevoked(c) ==
    LET k == c[1] IN
    /\ call[c] = "cancel"
    /\ IF outcome[k] # "none"
       THEN call' = [call EXCEPT ![c] = After(c)] /\ UNCHANGED <<outcome, task, reader>>
       ELSE /\ outcome' = [outcome EXCEPT ![k] = "cancelled"]
            /\ ChildWrites(k)
            /\ call' = [call EXCEPT ![c] = IF Free(k) THEN "last" ELSE "drain"]
            /\ task' = IF Free(k) THEN Started({k}) ELSE task
    /\ UNCHANGED <<job, answer, report, note, waiter, follower, bounds>>

\* cancel: a job with an outcome is left alone; otherwise the pause is saved,
\* the task revoked and drained, and the job started again to be settled.
CancelIntent(c) ==
    LET k == c[1] IN
    /\ call[c] = "cancel"
    /\ IF outcome[k] # "none"
       THEN call' = [call EXCEPT ![c] = After(c)] /\ UNCHANGED <<outcome, task, reader>>
       ELSE /\ outcome' = [outcome EXCEPT ![k] = "cancelled"]
            /\ ChildWrites(k)
            /\ call' = [call EXCEPT ![c] = IF Free(k) THEN "last" ELSE "drain"]
            /\ task' = IF Free(k) THEN Started({k}) ELSE Revoked(k)
    /\ UNCHANGED <<job, answer, report, note, waiter, follower, bounds>>

\* Mutant: what was drained is not started again.
CancelAgain_Drained(c) ==
    /\ call[c] = "again"
    /\ call' = [call EXCEPT ![c] = After(c)]
    /\ UNCHANGED task
    /\ UNCHANGED <<durable, waiter, follower, reader, bounds>>

CancelAgain(c) ==
    LET starts == job[c[1]] # "settled" \/ ~Free(c[1]) IN
    /\ call[c] = "again"
    /\ call' = [call EXCEPT ![c] = IF starts THEN "last" ELSE After(c)]
    /\ task' = IF starts THEN Started({c[1]}) ELSE task
    /\ UNCHANGED <<durable, waiter, follower, reader, bounds>>

-----------------------------------------------------------------------------
(* The task of a job: _run.                                                *)

\* The task leaves its slot and everybody who joined it goes on: after a return
\* ("ok"), a cancellation or an exception.
Ends(k, how) ==
    /\ task' = [task EXCEPT ![k] = NoTask]
    /\ call' = [c \in Jobs \X Callers |->
            IF c[1] # k THEN call[c]
            ELSE CASE call[c] = "join" -> (CASE how = "ok" -> "query"
                                             [] how = "cancelled" -> "cancel"
                                             [] how = "error" -> "raise")
                   [] call[c] = "drain" -> (IF how = "error" THEN After(c) ELSE "again")
                   [] call[c] = "last" -> After(c)
                   [] OTHER -> call[c]]
    /\ waiter' = [waiter EXCEPT ![k] =
            CASE @.pc = "join" /\ how # "error" -> [@ EXCEPT !.pc = "look"]
              [] @.pc = "join" /\ how = "error" -> NoWaiter
              [] @.pc = "drain" -> NoWaiter
              [] OTHER -> @]

\* Mutant: the task settles every job.
Finishes_Always(k) == job' = [job EXCEPT ![k] = "settled"] /\ Ends(k, "ok")

\* The end of _run: the outcome is known, and a synchronous job is settled.
Finishes(k) ==
    /\ job' = IF k \in Background THEN job ELSE [job EXCEPT ![k] = "settled"]
    /\ Ends(k, "ok")

Elsewhere == <<report, answer, note, follower, bounds>>

\* Revoked before its first step: the operation never runs.
NeverRuns(k) ==
    /\ task[k].pc = "new" /\ ~task[k].live
    /\ Ends(k, "cancelled")
    /\ UNCHANGED <<job, outcome, reader, Elsewhere>>

\* The program runs only while the child session has no outcome.
Begins(k) ==
    /\ task[k].pc = "new" /\ task[k].live
    /\ IF outcome[k] = "none"
       THEN task' = [task EXCEPT ![k].pc = "program"] /\ UNCHANGED <<job, call, waiter>>
       ELSE Finishes(k)
    /\ UNCHANGED <<outcome, reader, Elsewhere>>

\* The program saves its closing Output, by the right of the task.
ProgramSaves(k) ==
    /\ task[k].pc = "program" /\ task[k].live
    /\ outcome' = [outcome EXCEPT ![k] = "completed"]
    /\ task' = [task EXCEPT ![k].pc = "closing"]
    /\ ChildWrites(k)
    /\ UNCHANGED <<job, call, waiter, Elsewhere>>

\* It has returned and its resources are closed.
ProgramReturns(k) ==
    /\ task[k].pc = "closing" /\ task[k].live
    /\ Finishes(k)
    /\ UNCHANGED <<outcome, reader, Elsewhere>>

\* The program or the closing of its resources raises: recorded by a task that
\* still has its right, even over its own Output.
ProgramRaises(k) ==
    /\ task[k].pc \in {"program", "closing"} /\ task[k].live
    /\ outcome' = [outcome EXCEPT ![k] = "failed"]
    /\ ChildWrites(k)
    /\ Finishes(k)
    /\ UNCHANGED Elsewhere

\* One that was revoked raises something else than CancelledError: everybody
\* who waits for the task gets the exception, the caller of cancel too, who does
\* not come to start the job again.
RevokedRaises(k) ==
    /\ task[k].pc \in {"program", "closing"} /\ ~task[k].live
    /\ Cardinality(erred \cup {k}) <= MaxErrors
    /\ erred' = erred \cup {k}
    /\ Ends(k, "error")
    /\ UNCHANGED <<job, log, reader, answer, note, follower, cancels, stops>>

\* The program returns without a final Output: _run raises, which is recorded
\* nowhere.
ReturnsNothing(k) ==
    /\ task[k].pc = "program" /\ task[k].live
    /\ Cardinality(erred \cup {k}) <= MaxErrors
    /\ erred' = erred \cup {k}
    /\ Ends(k, "error")
    /\ UNCHANGED <<job, log, reader, answer, note, follower, cancels, stops>>

\* CancelledError: a job without an outcome keeps its input.
Interrupted(k) ==
    /\ task[k].pc \in {"program", "closing"} /\ ~task[k].live
    /\ IF outcome[k] = "none" THEN Ends(k, "cancelled") /\ UNCHANGED job ELSE Finishes(k)
    /\ UNCHANGED <<outcome, reader, Elsewhere>>

-----------------------------------------------------------------------------
(* follow, wait and _announce.                                             *)

\* The runtime starts, in a new process or after a reload; the slots survive a
\* reload.
Boot ==
    /\ follower = "down"
    /\ follower' = "up" /\ notified' = TRUE /\ seen' = {}
    /\ UNCHANGED <<durable, task, call, waiter, bounds>>

\* Another message of the child's or of the parent's session of an open job.
Talk(k) ==
    /\ follower = "up" /\ k \in Open
    /\ ChildWrites(k) \/ ParentWrites
    /\ UNCHANGED <<durable, task, call, waiter, follower, bounds>>

\* One round of the loop.
Follow ==
    /\ follower = "up" /\ notified
    /\ LET K == {k \in Open \ seen : waiter[k] = NoWaiter}
       IN  /\ task' = Started(K)
           /\ waiter' = [k \in Jobs |-> IF k \in K THEN [NoWaiter EXCEPT !.pc = "join"] ELSE waiter[k]]
           /\ seen' = seen \cup K
    /\ notified' = FALSE
    /\ UNCHANGED <<durable, call, follower, bounds>>

GoTo(k, pc) == waiter' = [waiter EXCEPT ![k].pc = pc]
Leaves(k) == waiter' = [waiter EXCEPT ![k] = NoWaiter]

\* After the join: an open background job with an outcome is announced; a
\* report that is already in the parent session is only sent.
Looks(k) ==
    /\ waiter[k].pc = "look"
    /\ IF k \in Background /\ job[k] = "open" /\ outcome[k] # "none"
       THEN waiter' = [waiter EXCEPT ![k] =
               [pc |-> IF report[k] = "none" THEN "report" ELSE "send", heard |-> outcome[k]]]
       ELSE Leaves(k)
    /\ UNCHANGED <<durable, task, call, follower, reader, bounds>>

\* complete: the main program reports what the waiter has read.
Reports(k) ==
    /\ waiter[k].pc = "report"
    /\ report' = [report EXCEPT ![k] = waiter[k].heard]
    /\ ParentWrites
    /\ GoTo(k, "send")
    /\ UNCHANGED <<job, outcome, answer, note, task, call, follower, bounds>>

\* Deliveries.prepare and send, as Delivery specifies them.
Sends(k) ==
    /\ waiter[k].pc = "send"
    /\ note' = [note EXCEPT ![k] = CASE @ = "absent" -> "prepared" [] @ = "prepared" -> "started" [] OTHER -> @]
    /\ GoTo(k, CASE note[k] = "absent" -> "send"
                 [] note[k] = "prepared" -> "sending"
                 [] note[k] = "started" -> "query"
                 [] OTHER -> "settle")
    /\ UNCHANGED <<job, log, answer, task, call, follower, reader, bounds>>

SendRepeats(k) ==
    /\ waiter[k].pc = "query"
    /\ GoTo(k, "sending")
    /\ UNCHANGED <<durable, task, call, follower, reader, bounds>>

Receipt(k, phase) ==
    /\ waiter[k].pc \in {"query", "sending"}
    /\ note' = [note EXCEPT ![k] = phase]
    /\ GoTo(k, "settle")
    /\ UNCHANGED <<job, log, answer, task, call, follower, reader, bounds>>

Settles(k) ==
    /\ waiter[k].pc = "settle"
    /\ job' = [job EXCEPT ![k] = "settled"]
    /\ Leaves(k)
    /\ UNCHANGED <<log, answer, note, task, call, follower, reader, bounds>>

\* The sender raises in send: Delivery saves a failure, and with it the job is
\* settled.
SenderRaises(k) ==
    /\ waiter[k].pc = "sending"
    /\ note' = [note EXCEPT ![k] = "failed"]
    /\ job' = [job EXCEPT ![k] = "settled"]
    /\ Leaves(k)
    /\ UNCHANGED <<log, answer, task, call, follower, reader, bounds>>

\* The report, the binding of the sender or its query raises: only logged.
AnnounceRaises(k) ==
    /\ waiter[k].pc \in {"report", "send", "query"}
    /\ Cardinality(erred \cup {k}) <= MaxErrors
    /\ erred' = erred \cup {k}
    /\ Leaves(k)
    /\ UNCHANGED <<durable, task, call, follower, reader, cancels, stops>>

\* RUNTIME_STOPPING: every waiter is cancelled.  One that waits for its task
\* revokes and drains it; a send under way, or its query, is drained.
Stop ==
    /\ follower = "up" /\ stops < MaxStops
    /\ stops' = stops + 1
    /\ follower' = "stopping"
    /\ task' = [k \in Jobs |-> IF waiter[k].pc = "join" THEN [task[k] EXCEPT !.live = FALSE] ELSE task[k]]
    /\ waiter' = [k \in Jobs |-> CASE waiter[k].pc = "join" -> [NoWaiter EXCEPT !.pc = "drain"]
                                   [] waiter[k].pc = "sending" -> [NoWaiter EXCEPT !.pc = "halt"]
                                   [] waiter[k].pc = "query" -> [NoWaiter EXCEPT !.pc = "ask"]
                                   [] OTHER -> NoWaiter]
    /\ UNCHANGED <<durable, call, reader, erred, cancels>>

Halted(k, phase) ==
    /\ \/ waiter[k].pc \in {"halt", "ask"} /\ note' = [note EXCEPT ![k] = phase]
       \/ waiter[k].pc = "ask" /\ UNCHANGED note
    /\ Leaves(k)
    /\ UNCHANGED <<job, log, answer, task, call, follower, reader, bounds>>

Stopped ==
    /\ follower = "stopping"
    /\ \A k \in Jobs : waiter[k] = NoWaiter
    /\ follower' = "down"
    /\ UNCHANGED <<durable, task, call, waiter, reader, bounds>>

Crash ==
    /\ follower # "down" /\ stops < MaxStops
    /\ stops' = stops + 1
    /\ follower' = "down"
    /\ task' = [k \in Jobs |-> NoTask]
    /\ call' = [c \in Jobs \X Callers |-> "none"]
    /\ waiter' = [k \in Jobs |-> NoWaiter]
    /\ UNCHANGED <<durable, reader, erred, cancels>>

-----------------------------------------------------------------------------
Runs(k) ==
    \/ NeverRuns(k) \/ Begins(k) \/ ProgramSaves(k) \/ ProgramReturns(k) \/ Interrupted(k)

Waits(k) ==
    \/ Looks(k) \/ Reports(k) \/ Sends(k) \/ SendRepeats(k) \/ Settles(k)
    \/ \E phase \in Receipts : Receipt(k, phase) \/ Halted(k, phase)

Cancels(c) == CancelIntent(c) \/ CancelAgain(c)

Next ==
    \/ \E k \in Jobs :
        \/ Invoke(k) \/ Answers(k) \/ CallerCancelled(k) \/ Manage(k) \/ Talk(k)
        \/ Runs(k) \/ ProgramRaises(k) \/ RevokedRaises(k) \/ ReturnsNothing(k)
        \/ Waits(k) \/ SenderRaises(k) \/ AnnounceRaises(k)
    \/ \E c \in Jobs \X Callers : Cancels(c)
    \/ Boot \/ Follow \/ Stop \/ Stopped \/ Crash

\* The event loop runs what is runnable, and the runtime starts again; programs,
\* the main program and senders answer, raise or are interrupted.  Nobody has
\* to call, to cancel or to write another message.
Fairness ==
    /\ WF_vars(Boot \/ Follow \/ Stopped)
    /\ \A k \in Jobs : /\ WF_vars(Runs(k)) /\ WF_vars(Waits(k))
                       /\ WF_vars(Answers(k) \/ Cancels(<<k, "spawn">>))
                       /\ WF_vars(Cancels(<<k, "manage">>))

Spec == Init /\ [][Next]_vars /\ Fairness

-----------------------------------------------------------------------------
TypeOK ==
    /\ job \in [Jobs -> {"none", "open", "settled"}]
    /\ outcome \in [Jobs -> Outcomes \cup {"none"}] /\ report \in [Jobs -> Outcomes \cup {"none"}]
    /\ answer \in [Jobs -> Outcomes \cup {"none", "busy", "created", "raised"}]
    /\ note \in [Jobs -> Receipts \cup {"absent", "prepared", "started"}]
    /\ task \in [Jobs -> [pc : {"none", "new", "program", "closing"}, live : BOOLEAN]]
    /\ call \in [Jobs \X Callers ->
            {"none", "join", "query", "raise", "cancel", "drain", "again", "last"}]
    /\ waiter \in [Jobs -> [pc : {"none", "join", "look", "report", "send", "query", "sending",
                                  "settle", "drain", "halt", "ask"},
                            heard : Outcomes \cup {"none"}]]
    /\ follower \in {"up", "stopping", "down"} /\ notified \in BOOLEAN /\ seen \subseteq Jobs
    /\ erred \subseteq Jobs /\ cancels \in 0 .. MaxCancels /\ stops \in 0 .. MaxStops

\* What is told is what the child session says, then and for ever: an answer
\* comes from a settled job, a report from a background one, although the
\* closing of a program may turn its result into a failure and a cancellation,
\* a restart and another announcement may come in between.
ToldTruly ==
    \A k \in Jobs :
        /\ answer[k] \in Outcomes => k \notin Background /\ job[k] = "settled" /\ answer[k] = outcome[k]
        /\ report[k] # "none" => k \in Background /\ report[k] = outcome[k]
        /\ note[k] # "absent" => report[k] # "none"

\* A job gives its place back only when it has an outcome and, in the
\* background, a receipt of its report; so no job is forgotten and at most
\* MaxActive are open.
SettledLast ==
    /\ Cardinality(Open) <= MaxActive
    /\ \A k \in Jobs : job[k] = "settled" =>
            outcome[k] # "none" /\ (k \in Background => note[k] \in Receipts)

\* A task is what the child session lets it be: its program runs without an
\* outcome, and only a task that still has its right and has just saved its
\* result may replace it, while nobody has been told.
TasksFit ==
    \A k \in Jobs :
        /\ Free(k) => task[k] = NoTask
        /\ task[k].pc = "program" => outcome[k] = "none" \/ ~task[k].live
        /\ task[k].pc = "closing" => outcome[k] # "none"
        /\ task[k].pc = "closing" /\ task[k].live =>
                outcome[k] = "completed" /\ report[k] = "none" /\ answer[k] \notin Outcomes
        /\ k \notin Background /\ job[k] = "settled" => Free(k)

\* A waiter announces an outcome that no task can change any more: while the
\* task of a background job may still decide it, the waiter is in its join.
WaitersFit ==
    \A k \in Jobs :
        /\ waiter[k].pc = "none" => waiter[k] = NoWaiter
        /\ waiter[k].pc \in {"report", "send", "query", "sending", "settle"} =>
                k \in Background /\ outcome[k] # "none" /\ waiter[k].heard = outcome[k]
        /\ waiter[k].pc \in {"send", "query", "sending", "settle", "halt", "ask"} => report[k] # "none"
        /\ waiter[k].pc = "settle" => note[k] \in Receipts
        /\ k \in Background /\ ~Free(k) /\ task[k].live
              /\ (task[k].pc = "closing" \/ outcome[k] = "none") => waiter[k].pc = "join"

\* Who waits for a task has one in the slot, whoever cancels has saved the
\* outcome before, and a job that was not accepted has nothing at all.
JoinsHeld ==
    \A k \in Jobs :
        /\ waiter[k].pc \in {"join", "drain"} => ~Free(k)
        /\ \A w \in Callers :
                /\ call[<<k, w>>] \in {"join", "drain", "last"} => ~Free(k)
                /\ call[<<k, w>>] \in {"drain", "again", "last"} => outcome[k] # "none"
        /\ job[k] = "none" =>
                /\ outcome[k] = "none" /\ Free(k) /\ waiter[k] = NoWaiter
                /\ \A w \in Callers : call[<<k, w>>] = "none"

\* The inductive invariant.
JobInv == TypeOK /\ ToldTruly /\ SettledLast /\ TasksFit /\ WaitersFit /\ JoinsHeld

\* The outcome of a job is decided once: only the task that has just saved it
\* may replace its result by a failure, and nobody has been told before.
OutcomesHold ==
    [][\A k \in Jobs : outcome[k] # "none" /\ outcome'[k] # outcome[k] =>
        /\ outcome[k] = "completed" /\ outcome'[k] = "failed"
        /\ task[k].pc = "closing" /\ task[k].live
        /\ answer[k] \notin Outcomes /\ report[k] = "none"]_vars

\* An accepted job is settled, through reloads and crashes, cancellations at
\* any point and notifications that come while it is already being waited for,
\* unless its report, the sender's query or its revoked program has raised, or
\* its program has returned nothing: then it waits for another message or the
\* next start.
JobsSettle ==
    \A k \in Jobs : job[k] = "open" ~> job[k] = "settled" \/ k \in erred
=============================================================================
