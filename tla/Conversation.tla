---------------------------- MODULE Conversation ----------------------------
(***************************************************************************)
(* One conversational source of one Session: the owner of its inputs and   *)
(* controls (plugins/conversation/source.py), the reply program it admits  *)
(* (plugins/conversation/program.py, plugins/react/plugin.py), the         *)
(* follower that drives it (plugins/reply/follow.py), a caller of complete *)
(* that shares its slot and the consumer of abandon controls               *)
(* (plugins/tools/abandon.py), over the message log and the task slot of   *)
(* the source (agent/plugin_composition/tasks.py).                         *)
(*                                                                         *)
(* Everything runs on one event loop: a step is what happens between two   *)
(* awaits.  Positions in log are 1, 2, ... where the code has seq 0, 1,    *)
(* ...; position 0 stands for the code's -1.                               *)
(***************************************************************************)
EXTENDS Integers, Sequences, FiniteSets

CONSTANTS
    MaxSteps,      \* max_steps of react: model outputs per open segment
    MaxCalls,      \* tool calls in one Output
    Moves,         \* what the user and the gate may do in this instance
    MaxInputs,     \* bound on accepted inputs
    MaxControls,   \* bound on pause, resume and abandon controls and on complete
    MaxCrashes     \* bound on process restarts

ASSUME BoundsAssumption ==
    /\ MaxSteps \in Nat \ {0} /\ MaxCalls \in Nat
    /\ MaxInputs \in Nat /\ MaxControls \in Nat /\ MaxCrashes \in Nat

VARIABLES
    log,         \* the messages of the source, durable
    started,     \* calls whose receipt is in phase started, durable
    task,        \* the task in the source's slot
    drive,       \* where the drive coroutine of the follower is
    wake,        \* _Wake.changed
    followHead,  \* head the reply follower read last
    abandonHead, \* head the abandon consumer has consumed (seen)
    abandonTodo, \* calls the abandon consumer still has to settle
    report,      \* a caller of complete and the messages it has seen
    gateOpen,    \* RestartGate.accepting
    crashes      \* restarts so far

vars == <<log, started, task, drive, wake, followHead, abandonHead,
          abandonTodo, report, gateOpen, crashes>>

consumers == <<abandonHead, abandonTodo, followHead, report>>
driver == <<drive, wake>>

-----------------------------------------------------------------------------
(* Messages.  An Output remembers the head its author had read (basis),    *)
(* a failure the head its task started from (seen), the head of its last   *)
(* Output when that was refused (basis) and whether it was refused         *)
(* (cause): history the code does not store.                               *)
InputMessage == [kind |-> "input"]

OutputMessage(n, finish, basis) ==
    [kind |-> "output", calls |-> n, finish |-> finish, basis |-> basis]

ResultMessage(ref) == [kind |-> "tool_result", ref |-> ref]

ControlMessage(action, through) ==
    [kind |-> "control", action |-> action, through |-> through]

FailureMessage(through, seen, basis, cause) ==
    [kind |-> "control", action |-> "failure", through |-> through,
     seen |-> seen, basis |-> basis, cause |-> cause]

IsInput(m) == m.kind = "input"
IsClosing(m) == m.kind = "output" /\ m.finish # "continue"
IsControl(m, actions) == m.kind = "control" /\ m.action \in actions

Biggest(S) == IF S = {} THEN 0 ELSE CHOOSE x \in S : \A y \in S : y <= x

Prefix(l, n) == SubSeq(l, 1, n)

-----------------------------------------------------------------------------
(* What the log asks for.                                                  *)

LatestInput(l) == Biggest({p \in DOMAIN l : IsInput(l[p])})

(* The end of the closed part: the last closing Output or the farthest     *)
(* abandoned prefix, whichever the scan keeps.                             *)
Boundary(l) ==
    LET b[n \in 0 .. Len(l)] ==
          IF n = 0 THEN 0
          ELSE IF IsClosing(l[n]) THEN n
          ELSE IF IsControl(l[n], {"abandon"})
               THEN Biggest({b[n - 1], l[n].through})
          ELSE b[n - 1]
    IN  b[Len(l)]

PausedThrough(l) ==
    LET p[n \in 0 .. Len(l)] ==
          IF n = 0 THEN 0
          ELSE IF IsControl(l[n], {"pause", "failure"})
               THEN Biggest({p[n - 1], l[n].through})
          ELSE IF IsControl(l[n], {"resume"}) /\ l[n].through >= p[n - 1]
               THEN 0
          ELSE p[n - 1]
    IN  p[Len(l)]

NeedsReply(l) == LatestInput(l) > Biggest({Boundary(l), PausedThrough(l)})

CallsOf(l, p) ==
    IF l[p].kind = "output" THEN {<<p, i>> : i \in 1 .. l[p].calls} ELSE {}

Calls(l) == UNION {CallsOf(l, p) : p \in DOMAIN l}

Answered(l) == {l[p].ref : p \in {q \in DOMAIN l : l[q].kind = "tool_result"}}

PendingCalls(l) == {c \in Calls(l) \ Answered(l) : c[1] > Boundary(l)}

(* Completed model outputs of the open segment; a closing Output clears    *)
(* them, an abandon drops those it covers.                                 *)
Steps(l) ==
    Cardinality({p \in DOMAIN l :
        /\ l[p].kind = "output" /\ l[p].finish = "continue"
        /\ \A q \in p + 1 .. Len(l) :
              ~ IsClosing(l[q])
              /\ (IsControl(l[q], {"abandon"}) => l[q].through < p)})

(* MessageReply.abandoned.                                                 *)
Abandoned(l, c) ==
    \E p \in c[1] + 1 .. Len(l) :
        IsControl(l[p], {"abandon"}) /\ l[p].through >= c[1]

(* abandoned_calls for one abandon control: the calls of its prefix after  *)
(* the last closing Output in it, answered or not.                         *)
AbandonedBy(l, a) ==
    {c \in Calls(Prefix(l, l[a].through)) :
        ~ \E q \in c[1] + 1 .. l[a].through : IsClosing(l[q])}

-----------------------------------------------------------------------------
(* The task slot.  A cancelled task has lost its writer at once, but it    *)
(* holds the slot until its coroutine really ends.                         *)
NoTask == [pc |-> "none"]

NewTask ==
    [pc |-> "new", active |-> TRUE, seen |-> 0, head |-> 0, todo |-> {},
     cause |-> "none"]

Live == task.pc # "none"

(* An exception on its way to the failure record of start.                 *)
Raised == [task EXCEPT !.pc = "failing", !.cause = "error", !.head = 0, !.todo = {}]

(* The program of complete: a reply in a source of its own, of which only  *)
(* the slot matters here.                                                  *)
NewReportTask == [NewTask EXCEPT !.pc = "report"]

NoReport == [pc |-> "none", seen |-> 0]

(* Mutant: the running reply keeps its writer. *)
CancelTask_Keep(t) == t

CancelTask(t) == IF t.pc = "none" THEN t ELSE [t EXCEPT !.active = FALSE]

(* What counts against MaxControls and MaxInputs.                          *)
Controls ==
    Cardinality({p \in DOMAIN log : IsControl(log[p], {"pause", "resume", "abandon"})})
        + (IF report.pc = "none" THEN 0 ELSE 1)
Inputs == Cardinality({p \in DOMAIN log : IsInput(log[p])})

-----------------------------------------------------------------------------
Init ==
    /\ log = <<>>
    /\ started = {}
    /\ task = NoTask
    /\ drive = "none"
    /\ wake = FALSE
    /\ followHead = 0
    /\ abandonHead = 0
    /\ abandonTodo = {}
    /\ report = NoReport
    /\ gateOpen = TRUE
    /\ crashes = 0

(* Conversation.accept: append first, then revoke the running reply.       *)
Accept ==
    /\ Inputs < MaxInputs
    /\ gateOpen
    /\ log' = Append(log, InputMessage)
    /\ task' = CancelTask(task)
    /\ UNCHANGED <<started, driver, consumers, gateOpen, crashes>>

(* Conversation.pause: the whole source up to its head.                    *)
Pause ==
    /\ Controls < MaxControls
    /\ log # <<>>
    /\ log' = Append(log, ControlMessage("pause", Len(log)))
    /\ task' = CancelTask(task)
    /\ UNCHANGED <<started, driver, consumers, gateOpen, crashes>>

(* Conversation.control with a pause or resume of a chosen prefix, the     *)
(* current head and, when a task is active, its handle.                    *)
Control(action, through) ==
    /\ Controls < MaxControls
    /\ action \in {"pause", "resume"}
    /\ log' = Append(log, ControlMessage(action, through))
    /\ task' = IF action = "resume" THEN task ELSE CancelTask(task)
    /\ UNCHANGED <<started, driver, consumers, gateOpen, crashes>>

(* Conversation.control with an abandon: not of a closed prefix.           *)
Abandon(through) ==
    /\ Controls < MaxControls
    /\ ~ \E p \in DOMAIN log :
          \/ IsClosing(log[p]) /\ p >= through
          \/ IsControl(log[p], {"abandon"}) /\ log[p].through >= through
    /\ log' = Append(log, ControlMessage("abandon", through))
    /\ task' = CancelTask(task)
    /\ UNCHANGED <<started, driver, consumers, gateOpen, crashes>>

(* Conversation.resume of the latest input.                                *)
Resume ==
    LET i == LatestInput(log)
        cs == {p \in DOMAIN log : log[p].kind = "control"}
    IN  /\ Controls < MaxControls
        /\ i > 0
        /\ ~ \E p \in i + 1 .. Len(log) :
              \/ IsClosing(log[p])
              \/ IsControl(log[p], {"abandon"}) /\ log[p].through >= i
        /\ cs # {}
        /\ IsControl(log[Biggest(cs)], {"failure", "pause"})
        /\ ~ (Live /\ task.active)
        /\ gateOpen
        /\ log' = Append(log, ControlMessage("resume", Len(log)))
        /\ UNCHANGED <<started, task, driver, consumers, gateOpen, crashes>>

-----------------------------------------------------------------------------
(* plugins/reply/follow.py: the follower and its drive coroutine.          *)

(* Mutant: a drive that is already running is not told. *)
Follow_Deaf ==
    /\ followHead # Len(log)
    /\ followHead' = Len(log)
    /\ wake' = IF drive = "none" THEN TRUE ELSE wake
    /\ drive' = IF drive = "none" THEN "loop" ELSE drive
    /\ UNCHANGED <<log, started, task, abandonHead, abandonTodo, report, gateOpen, crashes>>

Follow ==
    /\ followHead # Len(log)
    /\ followHead' = Len(log)
    /\ wake' = TRUE
    /\ drive' = IF drive = "none" THEN "loop" ELSE drive
    /\ UNCHANGED <<log, started, task, abandonHead, abandonTodo, report, gateOpen, crashes>>

(* The while test and the removal from active are one step.                *)
DriveLoop ==
    /\ drive = "loop"
    /\ wake' = FALSE
    /\ drive' = IF wake THEN "start" ELSE "none"
    /\ UNCHANGED <<log, started, task, consumers, gateOpen, crashes>>

(* Conversation.start, first admission: an active task is joined, a        *)
(* revoked one is drained first.                                           *)
DriveCurrent ==
    /\ drive = "start"
    /\ drive' = IF ~ Live THEN "admit" ELSE IF task.active THEN "join" ELSE "drain"
    /\ UNCHANGED <<log, started, task, wake, consumers, gateOpen, crashes>>

DriveDrained ==
    /\ drive = "drain"
    /\ ~ Live
    /\ drive' = "admit"
    /\ UNCHANGED <<log, started, task, wake, consumers, gateOpen, crashes>>

(* Second admission: the log decides, then the gate, then the slot.  A     *)
(* caller of complete that joined the task before is released by its end.  *)
(* The drive looks at the gate again when start returns None; nothing      *)
(* between the two suspends it.                                            *)
DriveAdmit ==
    /\ drive = "admit"
    /\ \/ /\ Live
          /\ drive' = "join"
          /\ UNCHANGED <<task, report>>
       \/ /\ ~ Live
          /\ NeedsReply(log)
          /\ gateOpen
          /\ task' = NewTask
          /\ drive' = "join"
          /\ report' = [report EXCEPT !.pc = IF @ = "join" THEN "look" ELSE @]
       \/ /\ ~ Live
          /\ ~ (NeedsReply(log) /\ gateOpen)
          /\ drive' = IF gateOpen THEN "loop" ELSE "gate"
          /\ UNCHANGED <<task, report>>
    /\ UNCHANGED <<log, started, wake, abandonHead, abandonTodo, followHead, gateOpen, crashes>>

(* restart_gate.wait_until_open, then look again.                          *)
DriveGate ==
    /\ drive = "gate"
    /\ gateOpen
    /\ drive' = "loop"
    /\ wake' = TRUE
    /\ UNCHANGED <<log, started, task, consumers, gateOpen, crashes>>

DriveJoin ==
    /\ drive = "join"
    /\ ~ Live
    /\ drive' = "loop"
    /\ wake' = TRUE
    /\ UNCHANGED <<log, started, task, consumers, gateOpen, crashes>>

-----------------------------------------------------------------------------
(* The reply program.  A cancelled coroutine normally unwinds at its next  *)
(* await; code of another plugin in between may swallow the cancellation,  *)
(* so a revoked task may also go on until a check stops it.                *)

(* Mutant: check_start looks at nothing. *)
SourceUnchanged_Unchecked == TRUE

(* check_source: nothing new from the user since the program started.      *)
SourceUnchanged ==
    /\ task.active
    /\ ~ \E p \in task.seen + 1 .. Len(log) :
          IsInput(log[p]) \/ log[p].kind = "control"

TaskEnds ==
    /\ task' = NoTask
    /\ UNCHANGED <<log, started, driver, consumers, gateOpen, crashes>>

Unwinding == {"new", "run", "settle", "call", "model"}

(* CancelledError at an await.  A call in progress is shielded instead.    *)
TaskUnwind ==
    /\ task.pc \in Unwinding
    /\ ~ task.active
    /\ TaskEnds

(* run_reply starts: a task cancelled before it ran never gets here.       *)
TaskRun ==
    /\ task.pc = "new"
    /\ task.active
    /\ task' = [task EXCEPT !.pc = "run", !.seen = Len(log)]
    /\ UNCHANGED <<log, started, driver, consumers, gateOpen, crashes>>

(* Mutant: a call that was started before is left to its old execution. *)
TaskPending_NotStarted ==
    /\ task.pc = "run"
    /\ task' = [task EXCEPT !.pc = "settle", !.todo = PendingCalls(log) \ started]
    /\ UNCHANGED <<log, started, driver, consumers, gateOpen, crashes>>

(* react, top of the loop: the calls to settle are read once.              *)
TaskPending ==
    /\ task.pc = "run"
    /\ task' = [task EXCEPT !.pc = "settle", !.todo = PendingCalls(log)]
    /\ UNCHANGED <<log, started, driver, consumers, gateOpen, crashes>>

(* Calls are settled one after the other, in log order.                    *)
First(cs) == CHOOSE c \in cs :
    \A d \in cs : c[1] < d[1] \/ (c[1] = d[1] /\ c[2] <= d[2])

(* ToolExecution answers a call that has no result yet; a result that is   *)
(* there already is only read.                                             *)
Answer(c) == IF c \in Answered(log) THEN log ELSE Append(log, ResultMessage(c))

(* _settle of one call up to the start of its effect: settled elsewhere,   *)
(* recovered or refused without an effect, stopped by check_start, or      *)
(* started.                                                                *)
TaskCall ==
    /\ task.pc = "settle"
    /\ task.todo # {}
    /\ LET c == First(task.todo)
           rest == [task EXCEPT !.todo = @ \ {c}]
       IN  \/ /\ log' = Answer(c)
              /\ task' = rest
              /\ UNCHANGED started
           \/ /\ c \notin Answered(log) \cup started
              /\ ~ SourceUnchanged
              /\ task' = NoTask
              /\ UNCHANGED <<log, started>>
           \/ /\ c \notin Answered(log) \cup started
              /\ SourceUnchanged
              /\ started' = started \cup {c}
              /\ task' = [task EXCEPT !.pc = "effect"]
              /\ UNCHANGED log
    /\ UNCHANGED <<driver, consumers, gateOpen, crashes>>

(* The effect ends, or the abandon consumer answered for it; _settle is    *)
(* shielded, so even a cancelled task waits for this before it unwinds.  A *)
(* tool that raised is answered with its error and raises here too; it is  *)
(* not answered when the result itself cannot be recorded.                 *)
TaskEffect ==
    /\ task.pc = "effect"
    /\ LET c == First(task.todo)
       IN  \/ /\ task.active
              /\ log' = Answer(c)
              /\ task' = [task EXCEPT !.pc = "settle", !.todo = @ \ {c}]
           \/ /\ task.active
              /\ log' \in {log, Answer(c)}
              /\ task' = Raised
           \/ /\ ~ task.active
              /\ log' \in {log, Answer(c)}
              /\ task' = NoTask
    /\ UNCHANGED <<started, driver, consumers, gateOpen, crashes>>

(* Mutant: a new input starts a new budget. *)
TaskThink_SinceInput ==
    /\ task.pc = "settle"
    /\ task.todo = {}
    /\ task' = IF /\ Steps(log) >= MaxSteps
                  /\ \E p \in DOMAIN log : p > LatestInput(log) /\ log[p].kind = "output"
               THEN Raised
               ELSE [task EXCEPT !.pc = "model", !.head = Len(log)]
    /\ UNCHANGED <<log, started, driver, consumers, gateOpen, crashes>>

(* All calls settled: take the snapshot, check the budget, ask the model.  *)
TaskThink ==
    /\ task.pc = "settle"
    /\ task.todo = {}
    /\ task' = IF Steps(log) >= MaxSteps
               THEN Raised
               ELSE [task EXCEPT !.pc = "model", !.head = Len(log)]
    /\ UNCHANGED <<log, started, driver, consumers, gateOpen, crashes>>

(* With the materials or a summary at hand check_source finds news: the    *)
(* task ends without a message, although a resume leaves it its writer.    *)
TaskStops ==
    /\ task.pc = "model"
    /\ ~ SourceUnchanged
    /\ TaskEnds

(* The setup of the program, a tool before its effect, the materials, the  *)
(* provider or the content decoder raises (what raises before the calls    *)
(* are read leaves the same behind as what raises right after).            *)
TaskRaises ==
    /\ task.pc \in {"settle", "model"}
    /\ task' = Raised
    /\ UNCHANGED <<log, started, driver, consumers, gateOpen, crashes>>

(* The model answers: an expired writer or a moved head refuses the        *)
(* Output.  A continue without calls had only malformed ones.              *)
TaskOutput(n, finish) ==
    /\ task.pc = "model"
    /\ \/ /\ ~ task.active
          /\ task' = Raised
          /\ UNCHANGED log
       \/ /\ task.active
          /\ Len(log) # task.head
          /\ task' = [task EXCEPT !.pc = "failing", !.cause = "conflict"]
          /\ UNCHANGED log
       \/ /\ task.active
          /\ Len(log) = task.head
          /\ log' = Append(log, OutputMessage(n, finish, task.head))
          /\ task' = IF finish = "complete" THEN NoTask
                     ELSE [task EXCEPT !.pc = "run", !.head = 0]
    /\ UNCHANGED <<started, driver, consumers, gateOpen, crashes>>

(* Mutant: a revoked task records its failure too. *)
TaskFailed_Revoked ==
    /\ task.pc = "failing"
    /\ log' = Append(log, FailureMessage(Len(log), task.seen, task.head, task.cause))
    /\ task' = NoTask
    /\ UNCHANGED <<started, driver, consumers, gateOpen, crashes>>

(* Conversation.start: the failure is recorded by the task that still      *)
(* holds its source, in one admission.                                     *)
TaskFailed ==
    /\ task.pc = "failing"
    /\ log' = IF task.active
              THEN Append(log, FailureMessage(Len(log), task.seen, task.head, task.cause))
              ELSE log
    /\ task' = NoTask
    /\ UNCHANGED <<started, driver, consumers, gateOpen, crashes>>

-----------------------------------------------------------------------------
(* Conversation.complete: the result of a subagent is reported by a        *)
(* program in the slot of its parent when no input asks for a reply.       *)

ReportStep == UNCHANGED <<log, started, abandonHead, abandonTodo, followHead, gateOpen, crashes>>

(* The job was started by a message of this Session (bound: in the first   *)
(* life of the process).                                                   *)
Complete ==
    /\ report.pc = "none" /\ crashes = 0
    /\ Controls < MaxControls
    /\ log # <<>>
    /\ report' = [pc |-> "wait", seen |-> 0]
    /\ ReportStep /\ UNCHANGED <<task, driver>>

(* The reader's subscription yields the next message.                      *)
CompleteNotified ==
    /\ report.pc = "wait"
    /\ report.seen < Len(log)
    /\ report' = [pc |-> "look", seen |-> report.seen + 1]
    /\ ReportStep /\ UNCHANGED <<task, driver>>

(* Mutant: an occupied slot is left to the next message too. *)
CompleteAdmit_NoJoin ==
    /\ report.pc = "look"
    /\ IF Live \/ NeedsReply(log)
       THEN /\ report' = [report EXCEPT !.pc = "wait"]
            /\ UNCHANGED <<task, driver>>
       ELSE /\ report' = [report EXCEPT !.pc = "own"]
            /\ task' = NewReportTask
            /\ UNCHANGED driver
    /\ ReportStep

(* Join whatever is in the slot, leave the slot to a wanted reply, or      *)
(* start.  A drive that waited for the task before is released by its end. *)
CompleteAdmit ==
    /\ report.pc = "look"
    /\ \/ /\ Live
          /\ report' = [report EXCEPT !.pc = "join"]
          /\ UNCHANGED <<task, driver>>
       \/ /\ ~ Live
          /\ NeedsReply(log)
          /\ report' = [report EXCEPT !.pc = "wait"]
          /\ UNCHANGED <<task, driver>>
       \/ /\ ~ Live
          /\ ~ NeedsReply(log)
          /\ report' = [report EXCEPT !.pc = "own"]
          /\ task' = NewReportTask
          /\ drive' = CASE drive = "join" -> "loop"
                        [] drive = "drain" -> "admit"
                        [] OTHER -> drive
          /\ wake' = (wake \/ drive = "join")
    /\ ReportStep

CompleteJoined ==
    /\ report.pc = "join"
    /\ ~ Live
    /\ report' = [report EXCEPT !.pc = "look"]
    /\ ReportStep /\ UNCHANGED <<task, driver>>

(* The program returns or raises: so does complete.                        *)
CompleteEnds ==
    /\ task.pc = "report"
    /\ task' = NoTask
    /\ report' = [report EXCEPT !.pc = "done"]
    /\ ReportStep /\ UNCHANGED driver

(* It was cancelled by a new input or a control: try again.                *)
CompletePreempted ==
    /\ task.pc = "report"
    /\ ~ task.active
    /\ task' = NoTask
    /\ report' = [report EXCEPT !.pc = "look"]
    /\ ReportStep /\ UNCHANGED driver

-----------------------------------------------------------------------------
(* plugins/tools/abandon.py: follow_abandon.                               *)

(* It stops at the abandons only, so what else it passes is no step.       *)
AbandonRead ==
    LET new == {p \in abandonHead + 1 .. Len(log) : IsControl(log[p], {"abandon"})}
    IN  /\ abandonTodo = {}
        /\ new # {}
        /\ abandonTodo' = UNION {AbandonedBy(log, a) : a \in new}
        /\ abandonHead' = Len(log)
        /\ UNCHANGED <<log, started, task, driver, followHead, report, gateOpen, crashes>>

(* abandon_call: one transaction appends denied or interrupted unless the  *)
(* call has a result; then the effect task is cancelled.                   *)
AbandonSettle ==
    /\ abandonTodo # {}
    /\ log' = Answer(First(abandonTodo))
    /\ abandonTodo' = abandonTodo \ {First(abandonTodo)}
    /\ UNCHANGED <<started, task, driver, abandonHead, followHead, report, gateOpen, crashes>>

-----------------------------------------------------------------------------
(* RestartGate prepare and abort, as the source sees them.                 *)
GateChange ==
    /\ gateOpen' = ~ gateOpen
    /\ UNCHANGED <<log, started, task, driver, consumers, crashes>>

Restart ==
    /\ crashes < MaxCrashes
    /\ crashes' = crashes + 1
    /\ task' = NoTask
    /\ drive' = "none"
    /\ wake' = FALSE
    /\ abandonTodo' = {}
    /\ report' = NoReport
    /\ gateOpen' = TRUE
    /\ UNCHANGED <<log, started>>

(* Mutant: the abandon consumer starts at the head it finds. *)
Crash_AbandonAtHead == Restart /\ followHead' = 0 /\ abandonHead' = Len(log)

(* The process dies and starts again; log and receipts survive.            *)
Crash == Restart /\ followHead' = 0 /\ abandonHead' = 0

User ==
    \/ Accept
    \/ "pause" \in Moves /\ Pause
    \/ "resume" \in Moves /\ Resume
    \/ "report" \in Moves /\ Complete
    \/ \E p \in DOMAIN log :
          \/ "control" \in Moves /\ (Control("pause", p) \/ Control("resume", p))
          \/ "abandon" \in Moves /\ Abandon(p)

Drive == DriveLoop \/ DriveCurrent \/ DriveDrained \/ DriveAdmit \/ DriveGate \/ DriveJoin

Finishes == {"continue", "complete"}

Reply ==
    \/ TaskUnwind \/ TaskRun \/ TaskPending \/ TaskCall \/ TaskEffect
    \/ TaskThink \/ TaskStops \/ TaskRaises \/ TaskFailed
    \/ \E n \in 0 .. MaxCalls, finish \in Finishes :
          (n > 0 => finish = "continue") /\ TaskOutput(n, finish)

Reporter ==
    \/ CompleteNotified \/ CompleteAdmit \/ CompleteJoined
    \/ CompleteEnds \/ CompletePreempted

AbandonConsumer == AbandonRead \/ AbandonSettle

Next ==
    \/ User \/ Follow \/ Drive \/ Reply \/ Reporter \/ AbandonConsumer \/ Crash
    \/ "gate" \in Moves /\ GateChange

(* The event loop runs every ready coroutine: the follower, its drive, the *)
(* reply program (whose provider and tools return or fail), the caller of  *)
(* complete and the abandon consumer.  The user, the gate and crashes      *)
(* promise nothing.                                                        *)
Fairness ==
    /\ WF_vars(Follow)
    /\ WF_vars(Drive)
    /\ WF_vars(Reply)
    /\ WF_vars(Reporter)
    /\ WF_vars(AbandonConsumer)

Spec == Init /\ [][Next]_vars /\ Fairness

-----------------------------------------------------------------------------
(* Properties.                                                             *)

Message ==
    [kind : {"input"}]
    \cup [kind : {"output"}, calls : 0 .. MaxCalls, finish : Finishes, basis : Nat]
    \cup [kind : {"tool_result"}, ref : Nat \X Nat]
    \cup [kind : {"control"}, action : {"pause", "resume", "abandon"}, through : Nat]
    \cup [kind : {"control"}, action : {"failure"}, through : Nat, seen : Nat, basis : Nat,
          cause : {"error", "conflict"}]

Places == Unwinding \cup {"effect", "failing", "report"}

(* The log holds well-formed messages and the slot a well-formed task.     *)
TypeOK ==
    /\ log \in Seq(Message)
    /\ \A p \in DOMAIN log :
          /\ log[p].kind = "control" => log[p].through \in 1 .. p - 1
          /\ log[p].kind = "tool_result" => log[p].ref \in Calls(Prefix(log, p))
    /\ started \subseteq Calls(log)
    /\ abandonTodo \subseteq Calls(log)
    /\ task \in {NoTask} \cup
          [pc : Places, active : BOOLEAN, seen : 0 .. Len(log), head : 0 .. Len(log),
           todo : SUBSET Calls(log), cause : {"none", "error", "conflict"}]
    /\ report \in [pc : {"none", "wait", "look", "join", "own", "done"}, seen : 0 .. Len(log)]
    /\ drive \in {"none", "loop", "start", "drain", "admit", "gate", "join"}
    /\ wake \in BOOLEAN /\ gateOpen \in BOOLEAN /\ crashes \in Nat
    /\ followHead \in 0 .. Len(log) /\ abandonHead \in 0 .. Len(log)

(* Every Output was asked for: in the log right before it the latest input *)
(* is neither closed, abandoned nor paused.  A stopped source stays silent *)
(* until it is resumed or gets a new input, whatever was in flight.        *)
OutputsWereWanted ==
    \A p \in DOMAIN log :
        log[p].kind = "output" => NeedsReply(Prefix(log, p - 1))

(* The model is never asked again while a call of the open segment has no  *)
(* result, over crashes, pauses and abandoned segments (_pending_calls).   *)
CallsAnsweredFirst ==
    \A p \in DOMAIN log :
        log[p].kind = "output" => PendingCalls(Prefix(log, p - 1)) = {}

(* The open segment never holds more than MaxSteps model outputs; neither  *)
(* a restart nor a new input nor a resume resets the budget (_steps).      *)
StepBudget == Steps(log) <= MaxSteps

(* A failure is only recorded against work its task had seen: no input, no *)
(* stop and no other failure came between the start of the program and it. *)
FailuresBlameSeenWork ==
    \A p \in DOMAIN log : IsControl(log[p], {"failure"}) =>
        ~ \E q \in log[p].seen + 1 .. p - 1 :
              IsInput(log[q]) \/ IsControl(log[q], {"pause", "abandon", "failure"})

Replying == task.pc \in Unwinding \cup {"effect", "failing"}

(* A reply whose right has not been revoked is still wanted, and since its *)
(* program started nobody has spoken, paused, abandoned or recorded a      *)
(* failure: each of those revokes it in the same step (accept, control).   *)
ReplyFresh ==
    Replying /\ task.active =>
        /\ NeedsReply(log)
        /\ task.pc # "new" => \A q \in task.seen + 1 .. Len(log) :
              ~ (IsInput(log[q]) \/ IsControl(log[q], {"pause", "abandon", "failure"}))

(* What is still open is on the list that the task settles, and nothing on *)
(* the list of a task with its right is abandoned; at a snapshot that is   *)
(* still the head no call is open and a step is left (react).              *)
ListCovers ==
    /\ task.pc \in {"settle", "effect"} => PendingCalls(log) \subseteq task.todo
    /\ task.pc \in {"settle", "effect"} /\ task.active =>
          \A c \in task.todo : ~ Abandoned(log, c)
    /\ task.pc = "effect" => task.todo # {}
    /\ task.pc = "failing" => task.cause # "none"
    /\ task.pc = "model" /\ task.head = Len(log) =>
          PendingCalls(log) = {} /\ Steps(log) < MaxSteps

(* An abandoned prefix is part of the closed one (needs_reply).            *)
AbandonedClosed ==
    \A p \in DOMAIN log : IsControl(log[p], {"abandon"}) => log[p].through <= Boundary(log)

(* The inductive invariant.                                                *)
ConvInv ==
    /\ TypeOK
    /\ OutputsWereWanted /\ CallsAnsweredFirst /\ StepBudget /\ FailuresBlameSeenWork
    /\ ReplyFresh /\ ListCovers /\ AbandonedClosed

(* A tool effect starts only for work that is still wanted: its call is    *)
(* not abandoned and the source is neither paused nor closed (check_start).*)
EffectsWanted ==
    [][\A c \in started' \ started : ~ Abandoned(log, c) /\ NeedsReply(log)]_vars

(* An input that asks for a reply gets one, or a recorded failure, or is   *)
(* stopped by a control, or the restart gate is closed: no wake-up is      *)
(* lost between the follower, its drive and the slot.                      *)
InputsSettle == NeedsReply(log) ~> (~ NeedsReply(log) \/ ~ gateOpen)

UnsettledAbandoned ==
    {c \in Calls(log) \ Answered(log) : Abandoned(log, c)}

(* Every abandoned call ends with a result, also when the process dies     *)
(* between the abandon and its settlement (follow_abandon catches up).     *)
AbandonedCallsSettle == UnsettledAbandoned # {} ~> UnsettledAbandoned = {}

(* The result of a subagent gets its turn: complete returns or raises,     *)
(* however often inputs, pauses and revoked replies preempt it, unless the *)
(* restart gate keeps the reply it waits for from starting.                *)
ReportsEnd ==
    report.pc \in {"wait", "look", "join", "own"}
        ~> (report.pc \in {"none", "done"} \/ ~ gateOpen)

(* The work after an abandoned prefix is independent of it: a reply is     *)
(* never failed by nothing but results of abandoned calls that arrived     *)
(* after it had read the log.                                              *)
AbandonLeavesNewWorkAlone ==
    \A p \in DOMAIN log :
        IsControl(log[p], {"failure"}) /\ log[p].cause = "conflict" =>
            \E q \in log[p].basis + 1 .. p - 1 :
                ~ (log[q].kind = "tool_result" /\ Abandoned(log, log[q].ref))

=============================================================================
