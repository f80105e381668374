----------------------------- MODULE RestartGate -----------------------------
(***************************************************************************)
(* Guarded self-restart: the RestartGate that closes admission and counts  *)
(* external permits (agent/restart.py), the RestartWatcher that carries an *)
(* agent_restart request from its ToolResult to the commit                 *)
(* (plugins/message_push/restart.py), the gateway's serve loop (main.py)   *)
(* and the supervisor that decides about the next boot                     *)
(* (agent/supervisor.py).                                                  *)
(*                                                                         *)
(* A turn is an Input and the reply to it.  Its reply task holds the root  *)
(* permit; tool effects and the sending of its final Output hold child     *)
(* permits, derived from the root permit, that may outlive the task.  The  *)
(* turns of one session and of several are alike to the gate.              *)
(***************************************************************************)
EXTENDS Naturals, FiniteSets

CONSTANTS Turns,         \* the turns that may happen
          Programmatic,  \* those whose reply goes out as a control frame
          Tooled,        \* bound: those whose reply starts tool effects
          Settings,      \* the request id of a settings restart (SIGUSR2)
          NoRequest,
          MaxBoots       \* bound: boots of one supervisor

ASSUME RestartAssumption ==
    /\ Programmatic \subseteq Turns /\ Tooled \subseteq Turns
    /\ Settings \notin Turns /\ NoRequest \notin Turns \cup {Settings}
    /\ Settings # NoRequest
    /\ IsFiniteSet(Turns)
    /\ MaxBoots \in Nat \ {0}

VARIABLES
    \* durable: the message log and the delivery receipts
    outcome,    \* how the log says the turn stands
    asked,      \* its agent_restart call has a successful ToolResult
    sent,       \* the final Output: not sent, being sent, delivered or failed
    \* the reply tasks
    phase,      \* of each turn's reply
    kids,       \* the child permits it derived and has not given back
    claim,      \* a frame claim was armed for its agent_restart call
    parked,     \* its driver awaits the gate's reopening
    \* RestartGate
    request, accepting, permits, drained, committed,
    \* the two callers of commit
    watcher,    \* RestartWatcher: what it waits for
    fresh,      \* ToolResults beyond the watcher's cursors
    settings,   \* commit_settings_restart
    woken,      \* committers whose wait for `drained` was resolved
    \* gateway process and supervisor
    life,       \* of the gateway process
    exit,       \* how serve, and with it this boot, is going to end: a stop
                \* signal and an error outweigh a restart
    ready,      \* the ready frame was written
    boot, sup,
    \* history
    commits     \* the commit frames written: boot and request

turnVars == <<outcome, asked, sent, phase, kids, claim, parked>>
gateVars == <<request, accepting, permits, drained, committed>>
commitVars == <<watcher, fresh, settings, woken>>
bootVars == <<life, exit, ready, boot, sup, commits>>
vars == <<turnVars, gateVars, commitVars, bootVars>>

Effects == {"tool", "send"}
Idle == [at |-> "idle", turn |-> NoRequest]

Init ==
    /\ outcome = [t \in Turns |-> "open"]
    /\ asked = [t \in Turns |-> FALSE]
    /\ sent = [t \in Turns |-> "no"]
    /\ phase = [t \in Turns |-> "none"]
    /\ kids = [t \in Turns |-> {}]
    /\ claim = [t \in Turns |-> FALSE]
    /\ parked = [t \in Turns |-> FALSE]
    /\ request = NoRequest /\ accepting = TRUE
    /\ permits = 0 /\ drained = TRUE /\ committed = FALSE
    /\ watcher = Idle /\ fresh = {}
    /\ settings = "idle" /\ woken = {}
    /\ life = "starting" /\ exit = "none" /\ ready = FALSE
    /\ boot = 1 /\ sup = "running"
    /\ commits = {}

\* _LifecycleState.commit_valid
CommitValid == \E c \in commits : c.boot = boot

-----------------------------------------------------------------------------
(* The gate.                                                               *)

Committers == {"watcher", "settings"}
Draining(w) == IF w = "watcher" THEN watcher.at = "drain" ELSE settings = "drain"

\* acquire, and _acquire_child once its guard has passed.
TakePermit == permits' = permits + 1 /\ drained' = FALSE

\* _release: the last permit sets the event, which resolves the wait of
\* whoever is in commit.
GivePermit ==
    /\ permits' = permits - 1
    /\ drained' = (drained \/ permits = 1)
    /\ woken' = IF permits = 1 THEN woken \cup {w \in Committers : Draining(w)} ELSE woken

\* prepare, for a request that finds no other one.
Close(id) ==
    /\ request' = id
    /\ accepting' = FALSE
    /\ UNCHANGED <<permits, drained, committed>>

\* Mutant: nobody is told that admission reopened.
Abort_Quiet(id) ==
    IF request = id
    THEN /\ request' = NoRequest
         /\ accepting' = TRUE
         /\ committed' = FALSE
         /\ UNCHANGED <<permits, drained, parked>>
    ELSE UNCHANGED <<gateVars, parked>>

\* Mutant: a request that is not the gate's reopens it too.
Abort_AnyId(id) ==
    /\ request' = NoRequest
    /\ accepting' = TRUE
    /\ committed' = FALSE
    /\ parked' = [t \in Turns |-> FALSE]
    /\ UNCHANGED <<permits, drained>>

\* abort: a request that is not the gate's is ignored; otherwise admission
\* reopens and everybody who awaited that is woken.
Abort(id) ==
    IF request = id
    THEN /\ request' = NoRequest
         /\ accepting' = TRUE
         /\ committed' = FALSE
         /\ parked' = [t \in Turns |-> FALSE]
         /\ UNCHANGED <<permits, drained>>
    ELSE UNCHANGED <<gateVars, parked>>

-----------------------------------------------------------------------------
(* Turns.                                                                  *)

Up == life = "up"

\* Source.accept: a new Input is admitted only while the gate is open.
Accept(t) ==
    /\ Up /\ phase[t] = "none" /\ accepting
    /\ phase' = [phase EXCEPT ![t] = "wanted"]
    /\ UNCHANGED <<outcome, asked, sent, kids, claim, parked, gateVars, commitVars, bootVars>>

\* Source.start under the reply follower's drive: the task begins with a root
\* permit, or the driver awaits the reopening of the gate.
Start(t) ==
    /\ Up /\ phase[t] = "wanted" /\ ~parked[t]
    /\ \/ /\ accepting
          /\ TakePermit
          /\ phase' = [phase EXCEPT ![t] = "running"]
          /\ UNCHANGED <<parked, request, accepting, committed>>
       \/ /\ ~accepting
          /\ parked' = [parked EXCEPT ![t] = TRUE]
          /\ UNCHANGED <<phase, gateVars>>
    /\ UNCHANGED <<outcome, asked, sent, kids, claim, commitVars, bootVars>>

\* Source.retry: a failed reply is resumed while the gate is open.
Retry(t) ==
    /\ Up /\ phase[t] = "done" /\ outcome[t] = "open" /\ accepting
    /\ phase' = [phase EXCEPT ![t] = "wanted"]
    /\ UNCHANGED <<outcome, asked, sent, kids, claim, parked, gateVars, commitVars, bootVars>>

\* permit.child: the root permit must not have been released.
Child(t, effect) ==
    /\ phase[t] \in {"running", "closing"}
    /\ kids' = [kids EXCEPT ![t] = @ \cup {effect}]
    /\ TakePermit
    /\ UNCHANGED <<request, accepting, committed>>

\* Mutant: cleanup takes a permit of its own after the root was released.
StartEffect_AfterRoot(t) ==
    /\ Up /\ phase[t] \in {"running", "done"} /\ t \in Tooled /\ "tool" \notin kids[t]
    /\ kids' = [kids EXCEPT ![t] = @ \cup {"tool"}]
    /\ TakePermit
    /\ UNCHANGED <<request, accepting, committed>>
    /\ UNCHANGED <<outcome, asked, sent, phase, claim, parked, commitVars, bootVars>>

\* A tool call, or the cleanup it leaves behind, starts as a task of its own.
StartEffect(t) ==
    /\ Up /\ phase[t] = "running" /\ t \in Tooled /\ "tool" \notin kids[t]
    /\ Child(t, "tool")
    /\ UNCHANGED <<outcome, asked, sent, phase, claim, parked, commitVars, bootVars>>

\* The agent_restart call succeeds: its ToolResult is appended.  A programmatic
\* turn has armed a claim on its frame route if the connection still owned it.
Ask(t) ==
    /\ Up /\ phase[t] = "running" /\ ~asked[t]
    /\ asked' = [asked EXCEPT ![t] = TRUE]
    /\ claim' = [claim EXCEPT ![t] = t \in Programmatic /\ sent[t] # "failed"]
    /\ fresh' = fresh \cup {t}
    /\ UNCHANGED <<outcome, sent, phase, kids, parked, gateVars, watcher, settings, woken, bootVars>>

\* The reply ends its turn with a final Output, or an abandon closes it and
\* revokes the task; a reply that fails leaves the turn open.
Finish(t, how) ==
    /\ Up /\ phase[t] = "running"
    /\ outcome' = [outcome EXCEPT ![t] = how]
    /\ phase' = [phase EXCEPT ![t] = "closing"]
    /\ UNCHANGED <<asked, sent, kids, claim, parked, gateVars, commitVars, bootVars>>

\* The reply completion starts the sending of the final Output before the task
\* ends, with a permit of its own.
StartSend(t) ==
    /\ Up /\ phase[t] = "closing" /\ outcome[t] = "complete"
    /\ t \notin Programmatic /\ sent[t] = "no"
    /\ Child(t, "send")
    /\ sent' = [sent EXCEPT ![t] = "sending"]
    /\ UNCHANGED <<outcome, asked, phase, claim, parked, commitVars, bootVars>>

\* The reply task is done: its callback releases the root permit.
TaskDone(t) ==
    /\ Up /\ phase[t] = "closing"
    /\ phase' = [phase EXCEPT ![t] = "done"]
    /\ GivePermit
    /\ UNCHANGED <<outcome, asked, sent, kids, claim, parked, request, accepting, committed,
                   watcher, fresh, settings, bootVars>>

\* A tool task ends, or a send settles.
EffectDone(t, effect) ==
    /\ Up /\ effect \in kids[t]
    /\ kids' = [kids EXCEPT ![t] = @ \ {effect}]
    /\ GivePermit
    /\ IF effect = "send"
       THEN \E s \in {"delivered", "failed"} : sent' = [sent EXCEPT ![t] = s]
       ELSE UNCHANGED sent
    /\ UNCHANGED <<outcome, asked, phase, claim, parked, request, accepting, committed,
                   watcher, fresh, settings, bootVars>>

\* Sent without a permit: the delivery follower picks an Output up that no
\* reply has sent, and the writer of a control connection flushes the frame
\* of a programmatic one.
SendLater(t) ==
    /\ Up /\ outcome[t] = "complete" /\ sent[t] = "no"
    /\ phase[t] = "done" \/ t \in Programmatic
    /\ \E s \in {"delivered", "failed"} : sent' = [sent EXCEPT ![t] = s]
    /\ UNCHANGED <<outcome, asked, phase, kids, claim, parked, gateVars, commitVars, bootVars>>

\* The control connection of a programmatic turn breaks before the flush.
Disconnect(t) ==
    /\ Up /\ t \in Programmatic /\ phase[t] # "none" /\ sent[t] = "no"
    /\ sent' = [sent EXCEPT ![t] = "failed"]
    /\ UNCHANGED <<outcome, asked, phase, kids, claim, parked, gateVars, commitVars, bootVars>>

-----------------------------------------------------------------------------
(* The watcher.                                                            *)

\* A new successful ToolResult of agent_restart is read: prepare closes the
\* gate, or refuses because another request is pending, and the refused one
\* aborts what it never got.
Notice(t) ==
    /\ Up /\ watcher.at = "idle" /\ t \in fresh
    /\ fresh' = fresh \ {t}
    /\ IF request = NoRequest
       THEN /\ Close(t)
            /\ watcher' = [at |-> "turn", turn |-> t]
            /\ UNCHANGED <<claim, parked>>
       ELSE /\ Abort(t)
            /\ claim' = [claim EXCEPT ![t] = FALSE]
            /\ UNCHANGED watcher
    /\ UNCHANGED <<outcome, asked, sent, phase, kids, settings, woken, bootVars>>

\* Mutant: the gate stays closed.
Reject_Closed ==
    /\ claim' = [t \in Turns |-> claim[t] /\ t # watcher.turn]
    /\ watcher' = Idle
    /\ woken' = woken \ {"watcher"}
    /\ UNCHANGED <<outcome, asked, sent, phase, kids, parked, gateVars, fresh, settings, bootVars>>

\* The request ends without a commit: the claim and the gate are given up and
\* the watcher goes on watching.
Reject ==
    /\ Abort(watcher.turn)
    /\ claim' = [t \in Turns |-> claim[t] /\ t # watcher.turn]
    /\ watcher' = Idle
    /\ woken' = woken \ {"watcher"}
    /\ UNCHANGED <<outcome, asked, sent, phase, kids, fresh, settings, bootVars>>

\* The turn of the call is closed: a complete one goes on to wait for its final
\* Output to arrive, any other is rejected, and so is a programmatic one
\* without a claim.
TurnClosed ==
    /\ Up /\ watcher.at = "turn" /\ outcome[watcher.turn] # "open"
    /\ LET t == watcher.turn IN
       IF outcome[t] = "complete" /\ (t \in Programmatic => claim[t])
       THEN /\ watcher' = [watcher EXCEPT !.at = "delivery"]
            /\ UNCHANGED <<turnVars, gateVars, fresh, settings, woken, bootVars>>
       ELSE Reject

\* Mutant: a send under way counts as arrived.
OutputArrived_Sending ==
    /\ Up /\ watcher.at = "delivery"
    /\ \/ /\ sent[watcher.turn] \in {"sending", "delivered"}
          /\ watcher' = [watcher EXCEPT !.at = "drain"]
          /\ woken' = IF drained THEN woken \cup {"watcher"} ELSE woken
          /\ UNCHANGED <<turnVars, gateVars, fresh, settings, bootVars>>
       \/ /\ sent[watcher.turn] = "failed"
          /\ Reject

\* The final Output arrived: commit waits for the permits unless none is out.
\* A failed delivery rejects the request.
OutputArrived ==
    /\ Up /\ watcher.at = "delivery"
    /\ \/ /\ sent[watcher.turn] = "delivered"
          /\ watcher' = [watcher EXCEPT !.at = "drain"]
          /\ woken' = IF drained THEN woken \cup {"watcher"} ELSE woken
          /\ UNCHANGED <<turnVars, gateVars, fresh, settings, bootVars>>
       \/ /\ sent[watcher.turn] = "failed"
          /\ Reject

\* One of the two 15 second limits strikes first.
WatchTimeout ==
    /\ Up /\ watcher.at \in {"turn", "delivery", "drain"}
    /\ Reject

\* The commit frame goes out and serve will end with the restart code.  The
\* supervisor accepts the frame once per boot, after ready; any other one is a
\* protocol error.
WriteFrame(id) ==
    /\ commits' = commits \cup {[boot |-> boot, id |-> id]}
    /\ exit' = IF exit \in {"stopped", "error"} THEN exit
               ELSE IF ready /\ ~CommitValid THEN "restart"
               ELSE "error"

\* commit, after its wait: the frame is written without looking at the permits
\* again, and serve is told.  A write that fails is handed to serve as well.
WatchCommit ==
    /\ Up /\ watcher.at = "drain" /\ "watcher" \in woken
    /\ \/ /\ WriteFrame(watcher.turn)
          /\ committed' = TRUE
          /\ claim' = [claim EXCEPT ![watcher.turn] = FALSE]
          /\ watcher' = [watcher EXCEPT !.at = "returned"]
          /\ woken' = woken \ {"watcher"}
          /\ UNCHANGED <<outcome, asked, sent, phase, kids, parked, request, accepting, permits,
                         drained, fresh, settings, life, ready, boot, sup>>
       \/ /\ exit' = "error"
          /\ Abort(watcher.turn)
          /\ claim' = [claim EXCEPT ![watcher.turn] = FALSE]
          /\ watcher' = Idle
          /\ woken' = woken \ {"watcher"}
          /\ UNCHANGED <<outcome, asked, sent, phase, kids, fresh, settings,
                         life, ready, boot, sup, commits>>

-----------------------------------------------------------------------------
(* The settings restart of serve, on SIGUSR2: prepare and commit, once per  *)
(* boot.  If it fails, serve raises.                                       *)

SettingsPrepare ==
    /\ life \in {"starting", "up"} /\ settings = "idle"
    /\ IF request = NoRequest
       THEN /\ Close(Settings)
            /\ settings' = "drain"
            /\ woken' = IF drained THEN woken \cup {"settings"} ELSE woken
            /\ UNCHANGED exit
       ELSE /\ settings' = "failed"
            /\ exit' = "error"
            /\ UNCHANGED <<gateVars, woken>>
    /\ UNCHANGED <<turnVars, watcher, fresh, life, ready, boot, sup, commits>>

SettingsCommit ==
    /\ life \in {"starting", "up"} /\ settings = "drain" /\ "settings" \in woken
    /\ WriteFrame(Settings)
    /\ committed' = TRUE
    /\ settings' = "done"
    /\ woken' = woken \ {"settings"}
    /\ UNCHANGED <<turnVars, request, accepting, permits, drained, watcher, fresh,
                   life, ready, boot, sup>>

\* The drain timeout, or a write that fails.
SettingsFail ==
    /\ life \in {"starting", "up"} /\ settings = "drain"
    /\ Abort(Settings)
    /\ settings' = "failed"
    /\ exit' = "error"
    /\ woken' = woken \ {"settings"}
    /\ UNCHANGED <<outcome, asked, sent, phase, kids, claim, watcher, fresh,
                   life, ready, boot, sup, commits>>

-----------------------------------------------------------------------------
(* Gateway process and supervisor.                                         *)

\* Mutant: the cursors stand at the start of the log.
RuntimeStarted_FromStart ==
    /\ life = "starting" /\ exit = "none"
    /\ life' = "up"
    /\ fresh' = {t \in Turns : asked[t]}
    /\ UNCHANGED <<turnVars, gateVars, watcher, settings, woken, exit, ready, boot, sup, commits>>

\* RUNTIME_STARTED: channels, reply follower and watcher run.  The watcher's
\* cursors stand at the heads of the log, so results of an earlier boot are
\* not new.
RuntimeStarted ==
    /\ life = "starting" /\ exit = "none"
    /\ life' = "up"
    /\ UNCHANGED <<turnVars, gateVars, commitVars, exit, ready, boot, sup, commits>>

\* The ready frame.
MarkReady ==
    /\ Up /\ ~ready /\ exit = "none"
    /\ ready' = TRUE
    /\ UNCHANGED <<turnVars, gateVars, commitVars, life, exit, boot, sup, commits>>

\* A stop signal, which the supervisor forwards and remembers.
StopSignal ==
    /\ life \in {"starting", "up"} /\ exit \in {"none", "restart"}
    /\ exit' = "stopped"
    /\ UNCHANGED <<turnVars, gateVars, commitVars, life, ready, boot, sup, commits>>

\* The process ends and leaves what is durable: the log, from which the next
\* boot takes up unfinished replies, and the receipts, from which its delivery
\* follower takes up unfinished sends.
ProcessEnds ==
    /\ life' = "down"
    /\ phase' = [t \in Turns |-> CASE phase[t] = "running" -> "wanted"
                                   [] phase[t] = "closing" -> "done"
                                   [] OTHER -> phase[t]]
    /\ sent' = [t \in Turns |-> IF sent[t] = "sending" THEN "no" ELSE sent[t]]
    /\ kids' = [t \in Turns |-> {}]
    /\ claim' = [t \in Turns |-> FALSE]
    /\ parked' = [t \in Turns |-> FALSE]
    /\ request' = NoRequest /\ accepting' = TRUE
    /\ permits' = 0 /\ drained' = TRUE /\ committed' = FALSE
    /\ watcher' = Idle /\ fresh' = {} /\ settings' = "idle" /\ woken' = {}
    /\ UNCHANGED <<outcome, asked, ready, boot, sup, commits>>

\* serve wakes up on the first of its events and takes the runtime down.
ServeEnds ==
    /\ life \in {"starting", "up"} /\ exit # "none"
    /\ ProcessEnds
    /\ UNCHANGED exit

\* The process dies, or the supervisor stops it: after a protocol error, or
\* because it was not ready in time.
Die ==
    /\ life \in {"starting", "up"}
    /\ ProcessEnds
    /\ exit' = "error"

\* run_supervisor after the child: only a ready boot with a valid commit that
\* exits with the restart code is followed by another.
Reboot ==
    /\ life = "down" /\ sup = "running" /\ boot < MaxBoots
    /\ exit = "restart" /\ ready /\ CommitValid
    /\ boot' = boot + 1
    /\ life' = "starting" /\ exit' = "none"
    /\ ready' = FALSE
    /\ UNCHANGED <<turnVars, gateVars, commitVars, sup, commits>>

SupervisorReturns ==
    /\ life = "down" /\ sup = "running"
    /\ exit # "restart" \/ ~ready \/ ~CommitValid
    /\ sup' = "returned"
    /\ UNCHANGED <<turnVars, gateVars, commitVars, life, exit, ready, boot, commits>>

-----------------------------------------------------------------------------
WatcherStep == (\E t \in Turns : Notice(t)) \/ TurnClosed \/ OutputArrived \/ WatchTimeout \/ WatchCommit

SettingsStep == SettingsCommit \/ SettingsFail

SupervisorStep == Reboot \/ SupervisorReturns

Next ==
    \/ \E t \in Turns :
        \/ Accept(t) \/ Retry(t) \/ StartEffect(t) \/ Ask(t) \/ StartSend(t)
        \/ \E how \in {"open", "complete", "abandoned"} : Finish(t, how)
        \/ \E effect \in Effects : EffectDone(t, effect)
        \/ SendLater(t) \/ Disconnect(t)
        \/ Start(t) \/ TaskDone(t)
    \/ WatcherStep
    \/ SettingsPrepare \/ SettingsStep
    \/ RuntimeStarted \/ MarkReady \/ StopSignal \/ ServeEnds \/ Die
    \/ SupervisorStep

Spec == Init /\ [][Next]_vars

\* The event loop runs what is runnable and timers fire; the supervisor notices
\* the end of its child.  Replies, tools, sends and users promise nothing.
Fairness ==
    /\ \A t \in Turns : WF_vars(Start(t)) /\ WF_vars(TaskDone(t))
    /\ WF_vars(WatcherStep) /\ WF_vars(SettingsStep)
    /\ WF_vars(RuntimeStarted) /\ WF_vars(ServeEnds) /\ WF_vars(SupervisorStep)

FairSpec == Spec /\ Fairness

-----------------------------------------------------------------------------
TypeOK ==
    /\ outcome \in [Turns -> {"open", "complete", "abandoned"}]
    /\ asked \in [Turns -> BOOLEAN]
    /\ sent \in [Turns -> {"no", "sending", "delivered", "failed"}]
    /\ phase \in [Turns -> {"none", "wanted", "running", "closing", "done"}]
    /\ kids \in [Turns -> SUBSET Effects]
    /\ claim \in [Turns -> BOOLEAN] /\ parked \in [Turns -> BOOLEAN]
    /\ request \in Turns \cup {Settings, NoRequest}
    /\ accepting \in BOOLEAN /\ drained \in BOOLEAN /\ committed \in BOOLEAN
    /\ permits \in Nat
    /\ watcher \in [at : {"idle", "turn", "delivery", "drain", "returned"}, turn : Turns \cup {NoRequest}]
    /\ fresh \subseteq Turns
    /\ settings \in {"idle", "drain", "done", "failed"}
    /\ woken \subseteq Committers
    /\ life \in {"starting", "up", "down"}
    /\ exit \in {"none", "restart", "stopped", "error"}
    /\ ready \in BOOLEAN
    /\ boot \in 1..MaxBoots
    /\ sup \in {"running", "returned"}
    /\ commits \subseteq [boot : 1..MaxBoots, id : Turns \cup {Settings}]

Roots == {t \in Turns : phase[t] \in {"running", "closing"}}

\* Once the commit frame is written, and until the process is gone, no reply
\* task runs and no effect started by one is under way: the wait for `drained`
\* is not looked at again before the write, and neither a late child permit
\* nor a new root may slip in.
RestartInterruptsNothing == committed => Roots = {} /\ \A t \in Turns : kids[t] = {}

\* A self-restart is committed only when the turn that asked for it is complete
\* and its final Output was delivered.
RestartAfterDelivery ==
    \A c \in commits : c.id \in Turns => outcome[c.id] = "complete" /\ sent[c.id] = "delivered"

\* Every boot but the first follows exactly one commit of the boot before it,
\* and one ToolResult never restarts the program twice: the next boot's watcher
\* starts behind it.
RestartsAccounted ==
    /\ \A b \in 1..(boot - 1) : \E c \in commits : c.boot = b
    /\ \A c, d \in commits : c.boot = d.boot \/ (c.id = d.id /\ c.id \in Turns) => c = d

\* The inductive invariant, in four parts.  The permits out are those of the
\* running reply tasks and of their effects.
Outstanding == {p \in Turns \X {"root", "tool", "send"} :
    IF p[2] = "root" THEN p[1] \in Roots ELSE p[2] \in kids[p[1]]}

PermitsCounted ==
    /\ permits = Cardinality(Outstanding)
    /\ drained <=> permits = 0
    /\ life # "up" => Outstanding = {}

\* A committer has seen `drained`, or has committed, only behind a closed gate
\* with no permit out, and so it stays.
Quiet ==
    /\ accepting <=> request = NoRequest
    /\ \A w \in woken : Draining(w) /\ permits = 0
    /\ committed => permits = 0 /\ (watcher.at = "returned" \/ settings = "done")
    /\ watcher.at \in {"turn", "delivery", "drain"} => request = watcher.turn /\ ~committed
    /\ watcher.at = "returned" => request = watcher.turn /\ committed
    /\ watcher.at # "idle" => watcher.turn \in Turns
    /\ settings = "drain" => request = Settings /\ ~committed
    /\ settings = "done" => request = Settings /\ committed

\* What the log says of a turn does not change once it is closed.
TurnsClose ==
    /\ \A t \in Turns : outcome[t] # "open" => phase[t] \in {"closing", "done"}
    /\ \A t \in Turns : "send" \in kids[t] => sent[t] = "sending"
    /\ watcher.at \in {"delivery", "drain", "returned"} => outcome[watcher.turn] = "complete"
    /\ watcher.at \in {"drain", "returned"} => sent[watcher.turn] = "delivered"
    /\ RestartAfterDelivery

\* The commits of this boot and of the turns the watcher may still commit.
CommitsOrdered ==
    /\ RestartsAccounted
    /\ \A c \in commits : c.boot <= boot
    /\ CommitValid => life = "down" \/ committed
    /\ \A t \in fresh : asked[t]
    /\ \A c \in commits : c.id \in Turns => asked[c.id] /\ c.id \notin fresh
    /\ watcher.at # "idle" => asked[watcher.turn] /\ watcher.turn \notin fresh
    /\ watcher.at \in {"turn", "delivery", "drain"} => \A c \in commits : c.id # watcher.turn

GateInv == TypeOK /\ PermitsCounted /\ Quiet /\ TurnsClose /\ CommitsOrdered

\* A closed gate does not stay closed: every way a request can end without a
\* restart reopens it, even if no reply, tool or send ever makes progress.
GateReopens == ~accepting ~> (accepting \/ life = "down")

\* An admitted Input is not forgotten because its reply met a closed gate: the
\* driver that awaits the reopening is woken and starts it.
WantedStarts == \A t \in Turns : phase[t] = "wanted" /\ Up ~> (phase[t] # "wanted" \/ life = "down")
=============================================================================
