------------------------ MODULE ToolExecutionProofs -------------------------
(***************************************************************************)
(* Proofs about ToolExecution for any set of callers and any number of     *)
(* attempts and restarts: the receipt matches the log, callers agree, and  *)
(* the execution implements the effect contract.                           *)
(***************************************************************************)
EXTENDS ToolExecution, TLAPS

Working == {"open", "prepare", "query", "authorize", "invoke"}

(* The task works with the current receipt, unless the call was settled    *)
(* behind its back, and then it is revoked.                                *)
SeenIsCurrent ==
    task.pc \in Working =>
        \/ task.seen = record /\ record.phase # "done"
        \/ record.phase = "done" /\ ~ task.active

(* Where the task is tells the phase it has seen.                          *)
SeenPhase ==
    /\ task.pc = "open" => task.seen.phase \in {"requested", "prepared", "started"}
    /\ task.pc = "prepare" => task.seen.phase = "requested"
    /\ task.pc = "query" => task.seen.phase = "started"
    /\ task.pc = "authorize" =>
          \/ task.seen.phase = "prepared"
          \/ task.seen.phase = "started" /\ call.idempotent
    /\ task.pc = "invoke" => task.seen.phase = "started" /\ effects > 0

(* No effect without a durable intent; a settled call has an outcome.      *)
EffectsIntended ==
    /\ effects > 0 => record.phase \in {"started", "done"}
    /\ record.phase = "done" => record.result \in Outcomes

(* What a task or a caller holds to return is the committed outcome.       *)
Committed(ret, r) == ret # "raised" => r.phase = "done" /\ ret = r.result

ReturnsCommitted ==
    /\ task.pc = "closing" => Committed(task.ret, record)
    /\ \A w \in Waiters :
          waiter[w].state \in {"joined", "returned"} => Committed(waiter[w].ret, record)
    /\ \A w \in Waiters : waiter[w].state = "returned" => waiter[w].ret # "raised"

Inv ==
    /\ TypeOK
    /\ ReceiptMatchesLog
    /\ SeenIsCurrent
    /\ SeenPhase
    /\ EffectsIntended
    /\ ReturnsCommitted

-----------------------------------------------------------------------------
(* Records, tasks and callers built by the operators have their form.      *)
LEMMA FormFacts ==
    /\ NoRecord \in Records
    /\ NoTask \in Tasks
    /\ IdleWaiter \in WaiterStates
    /\ \A kind \in Kinds, head \in Nat : NewTask(kind, head) \in Tasks
    /\ \A t \in Tasks : CancelTask(t) \in Tasks
    /\ \A r \in Records, p \in Phases : Saved(r, p) \in Records
PROOF
  <1>1. NoRecord \in Records
      BY DEF NoRecord, Records, Phases
  <1>2. NoTask \in Tasks /\ IdleWaiter \in WaiterStates
      BY <1>1 DEF NoTask, IdleWaiter, Tasks, WaiterStates, Kinds, Returns
  <1>3. \A kind \in Kinds, head \in Nat : NewTask(kind, head) \in Tasks
      BY <1>1 DEF NewTask, Tasks, Returns
  <1>4. \A t \in Tasks : CancelTask(t) \in Tasks
      BY DEF CancelTask, Tasks
  <1>5. \A r \in Records, p \in Phases : Saved(r, p) \in Records
      BY DEF Saved, Records
  <1>6. QED
      BY <1>1, <1>2, <1>3, <1>4, <1>5

(* Initially nothing is recorded, so the invariant holds.                  *)
LEMMA InvInit == Init => Inv
PROOF
  <1> SUFFICES ASSUME Init PROVE Inv
      OBVIOUS
  <1>1. TypeOK
    <2>1. record \in Records /\ task \in Tasks /\ waiter \in [Waiters -> WaiterStates]
        BY FormFacts DEF Init
    <2>2. abandoned \in BOOLEAN /\ consumed \in BOOLEAN
        BY Zenon DEF Init
    <2>3. results \in Seq(Outcomes) /\ news \in Nat /\ effects \in Nat /\ attempts \in Nat /\ crashes \in Nat
        BY DEF Init
    <2>4. QED
        BY <2>1, <2>2, <2>3 DEF Init, TypeOK
  <1>2. QED
      BY <1>1 DEF Init, Inv, ReceiptMatchesLog, SeenIsCurrent, SeenPhase, EffectsIntended,
         ReturnsCommitted, NoRecord, NoTask, IdleWaiter, Working

(* finish either reads a settled receipt and changes nothing, or, for a    *)
(* task that works with the current receipt, settles it with o.            *)
LEMMA FinishFacts ==
    ASSUME Inv, NEW seen \in Records, NEW o \in Outcomes, call' = call,
           Finish(seen, o)
    PROVE  /\ record' \in Records
           /\ results' \in Seq(Outcomes)
           /\ ReceiptMatchesLog'
           /\ record.phase = "done" => record' = record
           /\ record' = record \/ (record.phase # "done" /\ record'.phase = "done" /\ record'.result = o)
           /\ Finished(seen, o) \in Returns
           /\ Committed(Finished(seen, o), record')
           /\ seen = record => record'.phase = "done"
PROOF
  <1> USE DEF Outcomes
  <1>1. record \in Records /\ results \in Seq(Outcomes) /\ record.version \in Nat
      BY DEF Inv, TypeOK, Records
  <1>2. CASE CanFinish(seen)
    <2>1. /\ record' = Done(o)
          /\ results' = IF call.message THEN Append(results, o) ELSE results
        BY <1>2 DEF Finish
    <2>2. record' \in Records /\ record'.phase = "done" /\ record'.result = o
        BY <1>1, <2>1 DEF Done, Records, Phases
    <2>3. results' \in Seq(Outcomes)
        BY <1>1, <2>1
    <2>4. ReceiptMatchesLog'
        BY <1>1, <1>2, <2>1, <2>2 DEF ReceiptMatchesLog, CanFinish
    <2>5. Finished(seen, o) = o
        BY <1>2 DEF Finished, CanFinish
    <2>6. Committed(Finished(seen, o), record')
        BY <1>2, <2>2, <2>5 DEF Committed, Finished, CanFinish
    <2>7. QED
        BY <1>2, <2>2, <2>3, <2>4, <2>5, <2>6 DEF Returns, CanFinish
  <1>3. CASE ~ CanFinish(seen)
    <2>1. record' = record /\ results' = results
        BY <1>3 DEF Finish
    <2>2. ReceiptMatchesLog'
        BY <2>1 DEF Inv, ReceiptMatchesLog
    <2>3. seen = record => record.phase = "done"
        BY <1>3 DEF CanFinish, Inv, ReceiptMatchesLog
    <2>4. Finished(seen, o) = IF record.phase = "done" THEN record.result ELSE "raised"
        BY <1>3 DEF Finished
    <2>5. Finished(seen, o) \in Returns /\ Committed(Finished(seen, o), record')
        BY <2>1, <2>4 DEF Inv, EffectsIntended, Returns, Committed
    <2>6. QED
        BY <1>1, <2>1, <2>2, <2>3, <2>5
  <1>4. QED
      BY <1>2, <1>3

(* The end of a task hands its outcome to the callers that wait for it.    *)
LEMMA EndsFacts ==
    ASSUME Inv, NEW ret \in Returns, TaskEnds(ret), Committed(ret, record'),
           record.phase = "done" => record' = record
    PROVE  /\ task' \in Tasks
           /\ task'.pc = "none"
           /\ waiter' \in [Waiters -> WaiterStates]
           /\ ReturnsCommitted'
PROOF
  <1>1. task' = NoTask
      BY DEF TaskEnds
  <1>2. task' \in Tasks /\ task'.pc = "none"
      BY <1>1, FormFacts DEF NoTask
  <1>3. waiter \in [Waiters -> WaiterStates]
      BY DEF Inv, TypeOK
  <1>4. ASSUME NEW w \in Waiters
        PROVE  /\ waiter'[w] \in WaiterStates
               /\ waiter'[w].state \in {"joined", "returned"} =>
                     Committed(waiter'[w].ret, record')
               /\ waiter'[w].state = "returned" => waiter'[w].ret # "raised"
    <2>1. waiter[w] \in WaiterStates
        BY <1>3
    <2>2. CASE waiter[w].state = "waiting"
      <3>1. waiter'[w] = [waiter[w] EXCEPT !.state = "joined", !.ret = ret]
          BY <2>2 DEF TaskEnds
      <3>2. QED
          BY <2>1, <3>1 DEF WaiterStates
    <2>3. CASE waiter[w].state # "waiting"
      <3>1. waiter'[w] = waiter[w]
          BY <2>3 DEF TaskEnds
      <3>2. QED
          BY <2>1, <3>1 DEF Inv, ReturnsCommitted, Committed
    <2>4. QED
        BY <2>2, <2>3
  <1>5. waiter' \in [Waiters -> WaiterStates]
      BY <1>4 DEF TaskEnds
  <1>6. QED
      BY <1>2, <1>4, <1>5 DEF ReturnsCommitted

(* A step that leaves the callers alone and a settled receipt as it is     *)
(* keeps what they hold committed.                                         *)
LEMMA ReturnsKept ==
    ASSUME Inv, waiter' = waiter, record.phase = "done" => record' = record,
           task'.pc = "closing" => Committed(task'.ret, record')
    PROVE  ReturnsCommitted'
PROOF
  BY DEF Inv, ReturnsCommitted, Committed

-----------------------------------------------------------------------------
(* The contract as a step relation: what a step may do to the outcome and  *)
(* to the number of entered effects.                                       *)
StepKeepsContract ==
    /\ call' = call
    /\ record.phase = "done" => record' = record /\ effects' = effects
    /\ effects' # effects =>
          /\ effects' = effects + 1
          /\ effects = 0 \/ call.idempotent
          /\ record'.phase # "done"
    /\ record.phase # "done" /\ record'.phase = "done" =>
          /\ record'.result \in Outcomes
          /\ record'.result = "denied" => effects = 0
          /\ record'.result = "reported" => effects > 0

(* Steps of the callers change neither the receipt nor the log.            *)
LEMMA CallerStep ==
    ASSUME Inv, NEW w \in Waiters, Caller(w) \/ Wakes(w)
    PROVE  Inv' /\ StepKeepsContract
PROOF
  <1> USE DEF bounds, source
  <1>1. UNCHANGED <<call, record, results, abandoned, news, effects, consumed, crashes>>
      BY DEF Caller, Wakes, Begin, List, Execute, Deny, Enlist, WaiterCancelled, WaiterSettled,
         WaiterJoined
  <1>2. attempts' \in Nat
      BY DEF Inv, TypeOK, Caller, Wakes, Begin, List, Execute, Deny, Enlist, WaiterCancelled,
         WaiterSettled, WaiterJoined
  <1>3. ASSUME NEW kind \in {"run", "deny"}, NEW head \in Nat, Enlist(w, kind, head)
        PROVE  /\ task' \in Tasks
               /\ task' = task \/ task'.pc = "new"
               /\ waiter'[w] \in WaiterStates /\ waiter'[w].state = "waiting"
               /\ waiter' = [waiter EXCEPT ![w] = waiter'[w]]
    <2>1. task \in Tasks /\ waiter \in [Waiters -> WaiterStates]
        BY DEF Inv, TypeOK
    <2>2. NewTask(kind, head).pc = "new" /\ NewTask(kind, head) \in Tasks
        BY FormFacts DEF NewTask, Kinds
    <2>3. task' = IF Live THEN task ELSE NewTask(kind, head)
        BY <1>3 DEF Enlist
    <2>4. PICK own \in BOOLEAN : waiter' = [waiter EXCEPT ![w] =
              [IdleWaiter EXCEPT !.state = "waiting", !.kind = kind, !.owned = own]]
      <3>1. (~ Live) \in BOOLEAN
          OBVIOUS
      <3>2. QED
          BY <1>3, <3>1 DEF Enlist
    <2>5. PICK v : v = [IdleWaiter EXCEPT !.state = "waiting", !.kind = kind, !.owned = own]
        OBVIOUS
    <2>6. v \in WaiterStates /\ v.state = "waiting"
        BY <2>5 DEF IdleWaiter, WaiterStates, Kinds, Returns
    <2>7. QED
        BY <2>1, <2>2, <2>3, <2>4, <2>5, <2>6
  <1>4. ASSUME NEW ret \in Returns, Leaves(w, ret), Committed(ret, record)
        PROVE  /\ waiter'[w] \in WaiterStates
               /\ waiter'[w].state \in {"joined", "returned"} => Committed(waiter'[w].ret, record)
               /\ waiter'[w].state = "returned" => waiter'[w].ret # "raised"
               /\ waiter' = [waiter EXCEPT ![w] = waiter'[w]]
    <2>1. waiter \in [Waiters -> WaiterStates]
        BY DEF Inv, TypeOK
    <2>2. PICK v : v = [IdleWaiter EXCEPT
              !.state = IF ret = "raised" THEN "raised" ELSE "returned", !.ret = ret]
        OBVIOUS
    <2>3. /\ v \in WaiterStates /\ v.ret = ret
          /\ v.state = "returned" => ret # "raised"
        BY <2>2 DEF IdleWaiter, WaiterStates, Kinds
    <2>4. waiter' = [waiter EXCEPT ![w] = v]
        BY <1>4, <2>2 DEF Leaves
    <2>5. QED
        BY <1>4, <2>1, <2>3, <2>4
  <1>5. /\ task' \in Tasks
        /\ \/ task' = task
           \/ task'.pc = "new"
           \/ /\ task'.pc = task.pc /\ task'.seen = task.seen /\ task'.ret = task.ret
              /\ ~ task'.active
        /\ waiter'[w] \in WaiterStates
        /\ waiter'[w].state \in {"joined", "returned"} => Committed(waiter'[w].ret, record)
        /\ waiter'[w].state = "returned" => waiter'[w].ret # "raised"
        /\ waiter' = [waiter EXCEPT ![w] = waiter'[w]]
    <2>1. task \in Tasks /\ waiter \in [Waiters -> WaiterStates] /\ waiter[w] \in WaiterStates
        BY DEF Inv, TypeOK
    <2>2. CASE Execute(w) \/ Deny(w)
      <3>1. waiter[w].head \in Nat
          BY <2>1 DEF WaiterStates
      <3>2. \E kind \in {"run", "deny"}, head \in Nat : Enlist(w, kind, head)
          BY <2>2, <3>1 DEF Execute, Deny
      <3>3. QED
          BY <1>3, <3>2
    <2>3. CASE Begin(w)
      <3>1. PICK v : v = [IdleWaiter EXCEPT !.state = "begun", !.head = news]
          OBVIOUS
      <3>2. v \in WaiterStates /\ v.state = "begun"
          BY <3>1 DEF IdleWaiter, WaiterStates, Kinds, Returns, Inv, TypeOK
      <3>3. waiter' = [waiter EXCEPT ![w] = v] /\ task' = task
          BY <2>3, <3>1 DEF Begin
      <3>4. QED
          BY <2>1, <3>2, <3>3
    <2>4. CASE List(w)
      <3>1. PICK v : v = [waiter[w] EXCEPT !.state = "listed"]
          OBVIOUS
      <3>2. v \in WaiterStates /\ v.state = "listed"
          BY <2>1, <3>1 DEF WaiterStates
      <3>3. waiter' = [waiter EXCEPT ![w] = v] /\ task' = task
          BY <2>4, <3>1 DEF List
      <3>4. QED
          BY <2>1, <3>2, <3>3
    <2>5. CASE WaiterCancelled(w)
      <3>1. Leaves(w, "raised") /\ "raised" \in Returns /\ Committed("raised", record)
          BY <2>5 DEF WaiterCancelled, Returns, Committed
      <3>2. task' = task \/ task' = [task EXCEPT !.active = FALSE]
          BY <2>5 DEF WaiterCancelled, CancelTask
      <3>3. /\ task' \in Tasks
            /\ \/ task' = task
               \/ /\ task'.pc = task.pc /\ task'.seen = task.seen /\ task'.ret = task.ret
                  /\ ~ task'.active
          BY <2>1, <3>2 DEF Tasks
      <3>4. QED
          BY <1>4, <3>1, <3>3
    <2>6. CASE Wakes(w)
      <3>1. task' = task
          BY <2>6 DEF Wakes, WaiterSettled, WaiterJoined
      <3>2. SettledFirst(w) => record.result \in Returns /\ Committed(record.result, record)
          BY DEF SettledFirst, Inv, EffectsIntended, Returns, Committed
      <3>3. waiter[w].state = "joined" => waiter[w].ret \in Returns /\ Committed(waiter[w].ret, record)
          BY <2>1 DEF Inv, ReturnsCommitted, WaiterStates
      <3>4. PICK ret \in Returns : Leaves(w, ret) /\ Committed(ret, record)
          BY <2>6, <3>2, <3>3 DEF Wakes, WaiterSettled, WaiterJoined
      <3>5. QED
          BY <1>4, <2>1, <3>1, <3>4
    <2>7. QED
        BY <2>2, <2>3, <2>4, <2>5, <2>6 DEF Caller
  <1>6. /\ waiter' \in [Waiters -> WaiterStates]
        /\ \A v \in Waiters \ {w} : waiter'[v] = waiter[v]
    <2>1. waiter \in [Waiters -> WaiterStates]
        BY DEF Inv, TypeOK
    <2>2. PICK v \in WaiterStates : waiter' = [waiter EXCEPT ![w] = v]
        BY <1>5
    <2>3. QED
        BY <2>1, <2>2
  <1>7. TypeOK'
      BY <1>1, <1>2, <1>5, <1>6 DEF Inv, TypeOK
  <1>8. ReceiptMatchesLog' /\ EffectsIntended'
      BY <1>1 DEF Inv, ReceiptMatchesLog, EffectsIntended
  <1>9. SeenIsCurrent' /\ SeenPhase'
      BY <1>1, <1>5 DEF Inv, SeenIsCurrent, SeenPhase, Working
  <1>10. ReturnsCommitted'
      BY <1>1, <1>5, <1>6 DEF Inv, ReturnsCommitted, Committed
  <1>11. QED
      BY <1>1, <1>7, <1>8, <1>9, <1>10 DEF Inv, StepKeepsContract

(* What the environment of a task step leaves alone.                       *)
Frame == UNCHANGED <<call, source, consumed, attempts, crashes>>

(* The receipt stays, or the call is settled with an outcome that does not *)
(* lie.                                                                    *)
SettledHonestly ==
    /\ effects' = effects
    /\ record' \in Records /\ results' \in Seq(Outcomes) /\ ReceiptMatchesLog'
    /\ \/ record' = record
       \/ /\ record.phase # "done" /\ record'.phase = "done"
          /\ record'.result \in Outcomes
          /\ record'.result = "denied" => effects = 0
          /\ record'.result = "reported" => effects > 0

(* A finish with an honest outcome settles honestly.                       *)
LEMMA FinishHonest ==
    ASSUME Inv, NEW seen \in Records, NEW o \in Outcomes, Finish(seen, o),
           call' = call, effects' = effects,
           o = "denied" => record.phase = "done" \/ effects = 0,
           o = "reported" => record.phase = "done" \/ effects > 0
    PROVE  SettledHonestly
PROOF
  BY FinishFacts DEF SettledHonestly

(* An honest change keeps the parts of the invariant about the receipt,    *)
(* and is what the contract allows.                                        *)
LEMMA HonestStep ==
    ASSUME Inv, Frame, SettledHonestly
    PROVE  /\ EffectsIntended'
           /\ StepKeepsContract
           /\ task' \in Tasks /\ waiter' \in [Waiters -> WaiterStates] => TypeOK'
           /\ record.phase = "done" => record' = record
PROOF
  <1>1. EffectsIntended'
      BY DEF Inv, EffectsIntended, SettledHonestly
  <1>2. record.phase = "done" => record' = record
      BY DEF SettledHonestly
  <1>3. StepKeepsContract
      BY <1>2 DEF StepKeepsContract, SettledHonestly, Frame
  <1>4. task' \in Tasks /\ waiter' \in [Waiters -> WaiterStates] => TypeOK'
      BY DEF Inv, TypeOK, Frame, SettledHonestly, source
  <1>5. QED
      BY <1>1, <1>2, <1>3, <1>4

(* A task that ends after an honest change.                                *)
LEMMA EndStep ==
    ASSUME Inv, Frame, SettledHonestly,
           NEW ret \in Returns, TaskEnds(ret), Committed(ret, record')
    PROVE  Inv' /\ StepKeepsContract
PROOF
  <1>1. record.phase = "done" => record' = record
      BY HonestStep
  <1>2. /\ task' \in Tasks /\ task'.pc = "none"
        /\ waiter' \in [Waiters -> WaiterStates] /\ ReturnsCommitted'
      BY <1>1, EndsFacts
  <1>3. SeenIsCurrent' /\ SeenPhase'
      BY <1>2 DEF SeenIsCurrent, SeenPhase, Working
  <1>4. QED
      BY <1>2, <1>3, HonestStep DEF Inv, SettledHonestly

(* A task that settled its call honestly and goes on to close.             *)
LEMMA SettleStep ==
    ASSUME Inv, Frame, SettledHonestly, waiter' = waiter,
           NEW ret \in Returns, Committed(ret, record'),
           task' = [task EXCEPT !.pc = "closing", !.ret = ret]
    PROVE  Inv' /\ StepKeepsContract
PROOF
  <1>1. task \in Tasks /\ waiter \in [Waiters -> WaiterStates]
      BY DEF Inv, TypeOK
  <1>2. task' \in Tasks /\ task'.pc = "closing" /\ task'.ret = ret
      BY <1>1 DEF Tasks
  <1>3. record.phase = "done" => record' = record
      BY HonestStep
  <1>4. ReturnsCommitted'
      BY <1>2, <1>3, ReturnsKept
  <1>5. SeenIsCurrent' /\ SeenPhase'
      BY <1>2 DEF SeenIsCurrent, SeenPhase, Working
  <1>6. QED
      BY <1>1, <1>2, <1>4, <1>5, HonestStep DEF Inv, SettledHonestly

(* The receipt that is not touched is settled honestly.                    *)
LEMMA Untouched ==
    ASSUME Inv, UNCHANGED <<call, record, results, effects>>
    PROVE  SettledHonestly
PROOF
  BY DEF Inv, TypeOK, SettledHonestly, ReceiptMatchesLog

(* The steps with which a task settles the call, or ends.                  *)
LEMMA TaskSettling ==
    ASSUME Inv,
           \/ TaskNeverRuns \/ TaskReads \/ TaskRaises \/ TaskClosed
           \/ TaskDenies \/ TaskDeniesFirst \/ TaskUnwinds
           \/ TaskInvalid \/ TaskFound \/ TaskLost \/ TaskRefused
           \/ TaskReturns \/ TaskThrows
    PROVE  Inv' /\ StepKeepsContract
PROOF
  <1> USE DEF bounds, source
  <1>1. record \in Records /\ task \in Tasks /\ task.seen \in Records
      BY DEF Inv, TypeOK, Tasks
  <1>2. "raised" \in Returns /\ Committed("raised", record')
      BY DEF Returns, Committed
  <1>3. CASE TaskNeverRuns \/ TaskRaises
    <2>1. Frame /\ SettledHonestly /\ TaskEnds("raised")
        BY <1>3, Untouched DEF TaskNeverRuns, TaskRaises, Frame
    <2>2. QED
        BY <1>2, <2>1, EndStep
  <1>4. CASE TaskReads
    <2>1. Frame /\ SettledHonestly /\ TaskEnds(record.result)
        BY <1>4, Untouched DEF TaskReads, Frame
    <2>2. record.result \in Returns /\ Committed(record.result, record')
        BY <1>4 DEF TaskReads, Inv, EffectsIntended, Returns, Committed
    <2>3. QED
        BY <2>1, <2>2, EndStep
  <1>5. CASE TaskClosed
    <2>1. Frame /\ SettledHonestly /\ TaskEnds(task.ret)
        BY <1>5, Untouched DEF TaskClosed, Frame
    <2>2. task.ret \in Returns /\ Committed(task.ret, record')
        BY <1>1, <1>5 DEF TaskClosed, Inv, ReturnsCommitted, Tasks
    <2>3. QED
        BY <2>1, <2>2, EndStep
  <1>6. CASE TaskDenies
    <2> DEFINE o == IF record.phase = "started" THEN "interrupted" ELSE "denied"
    <2>1. /\ Frame /\ effects' = effects
          /\ Finish(record, o) /\ TaskEnds(Finished(record, o))
        BY <1>6 DEF TaskDenies, Frame
    <2>2. o \in Outcomes /\ (o = "denied" => record.phase = "done" \/ effects = 0)
          /\ o # "reported"
        BY DEF Inv, TypeOK, EffectsIntended, Outcomes
    <2> HIDE DEF o
    <2>3. SettledHonestly
        BY <1>1, <2>1, <2>2, FinishHonest DEF Frame
    <2>4. Finished(record, o) \in Returns /\ Committed(Finished(record, o), record')
        BY <1>1, <2>1, <2>2, FinishFacts DEF Frame
    <2>5. QED
        BY <2>1, <2>3, <2>4, EndStep
  <1>15. CASE TaskDeniesFirst
    <2>1. CanFinish(record)
        BY <1>15 DEF TaskDeniesFirst, Inv, ReceiptMatchesLog, CanFinish
    <2>2. /\ Frame /\ effects' = effects /\ TaskEnds("denied")
          /\ record' = [Saved(Saved(record, "prepared"), "done") EXCEPT !.result = "denied"]
          /\ results' = IF call.message THEN Append(results, "denied") ELSE results
          /\ record.phase = "none"
        BY <1>15, <2>1 DEF TaskDeniesFirst, Frame
    <2>3. /\ record' \in Records /\ record'.phase = "done" /\ record'.result = "denied"
        BY <1>1, <2>2 DEF Saved, Records, Phases, Outcomes
    <2>4. effects = 0
        BY <2>2 DEF Inv, TypeOK, EffectsIntended
    <2>9. results \in Seq(Outcomes) /\ "denied" \in Outcomes
        BY DEF Inv, TypeOK, Outcomes
    <2>10. results' \in Seq(Outcomes)
        BY <2>2, <2>9
    <2>11. ReceiptMatchesLog'
        BY <2>1, <2>2, <2>3, <2>9 DEF ReceiptMatchesLog, CanFinish, Frame
    <2>5. results' \in Seq(Outcomes) /\ ReceiptMatchesLog'
        BY <2>10, <2>11
    <2>6. SettledHonestly
        BY <2>2, <2>3, <2>4, <2>5 DEF SettledHonestly, Outcomes
    <2>7. "denied" \in Returns /\ Committed("denied", record')
        BY <2>3 DEF Returns, Outcomes, Committed
    <2>8. QED
        BY <2>2, <2>6, <2>7, EndStep
  <1>7. CASE TaskUnwinds
    <2>1. Frame /\ effects' = effects /\ TaskEnds("raised")
        BY <1>7 DEF TaskUnwinds, Frame
    <2>2. SettledHonestly
      <3>1. CASE record.phase = "started"
        <4>1. Finish(record, "interrupted") /\ "interrupted" \in Outcomes
            BY <1>7, <3>1 DEF TaskUnwinds, Outcomes
        <4>2. QED
            BY <1>1, <2>1, <4>1, FinishHonest DEF Frame
      <3>2. CASE record.phase # "started"
          BY <1>7, <2>1, <3>2, Untouched DEF TaskUnwinds, Frame
      <3>3. QED
          BY <3>1, <3>2
    <2>3. QED
        BY <1>2, <2>1, <2>2, EndStep
  <1>8. ASSUME NEW o \in Outcomes, TaskSettles(o),
               o = "denied" => record.phase = "done" \/ effects = 0,
               o = "reported" => record.phase = "done" \/ effects > 0
        PROVE  Inv' /\ StepKeepsContract
    <2>1. /\ Frame /\ effects' = effects /\ waiter' = waiter
          /\ Finish(task.seen, o)
          /\ task' = [task EXCEPT !.pc = "closing", !.ret = Finished(task.seen, o)]
        BY <1>8 DEF TaskSettles, Frame
    <2>2. SettledHonestly
        BY <1>1, <1>8, <2>1, FinishHonest DEF Frame
    <2>3. /\ Finished(task.seen, o) \in Returns
          /\ Committed(Finished(task.seen, o), record')
        BY <1>1, <1>8, <2>1, FinishFacts DEF Frame
    <2>4. QED
        BY <2>1, <2>2, <2>3, SettleStep
  <1>9. CASE TaskInvalid \/ TaskLost
      BY <1>8, <1>9 DEF TaskInvalid, TaskLost, Outcomes
  <1>10. CASE TaskFound
      BY <1>8, <1>10 DEF TaskFound, Outcomes
  <1>11. CASE TaskReturns
    <2>1. effects > 0
        BY <1>11 DEF TaskReturns, Inv, SeenPhase
    <2>2. QED
        BY <1>8, <1>11, <2>1 DEF TaskReturns, Outcomes
  <1>12. CASE TaskRefused
    <2> DEFINE o == IF task.seen.phase = "started" THEN "interrupted" ELSE "denied"
    <2>1. o = "denied" => record.phase = "done" \/ effects = 0
        BY <1>12 DEF TaskRefused, Inv, TypeOK, SeenIsCurrent, SeenPhase, EffectsIntended,
           Working
    <2>2. o \in Outcomes /\ o # "reported" /\ TaskSettles(o)
        BY <1>12 DEF TaskRefused, Outcomes
    <2> HIDE DEF o
    <2>3. QED
        BY <1>8, <2>1, <2>2
  <1>13. CASE TaskThrows
    <2>1. PICK o \in {"error", "interrupted"} : Finish(task.seen, o)
        BY <1>13 DEF TaskThrows
    <2>2. /\ Frame /\ effects' = effects /\ waiter' = waiter
          /\ task' = [task EXCEPT !.pc = "closing", !.ret = "raised"]
        BY <1>13 DEF TaskThrows, Frame
    <2>3. SettledHonestly
        BY <1>1, <2>1, <2>2, FinishHonest DEF Frame, Outcomes
    <2>4. QED
        BY <1>2, <2>2, <2>3, SettleStep
  <1>14. QED
      BY <1>3, <1>4, <1>5, <1>6, <1>7, <1>9, <1>10, <1>11, <1>12, <1>13, <1>15

(* The steps with which a task works towards the effect.                   *)
LEMMA TaskWorking ==
    ASSUME Inv, TaskRequests \/ TaskOpened \/ TaskPrepared \/ TaskResends \/ TaskStarts
    PROVE  Inv' /\ StepKeepsContract
PROOF
  <1> USE DEF bounds, source
  <1>1. /\ record \in Records /\ task \in Tasks /\ task.seen \in Records
        /\ waiter \in [Waiters -> WaiterStates] /\ effects \in Nat
        /\ results \in Seq(Outcomes)
      BY DEF Inv, TypeOK, Tasks
  <1>2. CASE TaskOpened \/ TaskResends
    <2>1. /\ Frame /\ waiter' = waiter /\ UNCHANGED <<record, results, effects>>
        BY <1>2 DEF TaskOpened, TaskResends, Frame
    <2>2. /\ task' \in Tasks /\ task'.seen = task.seen /\ task'.active = task.active
          /\ task.pc \in {"open", "query"} /\ task'.pc \in {"prepare", "query", "authorize"}
      <3>1. PICK next \in {"prepare", "query", "authorize"} : task' = [task EXCEPT !.pc = next]
          BY <1>2 DEF TaskOpened, TaskResends, Inv, SeenPhase
      <3>2. task.pc \in {"open", "query"}
          BY <1>2 DEF TaskOpened, TaskResends
      <3>3. QED
          BY <1>1, <3>1, <3>2 DEF Tasks
    <2>3. SeenPhase'
        BY <1>1, <1>2, <2>1, <2>2 DEF TaskOpened, TaskResends, Inv, SeenPhase, Tasks, Frame
    <2>4. SeenIsCurrent'
        BY <2>1, <2>2 DEF Inv, SeenIsCurrent, Working
    <2>5. ReturnsCommitted'
        BY <2>1, <2>2, ReturnsKept
    <2>6. SettledHonestly
        BY <2>1, Untouched DEF Frame
    <2>7. QED
        BY <1>1, <2>1, <2>2, <2>3, <2>4, <2>5, <2>6, HonestStep DEF Inv, SettledHonestly
  <1>3. CASE TaskRequests
    <2>1. /\ Frame /\ waiter' = waiter /\ UNCHANGED <<results, effects>>
          /\ record' = IF record.phase = "none" THEN Saved(record, "requested") ELSE record
          /\ task' = [task EXCEPT !.pc = "open", !.seen = record']
          /\ record.phase # "done"
        BY <1>3 DEF TaskRequests, Frame
    <2>2. /\ record' \in Records /\ record'.phase \in {"requested", "prepared", "started"}
          /\ record.phase # "none" => record' = record
        BY <1>1, <2>1, FormFacts DEF Saved, Records, Phases
    <2>3. task' \in Tasks /\ task'.pc = "open" /\ task'.seen = record'
        BY <1>1, <2>1, <2>2 DEF Tasks
    <2>4. TypeOK'
        BY <1>1, <2>1, <2>2, <2>3 DEF Inv, TypeOK, Frame
    <2>5. ReceiptMatchesLog'
        BY <2>1, <2>2 DEF Inv, ReceiptMatchesLog, Frame
    <2>6. SeenIsCurrent' /\ SeenPhase'
        BY <2>2, <2>3 DEF SeenIsCurrent, SeenPhase, Working
    <2>7. EffectsIntended'
        BY <2>1, <2>2 DEF Inv, EffectsIntended
    <2>8. ReturnsCommitted'
        BY <2>1, <2>3, ReturnsKept
    <2>9. StepKeepsContract
        BY <2>1, <2>2 DEF StepKeepsContract, Frame
    <2>10. QED
        BY <2>4, <2>5, <2>6, <2>7, <2>8, <2>9 DEF Inv
  <1>4. CASE TaskPrepared
    <2>1. task.seen = record /\ record.phase = "requested" /\ task.pc = "prepare"
        BY <1>4 DEF TaskPrepared, Inv, SeenIsCurrent, SeenPhase, Working
    <2>2. /\ Frame /\ waiter' = waiter /\ UNCHANGED <<results, effects>>
          /\ record' = Saved(record, "prepared")
          /\ task' = [task EXCEPT !.pc = "authorize", !.seen = record']
        BY <1>4, <2>1 DEF TaskPrepared, Frame
    <2>3. record' \in Records /\ record'.phase = "prepared"
        BY <1>1, <2>2, FormFacts DEF Saved, Phases
    <2>4. task' \in Tasks /\ task'.pc = "authorize" /\ task'.seen = record'
        BY <1>1, <2>2, <2>3 DEF Tasks
    <2>5. TypeOK'
        BY <1>1, <2>2, <2>3, <2>4 DEF Inv, TypeOK, Frame
    <2>6. ReceiptMatchesLog' /\ EffectsIntended'
        BY <2>1, <2>2, <2>3 DEF Inv, ReceiptMatchesLog, EffectsIntended, Frame
    <2>7. SeenIsCurrent' /\ SeenPhase'
        BY <2>3, <2>4 DEF SeenIsCurrent, SeenPhase, Working
    <2>8. ReturnsCommitted'
        BY <2>1, <2>2, <2>4, ReturnsKept
    <2>9. StepKeepsContract
        BY <2>1, <2>2, <2>3 DEF StepKeepsContract, Frame
    <2>10. QED
        BY <2>5, <2>6, <2>7, <2>8, <2>9 DEF Inv
  <1>5. CASE TaskStarts
    <2>1. /\ task.seen = record /\ record.phase # "done"
          /\ record.phase = "prepared" \/ call.idempotent
        BY <1>5 DEF TaskStarts, MayStart, Inv, SeenIsCurrent, SeenPhase, Working
    <2>2. /\ Frame /\ waiter' = waiter /\ results' = results /\ effects' = effects + 1
          /\ record' = Saved(record, "started")
          /\ task' = [task EXCEPT !.pc = "invoke", !.seen = record']
        BY <1>5, <2>1 DEF TaskStarts, Frame
    <2>3. record' \in Records /\ record'.phase = "started"
        BY <1>1, <2>2, FormFacts DEF Saved, Phases
    <2>4. task' \in Tasks /\ task'.pc = "invoke" /\ task'.seen = record'
        BY <1>1, <2>2, <2>3 DEF Tasks
    <2>5. effects' \in Nat /\ effects' > 0
        BY <1>1, <2>2
    <2>6. TypeOK'
        BY <1>1, <2>2, <2>3, <2>4, <2>5 DEF Inv, TypeOK, Frame
    <2>7. ReceiptMatchesLog' /\ EffectsIntended'
        BY <2>1, <2>2, <2>3 DEF Inv, ReceiptMatchesLog, EffectsIntended, Frame
    <2>8. SeenIsCurrent' /\ SeenPhase'
        BY <2>3, <2>4, <2>5 DEF SeenIsCurrent, SeenPhase, Working
    <2>9. ReturnsCommitted'
        BY <2>1, <2>2, <2>4, ReturnsKept
    <2>10. record.phase = "prepared" => effects = 0
        BY <1>1 DEF Inv, EffectsIntended
    <2>11. StepKeepsContract
        BY <2>1, <2>2, <2>3, <2>10 DEF StepKeepsContract, Frame
    <2>12. QED
        BY <2>6, <2>7, <2>8, <2>9, <2>11 DEF Inv
  <1>6. QED
      BY <1>2, <1>3, <1>4, <1>5

(* The control, its consumer, and the death of the process.                *)
LEMMA OutsideStep ==
    ASSUME Inv, Abandon \/ Speak \/ AbandonCall \/ Crash \/ CrashAtStart \/ CrashAtDeny
    PROVE  Inv' /\ StepKeepsContract
PROOF
  <1> USE DEF bounds, source
  <1>1. /\ record \in Records /\ task \in Tasks /\ task.seen \in Records
        /\ waiter \in [Waiters -> WaiterStates] /\ crashes \in Nat
      BY DEF Inv, TypeOK, Tasks
  <1>2. CASE Abandon \/ Speak
    <2>1. /\ UNCHANGED <<call, record, results, effects, task, waiter, consumed, attempts, crashes>>
          /\ abandoned' \in BOOLEAN
        BY <1>2, Zenon DEF Abandon, Speak, Inv, TypeOK
    <2>4. news' \in Nat
        BY <1>2 DEF Abandon, Speak, Inv, TypeOK
    <2>2. TypeOK'
        BY <2>1, <2>4 DEF Inv, TypeOK
    <2>3. QED
        BY <2>1, <2>2 DEF Inv, ReceiptMatchesLog, SeenIsCurrent, SeenPhase, EffectsIntended,
           ReturnsCommitted, StepKeepsContract
  <1>3. CASE AbandonCall
    <2>1. /\ UNCHANGED <<call, source, effects, waiter, attempts, crashes>>
          /\ Finish(record, AbandonOutcome)
          /\ task' = task \/ task' = CancelTask(task)
          /\ task.pc # "none" => task' = CancelTask(task)
        BY <1>3 DEF AbandonCall, Live
    <2>2. consumed' \in BOOLEAN
        BY <1>3, Zenon DEF AbandonCall
    <2>3. /\ AbandonOutcome \in Outcomes /\ AbandonOutcome # "reported"
          /\ AbandonOutcome = "denied" => record.phase = "done" \/ effects = 0
        BY DEF AbandonOutcome, Outcomes, Inv, TypeOK, EffectsIntended
    <2>4. SettledHonestly /\ record'.phase = "done"
        BY <1>1, <2>1, <2>3, FinishHonest, FinishFacts
    <2>5. /\ task' \in Tasks /\ task'.pc = task.pc /\ task'.seen = task.seen
          /\ task'.ret = task.ret
          /\ task.pc # "none" => ~ task'.active
      <3>1. CASE task' = task /\ task.pc = "none"
          BY <1>1, <3>1
      <3>2. CASE task' = [task EXCEPT !.active = FALSE]
          BY <1>1, <3>2 DEF Tasks
      <3>3. QED
          BY <2>1, <3>1, <3>2 DEF CancelTask
    <2>6. TypeOK'
        BY <1>1, <2>1, <2>2, <2>4, <2>5 DEF Inv, TypeOK, SettledHonestly
    <2>7. SeenIsCurrent' /\ SeenPhase'
        BY <2>1, <2>4, <2>5 DEF Inv, SeenIsCurrent, SeenPhase, Working
    <2>8. ReturnsCommitted'
        BY <2>1, <2>4, <2>5 DEF Inv, ReturnsCommitted, Committed, SettledHonestly
    <2>9. EffectsIntended'
        BY <2>1, <2>4 DEF Inv, EffectsIntended, SettledHonestly
    <2>10. StepKeepsContract
        BY <2>1, <2>4 DEF StepKeepsContract, SettledHonestly
    <2>11. QED
        BY <2>4, <2>6, <2>7, <2>8, <2>9, <2>10 DEF Inv, SettledHonestly
  <1>4. CASE Crash \/ CrashAtStart \/ CrashAtDeny
    <2>1. /\ UNCHANGED <<call, results, source, effects, attempts>>
          /\ task' = NoTask /\ waiter' = [w \in Waiters |-> IdleWaiter]
          /\ crashes' = crashes + 1
        BY <1>4 DEF Crash, CrashAtStart, CrashAtDeny, Dies
    <2>2. consumed' \in BOOLEAN
        BY <1>4, Zenon DEF Crash, CrashAtStart, CrashAtDeny, Dies
    <2>3. /\ record' \in Records
          /\ \/ record' = record
             \/ record.phase # "done" /\ record'.phase = "started"
             \/ record.phase = "none" /\ record'.phase = "prepared"
      <3>1. CASE Crash
          BY <1>1, <3>1 DEF Crash
      <3>2. CASE CrashAtStart
        <4>1. record.phase # "done"
            BY <3>2 DEF CrashAtStart, MayStart, Inv, SeenIsCurrent, Working
        <4>2. record' = Saved(record, "started") /\ "started" \in Phases
            BY <3>2 DEF CrashAtStart, Phases
        <4>3. QED
            BY <1>1, <4>1, <4>2, FormFacts DEF Saved
      <3>3. CASE CrashAtDeny
        <4>1. record.phase = "none" /\ record' = Saved(record, "prepared") /\ "prepared" \in Phases
            BY <3>3 DEF CrashAtDeny, Phases
        <4>2. QED
            BY <1>1, <4>1, FormFacts DEF Saved
      <3>4. QED
          BY <1>4, <3>1, <3>2, <3>3
    <2>4. task' \in Tasks /\ task'.pc = "none" /\ waiter' \in [Waiters -> WaiterStates]
        BY <2>1, FormFacts DEF NoTask
    <2>5. TypeOK'
        BY <1>1, <2>1, <2>2, <2>3, <2>4 DEF Inv, TypeOK
    <2>6. ReceiptMatchesLog' /\ EffectsIntended'
        BY <2>1, <2>3 DEF Inv, ReceiptMatchesLog, EffectsIntended
    <2>7. SeenIsCurrent' /\ SeenPhase'
        BY <2>4 DEF SeenIsCurrent, SeenPhase, Working
    <2>8. ReturnsCommitted'
        BY <2>1, <2>4 DEF ReturnsCommitted, IdleWaiter
    <2>9. StepKeepsContract
        BY <2>1, <2>3 DEF StepKeepsContract
    <2>10. QED
        BY <2>5, <2>6, <2>7, <2>8, <2>9 DEF Inv
  <1>5. QED
      BY <1>2, <1>3, <1>4

(* Every step keeps the invariant and moves as the contract allows.        *)
LEMMA InvNext == Inv /\ [Next]_vars => Inv' /\ (vars' = vars \/ StepKeepsContract)
PROOF
  <1> SUFFICES ASSUME Inv, [Next]_vars PROVE Inv' /\ (vars' = vars \/ StepKeepsContract)
      OBVIOUS
  <1>1. CASE UNCHANGED vars
      BY <1>1 DEF vars, Inv, TypeOK, ReceiptMatchesLog, SeenIsCurrent, SeenPhase,
         EffectsIntended, ReturnsCommitted
  <1>2. CASE \E w \in Waiters : Caller(w) \/ Wakes(w)
      BY <1>2, CallerStep
  <1>3. CASE TaskStep
      BY <1>3, TaskSettling, TaskWorking DEF TaskStep
  <1>4. CASE Abandon \/ Speak \/ AbandonCall \/ Crash \/ CrashAtStart \/ CrashAtDeny
      BY <1>4, OutsideStep
  <1>5. QED
      BY <1>1, <1>2, <1>3, <1>4 DEF Next

(* The invariant holds in every reachable state.                           *)
THEOREM ToolInvariant == Spec => []Inv
PROOF
  BY InvInit, InvNext, PTL DEF Spec

(* For every set of callers and any number of restarts the log holds the   *)
(* result of a call exactly when its receipt is done, once, with the same  *)
(* outcome.                                                                *)
THEOREM ReceiptMatchesLogAlways == Spec => []ReceiptMatchesLog
PROOF
  <1>1. Inv => ReceiptMatchesLog
      BY DEF Inv
  <1>2. QED
      BY <1>1, ToolInvariant, PTL

(* Every caller that is given an outcome is given the committed one.       *)
THEOREM CallersAgreeAlways == Spec => []CallersAgree
PROOF
  <1>1. Inv => CallersAgree
      BY DEF Inv, ReturnsCommitted, Committed, CallersAgree
  <1>2. QED
      BY <1>1, ToolInvariant, PTL

-----------------------------------------------------------------------------
(* Why check_start is enough for an abandon it never looks for.            *)

(* The abandon is news for the task in the slot and for every caller that  *)
(* still has the call on its list.                                         *)
AbandonIsNews ==
    /\ abandoned => call.message /\ news > 0 /\ task.head < news
    /\ \A w \in Waiters : waiter[w].head <= news
    /\ task.head <= news
    /\ abandoned => \A w \in Waiters : waiter[w].state = "listed" => waiter[w].head < news

LEMMA NewsTypes ==
    ASSUME Inv
    PROVE  /\ news \in Nat /\ task \in Tasks /\ task.head \in Nat
           /\ waiter \in [Waiters -> WaiterStates]
           /\ \A w \in Waiters : waiter[w] \in WaiterStates /\ waiter[w].head \in Nat
PROOF
  BY DEF Inv, TypeOK, Tasks, WaiterStates

(* A step without news in which the slot is emptied or keeps its head and  *)
(* no caller is put on the list.                                           *)
LEMMA SameNews ==
    ASSUME Inv, AbandonIsNews, UNCHANGED <<call, abandoned, news>>,
           task' = NoTask \/ task'.head = task.head,
           \A w \in Waiters :
               \/ waiter'[w].head = 0 /\ waiter'[w].state # "listed"
               \/ waiter'[w].head = waiter[w].head /\ waiter'[w].state \in {waiter[w].state, "joined"}
    PROVE  AbandonIsNews'
PROOF
  <1>1. news \in Nat /\ NoTask.head = 0
      BY NewsTypes DEF NoTask
  <1>2. task'.head \in {0, task.head}
      BY <1>1
  <1>3. \A w \in Waiters : waiter'[w].head \in {0, waiter[w].head}
      OBVIOUS
  <1>4. /\ abandoned' => call'.message /\ news' > 0 /\ task'.head < news'
        /\ task'.head <= news'
      BY <1>1, <1>2 DEF AbandonIsNews
  <1>5. \A w \in Waiters : waiter'[w].head <= news'
      BY <1>1, <1>3 DEF AbandonIsNews
  <1>6. abandoned' => \A w \in Waiters : waiter'[w].state = "listed" => waiter'[w].head < news'
    <2> SUFFICES ASSUME abandoned', NEW w \in Waiters, waiter'[w].state = "listed"
                 PROVE  waiter'[w].head < news'
        OBVIOUS
    <2>1. waiter'[w].head = waiter[w].head /\ waiter[w].state = "listed"
        OBVIOUS
    <2>2. QED
        BY <2>1 DEF AbandonIsNews
  <1>7. QED
      BY <1>4, <1>5, <1>6 DEF AbandonIsNews

(* Only the callers w that move change, in a step of theirs.               *)
LEMMA CallerNews ==
    ASSUME Inv, AbandonIsNews, NEW w \in Waiters, Caller(w) \/ Wakes(w)
    PROVE  AbandonIsNews'
PROOF
  <1> USE DEF source, bounds
  <1>1. /\ news \in Nat /\ waiter \in [Waiters -> WaiterStates] /\ waiter[w].head \in Nat
        /\ task \in Tasks
      BY NewsTypes
  <1>2. CASE Begin(w)
    <2>1. PICK v : v = [IdleWaiter EXCEPT !.state = "begun", !.head = news]
        OBVIOUS
    <2>2. v.head = news /\ v.state = "begun"
        BY <2>1 DEF IdleWaiter
    <2>3. waiter' = [waiter EXCEPT ![w] = v] /\ UNCHANGED <<call, abandoned, news, task>>
        BY <1>2, <2>1 DEF Begin
    <2>4. QED
        BY <1>1, <2>2, <2>3 DEF AbandonIsNews
  <1>3. CASE List(w)
    <2>1. ~ abandoned /\ UNCHANGED <<call, abandoned, news, task>>
        BY <1>3 DEF List
    <2>2. \A v \in Waiters : waiter'[v].head = waiter[v].head
        BY <1>1, <1>3 DEF List, WaiterStates
    <2>3. QED
        BY <2>1, <2>2 DEF AbandonIsNews
  <1>4. ASSUME NEW kind, NEW head, Enlist(w, kind, head), head <= news, abandoned => head < news
        PROVE  AbandonIsNews'
    <2>1. PICK v : v = [IdleWaiter EXCEPT !.state = "waiting", !.kind = kind, !.owned = ~ Live]
        OBVIOUS
    <2>2. v.head = 0 /\ v.state = "waiting"
        BY <2>1 DEF IdleWaiter
    <2>3. /\ waiter' = [waiter EXCEPT ![w] = v] /\ UNCHANGED <<call, abandoned, news>>
          /\ task' = task \/ task' = NewTask(kind, head)
        BY <1>4, <2>1 DEF Enlist
    <2>4. task' = task \/ task'.head = head
        BY <2>3 DEF NewTask
    <2>5. QED
        BY <1>1, <1>4, <2>2, <2>3, <2>4 DEF AbandonIsNews
  <1>5. CASE Execute(w)
    <2>1. abandoned => waiter[w].head < news
      <3>1. abandoned => call.message
          BY DEF AbandonIsNews
      <3>2. call.message => waiter[w].state = "listed"
          BY <1>5 DEF Execute, Ready
      <3>3. QED
          BY <3>1, <3>2 DEF AbandonIsNews
    <2>2. waiter[w].head <= news /\ Enlist(w, "run", waiter[w].head)
        BY <1>5 DEF Execute, AbandonIsNews
    <2>3. QED
        BY <1>4, <2>1, <2>2
  <1>6. CASE Deny(w)
    <2>1. Enlist(w, "deny", 0) /\ 0 <= news /\ (abandoned => 0 < news)
        BY <1>1, <1>6 DEF Deny, AbandonIsNews
    <2>2. QED
        BY <1>4, <2>1
  <1>7. CASE WaiterCancelled(w) \/ Wakes(w)
    <2>1. PICK ret : Leaves(w, ret)
        BY <1>7 DEF Wakes, WaiterCancelled, WaiterSettled, WaiterJoined
    <2>7. PICK v : v = [IdleWaiter EXCEPT
              !.state = IF ret = "raised" THEN "raised" ELSE "returned", !.ret = ret]
        OBVIOUS
    <2>2. /\ v.head = 0 /\ v.state # "listed"
          /\ waiter' = [waiter EXCEPT ![w] = v]
        BY <2>1, <2>7 DEF Leaves, IdleWaiter
    <2>3. UNCHANGED <<call, abandoned, news>> /\ (task' = task \/ task' = CancelTask(task))
        BY <1>7 DEF Wakes, WaiterCancelled, WaiterSettled, WaiterJoined
    <2>4. task'.head = task.head
        BY <1>1, <2>3 DEF CancelTask, Tasks
    <2>5. \A u \in Waiters :
              \/ waiter'[u].head = 0 /\ waiter'[u].state # "listed"
              \/ waiter'[u].head = waiter[u].head /\ waiter'[u].state \in {waiter[u].state, "joined"}
        BY <1>1, <2>2
    <2>6. QED
        BY <2>3, <2>4, <2>5, SameNews
  <1>8. QED
      BY <1>2, <1>3, <1>5, <1>6, <1>7 DEF Caller

(* The program of the task keeps the head it was started with.             *)
LEMMA TaskNews ==
    ASSUME Inv, AbandonIsNews, TaskStep
    PROVE  AbandonIsNews'
PROOF
  <1> USE DEF source, bounds
  <1>1. task \in Tasks /\ waiter \in [Waiters -> WaiterStates]
      BY NewsTypes
  <1>2. UNCHANGED <<call, abandoned, news>>
      BY DEF TaskStep, TaskNeverRuns, TaskReads, TaskRequests, TaskDenies, TaskDeniesFirst,
         TaskUnwinds, TaskRaises, TaskOpened, TaskInvalid, TaskPrepared, TaskFound, TaskLost,
         TaskResends, TaskRefused, TaskStarts, TaskReturns, TaskThrows, TaskClosed, TaskSettles
  <1>3. ASSUME NEW ret, TaskEnds(ret)
        PROVE  AbandonIsNews'
    <2>1. task' = NoTask
        BY <1>3 DEF TaskEnds
    <2>2. ASSUME NEW w \in Waiters
          PROVE  /\ waiter'[w].head = waiter[w].head
                 /\ waiter'[w].state \in {waiter[w].state, "joined"}
        BY <1>1, <1>3 DEF TaskEnds, WaiterStates
    <2>3. QED
        BY <1>2, <2>1, <2>2, SameNews
  <1>4. ASSUME waiter' = waiter, task'.head = task.head
        PROVE  AbandonIsNews'
      BY <1>2, <1>4, SameNews
  <1>5. CASE \/ TaskNeverRuns \/ TaskReads \/ TaskDenies \/ TaskDeniesFirst \/ TaskUnwinds
             \/ TaskRaises \/ TaskClosed
      BY <1>3, <1>5 DEF TaskNeverRuns, TaskReads, TaskDenies, TaskDeniesFirst, TaskUnwinds,
         TaskRaises, TaskClosed
  <1>6. ASSUME NEW o, TaskSettles(o)
        PROVE  AbandonIsNews'
    <2>1. waiter' = waiter /\ task'.head = task.head
        BY <1>1, <1>6 DEF TaskSettles, Tasks
    <2>2. QED
        BY <1>4, <2>1
  <1>7. CASE \/ TaskInvalid \/ TaskFound \/ TaskLost \/ TaskRefused \/ TaskReturns
      BY <1>6, <1>7 DEF TaskInvalid, TaskFound, TaskLost, TaskRefused, TaskReturns
  <1>8. CASE TaskRequests \/ TaskOpened \/ TaskResends \/ TaskThrows
    <2>1. waiter' = waiter /\ task'.head = task.head
        BY <1>1, <1>8 DEF TaskRequests, TaskOpened, TaskResends, TaskThrows, Tasks
    <2>2. QED
        BY <1>4, <2>1
  <1>9. CASE TaskPrepared \/ TaskStarts
    <2>1. TaskEnds("raised") \/ (waiter' = waiter /\ task'.head = task.head)
        BY <1>1, <1>9 DEF TaskPrepared, TaskStarts, Tasks
    <2>2. QED
        BY <1>3, <1>4, <2>1
  <1>10. QED
      BY <1>5, <1>7, <1>8, <1>9 DEF TaskStep

(* Every step keeps the abandon news.                                      *)
LEMMA NewsNext == Inv /\ AbandonIsNews /\ [Next]_vars => AbandonIsNews'
PROOF
  <1> SUFFICES ASSUME Inv, AbandonIsNews, [Next]_vars PROVE AbandonIsNews'
      OBVIOUS
  <1> USE DEF source, bounds
  <1>1. /\ news \in Nat /\ task.head \in Nat /\ task \in Tasks
        /\ \A w \in Waiters : waiter[w].head \in Nat
      BY NewsTypes
  <1>2. CASE Abandon \/ Speak
    <2>1. /\ news' = news + 1 /\ UNCHANGED <<call, task, waiter>>
          /\ abandoned' => call.message
        BY <1>2 DEF Abandon, Speak, AbandonIsNews
    <2>2. QED
        BY <1>1, <2>1 DEF AbandonIsNews
  <1>3. CASE AbandonCall
    <2>1. /\ UNCHANGED <<call, abandoned, news, waiter>>
          /\ task' = task \/ task' = CancelTask(task)
        BY <1>3 DEF AbandonCall
    <2>2. task'.head = task.head
        BY <1>1, <2>1 DEF CancelTask, Tasks
    <2>3. QED
        BY <2>1, <2>2, SameNews
  <1>4. CASE Crash \/ CrashAtStart \/ CrashAtDeny
    <2>1. /\ UNCHANGED <<call, abandoned, news>> /\ task' = NoTask
          /\ waiter' = [w \in Waiters |-> IdleWaiter]
        BY <1>4 DEF Crash, CrashAtStart, CrashAtDeny, Dies
    <2>2. \A w \in Waiters : waiter'[w].head = 0 /\ waiter'[w].state # "listed"
        BY <2>1 DEF IdleWaiter
    <2>3. QED
        BY <2>1, <2>2, SameNews
  <1>5. CASE UNCHANGED vars
      BY <1>5 DEF vars, AbandonIsNews
  <1>6. QED
      BY <1>2, <1>3, <1>4, <1>5, CallerNews, TaskNews DEF Next

(* The guard of the effect knows nothing of abandons, only news.           *)
LEMMA NewsStops ==
    ASSUME Inv, AbandonIsNews, Next, effects' # effects
    PROVE  ~ abandoned
PROOF
  <1>1. TaskStarts
      BY DEF Next, Caller, Wakes, Begin, List, Execute, Deny, Enlist, WaiterCancelled,
         WaiterSettled, WaiterJoined, TaskStep, TaskNeverRuns, TaskReads, TaskRequests,
         TaskDenies, TaskDeniesFirst, TaskUnwinds, TaskRaises, TaskOpened, TaskInvalid,
         TaskPrepared, TaskFound, TaskLost, TaskResends, TaskRefused, TaskReturns, TaskThrows,
         TaskClosed, TaskSettles, Abandon, Speak, AbandonCall, Crash, CrashAtStart,
         CrashAtDeny, Dies
  <1>2. call.message => task.head = news
      BY <1>1 DEF TaskStarts, MayStart
  <1>3. news \in Nat
      BY NewsTypes
  <1>4. QED
      BY <1>2, <1>3 DEF AbandonIsNews

(* No effect is entered after the user has abandoned the call, although    *)
(* check_start only compares heads: the abandon is news for every program  *)
(* that listed the call before it, and none lists the call after it.       *)
THEOREM NoEffectAfterAbandonAlways == Spec => NoEffectAfterAbandon
PROOF
  <1>1. Init => AbandonIsNews
      BY DEF Init, AbandonIsNews, NoTask, IdleWaiter
  <1>2. Inv /\ AbandonIsNews /\ [Next]_vars => [effects' # effects => ~ abandoned]_vars
    <2> SUFFICES ASSUME Inv, AbandonIsNews, Next, effects' # effects PROVE ~ abandoned
        BY DEF vars
    <2>1. QED
        BY NewsStops
  <1>3. QED
      BY <1>1, <1>2, NewsNext, ToolInvariant, PTL DEF Spec, NoEffectAfterAbandon

(* The execution implements the effect contract: a tool that is not        *)
(* idempotent is entered at most once, nothing is entered after the call   *)
(* is settled, the outcome is final and does not lie.                      *)
THEOREM ExecutionImplementsContract == Spec => ImplementsContract
PROOF
  <1>1. Init => Contract!ContractInit
      BY DEF Init, Contract!ContractInit, Outcome, NoRecord
  <1>2. Inv /\ Inv' /\ (vars' = vars \/ StepKeepsContract)
           => [Contract!ContractNext]_(Contract!contractVars)
    <2> SUFFICES ASSUME Inv, Inv', vars' = vars \/ StepKeepsContract
                 PROVE  Contract!ContractNext \/ UNCHANGED Contract!contractVars
        OBVIOUS
    <2>1. CASE vars' = vars
        BY <2>1 DEF vars, Contract!contractVars, Outcome
    <2>2. CASE StepKeepsContract /\ effects' # effects
      <3>1. Contract!Enter
          BY <2>2 DEF StepKeepsContract, Contract!Enter, Outcome
      <3>2. QED
          BY <3>1 DEF Contract!ContractNext
    <2>3. CASE StepKeepsContract /\ effects' = effects /\ record.phase # "done"
               /\ record'.phase = "done"
      <3>1. Contract!Settle(record'.result) /\ record'.result \in Contract!Outcomes
          BY <2>3 DEF StepKeepsContract, Contract!Settle, Contract!Honest, Outcome,
             Outcomes, Contract!Outcomes
      <3>2. QED
          BY <3>1 DEF Contract!ContractNext
    <2>4. CASE StepKeepsContract /\ effects' = effects
               /\ ~ (record.phase # "done" /\ record'.phase = "done")
        BY <2>4 DEF StepKeepsContract, Contract!contractVars, Outcome
    <2>5. QED
        BY <2>1, <2>2, <2>3, <2>4
  <1>3. QED
      BY <1>1, <1>2, InvNext, ToolInvariant, PTL DEF Spec, ImplementsContract,
         Contract!ContractSpec
=============================================================================
