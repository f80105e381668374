--------------------------- MODULE SchedulerProofs ---------------------------
(* Theorems about Scheduler, for every finite set of jobs, every interval   *)
(* and grace, and every bound.                                              *)
EXTENDS Scheduler, FiniteSetTheorems, TLAPS

USE SchedulerAssumption

-----------------------------------------------------------------------------
(* The grid of due times.                                                   *)

LEMMA Scaled ==
    ASSUME NEW a \in Nat, NEW b \in Nat, NEW c \in Nat, a <= b
    PROVE  a * c <= b * c /\ a * c \in Nat
OBVIOUS

LEMMA DivBound ==
    ASSUME NEW d \in Nat
    PROVE  /\ d \div Interval \in Nat /\ (d \div Interval) * Interval <= d
           /\ d < (d \div Interval) * Interval + Interval
<1>1. d \div Interval \in Int /\ d \div Interval >= 0
  OBVIOUS
<1>2. (d \div Interval) * Interval <= d
  OBVIOUS
<1>3. d < (d \div Interval) * Interval + Interval
  OBVIOUS
<1> QED BY <1>1, <1>2, <1>3

(* A due time that is early, exactly due or late by any number of intervals *)
(* is moved to the first point of the job's grid after both itself and the  *)
(* clock (advance, store.py): no due time is repeated, none stays in the    *)
(* past, and none of the future is passed over.                             *)
THEOREM AdvanceAhead ==
    ASSUME NEW at \in Nat, NEW after \in Nat
    PROVE  /\ Advance(at, after) \in Nat
           /\ Advance(at, after) > at /\ Advance(at, after) > after
           /\ Advance(at, after) <= Later(at, after) + Interval
           /\ \E k \in Nat : Advance(at, after) = at + k * Interval
<1>1. CASE after > at
  <2>1. after - at \in Nat /\ Later(at, after) = after
    BY <1>1 DEF Later
  <2> DEFINE q == (after - at) \div Interval
  <2>2. q \in Nat /\ q * Interval <= after - at /\ after - at < q * Interval + Interval
    BY <2>1, DivBound
  <2>3. Advance(at, after) = at + (q + 1) * Interval
    BY <1>1 DEF Advance
  <2> HIDE DEF q
  <2>4. (q + 1) * Interval = q * Interval + Interval
    BY <2>2
  <2>5. q * Interval \in Nat
    BY <2>2, Scaled
  <2>6. q + 1 \in Nat
    BY <2>2
  <2> QED BY <1>1, <2>1, <2>2, <2>3, <2>4, <2>5, <2>6
<1>2. CASE ~(after > at)
  <2>1. Advance(at, after) = at + (0 \div Interval + 1) * Interval
    BY <1>2 DEF Advance
  <2>2. 0 \div Interval = 0
    BY DivBound
  <2>3. Advance(at, after) = at + 1 * Interval
    BY <2>1, <2>2
  <2>4. Later(at, after) = at
    BY <1>2 DEF Later
  <2> QED BY <1>2, <2>3, <2>4
<1> QED BY <1>1, <1>2

LEMMA NextDue ==
    ASSUME NEW at \in Nat, at <= MaxTime, NEW t \in Nat, t <= MaxTime
    PROVE  Advance(at, Later(t, at)) \in Times /\ Advance(at, Later(t, at)) > at
<1>1. CASE t > at
  <2>1. Later(t, at) = t
    BY <1>1 DEF Later
  <2>2. Advance(at, t) \in Nat /\ Advance(at, t) > at /\ Advance(at, t) <= t + Interval
    BY <1>1, AdvanceAhead DEF Later
  <2> QED BY <2>1, <2>2 DEF Times
<1>2. CASE ~(t > at)
  <2>1. Later(t, at) = at
    BY <1>2 DEF Later
  <2>2. Advance(at, at) \in Nat /\ Advance(at, at) > at /\ Advance(at, at) <= at + Interval
    BY AdvanceAhead DEF Later
  <2> QED BY <2>1, <2>2 DEF Times
<1> QED BY <1>1, <1>2

-----------------------------------------------------------------------------
(* The invariant, by fire and by job.                                       *)

FireOK(f) ==
    /\ fires[f] = "pending" => jobs[f[1]].enabled /\ Key(f[1]) = f
    /\ fires[f] # "none" => ops[f[1]] = "added" /\ f[2] <= MaxTime
    /\ fires[f] # "none" /\ jobs[f[1]] # NoJob => f[2] <= jobs[f[1]].at
    /\ fires[f] = "none" => note[f] = "absent" /\ task[f] = NoTask
    /\ task[f].pc = "drain" => fires[f] = "cancelled"
    /\ task[f].pc \notin {"none", "new", "drain"} =>
            fires[f] = "pending" \/ (fires[f] = "cancelled" /\ ~task[f].live)
    /\ task[f].pc = "none" => task[f] = NoTask
    /\ task[f].pc \in {"idle", "program"} => note[f] = "absent"
    /\ task[f].pc \in {"send", "query", "sending"} => note[f] # "absent"
    /\ task[f].pc \in {"query", "sending"} => note[f] = "started"
    /\ task[f].pc = "settle" => note[f] \in {"delivered", "rejected", "failed"}
    /\ f[1] \in dropped => fires[f] # "pending"
    /\ fires[f] = "delivered" => note[f] = "delivered"

Delivered(j) == {f \in Fires : f[1] = j /\ fires[f] = "delivered"}

JobOK(j) ==
    /\ jobs[j].enabled => fires[Key(j)] \in {"none", "pending"}
    /\ jobs[j] # NoJob => /\ ops[j] = "added" /\ j \notin dropped
                          /\ jobs[j].count = Cardinality(Delivered(j))
    /\ j \in dropped => ops[j] = "added" /\ jobs[j] = NoJob

LEMMA SchedInvParts == SchedInv <=> TypeOK /\ (\A f \in Fires : FireOK(f)) /\ \A j \in Jobs : JobOK(j)
<1>1. \A f \in Fires : f[1] \in Jobs
  BY DEF Fires
<1>2. TypeOK => dropped \subseteq Jobs
  BY DEF TypeOK
<1>3. ASSUME SchedInv
      PROVE  TypeOK /\ (\A f \in Fires : FireOK(f)) /\ \A j \in Jobs : JobOK(j)
  BY <1>1, <1>2, <1>3 DEF SchedInv, FiresCurrent, TasksFit, CancelHolds, CountsDelivered, FireOK, JobOK, Delivered
<1>4. ASSUME TypeOK, \A f \in Fires : FireOK(f), \A j \in Jobs : JobOK(j)
      PROVE  SchedInv
  <2>1. FiresCurrent
    BY <1>4 DEF FiresCurrent, FireOK, JobOK
  <2>2. TasksFit
    BY <1>4 DEF TasksFit, FireOK
  <2>3. CancelHolds
    BY <1>2, <1>4 DEF CancelHolds, FireOK, JobOK
  <2>4. CountsDelivered
    BY <1>4 DEF CountsDelivered, FireOK, JobOK, Delivered
  <2> QED BY <1>4, <2>1, <2>2, <2>3, <2>4 DEF SchedInv
<1> QED BY <1>3, <1>4

LEMMA SchedInvPartsNext ==
    SchedInv' <=> TypeOK' /\ (\A f \in Fires : FireOK(f)') /\ \A j \in Jobs : JobOK(j)'
<1>1. (SchedInv <=> TypeOK /\ (\A f \in Fires : FireOK(f)) /\ \A j \in Jobs : JobOK(j))'
  BY SchedInvParts, PTL
<1>2. Fires' = Fires
  BY DEF Fires, Times
<1> QED BY <1>1, <1>2

LEMMA FiresFinite == IsFiniteSet(Fires)
<1>1. IsFiniteSet(0 .. (MaxTime + Interval))
  BY FS_Interval
<1> QED BY <1>1, FS_Product DEF Fires, Times

LEMMA EnabledJob ==
    ASSUME TypeOK, NEW j \in Jobs, jobs[j].enabled \/ jobs[j] # NoJob
    PROVE  /\ jobs[j] # NoJob /\ jobs[j] \in [at : Times, enabled : BOOLEAN, count : Nat]
           /\ Key(j) \in Fires /\ jobs[j].at \in Nat
BY DEF TypeOK, NoJob, Key, Fires, Times

-----------------------------------------------------------------------------
(* The steps of one task.                                                   *)

TaskPlaces == [pc : {"none", "new", "drain", "idle", "program", "send", "query", "sending", "settle"},
               live : BOOLEAN]
Phases == {"absent", "prepared", "started", "delivered", "rejected", "failed"}

\* What a task at w may be while its fire stands as it does and its
\* notification is in phase n.
Fits(f, w, n) ==
    /\ w.pc = "drain" => fires[f] = "cancelled"
    /\ w.pc \notin {"none", "new", "drain"} =>
            fires[f] = "pending" \/ (fires[f] = "cancelled" /\ ~w.live)
    /\ w.pc = "none" => w = NoTask
    /\ w.pc \in {"idle", "program"} => n = "absent"
    /\ w.pc \in {"send", "query", "sending"} => n # "absent"
    /\ w.pc \in {"query", "sending"} => n = "started"
    /\ w.pc = "settle" => n \in {"delivered", "rejected", "failed"}

(* A step that moves the task of one fire and its notification and leaves   *)
(* the file alone.                                                          *)
LEMMA TaskStep ==
    ASSUME SchedInv, NEW f \in Fires, fires[f] # "none",
           UNCHANGED <<jobs, ops, dropped, fires, follower, dirty, attempted, now, stops>>,
           replays' \in 0 .. MaxReplays,
           errors' \in 0 .. MaxErrors, active' \subseteq Fires,
           output' \in [Fires -> {"none", "complete", "incomplete"}],
           NEW w \in TaskPlaces, task' = [task EXCEPT ![f] = w],
           NEW n \in Phases, note' = [note EXCEPT ![f] = n],
           fires[f] = "delivered" => n = "delivered",
           Fits(f, w, n)
    PROVE  SchedInv'
<1>1. TypeOK /\ (\A g \in Fires : FireOK(g)) /\ \A j \in Jobs : JobOK(j)
  BY SchedInvParts
<1>2. TypeOK'
  BY <1>1 DEF TypeOK, TaskPlaces, Phases
<1>3. task'[f] = w /\ note'[f] = n
        /\ \A g \in Fires \ {f} : task'[g] = task[g] /\ note'[g] = note[g]
  BY <1>1 DEF TypeOK
<1>4. ASSUME NEW g \in Fires
      PROVE  FireOK(g)'
  <2>1. CASE g = f
    BY <1>1, <1>3, <2>1 DEF FireOK, Fits, Key
  <2>2. CASE g # f
    BY <1>1, <1>3, <2>2 DEF FireOK, Key
  <2> QED BY <2>1, <2>2
<1>5. ASSUME NEW j \in Jobs
      PROVE  JobOK(j)'
  <2>1. Delivered(j)' = Delivered(j) /\ Key(j)' = Key(j)
    BY DEF Delivered, Key, Fires, Times
  <2> QED BY <1>1, <2>1 DEF JobOK
<1> QED BY <1>2, <1>4, <1>5, SchedInvPartsNext

LEMMA AtPlace ==
    ASSUME TypeOK, NEW f \in Fires, task[f].pc # "none",
           NEW pc \in {"drain", "idle", "program", "send", "query", "sending", "settle"},
           GoTo(f, pc)
    PROVE  \E w \in TaskPlaces : /\ task' = [task EXCEPT ![f] = w]
                                 /\ w.pc = pc /\ w.live = task[f].live
<1>1. task[f] \in TaskPlaces
  BY DEF TypeOK, TaskPlaces
<1>2. [task[f] EXCEPT !.pc = pc] \in TaskPlaces
  BY <1>1 DEF TaskPlaces
<1>3. task' = [task EXCEPT ![f] = [task[f] EXCEPT !.pc = pc]]
  BY DEF GoTo
<1> WITNESS [task[f] EXCEPT !.pc = pc] \in TaskPlaces
<1> QED BY <1>1, <1>3 DEF TaskPlaces

LEMMA TaskEnd ==
    ASSUME TypeOK, NEW f \in Fires, Ends(f)
    PROVE  /\ NoTask \in TaskPlaces /\ NoTask.pc = "none"
           /\ task' = [task EXCEPT ![f] = NoTask] /\ active' \subseteq Fires
BY DEF TypeOK, Ends, NoTask, TaskPlaces

LEMMA Kept ==
    ASSUME TypeOK, NEW f \in Fires
    PROVE  /\ note[f] \in Phases /\ note = [note EXCEPT ![f] = note[f]]
           /\ task[f] \in TaskPlaces
           /\ errors \in 0 .. MaxErrors /\ replays \in 0 .. MaxReplays /\ active \subseteq Fires
           /\ output \in [Fires -> {"none", "complete", "incomplete"}]
BY DEF TypeOK, Phases, TaskPlaces

LEMMA Withdrawn ==
    ASSUME TypeOK, NEW f \in Fires, Withdraw(f)
    PROVE  \E n \in Phases : /\ note' = [note EXCEPT ![f] = n]
                             /\ n = note[f] \/ (note[f] = "prepared" /\ n = "rejected")
<1>1. CASE note[f] = "prepared"
  <2>1. "rejected" \in Phases
    BY DEF Phases
  <2> WITNESS "rejected" \in Phases
  <2> QED BY <1>1 DEF Withdraw
<1>2. CASE note[f] # "prepared"
  <2>1. note[f] \in Phases
    BY Kept
  <2> WITNESS note[f] \in Phases
  <2> QED BY <1>2, Kept DEF Withdraw
<1> QED BY <1>1, <1>2 DEF Phases

(* A task that goes on to another place.                                    *)
LEMMA GoingSteps ==
    ASSUME SchedInv, NEW f \in Fires,
           \/ (Begins(f) /\ fires[f] = "pending") \/ TargetIdle(f)
           \/ (ProgramReturns(f) /\ output[f] = "complete")
           \/ SendStarts(f) \/ SendQueries(f) \/ SendRepeats(f) \/ SendReports(f)
           \/ \E phase \in {"delivered", "rejected", "failed"} : Receipt(f, phase)
    PROVE  SchedInv'
<1>1. TypeOK /\ FireOK(f)
  BY SchedInvParts
<1> USE DEF Elsewhere, durable, store
<1>2. /\ UNCHANGED <<jobs, ops, dropped, fires, follower, dirty, attempted, now, replays, stops>>
      /\ UNCHANGED <<errors, output, active>> /\ task[f].pc # "none"
  BY DEF Begins, TargetIdle, ProgramReturns, Publish, GoTo, SendStarts, SendQueries, SendRepeats,
         SendReports, Receipt
<1>3. fires[f] # "none" /\ (fires[f] = "delivered" => task[f].pc = "new")
  BY <1>1, <1>2 DEF FireOK, NoTask
<1>4. PICK pc \in {"idle", "program", "send", "query", "sending", "settle"}, n \in Phases :
        /\ GoTo(f, pc) /\ note' = [note EXCEPT ![f] = n]
        /\ fires[f] = "pending" \/ (fires[f] = "cancelled" /\ ~task[f].live)
        /\ pc \in {"idle", "program"} => n = "absent"
        /\ pc \in {"send", "query", "sending"} => n # "absent"
        /\ pc \in {"query", "sending"} => n = "started"
        /\ pc = "settle" => n \in {"delivered", "rejected", "failed"}
  <2>1. note[f] \in Phases /\ note = [note EXCEPT ![f] = note[f]]
    BY <1>1, Kept
  <2>2. CASE Begins(f) /\ fires[f] = "pending"
    BY <2>1, <2>2 DEF Begins
  <2>3. CASE TargetIdle(f) \/ (ProgramReturns(f) /\ output[f] = "complete")
    <3>1. fires[f] = "pending" /\ note[f] = "absent"
      BY <1>1, <2>3 DEF TargetIdle, ProgramReturns, FireOK
    <3>2. CASE Publish(f)
      BY <3>1, <3>2 DEF Publish, Phases
    <3>3. CASE ~Publish(f)
      BY <2>1, <2>3, <3>1, <3>3 DEF TargetIdle, ProgramReturns
    <3> QED BY <3>2, <3>3
  <2>4. CASE SendStarts(f) \/ SendQueries(f) \/ SendRepeats(f) \/ SendReports(f)
             \/ \E phase \in {"delivered", "rejected", "failed"} : Receipt(f, phase)
    <3>1. fires[f] = "pending" \/ (fires[f] = "cancelled" /\ ~task[f].live)
      BY <1>1, <2>4 DEF SendStarts, SendQueries, SendRepeats, SendReports, Receipt, FireOK
    <3>2. CASE SendStarts(f)
      BY <3>1, <3>2 DEF SendStarts, Phases
    <3>3. CASE SendQueries(f)
      BY <2>1, <3>1, <3>3 DEF SendQueries
    <3>4. CASE SendRepeats(f)
      BY <1>1, <2>1, <3>1, <3>4 DEF SendRepeats, FireOK
    <3>5. CASE SendReports(f)
      BY <2>1, <3>1, <3>5 DEF SendReports
    <3>6. CASE \E phase \in {"delivered", "rejected", "failed"} : Receipt(f, phase)
      BY <3>1, <3>6 DEF Receipt, Phases
    <3> QED BY <2>4, <3>2, <3>3, <3>4, <3>5, <3>6
  <2> QED BY <2>2, <2>3, <2>4
<1>5. PICK w \in TaskPlaces : task' = [task EXCEPT ![f] = w] /\ w.pc = pc /\ w.live = task[f].live
  BY <1>1, <1>2, <1>4, AtPlace
<1>6. Fits(f, w, n)
  BY <1>4, <1>5 DEF Fits
<1> QED BY <1>1, <1>2, <1>3, <1>4, <1>5, <1>6, Kept, TaskStep

(* A task that leaves its slot without a settlement.                        *)
(* The first look at a cancelled fire whose notification is withdrawn.      *)
LEMMA CleaningStep ==
    ASSUME SchedInv, NEW f \in Fires, Begins(f), fires[f] = "cancelled", GoTo(f, "drain")
    PROVE  SchedInv'
<1>1. TypeOK /\ FireOK(f)
  BY SchedInvParts
<1> USE DEF Elsewhere, store
<1>2. /\ UNCHANGED <<jobs, ops, dropped, fires, follower, dirty, attempted, now, replays, stops>>
      /\ UNCHANGED <<errors, output, active>> /\ task[f].pc # "none" /\ Withdraw(f)
  BY DEF Begins, GoTo
<1>3. PICK w \in TaskPlaces : task' = [task EXCEPT ![f] = w] /\ w.pc = "drain" /\ w.live = task[f].live
  BY <1>1, <1>2, AtPlace
<1>4. PICK n \in Phases : note' = [note EXCEPT ![f] = n]
  BY <1>1, <1>2, Withdrawn
<1>5. Fits(f, w, n)
  BY <1>3 DEF Fits
<1> QED BY <1>1, <1>2, <1>3, <1>4, <1>5, Kept, TaskStep

LEMMA LeavingSteps ==
    ASSUME SchedInv, NEW f \in Fires,
           \/ NeverRuns(f) \/ (Begins(f) /\ fires[f] # "pending" /\ Ends(f)) \/ Drained(f)
           \/ Raises(f) \/ CleanupRaises(f) \/ Interrupted(f)
    PROVE  SchedInv'
<1>1. TypeOK /\ FireOK(f)
  BY SchedInvParts
<1> USE DEF Elsewhere, durable, runtime, store, bounds
<1>2. /\ UNCHANGED <<jobs, ops, dropped, fires, follower, dirty, attempted, now, stops>>
      /\ UNCHANGED output /\ task[f].pc # "none"
  BY DEF NeverRuns, Begins, Drained, Raises, CleanupRaises, Interrupted
<1>3. fires[f] # "none"
  BY <1>1, <1>2 DEF FireOK, NoTask
<1>4. fires[f] = "delivered" => note[f] = "delivered"
  BY <1>1, <1>2 DEF FireOK
<1>5. /\ NoTask \in TaskPlaces /\ NoTask.pc = "none"
      /\ task' = [task EXCEPT ![f] = NoTask] /\ active' \subseteq Fires
  <2>1. CASE NeverRuns(f)
    BY <1>1, <2>1 DEF NeverRuns, TypeOK, NoTask, TaskPlaces
  <2>2. CASE \/ (Begins(f) /\ fires[f] # "pending" /\ Ends(f)) \/ Drained(f)
             \/ Raises(f) \/ CleanupRaises(f) \/ Interrupted(f)
    <3>1. Ends(f)
      BY <2>2 DEF Drained, Raises, CleanupRaises, Interrupted
    <3> QED BY <1>1, <3>1, TaskEnd
  <2> QED BY <2>1, <2>2
<1>6. errors' \in 0 .. MaxErrors /\ replays' \in 0 .. MaxReplays
  <2>1. /\ errors' = errors \/ (errors < MaxErrors /\ errors' = errors + 1)
        /\ replays' = replays \/ (replays < MaxReplays /\ replays' = replays + 1)
    BY DEF NeverRuns, Begins, Drained, Raises, CleanupRaises, Interrupted
  <2> QED BY <1>1, <2>1 DEF TypeOK
<1>7. PICK n \in Phases : /\ note' = [note EXCEPT ![f] = n]
                          /\ fires[f] = "delivered" => n = "delivered"
  <2>1. note[f] \in Phases /\ note = [note EXCEPT ![f] = note[f]]
    BY <1>1, Kept
  <2>2. CASE note' = note
    BY <1>4, <2>1, <2>2
  <2>3. CASE Withdraw(f)
    BY <1>1, <1>4, <2>3, Withdrawn
  <2>4. CASE Interrupted(f)
    <3>1. fires[f] # "delivered"
      BY <1>1, <2>4 DEF Interrupted, FireOK
    <3> QED BY <1>1, <1>4, <2>2, <2>3, <2>4, <3>1 DEF Interrupted, Phases
  <2>5. CASE \/ NeverRuns(f) \/ (Begins(f) /\ fires[f] # "pending") \/ Drained(f)
             \/ Raises(f) \/ CleanupRaises(f)
    BY <1>1, <1>3, <2>2, <2>3, <2>5 DEF NeverRuns, Begins, Drained, Raises, CleanupRaises, TypeOK
  <2> QED BY <2>4, <2>5
<1>8. Fits(f, NoTask, n)
  BY <1>5 DEF Fits
<1> QED BY <1>1, <1>2, <1>3, <1>5, <1>6, <1>7, <1>8, Kept, TaskStep

LEMMA ProgramSavesStep ==
    ASSUME SchedInv, NEW f \in Fires, NEW finish \in {"complete", "incomplete"}, ProgramSaves(f, finish)
    PROVE  SchedInv'
<1>1. TypeOK /\ FireOK(f)
  BY SchedInvParts
<1>2. /\ UNCHANGED <<jobs, ops, dropped, fires, follower, dirty, attempted, now, replays, stops>>
      /\ UNCHANGED <<errors, active, task, note>> /\ task[f].pc = "program"
      /\ output' \in [Fires -> {"none", "complete", "incomplete"}]
  BY <1>1 DEF ProgramSaves, runtime, store, bounds, TypeOK
<1>3. fires[f] # "none" /\ Fits(f, task[f], note[f]) /\ (fires[f] = "delivered" => note[f] = "delivered")
  BY <1>1, <1>2 DEF FireOK, Fits, NoTask
<1>4. task = [task EXCEPT ![f] = task[f]]
  BY <1>1 DEF TypeOK
<1> QED BY <1>1, <1>2, <1>3, <1>4, Kept, TaskStep

-----------------------------------------------------------------------------
(* Settlement: the job moves on along its grid, so its next due time has no *)
(* fire yet, and its count is that of its delivered fires.                  *)
LEMMA SettleStep ==
    ASSUME SchedInv, NEW f \in Fires, fires[f] = "pending",
           NEW status \in {"delivered", "failed"}, Settle(f, status), Ends(f),
           status = "delivered" => note[f] = "delivered",
           UNCHANGED <<ops, dropped, follower, attempted, now, replays, stops, errors, output, note>>
    PROVE  SchedInv'
<1>1. TypeOK /\ (\A g \in Fires : FireOK(g)) /\ \A i \in Jobs : JobOK(i)
  BY SchedInvParts
<1> DEFINE j == f[1]
           A == IF j \in Every THEN Advance(jobs[j].at, Later(now, jobs[j].at)) ELSE jobs[j].at
           C == jobs[j].count + (IF status = "delivered" THEN 1 ELSE 0)
           J == [at |-> A, enabled |-> j \in Every, count |-> C]
<1>2. j \in Jobs /\ f = <<j, f[2]>> /\ jobs[j].enabled /\ Key(j) = f /\ jobs[j].at = f[2]
  BY <1>1 DEF Fires, FireOK, Key
<1>3. /\ jobs[j] # NoJob /\ jobs[j] \in [at : Times, enabled : BOOLEAN, count : Nat]
      /\ jobs[j].at \in Nat /\ jobs[j].at <= MaxTime
  BY <1>1, <1>2, EnabledJob DEF FireOK
<1>4. /\ fires' = [fires EXCEPT ![f] = status] /\ dirty' = TRUE
      /\ jobs' = [jobs EXCEPT ![j] = J]
  BY <1>2, <1>3 DEF Settle
<1>5. /\ task' = [task EXCEPT ![f] = NoTask] /\ NoTask \in TaskPlaces /\ NoTask.pc = "none"
      /\ active' \subseteq Fires
  BY <1>1, TaskEnd
<1>6. A \in Times /\ A >= f[2] /\ (j \in Every => A > f[2])
  <2>1. CASE j \in Every
    <3>1. now \in Nat /\ now <= MaxTime
      BY <1>1 DEF TypeOK
    <3>2. Advance(jobs[j].at, Later(now, jobs[j].at)) \in Times
            /\ Advance(jobs[j].at, Later(now, jobs[j].at)) > jobs[j].at
      BY <1>3, <3>1, NextDue
    <3> QED BY <1>2, <1>3, <2>1, <3>2 DEF Times
  <2>2. CASE j \notin Every
    BY <1>2, <1>3, <2>2
  <2> QED BY <2>1, <2>2
<1>7. C \in Nat
  BY <1>3
<1> HIDE DEF A, C, j
<1>8. J \in [at : Times, enabled : BOOLEAN, count : Nat] /\ J # NoJob
      /\ J.at = A /\ J.enabled = (j \in Every) /\ J.count = C
  BY <1>6, <1>7 DEF NoJob, Times
<1> HIDE DEF J
<1>9. TypeOK'
  <2>1. jobs' \in [Jobs -> [at : Times, enabled : BOOLEAN, count : Nat] \cup {NoJob}]
    BY <1>1, <1>4, <1>8 DEF TypeOK
  <2>2. /\ fires' \in [Fires -> {"none", "pending", "delivered", "failed", "cancelled"}]
        /\ task' \in [Fires -> TaskPlaces]
    BY <1>1, <1>4, <1>5 DEF TypeOK, TaskPlaces
  <2>3. dirty' \in BOOLEAN
    BY <1>4
  <2> QED BY <1>1, <1>5, <2>1, <2>2, <2>3 DEF TypeOK, TaskPlaces
<1>10. /\ fires'[f] = status /\ task'[f] = NoTask /\ jobs'[j] = J
       /\ \A g \in Fires \ {f} : fires'[g] = fires[g] /\ task'[g] = task[g]
       /\ \A i \in Jobs \ {j} : jobs'[i] = jobs[i]
  BY <1>1, <1>2, <1>4, <1>5 DEF TypeOK
<1>11. ASSUME NEW g \in Fires
       PROVE  FireOK(g)'
  <2>1. CASE g = f
    <3>1. ops[j] = "added" /\ f[2] <= MaxTime /\ fires'[f] \in {"delivered", "failed"} /\ task'[f].pc = "none"
      BY <1>1, <1>2, <1>5, <1>10 DEF FireOK, j
    <3>2. f[2] <= jobs'[f[1]].at
      BY <1>6, <1>8, <1>10 DEF j
    <3> QED BY <1>10, <2>1, <3>1, <3>2 DEF FireOK, j
  <2>2. CASE g # f /\ g[1] = j
    <3>1. fires[g] # "pending"
      BY <1>1, <1>2, <2>2 DEF FireOK
    <3>2. fires[g] # "none" => g[2] <= jobs'[g[1]].at
      <4>1. fires[g] # "none" => g[2] <= f[2]
        BY <1>1, <1>2, <1>3, <2>2 DEF FireOK
      <4>2. g[2] \in Int /\ f[2] \in Int
        BY DEF Fires, Times
      <4>3. A \in Int
        BY <1>6 DEF Times
      <4> QED BY <1>6, <1>8, <1>10, <2>2, <4>1, <4>2, <4>3
    <3> QED BY <1>1, <1>10, <2>2, <3>1, <3>2 DEF FireOK
  <2>3. CASE g # f /\ g[1] # j
    <3>1. g[1] \in Jobs /\ jobs'[g[1]] = jobs[g[1]]
      BY <1>10, <2>3 DEF Fires
    <3> QED BY <1>1, <1>10, <2>3, <3>1 DEF FireOK, Key
  <2> QED BY <2>1, <2>2, <2>3
<1>12. ASSUME NEW i \in Jobs
       PROVE  JobOK(i)'
  <2>1. Fires' = Fires
    BY DEF Fires, Times
  <2>2. CASE i # j
    <3>1. Delivered(i)' = Delivered(i)
      BY <1>2, <1>10, <2>1, <2>2 DEF Delivered
    <3>2. jobs'[i] = jobs[i] /\ Key(i)' = Key(i) /\ Key(i) # f
      BY <1>2, <1>10, <2>2 DEF Key
    <3>3. jobs[i].enabled => fires'[Key(i)] = fires[Key(i)]
      BY <1>1, <1>10, <3>2, EnabledJob
    <3> QED BY <1>1, <3>1, <3>2, <3>3 DEF JobOK
  <2>3. CASE i = j
    <3>1. Key(j)' = <<j, A>>
      BY <1>8, <1>10 DEF Key
    <3>2. j \in Every => fires'[<<j, A>>] = "none"
      <4>1. SUFFICES ASSUME j \in Every, fires'[<<j, A>>] # "none" PROVE FALSE
        OBVIOUS
      <4>2. <<j, A>> \in Fires /\ <<j, A>> # f /\ <<j, A>>[1] = j /\ <<j, A>>[2] = A
        BY <1>2, <1>6, <4>1 DEF Fires, Times
      <4>3. fires[<<j, A>>] # "none"
        BY <1>10, <4>1, <4>2
      <4>4. A <= jobs[j].at
        BY <1>1, <1>3, <4>2, <4>3 DEF FireOK
      <4> QED BY <1>2, <1>3, <1>6, <4>1, <4>4 DEF Times
    <3>3. C = Cardinality(Delivered(j)')
      <4>1. IsFiniteSet(Delivered(j)) /\ f \notin Delivered(j)
        BY FiresFinite, FS_Subset DEF Delivered
      <4>2. jobs[j].count = Cardinality(Delivered(j))
        BY <1>1, <1>2, <1>3 DEF JobOK
      <4>3. CASE status = "delivered"
        <5>1. Delivered(j)' = Delivered(j) \cup {f}
          BY <1>2, <1>10, <2>1, <4>3 DEF Delivered
        <5> QED BY <4>1, <4>2, <4>3, <5>1, FS_AddElement, ZenonT(40) DEF C
      <4>4. CASE status # "delivered"
        <5>1. Delivered(j)' = Delivered(j)
          BY <1>2, <1>10, <2>1, <4>4 DEF Delivered
        <5> QED BY <1>3, <4>2, <4>4, <5>1 DEF C
      <4> QED BY <4>3, <4>4
    <3>4. ops'[j] = "added" /\ j \notin dropped'
      BY <1>1, <1>2, <1>3 DEF JobOK
    <3> QED BY <1>8, <1>10, <2>3, <3>1, <3>2, <3>3, <3>4 DEF JobOK
  <2> QED BY <2>2, <2>3
<1> QED BY <1>9, <1>11, <1>12, SchedInvPartsNext

LEMMA SettlingSteps ==
    ASSUME SchedInv, NEW f \in Fires,
           Settles(f) \/ (ProgramReturns(f) /\ output[f] # "complete")
    PROVE  SchedInv'
<1>1. TypeOK /\ FireOK(f)
  BY SchedInvParts
<1>2. fires[f] = "pending"
  BY <1>1 DEF Settles, ProgramReturns, FireOK
<1>3. UNCHANGED <<ops, dropped, follower, attempted, now, replays, stops, errors, output, note>> /\ Ends(f)
  BY DEF Settles, ProgramReturns, Elsewhere
<1>4. \/ Settle(f, "failed")
      \/ Settle(f, "delivered") /\ note[f] = "delivered"
  BY DEF Settles, ProgramReturns
<1> QED BY <1>2, <1>3, <1>4, SettleStep

-----------------------------------------------------------------------------
(* The store and the follower.                                              *)

(* Whatever only takes the right of tasks, or the tasks themselves.         *)
LEMMA Revoking ==
    ASSUME SchedInv, UNCHANGED <<jobs, ops, dropped, fires, output, note, active, attempted>>,
           dirty' \in BOOLEAN, task' \in [Fires -> TaskPlaces],
           \A f \in Fires : \/ task'[f] = NoTask
                            \/ /\ task[f] # NoTask /\ task'[f].pc = task[f].pc
                               /\ task'[f].live => task[f].live,
           follower' \in {"up", "stopping", "down"}, now' \in 0 .. MaxTime,
           errors' \in 0 .. MaxErrors, replays' \in 0 .. MaxReplays, stops' \in 0 .. MaxStops
    PROVE  SchedInv'
<1>1. TypeOK /\ (\A f \in Fires : FireOK(f)) /\ \A j \in Jobs : JobOK(j)
  BY SchedInvParts
<1>2. TypeOK'
  BY <1>1 DEF TypeOK, TaskPlaces
<1>3. ASSUME NEW f \in Fires
      PROVE  FireOK(f)'
  <2>1. CASE task'[f] = NoTask
    <3>1. task'[f].pc = "none"
      BY <2>1 DEF NoTask
    <3> QED BY <1>1, <2>1, <3>1 DEF FireOK, Key
  <2>2. CASE task'[f] # NoTask
    <3>1. task[f] # NoTask /\ task'[f].pc = task[f].pc /\ (task'[f].live => task[f].live)
      BY <2>2
    <3>2. task[f].pc # "none" /\ fires[f] # "none"
      BY <1>1, <3>1 DEF FireOK
    <3> QED BY <1>1, <3>1, <3>2 DEF FireOK, Key
  <2> QED BY <2>1, <2>2
<1>4. ASSUME NEW j \in Jobs
      PROVE  JobOK(j)'
  <2>1. Delivered(j)' = Delivered(j) /\ Key(j)' = Key(j)
    BY DEF Delivered, Key, Fires, Times
  <2> QED BY <1>1, <2>1 DEF JobOK
<1> QED BY <1>2, <1>3, <1>4, SchedInvPartsNext

LEMMA RevokedFacts ==
    ASSUME TypeOK, NEW j \in Jobs, task' = Revoked(j)
    PROVE  /\ task' \in [Fires -> TaskPlaces]
           /\ \A f \in Fires :
                /\ task[f] = NoTask => task'[f] = NoTask
                /\ task'[f].pc = task[f].pc /\ (task'[f].live => task[f].live)
                /\ f[1] = j /\ fires'[f] = "cancelled" /\ task[f] # NoTask => ~task'[f].live
                /\ f[1] # j => task'[f] = task[f]
<1>1. ASSUME NEW f \in Fires
      PROVE  /\ task'[f] \in TaskPlaces
             /\ task[f] = NoTask => task'[f] = NoTask
             /\ task'[f].pc = task[f].pc /\ (task'[f].live => task[f].live)
             /\ f[1] = j /\ fires'[f] = "cancelled" /\ task[f] # NoTask => ~task'[f].live
             /\ f[1] # j => task'[f] = task[f]
  <2>1. task[f] \in TaskPlaces
    BY DEF TypeOK, TaskPlaces
  <2>2. task'[f] = IF f[1] = j /\ fires'[f] = "cancelled" /\ task[f] # NoTask
                   THEN [task[f] EXCEPT !.live = FALSE] ELSE task[f]
    BY DEF Revoked
  <2>3. CASE f[1] = j /\ fires'[f] = "cancelled" /\ task[f] # NoTask
    BY <2>1, <2>2, <2>3 DEF TaskPlaces
  <2>4. CASE ~(f[1] = j /\ fires'[f] = "cancelled" /\ task[f] # NoTask)
    BY <2>1, <2>2, <2>4
  <2> QED BY <2>3, <2>4
<1>2. task' = [f \in Fires |-> task'[f]]
  BY DEF Revoked
<1> QED BY <1>1, <1>2

LEMMA RightsSteps ==
    ASSUME SchedInv,
           \/ \E j \in Jobs : CancelAgain(j)
           \/ Stop \/ Stopped \/ Crash \/ Clock \/ UNCHANGED vars
    PROVE  SchedInv'
<1>1. TypeOK
  BY SchedInvParts
<1>2. task \in [Fires -> TaskPlaces]
  BY <1>1 DEF TypeOK, TaskPlaces
<1> USE DEF durable, store, runtime, bounds
<1>3. ASSUME NEW j \in Jobs, CancelAgain(j)
      PROVE  SchedInv'
  <2>1. task' = Revoked(j) /\ UNCHANGED <<jobs, ops, dropped, fires, output, note, follower, active,
                                          attempted, now, errors, stops>>
        /\ dirty' \in BOOLEAN
    BY <1>1, <1>3 DEF CancelAgain, TypeOK
  <2>2. follower' \in {"up", "stopping", "down"} /\ now' \in 0 .. MaxTime
        /\ errors' \in 0 .. MaxErrors /\ replays' \in 0 .. MaxReplays /\ stops' \in 0 .. MaxStops
    BY <1>1, <1>3 DEF CancelAgain, TypeOK
  <2> QED BY <1>1, <2>1, <2>2, RevokedFacts, Revoking
<1>4. CASE Stop
  <2>1. /\ task' = [f \in Fires |-> IF f \in active /\ task[f] # NoTask
                                    THEN [task[f] EXCEPT !.live = FALSE] ELSE task[f]]
        /\ UNCHANGED <<jobs, ops, dropped, fires, output, note, dirty, active, attempted, now, errors, replays>>
        /\ follower' = "stopping" /\ stops' \in 0 .. MaxStops /\ dirty' \in BOOLEAN
    BY <1>1, <1>4 DEF Stop, TypeOK
  <2>2. ASSUME NEW f \in Fires
        PROVE  /\ task'[f] \in TaskPlaces
               /\ \/ task'[f] = NoTask
                  \/ /\ task[f] # NoTask /\ task'[f].pc = task[f].pc
                     /\ task'[f].live => task[f].live
    <3>1. task[f] \in TaskPlaces
      BY <1>2
    <3>2. CASE f \in active /\ task[f] # NoTask
      BY <2>1, <3>1, <3>2 DEF TaskPlaces
    <3>3. CASE ~(f \in active /\ task[f] # NoTask)
      BY <2>1, <3>1, <3>3
    <3> QED BY <3>2, <3>3
  <2>3. task' = [f \in Fires |-> task'[f]]
    BY <2>1
  <2>4. now' \in 0 .. MaxTime /\ errors' \in 0 .. MaxErrors /\ replays' \in 0 .. MaxReplays
    BY <1>1, <2>1 DEF TypeOK
  <2> QED BY <2>1, <2>2, <2>3, <2>4, Revoking
<1>5. CASE Stopped \/ Clock \/ UNCHANGED vars
  <2>1. UNCHANGED <<jobs, ops, dropped, fires, output, note, dirty, active, attempted, task, errors, replays, stops>>
    BY <1>5 DEF Stopped, Clock, vars
  <2>2. follower' \in {"up", "stopping", "down"} /\ now' \in 0 .. MaxTime
    BY <1>1, <1>5 DEF Stopped, Clock, vars, TypeOK
  <2>3. errors' \in 0 .. MaxErrors /\ replays' \in 0 .. MaxReplays /\ stops' \in 0 .. MaxStops
        /\ dirty' \in BOOLEAN
    BY <1>1, <2>1 DEF TypeOK
  <2> QED BY <1>2, <2>1, <2>2, <2>3, Revoking
<1>6. CASE Crash
  <2>1. /\ task' = [f \in Fires |-> NoTask]
        /\ UNCHANGED <<jobs, ops, dropped, fires, output, note, dirty, active, attempted, now, errors, replays>>
        /\ follower' = "down" /\ stops' \in 0 .. MaxStops /\ dirty' \in BOOLEAN
    BY <1>1, <1>6 DEF Crash, TypeOK
  <2>2. now' \in 0 .. MaxTime /\ errors' \in 0 .. MaxErrors /\ replays' \in 0 .. MaxReplays
    BY <1>1, <2>1 DEF TypeOK
  <2>3. task' \in [Fires -> TaskPlaces]
    BY <2>1 DEF NoTask, TaskPlaces
  <2> QED BY <2>1, <2>2, <2>3, Revoking
<1> QED BY <1>3, <1>4, <1>5, <1>6

LEMMA CancelStep ==
    ASSUME SchedInv, NEW j \in Jobs, Cancel(j)
    PROVE  SchedInv'
<1>1. TypeOK /\ (\A f \in Fires : FireOK(f)) /\ \A i \in Jobs : JobOK(i)
  BY SchedInvParts
<1>2. /\ jobs[j] # NoJob /\ jobs' = [jobs EXCEPT ![j] = NoJob] /\ dropped' = dropped \cup {j}
      /\ fires' = [f \in Fires |-> IF f[1] = j /\ fires[f] = "pending" THEN "cancelled" ELSE fires[f]]
      /\ task' = Revoked(j) /\ dirty' = TRUE
      /\ UNCHANGED <<ops, output, note, follower, active, attempted, now, errors, replays, stops>>
  BY DEF Cancel, bounds
<1>3. /\ \A f \in Fires : fires'[f] = IF f[1] = j /\ fires[f] = "pending" THEN "cancelled" ELSE fires[f]
      /\ jobs'[j] = NoJob /\ \A i \in Jobs \ {j} : jobs'[i] = jobs[i]
  BY <1>1, <1>2 DEF TypeOK
<1>4. TypeOK'
  <2>1. /\ jobs' \in [Jobs -> [at : Times, enabled : BOOLEAN, count : Nat] \cup {NoJob}]
        /\ fires' \in [Fires -> {"none", "pending", "delivered", "failed", "cancelled"}]
        /\ dropped' \subseteq Jobs
    BY <1>1, <1>2 DEF TypeOK
  <2>2. task' \in [Fires -> TaskPlaces]
    BY <1>1, <1>2, RevokedFacts
  <2>3. dirty' \in BOOLEAN
    BY <1>2
  <2> QED BY <1>1, <1>2, <2>1, <2>2, <2>3 DEF TypeOK, TaskPlaces
<1>5. NoJob.enabled = FALSE
  BY DEF NoJob
<1>6. ASSUME NEW f \in Fires
      PROVE  FireOK(f)'
  <2>1. f[1] \in Jobs
    BY DEF Fires
  <2>2. /\ task[f] = NoTask => task'[f] = NoTask
        /\ task'[f].pc = task[f].pc /\ (task'[f].live => task[f].live)
        /\ f[1] = j /\ fires'[f] = "cancelled" /\ task[f] # NoTask => ~task'[f].live
        /\ f[1] # j => task'[f] = task[f]
    BY <1>1, <1>2, RevokedFacts
  <2>3. CASE f[1] = j
    <3>1. fires'[f] # "pending" /\ (fires'[f] = "none" => fires[f] = "none")
          /\ (fires[f] = "pending" => fires'[f] = "cancelled")
          /\ (fires[f] # "pending" => fires'[f] = fires[f])
      BY <1>3, <2>3
    <3>2. /\ task'[f].pc \notin {"none", "new", "drain"} => fires'[f] = "cancelled" /\ ~task'[f].live
          /\ task'[f].pc = "drain" => fires'[f] = "cancelled"
      BY <1>1, <2>2, <2>3, <3>1 DEF FireOK, NoTask
    <3>3. jobs'[f[1]] = NoJob
      BY <1>3, <2>3
    <3>4. ops[f[1]] = "added" /\ (fires[f] # "none" => f[2] <= MaxTime)
      BY <1>1, <1>2, <2>3 DEF FireOK, JobOK
    <3>5. fires'[f] = "delivered" => note[f] = "delivered"
      BY <1>1, <3>1 DEF FireOK
    <3>6. fires'[f] = "none" => note[f] = "absent" /\ task'[f] = NoTask
      BY <1>1, <2>2, <3>1 DEF FireOK
    <3>7. task'[f].pc = "none" => task'[f] = NoTask
      <4>1. task[f].pc = "none" => task[f] = NoTask
        BY <1>1 DEF FireOK
      <4>2. task'[f].pc = task[f].pc /\ (task[f] = NoTask => task'[f] = NoTask)
        BY <2>2
      <4> QED BY <4>1, <4>2
    <3> QED BY <1>1, <1>2, <2>2, <3>1, <3>2, <3>3, <3>4, <3>5, <3>6, <3>7 DEF FireOK
  <2>4. CASE f[1] # j
    <3>1. fires'[f] = fires[f] /\ jobs'[f[1]] = jobs[f[1]] /\ task'[f] = task[f]
          /\ (f[1] \in dropped' <=> f[1] \in dropped)
      BY <1>2, <1>3, <2>1, <2>2, <2>4
    <3> QED BY <1>1, <1>2, <3>1 DEF FireOK, Key
  <2> QED BY <2>3, <2>4
<1>7. ASSUME NEW i \in Jobs
      PROVE  JobOK(i)'
  <2>1. Fires' = Fires
    BY DEF Fires, Times
  <2>2. CASE i = j
    BY <1>1, <1>2, <1>3, <1>5, <2>2 DEF JobOK
  <2>3. CASE i # j
    <3>1. Delivered(i)' = Delivered(i)
      BY <1>3, <2>1, <2>3 DEF Delivered
    <3>2. jobs'[i] = jobs[i] /\ Key(i)' = Key(i) /\ (i \in dropped' <=> i \in dropped)
      BY <1>2, <1>3, <2>3 DEF Key
    <3>3. jobs[i].enabled => fires'[Key(i)] = fires[Key(i)]
      <4>1. jobs[i].enabled => Key(i) \in Fires
        BY <1>1, EnabledJob
      <4>2. Key(i)[1] = i
        BY DEF Key
      <4> QED BY <1>3, <2>3, <4>1, <4>2
    <3> QED BY <1>1, <1>2, <3>1, <3>2, <3>3 DEF JobOK
  <2> QED BY <2>2, <2>3
<1> QED BY <1>4, <1>6, <1>7, SchedInvPartsNext

LEMMA AddStep ==
    ASSUME SchedInv, NEW j \in Jobs, NEW at \in 0 .. MaxTime, Add(j, at)
    PROVE  SchedInv'
<1>1. TypeOK /\ (\A f \in Fires : FireOK(f)) /\ \A i \in Jobs : JobOK(i)
  BY SchedInvParts
<1> DEFINE J == [at |-> at, enabled |-> TRUE, count |-> 0]
<1>2. /\ ops[j] = "none" /\ dirty' = TRUE
      /\ UNCHANGED <<dropped, fires, output, note, follower, active, attempted, task, now, errors, replays, stops>>
      /\ \/ ops' = [ops EXCEPT ![j] = "refused"] /\ jobs' = jobs
         \/ ops' = [ops EXCEPT ![j] = "added"] /\ jobs' = [jobs EXCEPT ![j] = J]
  BY DEF Add, bounds
<1>3. J \in [at : Times, enabled : BOOLEAN, count : Nat] /\ J.at = at /\ J.enabled /\ J.count = 0
  BY DEF Times
<1> HIDE DEF J
<1>4. /\ ops' \in [Jobs -> {"none", "added", "refused"}] /\ dirty' \in BOOLEAN
      /\ jobs' \in [Jobs -> [at : Times, enabled : BOOLEAN, count : Nat] \cup {NoJob}]
      /\ (ops'[j] = "refused" /\ jobs'[j] = jobs[j]) \/ (ops'[j] = "added" /\ jobs'[j] = J)
      /\ \A i \in Jobs \ {j} : ops'[i] = ops[i] /\ jobs'[i] = jobs[i]
  BY <1>1, <1>2, <1>3 DEF TypeOK
<1>5. TypeOK'
  BY <1>1, <1>2, <1>4 DEF TypeOK
<1>6. jobs[j] = NoJob /\ j \notin dropped /\ \A f \in Fires : f[1] = j => fires[f] = "none"
  BY <1>1, <1>2 DEF JobOK, FireOK
<1>7. ASSUME NEW f \in Fires
      PROVE  FireOK(f)'
  <2>1. CASE f[1] = j
    <3>1. fires'[f] = "none" /\ note'[f] = "absent" /\ task'[f] = NoTask
      BY <1>1, <1>2, <1>6, <2>1 DEF FireOK
    <3> QED BY <3>1 DEF FireOK, NoTask
  <2>2. CASE f[1] # j
    <3>1. f[1] \in Jobs /\ jobs'[f[1]] = jobs[f[1]] /\ ops'[f[1]] = ops[f[1]]
      BY <1>4, <2>2 DEF Fires
    <3> QED BY <1>1, <1>2, <3>1 DEF FireOK, Key
  <2> QED BY <2>1, <2>2
<1>8. ASSUME NEW i \in Jobs
      PROVE  JobOK(i)'
  <2>1. Delivered(i)' = Delivered(i)
    BY <1>2 DEF Delivered, Fires, Times
  <2>2. CASE i = j
    <3>1. Delivered(j)' = {} /\ Cardinality({}) = 0
      BY <1>6, <2>1, <2>2, FS_EmptySet DEF Delivered
    <3>2. CASE jobs'[j] = jobs[j]
      BY <1>2, <1>6, <2>2, <3>2 DEF JobOK, NoJob
    <3>3. CASE ops'[j] = "added" /\ jobs'[j] = J
      <4>1. <<j, at>> \in Fires /\ <<j, at>>[1] = j /\ Key(j)' = <<j, at>>
        BY <1>3, <3>3 DEF Fires, Times, Key
      <4>2. fires'[Key(j)'] = "none"
        BY <1>2, <1>6, <4>1
      <4> QED BY <1>2, <1>3, <1>6, <2>2, <3>1, <3>3, <4>2 DEF JobOK, Key
    <3> QED BY <1>4, <3>2, <3>3
  <2>3. CASE i # j
    <3>1. jobs'[i] = jobs[i] /\ ops'[i] = ops[i] /\ Key(i)' = Key(i)
      BY <1>4, <2>3 DEF Key
    <3> QED BY <1>1, <1>2, <2>1, <3>1 DEF JobOK
  <2> QED BY <2>2, <2>3
<1> QED BY <1>5, <1>7, <1>8, SchedInvPartsNext

(* recover leaves a job that has a fire alone, moves one that repeats past  *)
(* every fire it has had, and only disables the others.                     *)
LEMMA RecoveredFacts ==
    ASSUME SchedInv, NEW j \in Jobs
    PROVE  /\ Recovered(j) \in [at : Times, enabled : BOOLEAN, count : Nat] \cup {NoJob}
           /\ \/ Recovered(j) = jobs[j]
              \/ /\ jobs[j].enabled /\ fires[Key(j)] = "none" /\ Recovered(j) # NoJob
                 /\ Recovered(j).count = jobs[j].count /\ Recovered(j).at >= jobs[j].at
                 /\ Recovered(j).enabled => Recovered(j).at > jobs[j].at
<1>1. TypeOK
  BY SchedInvParts
<1>2. CASE ~jobs[j].enabled \/ jobs[j].at > now \/ fires[Key(j)] # "none"
  BY <1>1, <1>2 DEF Recovered, TypeOK
<1>3. CASE ~(~jobs[j].enabled \/ jobs[j].at > now \/ fires[Key(j)] # "none")
  <2>1. jobs[j] \in [at : Times, enabled : BOOLEAN, count : Nat] /\ jobs[j].at \in Nat /\ jobs[j].at <= now
        /\ now \in Nat /\ now <= MaxTime /\ jobs[j].enabled /\ fires[Key(j)] = "none" /\ jobs[j] # NoJob
    BY <1>1, <1>3, EnabledJob DEF TypeOK
  <2>2. CASE j \in Every
    <3>1. Recovered(j) = [jobs[j] EXCEPT !.at = Advance(@, now)]
      BY <1>3, <2>2 DEF Recovered
    <3>2. Advance(jobs[j].at, now) \in Nat /\ Advance(jobs[j].at, now) > jobs[j].at
          /\ Advance(jobs[j].at, now) <= now + Interval
      <4>1. Later(jobs[j].at, now) = now
        BY <2>1 DEF Later
      <4> QED BY <2>1, <4>1, AdvanceAhead
    <3>3. Advance(jobs[j].at, now) \in Times
      BY <2>1, <3>2 DEF Times
    <3>4. Recovered(j) \in [at : Times, enabled : BOOLEAN, count : Nat]
          /\ Recovered(j).count = jobs[j].count /\ Recovered(j).at = Advance(jobs[j].at, now)
          /\ Recovered(j).enabled
      BY <2>1, <3>1, <3>3
    <3>5. Recovered(j) # NoJob
      BY <3>4, <3>3 DEF NoJob
    <3> QED BY <2>1, <3>2, <3>4, <3>5
  <2>3. CASE j \notin Every /\ now - jobs[j].at > Grace
    <3>1. Recovered(j) = [jobs[j] EXCEPT !.enabled = FALSE]
      BY <1>3, <2>3 DEF Recovered
    <3>2. Recovered(j) \in [at : Times, enabled : BOOLEAN, count : Nat]
          /\ Recovered(j).count = jobs[j].count /\ Recovered(j).at = jobs[j].at
          /\ ~Recovered(j).enabled
      BY <2>1, <3>1
    <3>3. Recovered(j) # NoJob
      BY <2>1, <3>2 DEF NoJob
    <3> QED BY <2>1, <3>2, <3>3
  <2>4. CASE j \notin Every /\ ~(now - jobs[j].at > Grace)
    BY <1>1, <1>3, <2>4 DEF Recovered, TypeOK
  <2> QED BY <2>2, <2>3, <2>4
<1> QED BY <1>2, <1>3

LEMMA BootStep ==
    ASSUME SchedInv, Boot
    PROVE  SchedInv'
<1>1. TypeOK /\ (\A f \in Fires : FireOK(f)) /\ \A i \in Jobs : JobOK(i)
  BY SchedInvParts
<1>2. /\ jobs' = [j \in Jobs |-> Recovered(j)]
      /\ follower' = "up" /\ dirty' = TRUE /\ active' = {} /\ attempted' = {}
      /\ UNCHANGED <<ops, dropped, fires, output, note, task, now, errors, replays, stops>>
  BY DEF Boot, bounds
<1>3. ASSUME NEW j \in Jobs
      PROVE  /\ jobs'[j] \in [at : Times, enabled : BOOLEAN, count : Nat] \cup {NoJob}
             /\ \/ jobs'[j] = jobs[j]
                \/ /\ jobs[j].enabled /\ fires[Key(j)] = "none" /\ jobs'[j] # NoJob
                   /\ jobs'[j].count = jobs[j].count /\ jobs'[j].at >= jobs[j].at
                   /\ jobs'[j].enabled => jobs'[j].at > jobs[j].at
  BY <1>2, RecoveredFacts
<1>4. TypeOK'
  <2>1. jobs' \in [Jobs -> [at : Times, enabled : BOOLEAN, count : Nat] \cup {NoJob}]
    BY <1>2, <1>3
  <2> QED BY <1>1, <1>2, <2>1 DEF TypeOK
<1>5. ASSUME NEW f \in Fires
      PROVE  FireOK(f)'
  <2>1. f[1] \in Jobs /\ f[2] \in Nat
    BY DEF Fires, Times
  <2>2. CASE jobs'[f[1]] = jobs[f[1]]
    BY <1>1, <1>2, <2>2 DEF FireOK, Key
  <2>3. CASE jobs'[f[1]] # jobs[f[1]]
    <3>1. /\ jobs[f[1]].enabled /\ fires[Key(f[1])] = "none" /\ jobs'[f[1]] # NoJob
          /\ jobs'[f[1]].at >= jobs[f[1]].at
      BY <1>3, <2>1, <2>3
    <3>2. fires[f] # "pending"
      BY <1>1, <3>1 DEF FireOK
    <3>3. jobs[f[1]] # NoJob /\ jobs[f[1]].at \in Nat
      BY <1>1, <2>1, <3>1, EnabledJob
    <3>4. jobs'[f[1]].at \in Nat
      BY <1>3, <2>1, <3>1 DEF Times
    <3>5. fires[f] # "none" => f[2] <= jobs'[f[1]].at
      BY <1>1, <2>1, <3>1, <3>3, <3>4 DEF FireOK
    <3> QED BY <1>1, <1>2, <3>2, <3>5 DEF FireOK
  <2> QED BY <2>2, <2>3
<1>6. ASSUME NEW i \in Jobs
      PROVE  JobOK(i)'
  <2>1. Delivered(i)' = Delivered(i)
    BY <1>2 DEF Delivered, Fires, Times
  <2>2. CASE jobs'[i] = jobs[i]
    BY <1>1, <1>2, <2>1, <2>2 DEF JobOK, Key
  <2>3. CASE jobs'[i] # jobs[i]
    <3>1. /\ jobs[i].enabled /\ jobs'[i] # NoJob /\ jobs'[i].count = jobs[i].count
          /\ jobs'[i] \in [at : Times, enabled : BOOLEAN, count : Nat]
          /\ jobs'[i].enabled => jobs'[i].at > jobs[i].at
      BY <1>3, <2>3
    <3>2. jobs[i] # NoJob /\ jobs[i].at \in Nat
      BY <1>1, <3>1, EnabledJob
    <3>3. jobs'[i].enabled => fires'[Key(i)'] = "none"
      <4>1. Key(i)' = <<i, jobs'[i].at>> /\ Key(i)' \in Fires
        BY <3>1 DEF Key, Fires
      <4>2. jobs'[i].at \in Nat
        BY <3>1 DEF Times
      <4>3. fires[<<i, jobs'[i].at>>] # "none" => jobs'[i].at <= jobs[i].at
        BY <1>1, <3>2, <4>1 DEF FireOK
      <4> QED BY <1>2, <3>1, <3>2, <4>1, <4>2, <4>3
    <3> QED BY <1>1, <1>2, <2>1, <3>1, <3>2, <3>3 DEF JobOK, Key
  <2> QED BY <2>2, <2>3
<1> QED BY <1>4, <1>5, <1>6, SchedInvPartsNext

(* A round gives a fire to a due job and a task to what has none.           *)
LEMMA TickStep ==
    ASSUME SchedInv, NEW lead \in {0, 1}, Tick(lead)
    PROVE  SchedInv'
<1>1. TypeOK /\ (\A f \in Fires : FireOK(f)) /\ \A i \in Jobs : JobOK(i)
  BY SchedInvParts
<1> DEFINE due == {Key(j) : j \in Due(lead)}
           started == {f \in Listed \cup due : task[f] = NoTask}
<1>2. /\ fires' = [f \in Fires |-> IF f \in due THEN "pending" ELSE fires[f]]
      /\ task' = [f \in Fires |-> IF f \in started THEN [pc |-> "new", live |-> TRUE] ELSE task[f]]
      /\ active' = active \cup started
      /\ attempted' = attempted \cup {<<f, fires'[f]>> : f \in started}
      /\ dirty' = (fires' # fires)
      /\ UNCHANGED <<jobs, ops, dropped, output, note, follower, now, errors, replays, stops>>
  BY DEF Tick, bounds
<1>3. \A f \in due : /\ f \in Fires /\ f[1] \in Jobs /\ fires[f] \in {"none", "pending"} /\ Key(f[1]) = f
                     /\ jobs[f[1]].enabled /\ f[2] = jobs[f[1]].at /\ f[2] <= MaxTime
  <2>1. ASSUME NEW j \in Due(lead)
        PROVE  /\ Key(j) \in Fires /\ Key(j)[1] = j /\ Key(j)[2] = jobs[j].at /\ j \in Jobs
               /\ fires[Key(j)] \in {"none", "pending"} /\ jobs[j].enabled /\ jobs[j].at <= MaxTime
    BY <1>1, EnabledJob DEF Due, Key
  <2> QED BY <2>1
<1>4. /\ started \subseteq Fires
      /\ \A f \in started : task[f] = NoTask /\ (f \in due \/ fires[f] \in {"pending", "cancelled"})
  BY <1>3 DEF Listed
<1>5. \A f \in Fires : f \in due /\ f \notin started => task[f] # NoTask
  OBVIOUS
<1> HIDE DEF due, started
<1>6. \A f \in Fires :
        /\ fires'[f] = (IF f \in due THEN "pending" ELSE fires[f])
        /\ task'[f] = (IF f \in started THEN [pc |-> "new", live |-> TRUE] ELSE task[f])
  BY <1>2
<1>7. TypeOK'
  <2>1. fires' \in [Fires -> {"none", "pending", "delivered", "failed", "cancelled"}]
    BY <1>1, <1>2 DEF TypeOK
  <2>2. task' \in [Fires -> TaskPlaces]
    <3>1. [pc |-> "new", live |-> TRUE] \in TaskPlaces /\ task \in [Fires -> TaskPlaces]
      BY <1>1 DEF TypeOK, TaskPlaces
    <3> QED BY <1>2, <3>1
  <2>3. active' \subseteq Fires /\ dirty' \in BOOLEAN
    BY <1>1, <1>2, <1>4 DEF TypeOK
  <2>4. attempted' \subseteq Fires \X {"pending", "cancelled"}
    <3>1. \A f \in started : fires'[f] \in {"pending", "cancelled"}
      BY <1>4, <1>6
    <3> QED BY <1>1, <1>2, <1>4, <3>1 DEF TypeOK
  <2> QED BY <1>1, <1>2, <2>1, <2>2, <2>3, <2>4 DEF TypeOK, TaskPlaces
<1>8. ASSUME NEW f \in Fires
      PROVE  FireOK(f)'
  <2>1. UNCHANGED <<note[f], jobs[f[1]], ops[f[1]], dropped>>
    BY <1>2
  <2>2. CASE f \in due
    <3>1. /\ fires'[f] = "pending" /\ fires[f] \in {"none", "pending"}
          /\ task'[f] = task[f] \/ (task'[f] = [pc |-> "new", live |-> TRUE] /\ task[f] = NoTask)
          /\ task'[f] # NoTask
      BY <1>3, <1>4, <1>5, <1>6, <2>2 DEF NoTask
    <3>2. f[1] \in Jobs /\ jobs[f[1]].enabled /\ Key(f[1]) = f /\ f[2] = jobs[f[1]].at /\ f[2] <= MaxTime
      BY <1>3, <2>2
    <3>3. ops[f[1]] = "added" /\ f[1] \notin dropped
      BY <1>1, <3>2, EnabledJob DEF JobOK
    <3>4. Key(f[1])' = Key(f[1])
      BY <1>2 DEF Key
    <3>5. f[2] <= jobs'[f[1]].at
      BY <1>1, <2>1, <3>2, EnabledJob
    <3>6. CASE task'[f] = task[f]
      BY <1>1, <2>1, <3>1, <3>2, <3>3, <3>4, <3>5, <3>6 DEF FireOK
    <3>7. CASE task'[f] # task[f]
      <4>1. task'[f].pc = "new"
        BY <3>1, <3>7
      <4> QED BY <1>1, <2>1, <3>1, <3>2, <3>3, <3>4, <3>5, <4>1 DEF FireOK
    <3> QED BY <3>6, <3>7
  <2>3. CASE f \notin due
    <3>1. fires'[f] = fires[f] /\ Key(f[1])' = Key(f[1])
      BY <1>2, <1>6, <2>3 DEF Key
    <3>2. CASE task'[f] = task[f]
      BY <1>1, <2>1, <3>1, <3>2 DEF FireOK
    <3>3. CASE task'[f] # task[f]
      <4>1. task'[f].pc = "new" /\ fires[f] \in {"pending", "cancelled"}
        BY <1>4, <1>6, <2>3, <3>3
      <4> QED BY <1>1, <2>1, <3>1, <4>1 DEF FireOK
    <3> QED BY <3>2, <3>3
  <2> QED BY <2>2, <2>3
<1>9. ASSUME NEW i \in Jobs
      PROVE  JobOK(i)'
  <2>1. Delivered(i)' = Delivered(i)
    <3>1. \A f \in Fires : fires'[f] = "delivered" <=> fires[f] = "delivered"
      BY <1>3, <1>6
    <3>2. Fires' = Fires
      BY DEF Fires, Times
    <3> QED BY <3>1, <3>2 DEF Delivered
  <2>2. Key(i)' = Key(i) /\ UNCHANGED <<jobs[i], ops[i], dropped>>
    BY <1>2 DEF Key
  <2>3. jobs[i].enabled => fires'[Key(i)] \in {"none", "pending"}
    BY <1>1, <1>6, EnabledJob DEF JobOK
  <2> QED BY <1>1, <2>1, <2>2, <2>3 DEF JobOK
<1> QED BY <1>7, <1>8, <1>9, SchedInvPartsNext

-----------------------------------------------------------------------------
LEMMA SchedInvInit == Init => SchedInv
<1> SUFFICES ASSUME Init PROVE SchedInv
  OBVIOUS
<1>1. TypeOK
  BY DEF Init, TypeOK, NoTask
<1>2. \A f \in Fires : f[1] \in Jobs
  BY DEF Fires
<1>3. \A f \in Fires : FireOK(f)
  BY <1>2 DEF Init, FireOK, NoTask
<1>4. \A j \in Jobs : JobOK(j)
  BY DEF Init, JobOK, NoJob
<1> QED BY <1>1, <1>3, <1>4, SchedInvParts

LEMMA SchedInvStep == SchedInv /\ [Next]_vars => SchedInv'
<1> SUFFICES ASSUME SchedInv, [Next]_vars PROVE SchedInv'
  OBVIOUS
<1>1. ASSUME NEW j \in Jobs, Cancel(j) \/ CancelAgain(j) \/ \E at \in 0 .. MaxTime : Add(j, at)
      PROVE  SchedInv'
  BY <1>1, CancelStep, RightsSteps, AddStep
<1>2. CASE Follows
  BY <1>2, BootStep, RightsSteps, TickStep DEF Follows
<1>3. CASE Stop \/ Crash \/ Clock \/ UNCHANGED vars
  BY <1>3, RightsSteps
<1>4. ASSUME NEW f \in Fires, Runs(f) \/ Raises(f) \/ CleanupRaises(f)
      PROVE  SchedInv'
  <2>1. CASE NeverRuns(f) \/ Drained(f) \/ Interrupted(f) \/ Raises(f) \/ CleanupRaises(f)
    BY <2>1, LeavingSteps
  <2>5. CASE Begins(f)
    <3>1. TypeOK /\ FireOK(f)
      BY SchedInvParts
    <3>2. fires[f] \in {"pending", "delivered", "failed", "cancelled"}
      BY <2>5, <3>1 DEF Begins, FireOK, NoTask, TypeOK
    <3>3. CASE fires[f] = "pending"
      BY <2>5, <3>3, GoingSteps
    <3>4. CASE fires[f] \in {"delivered", "failed"}
      <4>1. Ends(f)
        BY <2>5, <3>4 DEF Begins
      <4> QED BY <2>5, <3>4, <4>1, LeavingSteps
    <3>5. CASE fires[f] = "cancelled"
      <4>1. Ends(f) \/ GoTo(f, "drain")
        BY <2>5, <3>5 DEF Begins
      <4> QED BY <2>5, <3>5, <4>1, LeavingSteps, CleaningStep
    <3> QED BY <3>2, <3>3, <3>4, <3>5
  <2>2. CASE TargetIdle(f) \/ SendStarts(f) \/ SendQueries(f) \/ SendRepeats(f) \/ SendReports(f)
             \/ \E phase \in {"delivered", "rejected", "failed"} : Receipt(f, phase)
    BY <2>2, GoingSteps
  <2>3. CASE ProgramReturns(f) \/ Settles(f)
    BY <2>3, GoingSteps, SettlingSteps
  <2>4. CASE \E finish \in {"complete", "incomplete"} : ProgramSaves(f, finish)
    BY <2>4, ProgramSavesStep
  <2> QED BY <1>4, <2>1, <2>2, <2>3, <2>4, <2>5 DEF Runs
<1> QED BY <1>1, <1>2, <1>3, <1>4 DEF Next

(* Whatever the tools, the follower, the tasks and the clock do, with       *)
(* crashes and reloads at any point: pending fires are current, a cancelled *)
(* job stays cancelled, and every delivered due time is counted once.       *)
THEOREM SchedInvariant == Spec => []SchedInv
<1> QED BY SchedInvInit, SchedInvStep, PTL DEF Spec

(* A cancelled job never comes back and none of its fires is pending;       *)
(* run_count is the number of its delivered fires.                          *)
THEOREM CancelsHoldAndCount == Spec => [](CancelHolds /\ CountsDelivered)
<1>1. SchedInv => CancelHolds /\ CountsDelivered
  BY DEF SchedInv
<1> QED BY <1>1, SchedInvariant, PTL

-----------------------------------------------------------------------------
(* What a step may do to a notification that is unsent.                     *)
Unsent(f) ==
    /\ note[f] = "absent" /\ note'[f] # "absent" => fires[f] = "pending"
    /\ note[f] = "prepared" /\ note'[f] = "started" =>
            fires[f] = "pending" \/ (fires[f] = "cancelled" /\ task[f].pc = "send" /\ ~task[f].live)

LEMMA UnsentStep == SchedInv /\ [Next]_vars => \A f \in Fires : Unsent(f)
<1> SUFFICES ASSUME SchedInv, [Next]_vars, NEW f \in Fires, note'[f] # note[f]
             PROVE  Unsent(f)
  BY DEF Unsent
<1>1. TypeOK /\ FireOK(f)
  BY SchedInvParts
<1>2. note' # note
  OBVIOUS
<1> USE DEF durable, runtime, store, bounds, GoTo, Ends, Elsewhere
<1>3. \/ \E g \in Fires : \/ Begins(g) \/ TargetIdle(g) \/ ProgramReturns(g) \/ SendStarts(g) \/ Interrupted(g)
                          \/ \E phase \in {"delivered", "rejected", "failed"} : Receipt(g, phase)
  <2>1. ASSUME NEW j \in Jobs, Cancel(j) \/ CancelAgain(j) \/ \E at \in 0 .. MaxTime : Add(j, at)
        PROVE  FALSE
    BY <1>2, <2>1 DEF Cancel, CancelAgain, Add
  <2>2. CASE Boot \/ Stopped \/ (\E lead \in {0, 1} : Tick(lead)) \/ Stop \/ Crash \/ Clock \/ UNCHANGED vars
    BY <1>2, <2>2 DEF Boot, Stopped, Tick, Stop, Crash, Clock, vars
  <2>3. ASSUME NEW g \in Fires,
               \/ NeverRuns(g) \/ Drained(g) \/ SendQueries(g) \/ SendRepeats(g) \/ SendReports(g)
               \/ Settles(g) \/ Raises(g) \/ CleanupRaises(g)
               \/ \E finish \in {"complete", "incomplete"} : ProgramSaves(g, finish)
        PROVE  FALSE
    BY <1>2, <2>3 DEF NeverRuns, Drained, SendQueries, SendRepeats, SendReports, Settles, Raises,
                      CleanupRaises, ProgramSaves
  <2> QED BY <2>1, <2>2, <2>3 DEF Next, Follows, Runs
<1>4. ASSUME NEW g \in Fires, Withdraw(g)
      PROVE  note[f] = "prepared" /\ note'[f] = "rejected"
  BY <1>1, <1>4 DEF Withdraw, TypeOK
<1>5. ASSUME NEW g \in Fires, NEW phase \in {"prepared", "started", "delivered", "rejected", "failed"},
             note' = [note EXCEPT ![g] = phase]
      PROVE  g = f /\ note'[f] = phase
  BY <1>1, <1>5 DEF TypeOK
<1>6. ASSUME NEW g \in Fires, TargetIdle(g) \/ ProgramReturns(g)
      PROVE  Unsent(f)
  <2>1. note' = [note EXCEPT ![g] = "prepared"] /\ task[g].pc \in {"idle", "program"} /\ task[g].live
    BY <1>2, <1>6 DEF TargetIdle, ProgramReturns, Publish
  <2>2. g = f /\ note'[f] = "prepared"
    BY <1>5, <2>1
  <2> QED BY <1>1, <2>1, <2>2 DEF FireOK, Unsent
<1>7. ASSUME NEW g \in Fires, SendStarts(g)
      PROVE  Unsent(f)
  <2>1. note' = [note EXCEPT ![g] = "started"] /\ task[g].pc = "send" /\ note[g] = "prepared"
    BY <1>7 DEF SendStarts
  <2>2. g = f /\ note'[f] = "started"
    BY <1>5, <2>1
  <2> QED BY <1>1, <2>1, <2>2 DEF FireOK, Unsent
<1>8. ASSUME NEW g \in Fires, NEW phase \in {"delivered", "rejected", "failed"},
             note' = [note EXCEPT ![g] = phase], task[g].pc \in {"query", "sending"}
      PROVE  Unsent(f)
  <2>1. g = f /\ note'[f] = phase
    BY <1>5, <1>8
  <2> QED BY <1>1, <1>8, <2>1 DEF FireOK, Unsent
<1>9. ASSUME NEW g \in Fires, Begins(g)
      PROVE  Unsent(f)
  <2>1. fires[g] \in {"none", "pending", "delivered", "failed", "cancelled"} /\ FireOK(g)
    BY <1>1, SchedInvParts DEF TypeOK
  <2>2. fires[g] # "none"
    BY <1>9, <2>1 DEF Begins, FireOK, NoTask
  <2>3. Withdraw(g)
    BY <1>2, <1>9, <2>1, <2>2 DEF Begins
  <2> QED BY <1>4, <2>3 DEF Unsent
<1>10. ASSUME NEW g \in Fires, Interrupted(g)
       PROVE  Unsent(f)
  BY <1>2, <1>4, <1>8, <1>10 DEF Interrupted, Unsent
<1>11. ASSUME NEW g \in Fires, NEW phase \in {"delivered", "rejected", "failed"}, Receipt(g, phase)
       PROVE  Unsent(f)
  BY <1>8, <1>11 DEF Receipt
<1> QED BY <1>3, <1>6, <1>7, <1>9, <1>10, <1>11

(* A fire whose cancellation is saved publishes nothing, and begins to send *)
(* only in the task that was about to send when the cancellation came.      *)
THEOREM CancelledUnsentAlways == Spec => CancelledUnsent
<1>1. SchedInv /\ [Next]_vars => \A f \in Fires : Unsent(f)
  BY UnsentStep
<1>2. SchedInv /\ [Next]_vars =>
        [\A f \in Fires :
            /\ note[f] = "absent" /\ note'[f] # "absent" => fires[f] = "pending"
            /\ note[f] = "prepared" /\ note'[f] = "started" =>
                    fires[f] = "pending" \/ (fires[f] = "cancelled" /\ task[f].pc = "send" /\ ~task[f].live)]_vars
  BY <1>1 DEF Unsent
<1> QED BY <1>2, SchedInvariant, PTL DEF Spec, CancelledUnsent
=============================================================================
