--------------------------- MODULE SubagentsProofs ---------------------------
(* Theorems about Subagents, for every finite set of jobs, any of them in   *)
(* the background, and every bound.                                         *)
EXTENDS Subagents, FiniteSetTheorems, TLAPS

USE SubagentsAssumption

\* What JobInv says of one job.
JobOK(k) ==
    /\ answer[k] \in Outcomes => k \notin Background /\ job[k] = "settled" /\ answer[k] = outcome[k]
    /\ report[k] # "none" => k \in Background /\ report[k] = outcome[k]
    /\ note[k] # "absent" => report[k] # "none"
    /\ job[k] = "settled" => outcome[k] # "none" /\ (k \in Background => note[k] \in Receipts)
    /\ Free(k) => task[k] = NoTask
    /\ task[k].pc = "program" => outcome[k] = "none" \/ ~task[k].live
    /\ task[k].pc = "closing" => outcome[k] # "none"
    /\ task[k].pc = "closing" /\ task[k].live =>
            outcome[k] = "completed" /\ report[k] = "none" /\ answer[k] \notin Outcomes
    /\ k \notin Background /\ job[k] = "settled" => Free(k)
    /\ waiter[k].pc = "none" => waiter[k] = NoWaiter
    /\ waiter[k].pc \in {"report", "send", "query", "sending", "settle"} =>
            k \in Background /\ outcome[k] # "none" /\ waiter[k].heard = outcome[k]
    /\ waiter[k].pc \in {"send", "query", "sending", "settle", "halt", "ask"} => report[k] # "none"
    /\ waiter[k].pc = "settle" => note[k] \in Receipts
    /\ k \in Background /\ ~Free(k) /\ task[k].live
          /\ (task[k].pc = "closing" \/ outcome[k] = "none") => waiter[k].pc = "join"
    /\ waiter[k].pc \in {"join", "drain"} => ~Free(k)
    /\ \A w \in Callers :
            /\ call[<<k, w>>] \in {"join", "drain", "last"} => ~Free(k)
            /\ call[<<k, w>>] \in {"drain", "again", "last"} => outcome[k] # "none"
    /\ job[k] = "none" =>
            /\ outcome[k] = "none" /\ Free(k) /\ waiter[k] = NoWaiter
            /\ \A w \in Callers : call[<<k, w>>] = "none"

CapacityHeld == Cardinality(Open) <= MaxActive

LEMMA JobInvParts == JobInv <=> TypeOK /\ CapacityHeld /\ \A k \in Jobs : JobOK(k)
BY DEF JobInv, ToldTruly, SettledLast, TasksFit, WaitersFit, JoinsHeld, JobOK, CapacityHeld

LEMMA JobInvPartsNext == JobInv' <=> TypeOK' /\ CapacityHeld' /\ \A k \in Jobs : JobOK(k)'
BY DEF JobInv, ToldTruly, SettledLast, TasksFit, WaitersFit, JoinsHeld, JobOK, CapacityHeld

\* Nothing of job l changes.
Same(l) == UNCHANGED <<job[l], outcome[l], answer[l], report[l], note[l], task[l], waiter[l],
                       call[<<l, "spawn">>], call[<<l, "manage">>]>>

(* What JobInv says of a job that nothing touches stays true.               *)
LEMMA Untouched ==
    ASSUME NEW l \in Jobs, Same(l), JobOK(l)
    PROVE  JobOK(l)'
BY DEF Same, JobOK, Free, Callers

(* A step that touches one job and does not open it.                        *)
LEMMA OneJob ==
    ASSUME JobInv, NEW k \in Jobs, TypeOK', JobOK(k)',
           \A l \in Jobs \ {k} : Same(l),
           job'[k] = "open" => job[k] = "open"
    PROVE  JobInv'
<1>1. \A l \in Jobs : JobOK(l)'
  BY JobInvParts, Untouched
<1>2. Open' \subseteq Open /\ Open \subseteq Jobs
  BY DEF Open, Same
<1>3. Cardinality(Open') <= Cardinality(Open) /\ Cardinality(Open) \in Nat
        /\ Cardinality(Open') \in Nat
  BY <1>2, FS_Subset, FS_CardinalityType
<1>4. CapacityHeld'
  BY <1>3, JobInvParts DEF CapacityHeld
<1> QED BY <1>1, <1>4, JobInvPartsNext

-----------------------------------------------------------------------------
CallPlaces == {"none", "join", "query", "raise", "cancel", "drain", "again", "last"}
TaskPlaces == [pc : {"none", "new", "program", "closing"}, live : BOOLEAN]
WaiterPlaces == [pc : {"none", "join", "look", "report", "send", "query", "sending",
                       "settle", "drain", "halt", "ask"},
                 heard : Outcomes \cup {"none"}]

\* What the end of the task of job k does to those who have joined it.
Ended(k) ==
    /\ call' \in [Jobs \X Callers -> CallPlaces]
    /\ \A c \in Jobs \X Callers : c[1] # k => call'[c] = call[c]
    /\ \A c \in Jobs \X Callers : c[1] = k =>
            /\ call'[c] \notin {"join", "drain", "last"}
            /\ call[c] = "none" => call'[c] = "none"
            /\ call'[c] = "again" => call[c] \in {"drain", "again"}
    /\ waiter' \in [Jobs -> WaiterPlaces]
    /\ \A l \in Jobs \ {k} : waiter'[l] = waiter[l]
    /\ \/ waiter[k].pc \in {"join", "drain"} /\ waiter'[k] = NoWaiter
       \/ waiter[k].pc = "join" /\ waiter'[k].pc = "look"
       \/ waiter[k].pc \notin {"join", "drain"} /\ waiter'[k] = waiter[k]
    /\ task' \in [Jobs -> TaskPlaces]
    /\ task'[k] = NoTask /\ \A l \in Jobs \ {k} : task'[l] = task[l]

(* The end of a task: who has joined it goes on.                            *)
LEMMA EndsFacts ==
    ASSUME TypeOK, NEW k \in Jobs, NEW how \in {"ok", "cancelled", "error"}, Ends(k, how)
    PROVE  Ended(k)
<1> USE DEF TypeOK
<1>1. /\ task' \in [Jobs -> TaskPlaces]
      /\ task'[k] = NoTask /\ \A l \in Jobs \ {k} : task'[l] = task[l]
  <2>1. task' = [task EXCEPT ![k] = NoTask] /\ NoTask \in TaskPlaces
    BY DEF Ends, NoTask, TaskPlaces
  <2> QED BY <2>1 DEF TaskPlaces
<1>2. \A c \in Jobs \X Callers : After(c) \in {"raise", "none"}
  BY DEF After
<1>3. \A c \in Jobs \X Callers : c[1] # k => call'[c] = call[c]
  BY DEF Ends
<1>4. ASSUME NEW c \in Jobs \X Callers, c[1] = k
      PROVE  /\ call'[c] \in {"none", "query", "raise", "cancel", "again"}
             /\ call[c] = "none" => call'[c] = "none"
             /\ call'[c] = "again" => call[c] \in {"drain", "again"}
  <2>1. call[c] \in {"none", "join", "query", "raise", "cancel", "drain", "again", "last"}
    OBVIOUS
  <2>2. CASE call[c] = "join"
    BY <1>4, <2>2 DEF Ends
  <2>3. CASE call[c] = "drain"
    BY <1>2, <1>4, <2>3 DEF Ends
  <2>4. CASE call[c] = "last"
    BY <1>2, <1>4, <2>4 DEF Ends
  <2>5. CASE call[c] \notin {"join", "drain", "last"}
    BY <1>4, <2>1, <2>5 DEF Ends
  <2> QED BY <2>2, <2>3, <2>4, <2>5
<1>5. call' = [c \in Jobs \X Callers |-> call'[c]]
  BY DEF Ends
<1>6. call' \in [Jobs \X Callers -> CallPlaces]
  BY <1>3, <1>4, <1>5 DEF CallPlaces
<1>7. /\ \A l \in Jobs \ {k} : waiter'[l] = waiter[l]
      /\ \/ waiter[k].pc \in {"join", "drain"} /\ waiter'[k] = NoWaiter
         \/ waiter[k].pc = "join" /\ waiter'[k] = [waiter[k] EXCEPT !.pc = "look"]
         \/ waiter[k].pc \notin {"join", "drain"} /\ waiter'[k] = waiter[k]
      /\ \E w : waiter' = [waiter EXCEPT ![k] = w]
  <2>1. CASE waiter[k].pc = "join"
    BY <2>1 DEF Ends
  <2>2. CASE waiter[k].pc = "drain"
    BY <2>2 DEF Ends
  <2>3. CASE waiter[k].pc \notin {"join", "drain"}
    BY <2>3 DEF Ends
  <2> QED BY <2>1, <2>2, <2>3
<1>8. NoWaiter \in WaiterPlaces
  BY DEF NoWaiter, WaiterPlaces
<1>9. waiter' \in [Jobs -> WaiterPlaces]
  BY <1>7, <1>8, SMTT(30) DEF WaiterPlaces
<1> QED BY <1>1, <1>3, <1>4, <1>6, <1>7, <1>9 DEF Ended

-----------------------------------------------------------------------------
(* The calls.                                                               *)

LEMMA InvokeStep ==
    ASSUME JobInv, NEW k \in Jobs, Invoke(k)
    PROVE  JobInv'
<1>1. TypeOK /\ CapacityHeld /\ \A l \in Jobs : JobOK(l)
  BY JobInvParts
<1>2. CASE job[k] = "none" /\ Cardinality(Open) >= MaxActive
  <2>1. /\ answer' = [answer EXCEPT ![k] = "busy"] /\ answer[k] = "none"
        /\ UNCHANGED <<job, task, call, outcome, report, note, waiter>>
        /\ UNCHANGED <<reader, follower, bounds>>
    BY <1>2 DEF Invoke, log
  <2>2. TypeOK'
    BY <1>1, <2>1 DEF TypeOK, reader, bounds
  <2>3. JobOK(k)'
    BY <1>1, <2>1 DEF JobOK, TypeOK, Outcomes, Free, Callers
  <2>4. \A l \in Jobs \ {k} : Same(l)
    BY <1>1, <2>1 DEF Same, TypeOK
  <2> QED BY <2>1, <2>2, <2>3, <2>4, OneJob
<1>3. CASE ~(job[k] = "none" /\ Cardinality(Open) >= MaxActive)
  <2> DEFINE joins == k \notin Background /\ job[k] # "settled"
  <2>1. /\ call[<<k, "spawn">>] = "none" /\ answer[k] = "none"
        /\ call' = [call EXCEPT ![<<k, "spawn">>] = IF joins THEN "join" ELSE "query"]
        /\ task' = IF joins THEN Started({k}) ELSE task
        /\ IF job[k] = "none"
           THEN job' = [job EXCEPT ![k] = "open"] /\ ChildWrites(k)
           ELSE UNCHANGED <<job, reader>>
        /\ UNCHANGED <<answer, outcome, report, note, waiter>> /\ UNCHANGED <<follower, bounds>>
    BY <1>3 DEF Invoke, log
  <2>2. task' \in [Jobs -> [pc : {"none", "new", "program", "closing"}, live : BOOLEAN]]
        /\ task'[k] = (IF joins /\ Free(k) THEN NewTask ELSE task[k])
        /\ \A l \in Jobs \ {k} : task'[l] = task[l]
    BY <1>1, <2>1 DEF TypeOK, Started, NewTask
  <2>3. TypeOK'
    <3>1. call' \in [Jobs \X Callers ->
                    {"none", "join", "query", "raise", "cancel", "drain", "again", "last"}]
      BY <1>1, <2>1 DEF TypeOK
    <3>2. job' \in [Jobs -> {"none", "open", "settled"}] /\ notified' \in BOOLEAN /\ seen' \subseteq Jobs
      BY <1>1, <2>1, ZenonT(40) DEF TypeOK, ChildWrites, reader
    <3> QED BY <1>1, <2>1, <2>2, <3>1, <3>2 DEF TypeOK, bounds
  <2>4. /\ call'[<<k, "spawn">>] = (IF joins THEN "join" ELSE "query")
        /\ call'[<<k, "manage">>] = call[<<k, "manage">>]
        /\ \A l \in Jobs \ {k}, w \in Callers : call'[<<l, w>>] = call[<<l, w>>]
    BY <1>1, <2>1 DEF TypeOK, Callers
  <2>5. /\ job'[k] = (IF job[k] = "none" THEN "open" ELSE job[k])
        /\ \A l \in Jobs \ {k} : job'[l] = job[l]
    BY <1>1, <2>1 DEF TypeOK
  <2>6. JobOK(k)'
    <3>1. joins => ~Free(k)'
      BY <2>2 DEF Free, NewTask
    <3>2. /\ JobOK(k) /\ UNCHANGED <<outcome[k], answer[k], report[k], note[k], waiter[k]>>
          /\ job'[k] # "none" /\ (job'[k] = job[k] \/ (job[k] = "none" /\ job'[k] = "open"))
      <4>1. JobOK(k)
        BY <1>1
      <4>2. UNCHANGED <<outcome[k], answer[k], report[k], note[k], waiter[k]>>
        BY <2>1
      <4> QED BY <2>5, <4>1, <4>2
    <3>3. CASE joins /\ Free(k)
      <4>1. task'[k] = NewTask /\ task'[k].pc = "new" /\ k \notin Background
        BY <2>2, <3>3 DEF NewTask
      <4> QED BY <2>4, <3>1, <3>2, <3>3, <4>1 DEF JobOK, Callers
    <3>4. CASE ~(joins /\ Free(k))
      <4>1. task'[k] = task[k] /\ (Free(k)' <=> Free(k))
        BY <2>2, <3>4 DEF Free
      <4> QED BY <2>4, <3>1, <3>2, <3>4, <4>1 DEF JobOK, Callers
    <3> QED BY <3>3, <3>4
  <2>7. \A l \in Jobs \ {k} : Same(l)
    BY <2>1, <2>2, <2>4, <2>5 DEF Same, Callers
  <2>8. CASE job[k] # "none"
    BY <2>3, <2>5, <2>6, <2>7, <2>8, OneJob
  <2>9. CASE job[k] = "none"
    <3>1. Open' = Open \cup {k} /\ k \notin Open /\ Open \subseteq Jobs
      BY <2>5, <2>9 DEF Open
    <3>2. Cardinality(Open') = Cardinality(Open) + 1 /\ Cardinality(Open) \in Nat
      BY <3>1, FS_Subset, FS_CardinalityType, FS_AddElement
    <3>3. CapacityHeld'
      BY <1>3, <2>9, <3>2 DEF CapacityHeld
    <3>4. \A l \in Jobs : JobOK(l)'
      BY <1>1, <2>6, <2>7, Untouched
    <3> QED BY <2>3, <3>3, <3>4, JobInvPartsNext
  <2> QED BY <2>8, <2>9
<1> QED BY <1>2, <1>3

LEMMA CallSteps ==
    ASSUME JobInv, NEW k \in Jobs,
           Answers(k) \/ CallerCancelled(k) \/ Manage(k)
    PROVE  JobInv'
<1>1. TypeOK /\ \A l \in Jobs : JobOK(l)
  BY JobInvParts
<1> DEFINE Rest == UNCHANGED <<job, outcome, report, note, task, waiter, follower, notified, seen, erred, stops>>
<1>2. CASE Answers(k)
  <2>1. /\ call' = [call EXCEPT ![<<k, "spawn">>] = "none"]
        /\ Rest /\ UNCHANGED cancels
    BY <1>2 DEF Answers, log, reader, bounds
  <2>2. PICK a \in Outcomes \cup {"none", "created", "raised"} :
            /\ answer' = [answer EXCEPT ![k] = a]
            /\ a \in Outcomes => k \notin Background /\ job[k] = "settled" /\ a = outcome[k]
    <3>1. outcome[k] \in Outcomes \cup {"none"}
      BY <1>1 DEF TypeOK
    <3> QED BY <1>1, <1>2, <3>1 DEF Answers, JobOK, Outcomes
  <2>3. TypeOK'
    BY <1>1, <2>1, <2>2 DEF TypeOK
  <2>4. /\ call'[<<k, "spawn">>] = "none" /\ call'[<<k, "manage">>] = call[<<k, "manage">>]
        /\ answer'[k] = a
    BY <1>1, <2>1, <2>2 DEF TypeOK, Callers
  <2>5. JobOK(k)'
    BY <1>1, <2>1, <2>2, <2>4 DEF JobOK, Free, Callers, NoTask
  <2>6. \A l \in Jobs \ {k} : Same(l)
    BY <1>1, <2>1, <2>2 DEF Same, TypeOK, Callers
  <2> QED BY <2>1, <2>3, <2>5, <2>6, OneJob
<1>3. CASE CallerCancelled(k) \/ Manage(k)
  <2>1. PICK w \in Callers : /\ call' = [call EXCEPT ![<<k, w>>] = "cancel"]
                             /\ job[k] # "none"
                             /\ UNCHANGED answer /\ Rest
    BY <1>1, <1>3 DEF CallerCancelled, Manage, JobOK, Callers, durable, log, reader, bounds
  <2>2. cancels' \in 0 .. MaxCancels
    BY <1>1, <1>3 DEF CallerCancelled, Manage, TypeOK, bounds
  <2>3. TypeOK'
    BY <1>1, <2>1, <2>2 DEF TypeOK
  <2>4. \A v \in Callers : call'[<<k, v>>] = "cancel" \/ call'[<<k, v>>] = call[<<k, v>>]
    BY <1>1, <2>1 DEF TypeOK
  <2>5. JobOK(k)'
    BY <1>1, <2>1, <2>4 DEF JobOK, Free
  <2>6. \A l \in Jobs \ {k} : Same(l)
    BY <1>1, <2>1 DEF Same, TypeOK, Callers
  <2> QED BY <2>1, <2>3, <2>5, <2>6, OneJob
<1> QED BY <1>2, <1>3

LEMMA RevokedFacts ==
    ASSUME TypeOK, NEW k \in Jobs
    PROVE  /\ Revoked(k) \in [Jobs -> [pc : {"none", "new", "program", "closing"}, live : BOOLEAN]]
           /\ Revoked(k)[k] = [task[k] EXCEPT !.live = FALSE]
           /\ \A l \in Jobs \ {k} : Revoked(k)[l] = task[l]
<1>1. task[k] \in [pc : {"none", "new", "program", "closing"}, live : BOOLEAN]
  BY DEF TypeOK
<1>2. [task[k] EXCEPT !.live = FALSE] \in [pc : {"none", "new", "program", "closing"}, live : BOOLEAN]
  BY <1>1
<1>3. Revoked(k) = [task EXCEPT ![k] = [task[k] EXCEPT !.live = FALSE]]
  BY DEF Revoked
<1> QED BY <1>2, <1>3 DEF TypeOK

(* cancel saves the outcome at once: who has it in the slot is revoked, and *)
(* whoever announces has not heard anything yet.                            *)
LEMMA CancelIntentStep ==
    ASSUME JobInv, NEW c \in Jobs \X Callers, CancelIntent(c)
    PROVE  JobInv'
<1> DEFINE k == c[1]
           w == c[2]
<1>1. TypeOK /\ (\A l \in Jobs : JobOK(l)) /\ k \in Jobs /\ w \in Callers /\ c = <<k, w>>
  BY JobInvParts
<1>2. After(c) \in {"raise", "none"} /\ call[<<k, w>>] = "cancel"
  BY <1>1 DEF After, CancelIntent
<1>3. UNCHANGED <<job, answer, report, note, waiter, follower, erred, cancels, stops>>
  BY DEF CancelIntent, bounds
<1> HIDE DEF k, w
<1>4. CASE outcome[k] # "none"
  <2>1. call' = [call EXCEPT ![<<k, w>>] = After(c)] /\ UNCHANGED <<outcome, task, notified, seen>>
    BY <1>1, <1>4 DEF CancelIntent, k, reader
  <2>2. TypeOK'
    BY <1>1, <1>2, <1>3, <2>1 DEF TypeOK
  <2>3. \A v \in Callers : call'[<<k, v>>] \in {"raise", "none"} \/ call'[<<k, v>>] = call[<<k, v>>]
    BY <1>1, <1>2, <2>1 DEF TypeOK
  <2>4. job[k] # "none"
    BY <1>1, <1>2 DEF JobOK
  <2>5. JobOK(k)'
    BY <1>1, <1>3, <2>1, <2>3, <2>4 DEF JobOK, Free
  <2>6. \A l \in Jobs \ {k} : Same(l)
    BY <1>1, <1>3, <2>1 DEF Same, TypeOK, Callers
  <2> QED BY <1>1, <1>3, <2>2, <2>5, <2>6, OneJob
<1>5. CASE outcome[k] = "none"
  <2>1. /\ outcome' = [outcome EXCEPT ![k] = "cancelled"]
        /\ notified' = TRUE /\ seen' = seen \ {k}
        /\ call' = [call EXCEPT ![<<k, w>>] = IF Free(k) THEN "last" ELSE "drain"]
        /\ task' = IF Free(k) THEN Started({k}) ELSE Revoked(k)
    BY <1>1, <1>5 DEF CancelIntent, ChildWrites, k
  <2>2. /\ task' \in [Jobs -> [pc : {"none", "new", "program", "closing"}, live : BOOLEAN]]
        /\ task'[k] = (IF Free(k) THEN NewTask ELSE [task[k] EXCEPT !.live = FALSE])
        /\ \A l \in Jobs \ {k} : task'[l] = task[l]
    <3>1. CASE Free(k)
      BY <1>1, <2>1, <3>1 DEF TypeOK, Started, NewTask
    <3>2. CASE ~Free(k)
      BY <1>1, <2>1, <3>2, RevokedFacts
    <3> QED BY <3>1, <3>2
  <2>3. TypeOK'
    BY <1>1, <1>3, <2>1, <2>2 DEF TypeOK, Outcomes
  <2>4. \A v \in Callers : call'[<<k, v>>] \in {"last", "drain"} \/ call'[<<k, v>>] = call[<<k, v>>]
    BY <1>1, <2>1 DEF TypeOK
  <2>6. /\ job[k] = "open" /\ task[k].pc # "closing" /\ answer[k] \notin Outcomes /\ report[k] = "none"
        /\ note[k] = "absent" /\ waiter[k].pc \notin {"report", "send", "query", "sending", "settle"}
    BY <1>1, <1>2, <1>5 DEF JobOK, TypeOK, Outcomes
  <2>7. task'[k].pc \in {"new", "program"} /\ (task'[k].pc = "program" => ~task'[k].live)
    BY <1>1, <2>2, <2>6 DEF Free, NewTask, TypeOK
  <2>8. ~Free(k)' /\ outcome'[k] = "cancelled"
    BY <1>1, <2>1, <2>7 DEF Free, TypeOK
  <2>9. JobOK(k)'
    BY <1>1, <1>3, <2>6, <2>7, <2>8 DEF JobOK
  <2>10. ASSUME NEW l \in Jobs \ {k}
        PROVE  Same(l)
    <3>1. \A v \in Callers : call'[<<l, v>>] = call[<<l, v>>]
      BY <1>1, <2>1 DEF TypeOK
    <3> QED BY <1>1, <1>3, <2>1, <2>2, <3>1 DEF Same, TypeOK, Callers
  <2> QED BY <1>1, <1>3, <2>3, <2>9, <2>10, OneJob
<1> QED BY <1>4, <1>5

LEMMA CancelAgainStep ==
    ASSUME JobInv, NEW c \in Jobs \X Callers, CancelAgain(c)
    PROVE  JobInv'
<1> DEFINE k == c[1]
           w == c[2]
           starts == job[k] # "settled" \/ ~Free(k)
<1>1. TypeOK /\ (\A l \in Jobs : JobOK(l)) /\ k \in Jobs /\ w \in Callers /\ c = <<k, w>>
  BY JobInvParts
<1>2. After(c) \in {"raise", "none"} /\ call[<<k, w>>] = "again"
  BY <1>1 DEF After, CancelAgain
<1>3. /\ UNCHANGED <<job, outcome, answer, report, note, waiter, follower, notified, seen, erred, cancels, stops>>
      /\ call' = [call EXCEPT ![<<k, w>>] = IF starts THEN "last" ELSE After(c)]
      /\ task' = IF starts THEN Started({k}) ELSE task
  BY <1>1 DEF CancelAgain, durable, log, reader, bounds
<1> HIDE DEF k, w
<1>4. /\ task' \in [Jobs -> [pc : {"none", "new", "program", "closing"}, live : BOOLEAN]]
      /\ task'[k] = (IF starts /\ Free(k) THEN NewTask ELSE task[k])
      /\ \A l \in Jobs \ {k} : task'[l] = task[l]
  BY <1>1, <1>3 DEF TypeOK, Started, NewTask
<1>5. TypeOK'
  BY <1>1, <1>2, <1>3, <1>4 DEF TypeOK
<1>6. \A v \in Callers :
        \/ call'[<<k, v>>] = call[<<k, v>>]
        \/ call'[<<k, v>>] \in {"raise", "none"}
        \/ starts /\ call'[<<k, v>>] = "last"
  BY <1>1, <1>2, <1>3 DEF TypeOK
<1>7. job[k] # "none" /\ outcome[k] # "none"
  BY <1>1, <1>2 DEF JobOK
<1>8. JobOK(k)'
  <2>1. CASE starts /\ Free(k)
    <3>1. task'[k] = NewTask /\ task'[k].pc = "new" /\ ~Free(k)' /\ job[k] # "settled"
      BY <1>4, <2>1 DEF NewTask, Free
    <3> QED BY <1>1, <1>3, <1>6, <1>7, <3>1 DEF JobOK
  <2>2. CASE ~(starts /\ Free(k))
    <3>1. task'[k] = task[k] /\ (Free(k)' <=> Free(k)) /\ (starts => ~Free(k))
      BY <1>4, <2>2 DEF Free
    <3> QED BY <1>1, <1>3, <1>6, <1>7, <3>1 DEF JobOK
  <2> QED BY <2>1, <2>2
<1>9. \A l \in Jobs \ {k} : Same(l)
  BY <1>1, <1>3, <1>4 DEF Same, TypeOK, Callers
<1> QED BY <1>1, <1>3, <1>5, <1>8, <1>9, OneJob

-----------------------------------------------------------------------------
(* The task of a job.                                                       *)

(* Whatever ends the task of a job and may settle it: what the end says of  *)
(* the outcome is all that is left to show.                                 *)
LEMMA TaskEnds ==
    ASSUME JobInv, NEW k \in Jobs, NEW how \in {"ok", "cancelled", "error"}, Ends(k, how),
           ~Free(k),
           UNCHANGED <<report, answer, note, follower>>,
           outcome' \in [Jobs -> Outcomes \cup {"none"}], notified' \in BOOLEAN, seen' \subseteq Jobs,
           erred' \subseteq Jobs, UNCHANGED <<cancels, stops>>,
           \A l \in Jobs \ {k} : outcome'[l] = outcome[l],
           \/ outcome'[k] = outcome[k]
           \/ outcome'[k] # "none" /\ task[k].live /\ task[k].pc \in {"program", "closing"},
           \/ job' = job
           \/ /\ k \notin Background /\ job' = [job EXCEPT ![k] = "settled"]
              /\ outcome'[k] # "none"
    PROVE  JobInv'
<1>1. TypeOK /\ (\A l \in Jobs : JobOK(l)) /\ Ended(k)
  BY JobInvParts, EndsFacts
<1>2. Free(k)'
  BY <1>1 DEF Ended, NoTask, Free
<1>3. /\ job' \in [Jobs -> {"none", "open", "settled"}]
      /\ \/ job'[k] = job[k]
         \/ k \notin Background /\ job'[k] = "settled" /\ outcome'[k] # "none"
      /\ \A l \in Jobs \ {k} : job'[l] = job[l]
  BY <1>1 DEF TypeOK
<1>4. TypeOK'
  BY <1>1, <1>3 DEF TypeOK, Ended, CallPlaces, TaskPlaces, WaiterPlaces
<1>5. \A l \in Jobs \ {k} : Same(l)
  BY <1>1, <1>3 DEF Ended, Same, Callers
<1>6. \A v \in Callers :
          /\ call'[<<k, v>>] \notin {"join", "drain", "last"}
          /\ call'[<<k, v>>] = "again" => outcome[k] # "none"
  BY <1>1 DEF Ended, JobOK
<1>7. /\ \/ waiter'[k] = NoWaiter \/ waiter'[k].pc = "look" \/ waiter'[k] = waiter[k]
      /\ waiter'[k].pc \notin {"join", "drain"}
  BY <1>1 DEF Ended, NoWaiter
<1>8. job[k] # "none" /\ task[k].pc # "none"
  BY <1>1 DEF JobOK, Free
<1>9. \/ outcome'[k] = outcome[k]
      \/ /\ outcome'[k] # "none" /\ report[k] = "none" /\ answer[k] \notin Outcomes
         /\ waiter[k].pc \notin {"report", "send", "query", "sending", "settle", "halt", "ask"}
  BY <1>1 DEF JobOK, Outcomes, TypeOK
<1>10. JobOK(k)'
  BY <1>1, <1>2, <1>3, <1>6, <1>7, <1>8, <1>9 DEF JobOK, Ended, NoTask, NoWaiter
<1> QED BY <1>3, <1>4, <1>5, <1>10, OneJob

LEMMA AtPlace ==
    ASSUME TypeOK, NEW k \in Jobs, NEW pc \in {"none", "new", "program", "closing"},
           task' = [task EXCEPT ![k].pc = pc]
    PROVE  /\ task' \in [Jobs -> TaskPlaces]
           /\ task'[k].pc = pc /\ task'[k].live = task[k].live
           /\ \A l \in Jobs \ {k} : task'[l] = task[l]
<1>1. task[k] \in TaskPlaces
  BY DEF TypeOK, TaskPlaces
<1>2. [task[k] EXCEPT !.pc = pc] \in TaskPlaces
  BY <1>1 DEF TaskPlaces
<1>3. task' = [task EXCEPT ![k] = [task[k] EXCEPT !.pc = pc]]
  OBVIOUS
<1> QED BY <1>1, <1>2, <1>3 DEF TypeOK, TaskPlaces

(* The program starts, or saves its result.                                 *)
LEMMA ProgramSteps ==
    ASSUME JobInv, NEW k \in Jobs,
           (Begins(k) /\ outcome[k] = "none") \/ ProgramSaves(k)
    PROVE  JobInv'
<1>1. TypeOK /\ JobOK(k) /\ \A l \in Jobs : JobOK(l)
  BY JobInvParts
<1>2. /\ UNCHANGED <<job, call, waiter>> /\ UNCHANGED <<report, answer, note, follower, erred, cancels, stops>>
      /\ task[k].live
  BY DEF Begins, ProgramSaves, Elsewhere, bounds
<1>3. CASE Begins(k) /\ outcome[k] = "none"
  <2>1. task' = [task EXCEPT ![k].pc = "program"] /\ UNCHANGED <<outcome, notified, seen>> /\ task[k].pc = "new"
    BY <1>3 DEF Begins, reader
  <2>2. TypeOK'
    BY <1>1, <1>2, <2>1, AtPlace DEF TypeOK, TaskPlaces
  <2>3. task'[k].pc = "program" /\ task'[k].live /\ \A l \in Jobs \ {k} : task'[l] = task[l]
    BY <1>1, <1>2, <2>1, AtPlace
  <2>4. JobOK(k)'
    BY <1>1, <1>2, <1>3, <2>1, <2>3 DEF JobOK, Free
  <2>5. \A l \in Jobs \ {k} : Same(l)
    BY <1>2, <2>1, <2>3 DEF Same
  <2> QED BY <1>2, <2>2, <2>4, <2>5, OneJob
<1>4. CASE ProgramSaves(k)
  <2>1. /\ task' = [task EXCEPT ![k].pc = "closing"] /\ task[k].pc = "program"
        /\ outcome' = [outcome EXCEPT ![k] = "completed"] /\ notified' = TRUE /\ seen' = seen \ {k}
    BY <1>4 DEF ProgramSaves, ChildWrites
  <2>2. TypeOK'
    BY <1>1, <1>2, <2>1, AtPlace DEF TypeOK, TaskPlaces, Outcomes
  <2>3. task'[k].pc = "closing" /\ \A l \in Jobs \ {k} : task'[l] = task[l]
    BY <1>1, <1>2, <2>1, AtPlace
  <2>4. outcome'[k] = "completed" /\ outcome[k] = "none" /\ \A l \in Jobs \ {k} : outcome'[l] = outcome[l]
    BY <1>1, <1>2, <2>1 DEF TypeOK, JobOK
  <2>5. report[k] = "none" /\ answer[k] \notin Outcomes /\ job[k] # "none" /\ job[k] # "settled"
    BY <1>1, <2>1, <2>4 DEF JobOK, Free, Outcomes
  <2>6. JobOK(k)'
    BY <1>1, <1>2, <2>1, <2>3, <2>4, <2>5 DEF JobOK, Free
  <2>7. \A l \in Jobs \ {k} : Same(l)
    BY <1>2, <2>3, <2>4 DEF Same
  <2> QED BY <1>2, <2>2, <2>6, <2>7, OneJob
<1> QED BY <1>3, <1>4

(* The ways in which a task leaves its slot.                                *)
LEMMA EndingSteps ==
    ASSUME JobInv, NEW k \in Jobs,
           \/ NeverRuns(k) \/ (Begins(k) /\ outcome[k] # "none") \/ ProgramReturns(k)
           \/ ProgramRaises(k) \/ RevokedRaises(k) \/ ReturnsNothing(k) \/ Interrupted(k)
    PROVE  JobInv'
<1>1. TypeOK /\ JobOK(k)
  BY JobInvParts
<1> USE DEF Elsewhere, bounds, reader, log
<1>2. ~Free(k) /\ UNCHANGED <<report, answer, note, follower, cancels, stops>>
  BY DEF NeverRuns, Begins, ProgramReturns, ProgramRaises, RevokedRaises, ReturnsNothing, Interrupted, Free
<1>3. erred' \subseteq Jobs
  BY <1>1 DEF NeverRuns, Begins, ProgramReturns, ProgramRaises, RevokedRaises, ReturnsNothing,
              Interrupted, TypeOK
<1>4. CASE NeverRuns(k) \/ RevokedRaises(k) \/ ReturnsNothing(k)
  <2>1. /\ Ends(k, "cancelled") \/ Ends(k, "error")
        /\ UNCHANGED <<job, outcome, notified, seen>>
    BY <1>4 DEF NeverRuns, RevokedRaises, ReturnsNothing
  <2>2. outcome' \in [Jobs -> Outcomes \cup {"none"}] /\ notified' \in BOOLEAN /\ seen' \subseteq Jobs
    BY <1>1, <2>1 DEF TypeOK
  <2> QED BY <1>2, <1>3, <2>1, <2>2, TaskEnds
<1>5. CASE (Begins(k) /\ outcome[k] # "none") \/ ProgramReturns(k) \/ Interrupted(k)
  <2>1. /\ Ends(k, "cancelled") \/ Ends(k, "ok")
        /\ UNCHANGED <<outcome, notified, seen>>
        /\ \/ job' = job
           \/ k \notin Background /\ job' = [job EXCEPT ![k] = "settled"] /\ outcome[k] # "none"
    BY <1>1, <1>5 DEF Begins, ProgramReturns, Interrupted, Finishes, JobOK
  <2>2. outcome' \in [Jobs -> Outcomes \cup {"none"}] /\ notified' \in BOOLEAN /\ seen' \subseteq Jobs
    BY <1>1, <2>1 DEF TypeOK
  <2> QED BY <1>2, <1>3, <2>1, <2>2, TaskEnds
<1>6. CASE ProgramRaises(k)
  <2>1. /\ Ends(k, "ok") /\ task[k].live /\ task[k].pc \in {"program", "closing"}
        /\ outcome' = [outcome EXCEPT ![k] = "failed"] /\ notified' = TRUE /\ seen' = seen \ {k}
        /\ \/ job' = job
           \/ k \notin Background /\ job' = [job EXCEPT ![k] = "settled"]
    BY <1>6 DEF ProgramRaises, Finishes, ChildWrites
  <2>2. /\ outcome' \in [Jobs -> Outcomes \cup {"none"}] /\ notified' \in BOOLEAN /\ seen' \subseteq Jobs
        /\ outcome'[k] = "failed" /\ \A l \in Jobs \ {k} : outcome'[l] = outcome[l]
    BY <1>1, <2>1 DEF TypeOK, Outcomes
  <2> QED BY <1>2, <1>3, <2>1, <2>2, TaskEnds
<1> QED BY <1>4, <1>5, <1>6

-----------------------------------------------------------------------------
(* The waiter of a job.                                                     *)

(* A step of the waiter of job k, which changes its report, its note and    *)
(* its place at most.                                                       *)
LEMMA WaiterMoves ==
    ASSUME JobInv, NEW k \in Jobs, NEW w \in WaiterPlaces, waiter' = [waiter EXCEPT ![k] = w],
           UNCHANGED <<outcome, answer, task, call, follower, cancels, stops>>,
           NEW r \in Outcomes \cup {"none"}, report' = [report EXCEPT ![k] = r],
           NEW n \in Receipts \cup {"absent", "prepared", "started"}, note' = [note EXCEPT ![k] = n],
           job' = job \/ job' = [job EXCEPT ![k] = "settled"],
           notified' \in BOOLEAN, seen' \subseteq Jobs, erred' \subseteq Jobs,
           JobOK(k)'
    PROVE  JobInv'
<1>1. TypeOK
  BY JobInvParts
<1>2. TypeOK'
  BY <1>1 DEF TypeOK, WaiterPlaces
<1>3. \A l \in Jobs \ {k} : Same(l)
  BY <1>1 DEF TypeOK, Same
<1>4. job'[k] = "open" => job[k] = "open"
  BY <1>1 DEF TypeOK
<1> QED BY <1>2, <1>3, <1>4, OneJob

LEMMA GoesTo ==
    ASSUME TypeOK, NEW k \in Jobs,
           NEW pc \in {"none", "join", "look", "report", "send", "query", "sending", "settle",
                       "drain", "halt", "ask"},
           GoTo(k, pc)
    PROVE  \E w \in WaiterPlaces : /\ waiter' = [waiter EXCEPT ![k] = w] /\ waiter'[k] = w
                                   /\ w.pc = pc /\ w.heard = waiter[k].heard
<1>1. waiter[k] \in WaiterPlaces
  BY DEF TypeOK, WaiterPlaces
<1>2. [waiter[k] EXCEPT !.pc = pc] \in WaiterPlaces
  BY <1>1 DEF WaiterPlaces
<1>3. waiter' = [waiter EXCEPT ![k] = [waiter[k] EXCEPT !.pc = pc]]
  BY DEF GoTo
<1>4. waiter'[k] = [waiter[k] EXCEPT !.pc = pc]
  BY <1>3 DEF TypeOK
<1> WITNESS [waiter[k] EXCEPT !.pc = pc] \in WaiterPlaces
<1> QED BY <1>1, <1>3, <1>4 DEF WaiterPlaces

LEMMA Left ==
    ASSUME TypeOK, NEW k \in Jobs, Leaves(k)
    PROVE  /\ NoWaiter \in WaiterPlaces /\ waiter' = [waiter EXCEPT ![k] = NoWaiter]
           /\ waiter'[k] = NoWaiter /\ waiter'[k].pc = "none"
BY DEF TypeOK, Leaves, NoWaiter, WaiterPlaces

LEMMA Kept ==
    ASSUME TypeOK, NEW k \in Jobs
    PROVE  /\ report[k] \in Outcomes \cup {"none"} /\ report = [report EXCEPT ![k] = report[k]]
           /\ note[k] \in Receipts \cup {"absent", "prepared", "started"} /\ note = [note EXCEPT ![k] = note[k]]
           /\ notified \in BOOLEAN /\ seen \subseteq Jobs /\ erred \subseteq Jobs
BY DEF TypeOK

(* A waiter that leaves for good.                                           *)
LEMMA WaiterLeaves ==
    ASSUME JobInv, NEW k \in Jobs, Leaves(k),
           waiter[k].pc \in {"look", "report", "send", "query", "sending", "settle", "halt", "ask"},
           UNCHANGED <<outcome, answer, report, task, call, follower, cancels, stops>>,
           UNCHANGED <<notified, seen>>, erred' \subseteq Jobs,
           NEW n \in Receipts \cup {"absent", "prepared", "started"}, note' = [note EXCEPT ![k] = n],
           n = note[k] \/ (n \in Receipts /\ report[k] # "none"),
           job' = job \/ (job' = [job EXCEPT ![k] = "settled"] /\ k \in Background /\ outcome[k] # "none"
                              /\ n \in Receipts)
    PROVE  JobInv'
<1>1. TypeOK /\ JobOK(k)
  BY JobInvParts
<1>2. job'[k] = job[k] \/ (job'[k] = "settled" /\ k \in Background /\ outcome[k] # "none" /\ n \in Receipts)
  BY <1>1 DEF TypeOK
<1>3. note'[k] = n
  BY <1>1 DEF TypeOK
<1>4. waiter'[k] = NoWaiter /\ NoWaiter.pc = "none"
  BY <1>1, Left
<1>5. JobOK(k)'
  BY <1>1, <1>2, <1>3, <1>4 DEF JobOK, Free, Receipts
<1> QED BY <1>1, <1>5, Left, Kept, WaiterMoves

LEMMA LeavingSteps ==
    ASSUME JobInv, NEW k \in Jobs,
           \/ (Looks(k) /\ ~(k \in Background /\ job[k] = "open" /\ outcome[k] # "none"))
           \/ Settles(k) \/ SenderRaises(k) \/ AnnounceRaises(k)
           \/ \E phase \in Receipts : Halted(k, phase)
    PROVE  JobInv'
<1>1. TypeOK /\ JobOK(k)
  BY JobInvParts
<1> USE DEF durable, bounds, reader, log
<1>2. CASE \/ (Looks(k) /\ ~(k \in Background /\ job[k] = "open" /\ outcome[k] # "none"))
           \/ AnnounceRaises(k)
  <2>1. /\ Leaves(k) /\ waiter[k].pc \in {"look", "report", "send", "query", "sending", "settle", "halt", "ask"}
        /\ UNCHANGED <<outcome, answer, report, note, job, task, call, follower, cancels, stops>>
        /\ UNCHANGED <<notified, seen>>
    BY <1>2 DEF Looks, AnnounceRaises
  <2>2. erred' \subseteq Jobs
    BY <1>1, <1>2 DEF Looks, AnnounceRaises, TypeOK
  <2> QED BY <1>1, <2>1, <2>2, Kept, WaiterLeaves
<1>3. CASE Settles(k)
  <2>1. /\ Leaves(k) /\ waiter[k].pc = "settle" /\ job' = [job EXCEPT ![k] = "settled"]
        /\ UNCHANGED <<outcome, answer, report, note, task, call, follower, cancels, stops>>
        /\ UNCHANGED <<notified, seen, erred>>
    BY <1>3 DEF Settles
  <2>2. k \in Background /\ outcome[k] # "none" /\ note[k] \in Receipts
    BY <1>1, <2>1 DEF JobOK
  <2> QED BY <1>1, <2>1, <2>2, Kept, WaiterLeaves
<1>4. CASE SenderRaises(k)
  <2>1. /\ Leaves(k) /\ waiter[k].pc = "sending" /\ job' = [job EXCEPT ![k] = "settled"]
        /\ note' = [note EXCEPT ![k] = "failed"] /\ "failed" \in Receipts
        /\ UNCHANGED <<outcome, answer, report, task, call, follower, cancels, stops>>
        /\ UNCHANGED <<notified, seen, erred>>
    BY <1>4 DEF SenderRaises, Receipts
  <2>2. k \in Background /\ outcome[k] # "none" /\ report[k] # "none"
    BY <1>1, <2>1 DEF JobOK
  <2> QED BY <1>1, <2>1, <2>2, Kept, WaiterLeaves
<1>5. ASSUME NEW phase \in Receipts, Halted(k, phase)
      PROVE  JobInv'
  <2>1. /\ Leaves(k) /\ waiter[k].pc \in {"halt", "ask"}
        /\ note' = note \/ note' = [note EXCEPT ![k] = phase]
        /\ UNCHANGED <<outcome, answer, report, job, task, call, follower, cancels, stops>>
        /\ UNCHANGED <<notified, seen, erred>>
    BY <1>5 DEF Halted
  <2>2. report[k] # "none"
    BY <1>1, <2>1 DEF JobOK
  <2>3. CASE note' = note
    BY <1>1, <2>1, <2>3, Kept, WaiterLeaves
  <2>4. CASE note' = [note EXCEPT ![k] = phase]
    BY <1>1, <2>1, <2>2, <2>4, Kept, WaiterLeaves
  <2> QED BY <2>1, <2>3, <2>4
<1> QED BY <1>2, <1>3, <1>4, <1>5

(* A waiter that reads the outcome, reports it and has the report sent.     *)
LEMMA AnnouncingSteps ==
    ASSUME JobInv, NEW k \in Jobs,
           \/ (Looks(k) /\ k \in Background /\ job[k] = "open" /\ outcome[k] # "none")
           \/ Reports(k) \/ Sends(k) \/ SendRepeats(k)
           \/ \E phase \in Receipts : Receipt(k, phase)
    PROVE  JobInv'
<1>1. TypeOK /\ JobOK(k)
  BY JobInvParts
<1> USE DEF durable, bounds, reader, log
<1>2. CASE Looks(k) /\ k \in Background /\ job[k] = "open" /\ outcome[k] # "none"
  <2> DEFINE w == [pc |-> IF report[k] = "none" THEN "report" ELSE "send", heard |-> outcome[k]]
  <2>1. /\ waiter' = [waiter EXCEPT ![k] = w] /\ waiter[k].pc = "look"
        /\ UNCHANGED <<job, outcome, answer, report, note, task, call, follower, cancels, stops>>
        /\ UNCHANGED <<notified, seen, erred>>
    BY <1>2 DEF Looks
  <2>2. w \in WaiterPlaces /\ w.pc \in {"report", "send"} /\ (w.pc = "send" => report[k] # "none") /\ w.heard = outcome[k]
    BY <1>1 DEF WaiterPlaces, TypeOK
  <2> HIDE DEF w
  <2>3. waiter'[k] = w
    BY <1>1, <2>1 DEF TypeOK
  <2>4. JobOK(k)'
    BY <1>1, <1>2, <2>1, <2>2, <2>3 DEF JobOK, Free
  <2> QED BY <1>1, <2>1, <2>2, <2>4, Kept, WaiterMoves
<1>3. CASE Reports(k)
  <2>1. /\ report' = [report EXCEPT ![k] = waiter[k].heard] /\ waiter[k].pc = "report"
        /\ GoTo(k, "send") /\ notified' = TRUE /\ seen' = {}
        /\ UNCHANGED <<job, outcome, answer, note, task, call, follower, erred, cancels, stops>>
    BY <1>3 DEF Reports, ParentWrites
  <2>2. k \in Background /\ outcome[k] # "none" /\ waiter[k].heard = outcome[k]
        /\ outcome[k] \in Outcomes \cup {"none"}
    BY <1>1, <2>1 DEF JobOK, TypeOK
  <2>3. report'[k] = outcome[k]
    BY <1>1, <2>1, <2>2 DEF TypeOK
  <2>4. PICK w \in WaiterPlaces : /\ waiter' = [waiter EXCEPT ![k] = w] /\ waiter'[k] = w
                                  /\ w.pc = "send" /\ w.heard = waiter[k].heard
    BY <1>1, <2>1, GoesTo
  <2>5. JobOK(k)'
    BY <1>1, <2>1, <2>2, <2>3, <2>4 DEF JobOK, Free
  <2> QED BY <1>1, <2>1, <2>2, <2>4, <2>5, Kept, WaiterMoves
<1>4. CASE Sends(k) \/ SendRepeats(k) \/ \E phase \in Receipts : Receipt(k, phase)
  <2>1. /\ waiter[k].pc \in {"send", "query", "sending"}
        /\ UNCHANGED <<job, outcome, answer, report, task, call, follower, cancels, stops>>
        /\ UNCHANGED <<notified, seen, erred>>
    BY <1>4 DEF Sends, SendRepeats, Receipt
  <2>2. PICK n \in Receipts \cup {"absent", "prepared", "started"},
             pc \in {"send", "query", "sending", "settle"} :
                /\ note' = [note EXCEPT ![k] = n] /\ GoTo(k, pc)
                /\ pc = "settle" \/ note[k] \in Receipts => n \in Receipts
    <3>1. CASE Sends(k)
      <4>1. note[k] \in Receipts \cup {"absent", "prepared", "started"}
        BY <1>1 DEF TypeOK
      <4>2. CASE note[k] = "absent"
        BY <3>1, <4>2 DEF Sends, Receipts
      <4>3. CASE note[k] = "prepared"
        BY <3>1, <4>3 DEF Sends, Receipts
      <4>4. CASE note[k] = "started"
        BY <3>1, <4>4 DEF Sends
      <4>5. CASE note[k] \in Receipts
        BY <3>1, <4>5 DEF Sends, Receipts
      <4> QED BY <4>1, <4>2, <4>3, <4>4, <4>5
    <3>2. CASE SendRepeats(k)
      BY <1>1, <3>2, Kept DEF SendRepeats
    <3>3. CASE \E phase \in Receipts : Receipt(k, phase)
      BY <3>3 DEF Receipt
    <3> QED BY <1>4, <3>1, <3>2, <3>3
  <2>3. PICK w \in WaiterPlaces : /\ waiter' = [waiter EXCEPT ![k] = w] /\ waiter'[k] = w
                                  /\ w.pc = pc /\ w.heard = waiter[k].heard
    BY <1>1, <2>2, GoesTo
  <2>4. note'[k] = n
    BY <1>1, <2>2 DEF TypeOK
  <2>5. JobOK(k)'
    BY <1>1, <2>1, <2>2, <2>3, <2>4 DEF JobOK, Free, Receipts
  <2> QED BY <1>1, <2>1, <2>2, <2>3, <2>5, Kept, WaiterMoves
<1> QED BY <1>2, <1>3, <1>4

-----------------------------------------------------------------------------
(* The follower.                                                            *)

LEMMA Idle ==
    ASSUME JobInv, UNCHANGED <<job, outcome, answer, report, note, task, call, waiter>>,
           follower' \in {"up", "stopping", "down"}, notified' \in BOOLEAN, seen' \subseteq Jobs,
           UNCHANGED <<erred, cancels, stops>>
    PROVE  JobInv'
<1>1. TypeOK' /\ \A l \in Jobs : Same(l) /\ JobOK(l)
  BY JobInvParts DEF TypeOK, Same
<1>2. CapacityHeld'
  BY JobInvParts DEF CapacityHeld, Open
<1> QED BY <1>1, <1>2, Untouched, JobInvPartsNext

LEMMA FollowerSteps ==
    ASSUME JobInv, Follow \/ Stop \/ Crash
    PROVE  JobInv'
<1>1. TypeOK /\ \A k \in Jobs : JobOK(k)
  BY JobInvParts
<1> USE DEF durable, bounds, reader, log
<1>2. CapacityHeld' /\ UNCHANGED <<job, outcome, answer, report, note>>
  BY JobInvParts DEF CapacityHeld, Open, Follow, Stop, Crash
<1>3. CASE Follow
  <2> DEFINE K == {k \in Open \ seen : waiter[k] = NoWaiter}
  <2>1. /\ task' = Started(K)
        /\ waiter' = [k \in Jobs |-> IF k \in K THEN [NoWaiter EXCEPT !.pc = "join"] ELSE waiter[k]]
        /\ seen' = seen \cup K /\ notified' = FALSE
        /\ UNCHANGED <<call, follower, erred, cancels, stops>>
    BY <1>3 DEF Follow
  <2>2. K \subseteq Jobs /\ \A k \in K : job[k] = "open"
    BY DEF Open
  <2> HIDE DEF K
  <2>3. task' \in [Jobs -> TaskPlaces]
    BY <1>1, <2>1 DEF Started, TypeOK, TaskPlaces, NewTask
  <2>4. waiter' \in [Jobs -> WaiterPlaces]
    BY <1>1, <2>1 DEF TypeOK, WaiterPlaces, NoWaiter
  <2>5. TypeOK'
    BY <1>1, <1>2, <2>1, <2>2, <2>3, <2>4 DEF TypeOK, TaskPlaces, WaiterPlaces
  <2>6. ASSUME NEW k \in Jobs
        PROVE  JobOK(k)'
    <3>1. CASE k \in K
      <4>1. waiter'[k].pc = "join" /\ job[k] = "open"
        BY <2>1, <2>2, <3>1 DEF NoWaiter
      <4>2. ~Free(k)' /\ ((task'[k].pc = "new" /\ Free(k)) \/ task'[k] = task[k])
        BY <2>1, <3>1 DEF Started, Free, NewTask
      <4> QED BY <1>1, <1>2, <2>1, <4>1, <4>2 DEF JobOK
    <3>2. CASE k \notin K
      <4>1. waiter'[k] = waiter[k] /\ task'[k] = task[k]
        BY <2>1, <3>2 DEF Started
      <4>2. Same(k)
        BY <1>2, <2>1, <4>1 DEF Same
      <4> QED BY <1>1, <4>2, Untouched
    <3> QED BY <3>1, <3>2
  <2> QED BY <1>2, <2>5, <2>6, JobInvPartsNext
<1>4. CASE Stop
  <2>1. /\ task' = [k \in Jobs |-> IF waiter[k].pc = "join" THEN [task[k] EXCEPT !.live = FALSE] ELSE task[k]]
        /\ waiter' = [k \in Jobs |-> CASE waiter[k].pc = "join" -> [NoWaiter EXCEPT !.pc = "drain"]
                                       [] waiter[k].pc = "sending" -> [NoWaiter EXCEPT !.pc = "halt"]
                                       [] waiter[k].pc = "query" -> [NoWaiter EXCEPT !.pc = "ask"]
                                       [] OTHER -> NoWaiter]
        /\ follower' = "stopping" /\ stops < MaxStops /\ stops' = stops + 1
        /\ UNCHANGED <<call, notified, seen, erred, cancels>>
    BY <1>4 DEF Stop
  <2>2. ASSUME NEW k \in Jobs
        PROVE  /\ task'[k] \in TaskPlaces /\ task'[k].pc = task[k].pc
               /\ IF waiter[k].pc = "join" THEN ~task'[k].live ELSE task'[k] = task[k]
    <3>1. task[k] \in TaskPlaces
      BY <1>1 DEF TypeOK, TaskPlaces
    <3> QED BY <2>1, <3>1 DEF TaskPlaces
  <2>3. ASSUME NEW k \in Jobs
        PROVE  /\ waiter'[k] \in WaiterPlaces
               /\ \/ waiter[k].pc = "join" /\ waiter'[k].pc = "drain"
                  \/ waiter[k].pc = "sending" /\ waiter'[k].pc = "halt"
                  \/ waiter[k].pc = "query" /\ waiter'[k].pc = "ask"
                  \/ waiter[k].pc # "join" /\ waiter'[k] = NoWaiter
    <3>1. CASE waiter[k].pc = "join"
      BY <2>1, <3>1 DEF NoWaiter, WaiterPlaces
    <3>2. CASE waiter[k].pc = "sending"
      BY <2>1, <3>2 DEF NoWaiter, WaiterPlaces
    <3>3. CASE waiter[k].pc = "query"
      BY <2>1, <3>3 DEF NoWaiter, WaiterPlaces
    <3>4. CASE waiter[k].pc \notin {"join", "sending", "query"}
      BY <2>1, <3>4 DEF NoWaiter, WaiterPlaces
    <3> QED BY <3>1, <3>2, <3>3, <3>4
  <2>4. task' \in [Jobs -> TaskPlaces] /\ waiter' \in [Jobs -> WaiterPlaces]
    <3>1. task' = [k \in Jobs |-> task'[k]] /\ waiter' = [k \in Jobs |-> waiter'[k]]
      BY <2>1
    <3> QED BY <2>2, <2>3, <3>1
  <2>5. TypeOK'
    <3>1. stops' \in 0 .. MaxStops
      BY <1>1, <2>1 DEF TypeOK
    <3>2. follower' = "stopping" /\ UNCHANGED <<job, outcome, answer, report, note, call, notified, seen, erred, cancels>>
      BY <1>2, <2>1
    <3> QED BY <1>1, <2>4, <3>1, <3>2 DEF TypeOK, TaskPlaces, WaiterPlaces
  <2>6. ASSUME NEW k \in Jobs
        PROVE  JobOK(k)'
    <3>1. Free(k)' <=> Free(k)
      BY <2>2 DEF Free
    <3>2. CASE waiter[k].pc = "join"
      BY <1>1, <1>2, <2>1, <2>2, <2>3, <3>1, <3>2 DEF JobOK, NoWaiter, Free
    <3>3. CASE waiter[k].pc # "join"
      <4>1. task'[k] = task[k]
        BY <2>2, <3>3
      <4>2. \/ waiter'[k] = NoWaiter
            \/ waiter'[k].pc \in {"halt", "ask"} /\ waiter[k].pc \in {"sending", "query"}
        BY <2>3, <3>3
      <4> QED BY <1>1, <1>2, <2>1, <3>1, <3>3, <4>1, <4>2 DEF JobOK, NoWaiter
    <3> QED BY <3>2, <3>3
  <2> QED BY <1>2, <2>5, <2>6, JobInvPartsNext
<1>5. CASE Crash
  <2>1. /\ task' = [k \in Jobs |-> NoTask]
        /\ call' = [c \in Jobs \X Callers |-> "none"]
        /\ waiter' = [k \in Jobs |-> NoWaiter]
        /\ follower' = "down" /\ stops < MaxStops /\ stops' = stops + 1
        /\ UNCHANGED <<notified, seen, erred, cancels>>
    BY <1>5 DEF Crash
  <2>2. TypeOK'
    BY <1>1, <1>2, <2>1 DEF TypeOK, NoTask, NoWaiter
  <2>3. ASSUME NEW k \in Jobs
        PROVE  JobOK(k)'
    <3>1. task'[k] = NoTask /\ waiter'[k] = NoWaiter /\ \A v \in Callers : call'[<<k, v>>] = "none"
      BY <2>1
    <3> QED BY <1>1, <1>2, <3>1 DEF JobOK, NoTask, NoWaiter, Free
  <2> QED BY <1>2, <2>2, <2>3, JobInvPartsNext
<1> QED BY <1>3, <1>4, <1>5

-----------------------------------------------------------------------------
LEMMA JobInvInit == Init => JobInv
<1> SUFFICES ASSUME Init PROVE JobInv
  OBVIOUS
<1>1. TypeOK
  BY DEF Init, TypeOK, Outcomes, Receipts, NoTask, NoWaiter
<1>2. Open = {}
  BY DEF Init, Open
<1>3. CapacityHeld
  BY <1>2, FS_EmptySet DEF CapacityHeld
<1>4. \A k \in Jobs : JobOK(k)
  BY DEF Init, JobOK, NoTask, NoWaiter, Free, Callers, Outcomes
<1> QED BY <1>1, <1>3, <1>4, JobInvParts

LEMMA JobInvStep == JobInv /\ [Next]_vars => JobInv'
<1> SUFFICES ASSUME JobInv, [Next]_vars PROVE JobInv'
  OBVIOUS
<1> USE DEF durable, bounds, reader, log
<1>1. TypeOK
  BY JobInvParts
<1>2. ASSUME NEW k \in Jobs,
             \/ Invoke(k) \/ Answers(k) \/ CallerCancelled(k) \/ Manage(k) \/ Talk(k)
             \/ Runs(k) \/ ProgramRaises(k) \/ RevokedRaises(k) \/ ReturnsNothing(k)
             \/ Waits(k) \/ SenderRaises(k) \/ AnnounceRaises(k)
      PROVE  JobInv'
  <2>1. CASE Invoke(k)
    BY <2>1, InvokeStep
  <2>2. CASE Answers(k) \/ CallerCancelled(k) \/ Manage(k)
    BY <2>2, CallSteps
  <2>3. CASE Talk(k)
    <3>1. notified' = TRUE /\ seen' \subseteq Jobs
      BY <1>1, <2>3 DEF Talk, ChildWrites, ParentWrites, TypeOK
    <3> QED BY <1>1, <2>3, <3>1, Idle DEF Talk, TypeOK
  <2>4. CASE Runs(k) \/ ProgramRaises(k) \/ RevokedRaises(k) \/ ReturnsNothing(k)
    BY <2>4, ProgramSteps, EndingSteps DEF Runs
  <2>5. CASE Waits(k) \/ SenderRaises(k) \/ AnnounceRaises(k)
    BY <2>5, AnnouncingSteps, LeavingSteps DEF Waits
  <2> QED BY <1>2, <2>1, <2>2, <2>3, <2>4, <2>5
<1>3. ASSUME NEW c \in Jobs \X Callers, Cancels(c)
      PROVE  JobInv'
  BY <1>3, CancelIntentStep, CancelAgainStep DEF Cancels
<1>4. CASE Boot \/ Stopped \/ UNCHANGED vars
  BY <1>1, <1>4, Idle DEF Boot, Stopped, vars, TypeOK
<1>5. CASE Follow \/ Stop \/ Crash
  BY <1>5, FollowerSteps
<1> QED BY <1>2, <1>3, <1>4, <1>5 DEF Next

(* Whatever the calls, the tasks, the waiters and the follower do, and in   *)
(* whatever order: what is told is the outcome, a settled job has one and   *)
(* its receipt, and no more than MaxActive jobs are open.                   *)
THEOREM JobInvariant == Spec => []JobInv
<1>1. Init => JobInv
  BY JobInvInit
<1>2. JobInv /\ [Next]_vars => JobInv'
  BY JobInvStep
<1> QED BY <1>1, <1>2, PTL DEF Spec

(* The two parts that the tools rely on: an answer or a report never says   *)
(* something else than the child session, and a job gives its place back    *)
(* last.                                                                    *)
THEOREM JobsToldTruly == Spec => [](ToldTruly /\ SettledLast)
<1>1. JobInv => ToldTruly /\ SettledLast
  BY DEF JobInv
<1> QED BY <1>1, JobInvariant, PTL

-----------------------------------------------------------------------------
(* What a step may do to an outcome that is there.                          *)
Held(k) ==
    outcome[k] # "none" /\ outcome'[k] # outcome[k] =>
        /\ outcome[k] = "completed" /\ outcome'[k] = "failed"
        /\ task[k].pc = "closing" /\ task[k].live
        /\ answer[k] \notin Outcomes /\ report[k] = "none"

LEMMA OutcomeStep == JobInv /\ [Next]_vars => \A k \in Jobs : Held(k)
<1> SUFFICES ASSUME JobInv, [Next]_vars, NEW k \in Jobs,
                    outcome[k] # "none", outcome'[k] # outcome[k]
             PROVE  /\ outcome[k] = "completed" /\ outcome'[k] = "failed"
                    /\ task[k].pc = "closing" /\ task[k].live
                    /\ answer[k] \notin Outcomes /\ report[k] = "none"
  BY DEF Held
<1>1. TypeOK /\ JobOK(k)
  BY JobInvParts
<1>2. outcome' # outcome
  OBVIOUS
<1> USE DEF durable, bounds, reader, log
<1>3. \/ \E l \in Jobs : ProgramSaves(l) \/ ProgramRaises(l)
      \/ \E c \in Jobs \X Callers : CancelIntent(c)
  <2>1. ASSUME NEW l \in Jobs,
               \/ Invoke(l) \/ Answers(l) \/ CallerCancelled(l) \/ Manage(l) \/ Talk(l)
               \/ NeverRuns(l) \/ Begins(l) \/ ProgramReturns(l) \/ Interrupted(l) \/ RevokedRaises(l)
               \/ ReturnsNothing(l) \/ Waits(l) \/ SenderRaises(l) \/ AnnounceRaises(l)
        PROVE  FALSE
    <3>1. CASE Invoke(l) \/ Answers(l) \/ CallerCancelled(l) \/ Manage(l) \/ Talk(l)
      BY <1>2, <3>1 DEF Invoke, Answers, CallerCancelled, Manage, Talk
    <3>2. CASE \/ NeverRuns(l) \/ Begins(l) \/ ProgramReturns(l) \/ Interrupted(l) \/ RevokedRaises(l)
               \/ ReturnsNothing(l)
      BY <1>2, <3>2 DEF NeverRuns, Begins, ProgramReturns, Interrupted, RevokedRaises, ReturnsNothing
    <3>3. CASE Waits(l) \/ SenderRaises(l) \/ AnnounceRaises(l)
      BY <1>2, <3>3 DEF Waits, Looks, Reports, Sends, SendRepeats, Settles, Receipt, Halted,
                        SenderRaises, AnnounceRaises
    <3> QED BY <2>1, <3>1, <3>2, <3>3
  <2>2. CASE Boot \/ Follow \/ Stop \/ Stopped \/ Crash \/ UNCHANGED vars
    BY <1>2, <2>2 DEF Boot, Follow, Stop, Stopped, Crash, vars
  <2>3. ASSUME NEW c \in Jobs \X Callers, CancelAgain(c)
        PROVE  FALSE
    BY <1>2, <2>3 DEF CancelAgain
  <2> QED BY <2>1, <2>2, <2>3 DEF Next, Runs, Cancels
<1>4. ASSUME NEW l \in Jobs, ProgramSaves(l)
      PROVE  FALSE
  BY <1>1, <1>4 DEF ProgramSaves, TypeOK, JobOK
<1>5. ASSUME NEW c \in Jobs \X Callers, CancelIntent(c)
      PROVE  FALSE
  <2>1. CASE outcome[c[1]] # "none"
    BY <1>2, <1>5, <2>1 DEF CancelIntent
  <2>2. CASE outcome[c[1]] = "none"
    <3>1. outcome' = [outcome EXCEPT ![c[1]] = "cancelled"] /\ k # c[1]
      BY <1>5, <2>2 DEF CancelIntent
    <3> QED BY <1>1, <3>1 DEF TypeOK
  <2> QED BY <2>1, <2>2
<1>6. ASSUME NEW l \in Jobs, ProgramRaises(l)
      PROVE  /\ outcome[k] = "completed" /\ outcome'[k] = "failed"
             /\ task[k].pc = "closing" /\ task[k].live
             /\ answer[k] \notin Outcomes /\ report[k] = "none"
  <2>1. k = l /\ outcome'[k] = "failed"
    BY <1>1, <1>6 DEF ProgramRaises, TypeOK
  <2> QED BY <1>1, <1>6, <2>1 DEF ProgramRaises, JobOK
<1> QED BY <1>3, <1>4, <1>5, <1>6

(* The outcome of a job is decided once: only its own task may replace the  *)
(* result it has just saved by a failure, before anybody has been told.     *)
THEOREM OutcomesHoldAlways == Spec => OutcomesHold
<1>1. JobInv /\ [Next]_vars => \A k \in Jobs : Held(k)
  BY OutcomeStep
<1>2. JobInv /\ [Next]_vars =>
        [\A k \in Jobs : outcome[k] # "none" /\ outcome'[k] # outcome[k] =>
            /\ outcome[k] = "completed" /\ outcome'[k] = "failed"
            /\ task[k].pc = "closing" /\ task[k].live
            /\ answer[k] \notin Outcomes /\ report[k] = "none"]_vars
  BY <1>1 DEF Held
<1> QED BY <1>2, JobInvariant, PTL DEF Spec, OutcomesHold
=============================================================================
