------------------------------ MODULE TaskGroup ------------------------------
(***************************************************************************)
(* The keyed groups of a Tasks service (agent/plugin_composition/tasks.py):*)
(* activity marks a stretch of work on a key, wait_idle waits for a key    *)
(* without activity, and exclusive admits one section per key in FIFO      *)
(* order, except that a request that asked for an idle key is passed over  *)
(* while the key has activity.  Delivery and the scheduler serialise their *)
(* sends with it.                                                          *)
(*                                                                         *)
(* A call of one of these operations is an element of Calls and happens at *)
(* most once.  Between two awaits the event loop runs one call, so an      *)
(* action is everything a call does up to its next await.  A call that     *)
(* awaits the group's event is parked; notify sets that event, which makes *)
(* every parked call of the group runnable, and only then, at some later   *)
(* turn of the loop, does it look at the group again.                      *)
(***************************************************************************)
EXTENDS Naturals, FiniteSets

CONSTANTS Calls,    \* the calls of activity, wait_idle and exclusive
          Keys,     \* the keys they name
          NoGroup

\* A _Group object is named after one of the calls that can hold it: an
\* object lives only as long as some call refers to it.
Groups == Calls

ASSUME CallsAssumption == IsFiniteSet(Calls) /\ NoGroup \notin Calls
ASSUME KeysAssumption == Keys # {}

VARIABLES pc,        \* where each call is
          key,       \* the key it named
          idle,      \* whether an exclusive call asked for an idle key
          mine,      \* the _Group object it holds a reference to
          parked,    \* it awaits the group's event
          ahead,     \* exclusive: the requests queued before it, still waiting
          current,   \* Tasks._groups: the group of each key
          refs,      \* _Group.references
          activity,  \* _Group.activity
          exclusive, \* _Group.exclusive
          closed,    \* Tasks._closed
          drained,   \* Tasks._groups_drained
          closer     \* the call of close

groupVars == <<current, refs, activity, exclusive, drained>>
callVars == <<pc, key, idle, mine, parked, ahead>>
vars == <<callVars, groupVars, closed, closer>>

Init ==
    /\ pc = [c \in Calls |-> "new"]
    /\ key = [c \in Calls |-> CHOOSE k \in Keys : TRUE]
    /\ idle = [c \in Calls |-> FALSE]
    /\ mine = [c \in Calls |-> NoGroup]
    /\ parked = [c \in Calls |-> FALSE]
    /\ ahead = [c \in Calls |-> {}]
    /\ current = [k \in Keys |-> NoGroup]
    /\ refs = [g \in Groups |-> 0]
    /\ activity = [g \in Groups |-> 0]
    /\ exclusive = [g \in Groups |-> FALSE]
    /\ closed = FALSE
    /\ drained = TRUE
    /\ closer = "none"

-----------------------------------------------------------------------------
Holders(g) == {c \in Calls : mine[c] = g}

\* _Group.waiting: the requests for g that have not entered.
Waiting(g) == {c \in Calls : mine[c] = g /\ pc[c] = "queued"}

\* `eligible`: the first request of the queue that is not passed over.
Eligible(c, queue, busy) ==
    /\ idle[c] => busy = 0
    /\ \A d \in queue : idle[d] /\ busy > 0

\* The test at the head of the loop of exclusive and of wait_idle.
MayProceed(c) ==
    \/ closed
    \/ pc[c] = "queued" /\ ~exclusive[mine[c]] /\ Eligible(c, ahead[c], activity[mine[c]])
    \/ pc[c] = "idling" /\ activity[mine[c]] = 0

\* Tasks._group: the key's group, a new one when it has none, and one more
\* reference to it.
Acquire(c, k, g) ==
    /\ ~closed
    /\ g = IF current[k] # NoGroup THEN current[k] ELSE c
    /\ current' = [current EXCEPT ![k] = g]
    /\ refs' = [refs EXCEPT ![g] = @ + 1]
    /\ drained' = FALSE
    /\ key' = [key EXCEPT ![c] = k]
    /\ mine' = [mine EXCEPT ![c] = g]

\* Mutant: the group goes with the first reference that is given back.
Release_First(c) ==
    /\ refs' = [refs EXCEPT ![mine[c]] = @ - 1]
    /\ current' = [current EXCEPT ![key[c]] = NoGroup]
    /\ drained' = (\A k \in Keys : k = key[c] \/ current[k] = NoGroup)
    /\ mine' = [mine EXCEPT ![c] = NoGroup]

\* Mutant: the event that close awaits is not set.
Release_Undrained(c) ==
    /\ refs' = [refs EXCEPT ![mine[c]] = @ - 1]
    /\ current' = IF refs[mine[c]] = 1 THEN [current EXCEPT ![key[c]] = NoGroup] ELSE current
    /\ mine' = [mine EXCEPT ![c] = NoGroup]
    /\ UNCHANGED drained

\* Tasks._release_group: the last reference removes the group.
Release(c) ==
    /\ refs' = [refs EXCEPT ![mine[c]] = @ - 1]
    /\ IF refs[mine[c]] = 1
       THEN /\ current' = [current EXCEPT ![key[c]] = NoGroup]
            /\ drained' = (\A k \in Keys : k = key[c] \/ current[k] = NoGroup)
       ELSE UNCHANGED <<current, drained>>
    /\ mine' = [mine EXCEPT ![c] = NoGroup]

\* _Group.notify on g while call c runs: whoever awaits the event can run.
Notify(g) == [d \in Calls |-> parked[d] /\ mine[d] # g]

-----------------------------------------------------------------------------
\* with tasks.activity(key): the body begins.  New activity does not wait for
\* an exclusive section that has begun.
ActivityBegin(c, k) ==
    /\ pc[c] = "new"
    /\ \E g \in Groups :
        /\ Acquire(c, k, g)
        /\ activity' = [activity EXCEPT ![g] = @ + 1]
        /\ parked' = Notify(g)
    /\ pc' = [pc EXCEPT ![c] = "active"]
    /\ UNCHANGED <<idle, ahead, exclusive, closed, closer>>

ActivityEnd(c) ==
    /\ pc[c] = "active"
    /\ activity' = [activity EXCEPT ![mine[c]] = @ - 1]
    /\ parked' = Notify(mine[c])
    /\ Release(c)
    /\ pc' = [pc EXCEPT ![c] = "done"]
    /\ UNCHANGED <<key, idle, ahead, exclusive, closed, closer>>

\* wait_idle on a key without activity returns before its first await, having
\* taken and given back its reference.
WaitIdleAtOnce(c, k) ==
    /\ pc[c] = "new"
    /\ ~closed
    /\ current[k] # NoGroup => activity[current[k]] = 0
    /\ pc' = [pc EXCEPT ![c] = "done"]
    /\ UNCHANGED <<key, idle, mine, parked, ahead, groupVars, closed, closer>>

WaitIdlePark(c, k) ==
    /\ pc[c] = "new"
    /\ \E g \in Groups : Acquire(c, k, g) /\ activity[g] > 0
    /\ pc' = [pc EXCEPT ![c] = "idling"]
    /\ parked' = [parked EXCEPT ![c] = TRUE]
    /\ UNCHANGED <<idle, ahead, activity, exclusive, closed, closer>>

\* exclusive joins the end of the queue and makes its first test without an
\* await in between: it enters or parks.
ExclusiveCall(c, k, i) ==
    /\ pc[c] = "new"
    /\ idle' = [idle EXCEPT ![c] = i]
    /\ \E g \in Groups :
        /\ Acquire(c, k, g)
        /\ LET enters == /\ ~exclusive[g]
                         /\ i => activity[g] = 0
                         /\ \A d \in Waiting(g) : idle[d] /\ activity[g] > 0
           IN /\ pc' = [pc EXCEPT ![c] = IF enters THEN "inside" ELSE "queued"]
              /\ parked' = [parked EXCEPT ![c] = ~enters]
              /\ ahead' = [ahead EXCEPT ![c] = IF enters THEN {} ELSE Waiting(g)]
              /\ exclusive' = [exclusive EXCEPT ![g] = @ \/ enters]
    /\ UNCHANGED <<activity, closed, closer>>

\* group.waiting.remove(request)
Dequeue(c) == [d \in Calls |-> IF d = c THEN {} ELSE ahead[d] \ {c}]

\* A woken exclusive call is first among those not passed over and the section
\* is free.
ExclusiveEnter(c) ==
    /\ pc[c] = "queued" /\ ~parked[c] /\ ~closed
    /\ MayProceed(c)
    /\ ahead' = Dequeue(c)
    /\ exclusive' = [exclusive EXCEPT ![mine[c]] = TRUE]
    /\ pc' = [pc EXCEPT ![c] = "inside"]
    /\ UNCHANGED <<key, idle, mine, parked, current, refs, activity, drained, closed, closer>>

\* A woken call finds nothing for it and awaits the next event.
ParkAgain(c) ==
    /\ pc[c] \in {"queued", "idling"} /\ ~parked[c]
    /\ ~MayProceed(c)
    /\ parked' = [parked EXCEPT ![c] = TRUE]
    /\ UNCHANGED <<pc, key, idle, mine, ahead, groupVars, closed, closer>>

\* Mutant: a request that leaves tells nobody.
LeaveQueue_Quiet(c) ==
    /\ ahead' = Dequeue(c)
    /\ parked' = [parked EXCEPT ![c] = FALSE]
    /\ Release(c)
    /\ pc' = [pc EXCEPT ![c] = "done"]
    /\ UNCHANGED <<key, idle, activity, exclusive, closed, closer>>

\* The `finally` of an exclusive call that never entered: its caller was
\* cancelled, or it woke to a closed service and raised.
LeaveQueue(c) ==
    /\ ahead' = Dequeue(c)
    /\ parked' = [Notify(mine[c]) EXCEPT ![c] = FALSE]
    /\ Release(c)
    /\ pc' = [pc EXCEPT ![c] = "done"]
    /\ UNCHANGED <<key, idle, activity, exclusive, closed, closer>>

ExclusiveRefused(c) == pc[c] = "queued" /\ ~parked[c] /\ closed /\ LeaveQueue(c)

ExclusiveCancelled(c) == pc[c] = "queued" /\ LeaveQueue(c)

\* The `finally` of an exclusive section.
ExclusiveExit(c) ==
    /\ pc[c] = "inside"
    /\ exclusive' = [exclusive EXCEPT ![mine[c]] = FALSE]
    /\ parked' = Notify(mine[c])
    /\ Release(c)
    /\ pc' = [pc EXCEPT ![c] = "done"]
    /\ UNCHANGED <<key, idle, ahead, activity, closed, closer>>

\* wait_idle ends: the key is idle, the service closed, or its caller was
\* cancelled.  It gives its reference back and wakes nobody.
StopIdling(c) ==
    /\ parked' = [parked EXCEPT ![c] = FALSE]
    /\ Release(c)
    /\ pc' = [pc EXCEPT ![c] = "done"]
    /\ UNCHANGED <<key, idle, ahead, activity, exclusive, closed, closer>>

WaitIdleReturn(c) == pc[c] = "idling" /\ ~parked[c] /\ MayProceed(c) /\ StopIdling(c)

WaitIdleCancelled(c) == pc[c] = "idling" /\ StopIdling(c)

\* Tasks.close stops admission and wakes every group.
CloseBegin ==
    /\ closer = "none"
    /\ closed' = TRUE
    /\ parked' = [c \in Calls |-> FALSE]
    /\ closer' = "draining"
    /\ UNCHANGED <<pc, key, idle, mine, ahead, groupVars>>

\* ... and returns when the last group is gone.
CloseEnd ==
    /\ closer = "draining"
    /\ drained
    /\ closer' = "returned"
    /\ UNCHANGED <<callVars, groupVars, closed>>

Resume(c) ==
    \/ ExclusiveEnter(c)
    \/ ExclusiveRefused(c)
    \/ WaitIdleReturn(c)
    \/ ParkAgain(c)

BodyEnds(c) == ActivityEnd(c) \/ ExclusiveExit(c)

Next ==
    \/ \E c \in Calls, k \in Keys :
        \/ ActivityBegin(c, k)
        \/ WaitIdleAtOnce(c, k)
        \/ WaitIdlePark(c, k)
        \/ \E i \in BOOLEAN : ExclusiveCall(c, k, i)
    \/ \E c \in Calls : Resume(c) \/ BodyEnds(c) \/ ExclusiveCancelled(c) \/ WaitIdleCancelled(c)
    \/ CloseBegin
    \/ CloseEnd

Spec == Init /\ [][Next]_vars

\* The event loop runs whatever is runnable, and every body ends.
Fairness ==
    /\ \A c \in Calls : WF_vars(Resume(c)) /\ WF_vars(BodyEnds(c))
    /\ WF_vars(CloseEnd)

FairSpec == Spec /\ Fairness

-----------------------------------------------------------------------------
TypeOK ==
    /\ pc \in [Calls -> {"new", "active", "idling", "queued", "inside", "done"}]
    /\ key \in [Calls -> Keys]
    /\ idle \in [Calls -> BOOLEAN]
    /\ mine \in [Calls -> Groups \cup {NoGroup}]
    /\ parked \in [Calls -> BOOLEAN]
    /\ ahead \in [Calls -> SUBSET Calls]
    /\ current \in [Keys -> Groups \cup {NoGroup}]
    /\ refs \in [Groups -> Nat]
    /\ activity \in [Groups -> Nat]
    /\ exclusive \in [Groups -> BOOLEAN]
    /\ closed \in BOOLEAN /\ drained \in BOOLEAN
    /\ closer \in {"none", "draining", "returned"}

\* Two exclusive sections of one key never overlap, although the group that
\* guards them is dropped with its last reference and made anew later: no call
\* is left with a group that is no longer the key's.
MutualExclusion ==
    \A c, d \in Calls : pc[c] = "inside" /\ pc[d] = "inside" /\ key[c] = key[d] => c = d

\* Nobody sleeps through its turn: a call that awaits the event would find
\* nothing to do if it looked.  Every change that can let a waiter proceed
\* notifies: an activity that begins (it lets a request pass an idle one), an
\* activity or a section that ends, and a request that leaves the queue.
NoLostWakeup == \A c \in Calls : parked[c] => ~MayProceed(c)

\* close returns only when no call of the service holds a group.
CloseIsFinal == closer = "returned" => \A c \in Calls : mine[c] = NoGroup

\* A call holds a reference exactly while its body or its wait lasts, its group
\* is its key's group, a key's group is held by somebody, and the references
\* count the holders.
References ==
    /\ \A c \in Calls : mine[c] # NoGroup <=> pc[c] \in {"active", "idling", "queued", "inside"}
    /\ \A c \in Calls : mine[c] # NoGroup => current[key[c]] = mine[c] /\ pc[mine[c]] # "new"
    /\ \A k \in Keys : current[k] # NoGroup => \E c \in Calls : mine[c] = current[k] /\ key[c] = k
    /\ \A k, l \in Keys : current[k] # NoGroup /\ current[k] = current[l] => k = l
    /\ \A g \in Groups : refs[g] = Cardinality(Holders(g))

\* The activity of a group counts the bodies that run under it.
Active(g) == {c \in Calls : mine[c] = g /\ pc[c] = "active"}
ActivityCounts == \A g \in Groups : activity[g] = Cardinality(Active(g))

\* The exclusive flag is up while somebody is inside.
FlagTellsInside ==
    \A g \in Groups : exclusive[g] <=> \E c \in Calls : mine[c] = g /\ pc[c] = "inside"

\* Only waiters sleep, and whoever is ahead in the queue still waits in it.
Queues ==
    /\ \A c \in Calls : parked[c] => pc[c] \in {"idling", "queued"}
    /\ \A c \in Calls : ahead[c] \subseteq (IF pc[c] = "queued" THEN Waiting(mine[c]) \ {c} ELSE {})

\* The event that close awaits is set exactly while no key has a group.
Closing ==
    /\ drained <=> \A k \in Keys : current[k] = NoGroup
    /\ closed <=> closer # "none"

\* The inductive invariant: MutualExclusion, NoLostWakeup and CloseIsFinal with
\* the bookkeeping of references, flags and queues that keeps them.
GroupInv ==
    /\ TypeOK
    /\ References
    /\ ActivityCounts
    /\ FlagTellsInside
    /\ MutualExclusion
    /\ Queues
    /\ NoLostWakeup
    /\ Closing
    /\ CloseIsFinal

\* A request that does not ask for an idle key enters or is cancelled, however
\* many idle requests stand before it.
RequestsEnter == \A c \in Calls : (pc[c] = "queued" /\ ~idle[c]) ~> pc[c] \in {"inside", "done"}

\* close returns: nobody who sleeps keeps it waiting.
CloseReturns == closed ~> closer = "returned"
=============================================================================
