-------------------------- MODULE TaskGroupProofs --------------------------
(* Theorems about TaskGroup, for every finite set of calls and every set of *)
(* keys.                                                                    *)
EXTENDS TaskGroup, FiniteSetTheorems, TLAPS

USE CallsAssumption DEF Groups

Bodies == {"active", "idling", "queued", "inside"}

(* How a cardinality follows one element.                                   *)
LEMMA Counting ==
    ASSUME NEW S, IsFiniteSet(S), NEW c
    PROVE  /\ Cardinality(S) \in Nat
           /\ c \notin S => Cardinality(S \cup {c}) = Cardinality(S) + 1
           /\ c \in S => /\ Cardinality(S \ {c}) = Cardinality(S) - 1
                         /\ Cardinality(S) = 1 => S = {c}
<1>1. Cardinality(S) \in Nat
  BY FS_CardinalityType
<1>2. c \notin S => Cardinality(S \cup {c}) = Cardinality(S) + 1
  BY FS_AddElement
<1>3. c \in S => Cardinality(S \ {c}) = Cardinality(S) - 1 /\ IsFiniteSet(S \ {c})
  BY FS_RemoveElement
<1>4. ASSUME c \in S, Cardinality(S) = 1 PROVE S = {c}
  <2>1. Cardinality(S \ {c}) = 0 /\ IsFiniteSet(S \ {c})
    BY <1>3, <1>4
  <2>2. S \ {c} = {}
    BY <2>1, FS_EmptySet
  <2> QED BY <2>2, <1>4
<1> QED BY <1>1, <1>2, <1>3, <1>4

(* The sets of calls that are counted are finite.                           *)
LEMMA CallsFinite ==
    ASSUME NEW g
    PROVE  IsFiniteSet(Holders(g)) /\ IsFiniteSet(Active(g))
<1>1. Holders(g) \subseteq Calls /\ Active(g) \subseteq Calls
  BY DEF Holders, Active
<1> QED BY <1>1, FS_Subset

-----------------------------------------------------------------------------
(* Taking a reference keeps References.                                     *)
LEMMA AcquireReferences ==
    ASSUME TypeOK, References,
           NEW c \in Calls, NEW k \in Keys, NEW g \in Groups, NEW p \in Bodies,
           pc[c] = "new", Acquire(c, k, g), pc' = [pc EXCEPT ![c] = p]
    PROVE  References'
<1>1. /\ current' = [current EXCEPT ![k] = g]
      /\ refs' = [refs EXCEPT ![g] = @ + 1]
      /\ key' = [key EXCEPT ![c] = k]
      /\ mine' = [mine EXCEPT ![c] = g]
      /\ current[k] = NoGroup => g = c
      /\ current[k] # NoGroup => g = current[k]
  BY DEF Acquire
<1>2. mine[c] = NoGroup
  BY DEF References
<1>3. \A d \in Calls : mine[d] # NoGroup => mine[d] # c
  BY DEF References
<1>4. \A l \in Keys : current[l] # c
  BY <1>3 DEF References
<1> USE DEF TypeOK, Bodies
<1>5. \A d \in Calls : mine'[d] # NoGroup <=> pc'[d] \in Bodies
  BY <1>1 DEF References
<1>6. \A d \in Calls : mine'[d] # NoGroup => current'[key'[d]] = mine'[d]
  <2> SUFFICES ASSUME NEW d \in Calls, mine'[d] # NoGroup
               PROVE  current'[key'[d]] = mine'[d]
    OBVIOUS
  <2>1. CASE d = c
    BY <2>1, <1>1
  <2>2. CASE d # c /\ key[d] = k
    <3>1. current[k] = mine[d] /\ mine[d] # NoGroup
      BY <2>2, <1>1 DEF References
    <3> QED BY <3>1, <2>2, <1>1
  <2>3. CASE d # c /\ key[d] # k
    BY <2>3, <1>1 DEF References
  <2> QED BY <2>1, <2>2, <2>3
<1>7. \A d \in Calls : mine'[d] # NoGroup => pc'[mine'[d]] # "new"
  <2>1. pc'[g] # "new"
    <3>1. CASE g = c
      BY <3>1
    <3>2. CASE g # c
      <4>1. g = current[k] /\ current[k] # NoGroup
        BY <3>2, <1>1
      <4>2. PICK d \in Calls : mine[d] = g
        BY <4>1 DEF References
      <4> QED BY <4>1, <4>2, <3>2 DEF References
    <3> QED BY <3>1, <3>2
  <2>2. \A d \in Calls : d # c /\ mine[d] # NoGroup => pc'[mine[d]] # "new"
    BY DEF References
  <2> QED BY <2>1, <2>2, <1>1
<1>8. \A l \in Keys : current'[l] # NoGroup =>
            \E d \in Calls : mine'[d] = current'[l] /\ key'[d] = l
  <2> SUFFICES ASSUME NEW l \in Keys, current'[l] # NoGroup
               PROVE  \E d \in Calls : mine'[d] = current'[l] /\ key'[d] = l
    OBVIOUS
  <2>1. CASE l = k
    BY <2>1, <1>1
  <2>2. CASE l # k
    <3>1. PICK d \in Calls : mine[d] = current[l] /\ key[d] = l
      BY <2>2, <1>1 DEF References
    <3>2. d # c
      BY <3>1, <1>2, <2>2, <1>1
    <3> QED BY <3>1, <3>2, <2>2, <1>1
  <2> QED BY <2>1, <2>2
<1>9. \A l, m \in Keys : current'[l] # NoGroup /\ current'[l] = current'[m] => l = m
  BY <1>1, <1>4 DEF References
<1>10. \A h \in Groups : refs'[h] = Cardinality(Holders(h)')
  <2> SUFFICES ASSUME NEW h \in Groups PROVE refs'[h] = Cardinality(Holders(h)')
    OBVIOUS
  <2>1. CASE h = g
    <3>1. Holders(h)' = Holders(h) \cup {c} /\ c \notin Holders(h)
      BY <2>1, <1>1, <1>2 DEF Holders
    <3> QED BY <3>1, <2>1, <1>1, CallsFinite, Counting, SMTT(30) DEF References
  <2>2. CASE h # g
    <3>1. Holders(h)' = Holders(h)
      BY <2>2, <1>1, <1>2 DEF Holders
    <3> QED BY <3>1, <2>2, <1>1 DEF References
  <2> QED BY <2>1, <2>2
<1> QED BY <1>5, <1>6, <1>7, <1>8, <1>9, <1>10 DEF References

(* Giving a reference back keeps References: a group goes with the last     *)
(* call that holds it, and a call that stays keeps its key's group.         *)
LEMMA ReleaseReferences ==
    ASSUME TypeOK, References,
           NEW c \in Calls, pc[c] \in Bodies, Release(c),
           pc' = [pc EXCEPT ![c] = "done"], UNCHANGED key
    PROVE  References'
<1> DEFINE g == mine[c]
<1> USE DEF TypeOK
<1>1. g \in Groups /\ g # NoGroup /\ current[key[c]] = g /\ key[c] \in Keys
  BY DEF References, Bodies
<1> HIDE DEF g
<1>2. /\ refs' = [refs EXCEPT ![g] = @ - 1]
      /\ mine' = [mine EXCEPT ![c] = NoGroup]
      /\ refs[g] = 1 => current' = [current EXCEPT ![key[c]] = NoGroup]
      /\ refs[g] # 1 => current' = current
  BY DEF Release, g
<1>3. c \in Holders(g) /\ refs[g] = Cardinality(Holders(g))
  BY <1>1 DEF Holders, References, g
<1>4. \A d \in Calls : mine[d] = g => key[d] = key[c]
  BY <1>1 DEF References
<1>5. refs[g] = 1 => \A d \in Calls : mine[d] = g => d = c
  <2>1. refs[g] = 1 => Holders(g) = {c}
    BY <1>3, CallsFinite, Counting
  <2> QED BY <2>1 DEF Holders
<1>6. refs[g] # 1 => \E d \in Calls : d # c /\ mine[d] = g
  <2> SUFFICES ASSUME \A d \in Calls : mine[d] = g => d = c PROVE refs[g] = 1
    OBVIOUS
  <2>1. Holders(g) = {c}
    BY <1>3 DEF Holders
  <2> QED BY <2>1, <1>3, FS_Singleton
<1>7. \A d \in Calls : mine'[d] # NoGroup <=> pc'[d] \in Bodies
  BY <1>2 DEF References, Bodies
<1>8. \A d \in Calls : mine'[d] # NoGroup => current'[key'[d]] = mine'[d] /\ pc'[mine'[d]] # "new"
  <2> SUFFICES ASSUME NEW d \in Calls, mine'[d] # NoGroup
               PROVE  current'[key[d]] = mine[d] /\ pc'[mine[d]] # "new"
    BY <1>2
  <2>1. d # c /\ mine[d] # NoGroup
    BY <1>2
  <2>2. current[key[d]] = mine[d] /\ pc[mine[d]] # "new" /\ key[d] \in Keys
    BY <2>1 DEF References
  <2>3. refs[g] = 1 => key[d] # key[c]
    BY <2>1, <2>2, <1>1, <1>5
  <2> QED BY <2>2, <2>3, <2>1, <1>2
<1>9. \A k \in Keys : current'[k] # NoGroup =>
            \E d \in Calls : mine'[d] = current'[k] /\ key'[d] = k
  <2> SUFFICES ASSUME NEW k \in Keys, current'[k] # NoGroup
               PROVE  \E d \in Calls : mine'[d] = current'[k] /\ key[d] = k
    OBVIOUS
  <2>1. current'[k] = current[k]
    BY <1>2
  <2>2. CASE k = key[c]
    <3>1. refs[g] # 1 /\ current[k] = g
      BY <2>2, <1>1, <1>2
    <3>2. PICK d \in Calls : d # c /\ mine[d] = g
      BY <3>1, <1>6
    <3> QED BY <3>1, <3>2, <2>1, <2>2, <1>2, <1>4
  <2>3. CASE k # key[c]
    <3>1. PICK d \in Calls : mine[d] = current[k] /\ key[d] = k
      BY <2>1 DEF References
    <3> QED BY <3>1, <2>1, <2>3, <1>2
  <2> QED BY <2>2, <2>3
<1>10. \A k, l \in Keys : current'[k] # NoGroup /\ current'[k] = current'[l] => k = l
  BY <1>2 DEF References
<1>11. \A h \in Groups : refs'[h] = Cardinality(Holders(h)')
  <2> SUFFICES ASSUME NEW h \in Groups PROVE refs'[h] = Cardinality(Holders(h)')
    OBVIOUS
  <2>1. CASE h = g
    <3>1. Holders(h)' = Holders(h) \ {c}
      BY <2>1, <1>2 DEF Holders
    <3> QED BY <3>1, <2>1, <1>1, <1>2, <1>3, CallsFinite, Counting
  <2>2. CASE h # g
    <3>1. Holders(h)' = Holders(h)
      BY <2>2, <1>2 DEF Holders, g
    <3> QED BY <3>1, <2>2, <1>2 DEF References
  <2> QED BY <2>1, <2>2
<1> QED BY <1>7, <1>8, <1>9, <1>10, <1>11 DEF References, Bodies

-----------------------------------------------------------------------------
(* The initial state.                                                       *)
LEMMA InitInv == Init => GroupInv
<1> SUFFICES ASSUME Init PROVE GroupInv
  OBVIOUS
<1>1. (CHOOSE k \in Keys : TRUE) \in Keys
  BY KeysAssumption
<1>2. TypeOK
  BY <1>1 DEF Init, TypeOK
<1>3. \A g \in Groups : Holders(g) = {} /\ Active(g) = {}
  BY DEF Init, Holders, Active
<1>4. References /\ ActivityCounts
  BY <1>3, FS_EmptySet DEF Init, References, ActivityCounts
<1>5. FlagTellsInside /\ MutualExclusion /\ Queues /\ NoLostWakeup /\ Closing /\ CloseIsFinal
  BY DEF Init, FlagTellsInside, MutualExclusion, Queues, NoLostWakeup, Closing, CloseIsFinal
<1> QED BY <1>2, <1>4, <1>5 DEF GroupInv

(* A stuttering step.                                                       *)
LEMMA StutterInv == GroupInv /\ UNCHANGED vars => GroupInv'
BY DEF GroupInv, vars, callVars, groupVars, TypeOK, References, Holders,
       ActivityCounts, Active, FlagTellsInside, MutualExclusion, Queues, Waiting,
       NoLostWakeup, MayProceed, Eligible, Closing, CloseIsFinal

(* Every step takes a reference, gives one back, or leaves the references   *)
(* as they are.                                                             *)
Takes(c, k, g, p) ==
    /\ pc[c] = "new" /\ pc' = [pc EXCEPT ![c] = p]
    /\ Acquire(c, k, g)

Gives(c) ==
    /\ pc[c] \in Bodies /\ pc' = [pc EXCEPT ![c] = "done"]
    /\ Release(c)
    /\ UNCHANGED key

Keeps ==
    /\ UNCHANGED <<key, mine, current, refs, drained>>
    /\ \A c \in Calls : /\ pc'[c] \in Bodies <=> pc[c] \in Bodies
                        /\ pc[c] # "new" => pc'[c] # "new"
    /\ pc' \in [Calls -> Bodies \cup {"new", "done"}]

LEMMA StepShapes ==
    ASSUME TypeOK, Next
    PROVE  \/ \E c \in Calls, k \in Keys, g \in Groups, p \in Bodies : Takes(c, k, g, p)
           \/ \E c \in Calls : Gives(c)
           \/ Keeps
<1> USE DEF Bodies
<1>1. ASSUME NEW c \in Calls, NEW k \in Keys, ActivityBegin(c, k)
      PROVE  \E g \in Groups, p \in Bodies : Takes(c, k, g, p)
  BY <1>1 DEF ActivityBegin, Takes
<1>2. ASSUME NEW c \in Calls, NEW k \in Keys, WaitIdlePark(c, k)
      PROVE  \E g \in Groups, p \in Bodies : Takes(c, k, g, p)
  BY <1>2 DEF WaitIdlePark, Takes
<1>3. ASSUME NEW c \in Calls, NEW k \in Keys, NEW i \in BOOLEAN, ExclusiveCall(c, k, i)
      PROVE  \E g \in Groups, p \in Bodies : Takes(c, k, g, p)
  <2>1. PICK g \in Groups, p \in {"inside", "queued"} :
               Acquire(c, k, g) /\ pc' = [pc EXCEPT ![c] = p]
    BY <1>3 DEF ExclusiveCall
  <2> QED BY <2>1, <1>3 DEF ExclusiveCall, Takes
<1>4. ASSUME NEW c \in Calls, NEW k \in Keys, WaitIdleAtOnce(c, k)
      PROVE  Keeps
  BY <1>4 DEF WaitIdleAtOnce, Keeps, groupVars, TypeOK
<1>5. ASSUME NEW c \in Calls, ExclusiveEnter(c) \/ ParkAgain(c)
      PROVE  Keeps
  BY <1>5 DEF ExclusiveEnter, ParkAgain, Keeps, groupVars, TypeOK
<1>6. ASSUME NEW c \in Calls,
             \/ ExclusiveRefused(c) \/ ExclusiveCancelled(c) \/ WaitIdleReturn(c)
             \/ WaitIdleCancelled(c) \/ ActivityEnd(c) \/ ExclusiveExit(c)
      PROVE  Gives(c)
  BY <1>6 DEF ExclusiveRefused, ExclusiveCancelled, LeaveQueue, WaitIdleReturn,
              WaitIdleCancelled, StopIdling, ActivityEnd, ExclusiveExit, Gives
<1>7. CASE CloseBegin \/ CloseEnd
  BY <1>7 DEF CloseBegin, CloseEnd, Keeps, callVars, groupVars, TypeOK
<1> QED BY <1>1, <1>2, <1>3, <1>4, <1>5, <1>6, <1>7 DEF Next, Resume, BodyEnds

(* References is kept by every step.                                        *)
LEMMA ReferencesStep ==
    ASSUME GroupInv, Next
    PROVE  References'
<1> USE DEF GroupInv
<1>1. ASSUME NEW c \in Calls, NEW k \in Keys, NEW g \in Groups, NEW p \in Bodies,
             Takes(c, k, g, p)
      PROVE  References'
  BY <1>1, AcquireReferences DEF Takes
<1>2. ASSUME NEW c \in Calls, Gives(c)
      PROVE  References'
  BY <1>2, ReleaseReferences DEF Gives
<1>3. ASSUME Keeps
      PROVE  References'
  <2>1. \A g \in Groups : Holders(g)' = Holders(g)
    BY <1>3 DEF Keeps, Holders
  <2> QED BY <2>1, <1>3 DEF Keeps, References, Bodies, TypeOK
<1> QED BY <1>1, <1>2, <1>3, StepShapes

(* What a new holder finds: a group made for it has no activity and nobody  *)
(* inside, and every call that holds the key's group names that key.        *)
LEMMA Holding ==
    ASSUME GroupInv, NEW c \in Calls, mine[c] # NoGroup
    PROVE  /\ mine[c] \in Groups /\ key[c] \in Keys /\ refs[mine[c]] \in Nat \ {0}
           /\ \A d \in Calls : mine[d] = mine[c] <=> mine[d] # NoGroup /\ key[d] = key[c]
<1>1. mine[c] \in Groups /\ key[c] \in Keys
  BY DEF GroupInv, TypeOK
<1>2. \A d \in Calls : mine[d] = mine[c] <=> mine[d] # NoGroup /\ key[d] = key[c]
  <2>1. \A d \in Calls : mine[d] # NoGroup => current[key[d]] = mine[d] /\ key[d] \in Keys
    BY DEF GroupInv, TypeOK, References
  <2>2. \A k, l \in Keys : current[k] # NoGroup /\ current[k] = current[l] => k = l
    BY DEF GroupInv, References
  <2> QED BY <1>1, <2>1, <2>2
<1>3. refs[mine[c]] \in Nat \ {0}
  <2>1. c \in Holders(mine[c]) /\ refs[mine[c]] = Cardinality(Holders(mine[c]))
    BY <1>1 DEF Holders, GroupInv, References
  <2>2. Cardinality(Holders(mine[c])) # 0
    BY <2>1, CallsFinite, FS_EmptySet
  <2> QED BY <2>1, <2>2, CallsFinite, Counting
<1> QED BY <1>1, <1>2, <1>3

(* The activity of a group is kept up by the calls that begin and end it.   *)
LEMMA ActivityStep ==
    ASSUME GroupInv, Next
    PROVE  ActivityCounts' /\ activity' \in [Groups -> Nat]
<1> USE DEF GroupInv, TypeOK
<1>1. ASSUME NEW c \in Calls, NEW k \in Keys, ActivityBegin(c, k)
      PROVE  ActivityCounts'
  <2>1. PICK g \in Groups : Acquire(c, k, g) /\ activity' = [activity EXCEPT ![g] = @ + 1]
    BY <1>1 DEF ActivityBegin
  <2>2. mine' = [mine EXCEPT ![c] = g] /\ pc' = [pc EXCEPT ![c] = "active"]
        /\ mine[c] = NoGroup /\ pc[c] = "new"
    BY <1>1, <2>1 DEF ActivityBegin, Acquire, References
  <2>3. Active(g)' = Active(g) \cup {c} /\ c \notin Active(g)
    BY <2>2 DEF Active
  <2>4. \A h \in Groups : h # g => Active(h)' = Active(h)
    BY <2>2 DEF Active
  <2>5. Cardinality(Active(g)') = Cardinality(Active(g)) + 1
    BY <2>3, CallsFinite, Counting
  <2> QED BY <2>1, <2>4, <2>5 DEF ActivityCounts
<1>2. ASSUME NEW c \in Calls, ActivityEnd(c)
      PROVE  ActivityCounts'
  <2>0. mine[c] \in Groups /\ pc[c] = "active"
    BY <1>2 DEF ActivityEnd, References
  <2>1. PICK g \in Groups : /\ g = mine[c] /\ pc[c] = "active"
                            /\ activity' = [activity EXCEPT ![g] = @ - 1]
    BY <1>2, <2>0 DEF ActivityEnd
  <2>2. mine' = [mine EXCEPT ![c] = NoGroup] /\ pc' = [pc EXCEPT ![c] = "done"]
    BY <1>2 DEF ActivityEnd, Release
  <2>3. Active(g)' = Active(g) \ {c} /\ c \in Active(g)
    BY <2>1, <2>2 DEF Active
  <2>4. \A h \in Groups : h # g => Active(h)' = Active(h)
    BY <2>1, <2>2 DEF Active
  <2>5. Cardinality(Active(g)') = Cardinality(Active(g)) - 1
    BY <2>3, CallsFinite, Counting
  <2> QED BY <2>1, <2>4, <2>5 DEF ActivityCounts
<1>3. ASSUME UNCHANGED activity, \A g \in Groups : Active(g)' = Active(g)
      PROVE  ActivityCounts'
  BY <1>3 DEF ActivityCounts
<1>4. ASSUME NEW c \in Calls, NEW k \in Keys,
             WaitIdleAtOnce(c, k) \/ WaitIdlePark(c, k)
      PROVE  ActivityCounts'
  <2>1. \A g \in Groups : Active(g)' = Active(g)
    BY <1>4 DEF WaitIdleAtOnce, WaitIdlePark, Acquire, groupVars, Active
  <2> QED BY <1>3, <1>4, <2>1 DEF WaitIdleAtOnce, WaitIdlePark, groupVars
<1>5. ASSUME NEW c \in Calls, NEW k \in Keys, NEW i \in BOOLEAN, ExclusiveCall(c, k, i)
      PROVE  ActivityCounts'
  <2>1. \A d \in Calls : pc'[d] = "active" <=> pc[d] = "active"
    BY <1>5 DEF ExclusiveCall
  <2>2. \A d \in Calls : d # c => mine'[d] = mine[d]
    BY <1>5 DEF ExclusiveCall, Acquire
  <2>3. \A g \in Groups : Active(g)' = Active(g)
    BY <2>1, <2>2, <1>5 DEF ExclusiveCall, Active
  <2> QED BY <1>3, <1>5, <2>3 DEF ExclusiveCall
<1>6. ASSUME NEW c \in Calls,
             \/ ExclusiveEnter(c) \/ ExclusiveRefused(c) \/ ExclusiveCancelled(c)
             \/ ExclusiveExit(c) \/ ParkAgain(c) \/ WaitIdleReturn(c) \/ WaitIdleCancelled(c)
      PROVE  ActivityCounts'
  <2>1. \A d \in Calls : (pc'[d] = "active" <=> pc[d] = "active")
                        /\ (pc[d] = "active" => mine'[d] = mine[d])
    BY <1>6 DEF ExclusiveEnter, ExclusiveRefused, ExclusiveCancelled, ExclusiveExit,
                ParkAgain, WaitIdleReturn, WaitIdleCancelled, LeaveQueue, StopIdling, Release
  <2>2. UNCHANGED activity
    BY <1>6 DEF ExclusiveEnter, ExclusiveRefused, ExclusiveCancelled, ExclusiveExit,
                ParkAgain, WaitIdleReturn, WaitIdleCancelled, LeaveQueue, StopIdling, groupVars
  <2>3. \A g \in Groups : Active(g)' = Active(g)
    BY <2>1 DEF Active
  <2> QED BY <1>3, <2>2, <2>3
<1>7. CASE CloseBegin \/ CloseEnd
  BY <1>7, <1>3 DEF CloseBegin, CloseEnd, callVars, groupVars, Active
<1>8. ActivityCounts'
  BY <1>1, <1>2, <1>4, <1>5, <1>6, <1>7 DEF Next, Resume, BodyEnds
<1>9. \A g \in Groups : Cardinality(Active(g)') \in Nat
  <2>1. \A g \in Groups : Active(g)' \subseteq Calls
    BY DEF Active
  <2>2. \A g \in Groups : IsFiniteSet(Active(g)')
    BY <2>1, FS_Subset
  <2> QED BY <2>2, FS_CardinalityType
<1>10. \E f : activity' = [g \in Groups |-> f[g]]
  <2>1. activity = [g \in Groups |-> activity[g]]
    OBVIOUS
  <2> QED BY <2>1 DEF Next, Resume, BodyEnds, ActivityBegin, ActivityEnd, WaitIdleAtOnce,
              WaitIdlePark, ExclusiveCall, ExclusiveEnter, ExclusiveRefused, ExclusiveCancelled,
              LeaveQueue, ExclusiveExit, ParkAgain, WaitIdleReturn, WaitIdleCancelled,
              StopIdling, CloseBegin, CloseEnd, groupVars
<1> QED BY <1>8, <1>9, <1>10 DEF ActivityCounts

(* Types.                                                                   *)
LEMMA TypeStep ==
    ASSUME GroupInv, Next
    PROVE  TypeOK'
<1>1. activity' \in [Groups -> Nat]
  BY ActivityStep
<1>2. \A c \in Calls : pc[c] \in Bodies =>
            /\ mine[c] \in Groups /\ refs[mine[c]] \in Nat \ {0}
  BY Holding DEF GroupInv, References, Bodies
<1> USE DEF TypeOK, Bodies
<1>3. TypeOK
  BY DEF GroupInv
<1> DEFINE RefTypes ==
      /\ key' \in [Calls -> Keys]
      /\ mine' \in [Calls -> Groups \cup {NoGroup}]
      /\ current' \in [Keys -> Groups \cup {NoGroup}]
      /\ refs' \in [Groups -> Nat]
      /\ drained' \in BOOLEAN
      /\ pc' \in [Calls -> {"new", "active", "idling", "queued", "inside", "done"}]
<1>4. RefTypes
  <2>1. ASSUME NEW c \in Calls, NEW k \in Keys, NEW g \in Groups, NEW p \in Bodies,
               Takes(c, k, g, p)
        PROVE  RefTypes
    <3>1. /\ current' = [current EXCEPT ![k] = g] /\ refs' = [refs EXCEPT ![g] = @ + 1]
          /\ key' = [key EXCEPT ![c] = k] /\ mine' = [mine EXCEPT ![c] = g]
          /\ drained' = FALSE /\ pc' = [pc EXCEPT ![c] = p]
      BY <2>1 DEF Takes, Acquire
    <3>2. key' \in [Calls -> Keys] /\ mine' \in [Calls -> Groups \cup {NoGroup}]
      BY <1>3, <3>1
    <3>3. current' \in [Keys -> Groups \cup {NoGroup}] /\ refs' \in [Groups -> Nat]
      BY <1>3, <3>1
    <3>4. pc' \in [Calls -> {"new", "active", "idling", "queued", "inside", "done"}]
      BY <1>3, <3>1
    <3> QED BY <3>1, <3>2, <3>3, <3>4
  <2>2. ASSUME NEW c \in Calls, Gives(c)
        PROVE  RefTypes
    <3>1. mine[c] \in Groups /\ refs[mine[c]] - 1 \in Nat
      BY <2>2, <1>2 DEF Gives
    <3> QED BY <1>3, <2>2, <3>1 DEF Gives, Release
  <2>3. ASSUME Keeps
        PROVE  RefTypes
    BY <1>3, <2>3 DEF Keeps
  <2> QED BY <1>3, <2>1, <2>2, <2>3, StepShapes
<1> DEFINE OtherTypes ==
      /\ idle' \in [Calls -> BOOLEAN]
      /\ parked' \in [Calls -> BOOLEAN]
      /\ ahead' \in [Calls -> SUBSET Calls]
      /\ exclusive' \in [Groups -> BOOLEAN]
      /\ closed' \in BOOLEAN
      /\ closer' \in {"none", "draining", "returned"}
<1>5. \A g \in Groups : Notify(g) \in [Calls -> BOOLEAN] /\ Waiting(g) \in SUBSET Calls
  BY DEF Notify, Waiting
<1>6. \A c \in Calls : Dequeue(c) \in [Calls -> SUBSET Calls]
  BY <1>3 DEF Dequeue
<1>7. OtherTypes
  <2>1. ASSUME NEW c \in Calls, NEW k \in Keys,
               ActivityBegin(c, k) \/ WaitIdleAtOnce(c, k) \/ WaitIdlePark(c, k)
        PROVE  OtherTypes
    <3>1. parked' \in [Calls -> BOOLEAN]
      <4>1. CASE ActivityBegin(c, k)
        BY <1>5, <4>1 DEF ActivityBegin
      <4>2. CASE WaitIdleAtOnce(c, k) \/ WaitIdlePark(c, k)
        BY <1>3, <4>2 DEF WaitIdleAtOnce, WaitIdlePark
      <4> QED BY <2>1, <4>1, <4>2
    <3>2. UNCHANGED <<idle, ahead, exclusive, closed, closer>>
      BY <2>1 DEF ActivityBegin, WaitIdleAtOnce, WaitIdlePark, groupVars
    <3> QED BY <1>3, <3>1, <3>2
  <2>2. ASSUME NEW c \in Calls, NEW k \in Keys, NEW i \in BOOLEAN, ExclusiveCall(c, k, i)
        PROVE  OtherTypes
    <3>1. idle' \in [Calls -> BOOLEAN] /\ UNCHANGED <<closed, closer>>
      BY <1>3, <2>2 DEF ExclusiveCall
    <3>2. PICK g \in Groups, b \in BOOLEAN :
                /\ parked' = [parked EXCEPT ![c] = ~b]
                /\ ahead' = [ahead EXCEPT ![c] = IF b THEN {} ELSE Waiting(g)]
                /\ exclusive' = [exclusive EXCEPT ![g] = @ \/ b]
      BY <2>2 DEF ExclusiveCall
    <3> QED BY <1>3, <1>5, <3>1, <3>2
  <2>3. ASSUME NEW c \in Calls, ExclusiveEnter(c) \/ ParkAgain(c)
        PROVE  OtherTypes
    BY <1>3, <1>6, <2>3 DEF ExclusiveEnter, ParkAgain, groupVars
  <2>4. ASSUME NEW c \in Calls, ExclusiveRefused(c) \/ ExclusiveCancelled(c)
        PROVE  OtherTypes
    <3>1. mine[c] \in Groups
      BY <1>2, <2>4 DEF ExclusiveRefused, ExclusiveCancelled
    <3>2. /\ ahead' = Dequeue(c) /\ parked' = [Notify(mine[c]) EXCEPT ![c] = FALSE]
          /\ UNCHANGED <<idle, exclusive, closed, closer>>
      BY <2>4 DEF ExclusiveRefused, ExclusiveCancelled, LeaveQueue
    <3>3. parked' \in [Calls -> BOOLEAN]
      BY <1>5, <3>1, <3>2
    <3> QED BY <1>3, <1>6, <3>2, <3>3
  <2>5. ASSUME NEW c \in Calls, ActivityEnd(c) \/ ExclusiveExit(c)
        PROVE  OtherTypes
    <3>1. mine[c] \in Groups
      BY <1>2, <2>5 DEF ActivityEnd, ExclusiveExit
    <3>2. /\ parked' = Notify(mine[c])
          /\ exclusive' = exclusive \/ exclusive' = [exclusive EXCEPT ![mine[c]] = FALSE]
          /\ UNCHANGED <<idle, ahead, closed, closer>>
      BY <2>5 DEF ActivityEnd, ExclusiveExit
    <3>3. parked' \in [Calls -> BOOLEAN]
      BY <1>5, <3>1, <3>2
    <3> QED BY <1>3, <3>1, <3>2, <3>3
  <2>6. ASSUME NEW c \in Calls, WaitIdleReturn(c) \/ WaitIdleCancelled(c)
        PROVE  OtherTypes
    BY <1>3, <2>6 DEF WaitIdleReturn, WaitIdleCancelled, StopIdling
  <2>7. CASE CloseBegin \/ CloseEnd
    BY <1>3, <2>7 DEF CloseBegin, CloseEnd, callVars, groupVars
  <2> QED BY <2>1, <2>2, <2>3, <2>4, <2>5, <2>6, <2>7 DEF Next, Resume, BodyEnds
<1> QED BY <1>1, <1>4, <1>7

(* The flag of a group goes up with the call that enters and down with the  *)
(* call that leaves; nobody enters a section that is taken.                 *)
LEMMA FlagStep ==
    ASSUME GroupInv, Next
    PROVE  FlagTellsInside' /\ MutualExclusion'
<1> USE DEF GroupInv, TypeOK
<1>1. TypeOK' /\ References'
  BY TypeStep, ReferencesStep
<1> DEFINE Enters(c, g) == /\ c \in Calls /\ g \in Groups /\ ~exclusive[g]
                           /\ exclusive' = [exclusive EXCEPT ![g] = TRUE]
                           /\ pc' = [pc EXCEPT ![c] = "inside"] /\ pc[c] # "inside"
                           /\ mine' = [mine EXCEPT ![c] = g]
                           /\ \A d \in Calls : d # c => key'[d] = key[d]
           Stays == /\ UNCHANGED exclusive
                    /\ \A d \in Calls :
                        /\ pc'[d] = "inside" <=> pc[d] = "inside"
                        /\ pc[d] = "inside" => mine'[d] = mine[d] /\ key'[d] = key[d]
<1>2. \A c, d \in Calls : mine'[c] # NoGroup /\ mine'[d] # NoGroup /\ key'[c] = key'[d]
                            => mine'[c] = mine'[d]
  BY <1>1 DEF References
<1>3. ASSUME NEW c, NEW g, Enters(c, g)
      PROVE  FlagTellsInside' /\ MutualExclusion'
  <2>1. FlagTellsInside'
    BY <1>3 DEF FlagTellsInside
  <2>2. \A d \in Calls : pc[d] = "inside" => mine[d] # g
    BY <1>3 DEF FlagTellsInside
  <2>3. \A d \in Calls : d # c /\ pc'[d] = "inside" => key'[d] # key'[c]
    <3> SUFFICES ASSUME NEW d \in Calls, d # c, pc'[d] = "inside", key'[d] = key'[c]
                 PROVE  FALSE
      OBVIOUS
    <3>1. pc[d] = "inside" /\ mine'[d] = mine[d] /\ mine[d] # NoGroup
      BY <1>3 DEF References
    <3>2. mine'[c] = g /\ g # NoGroup
      BY <1>3
    <3> QED BY <1>2, <1>3, <2>2, <3>1, <3>2
  <2>4. \A d, e \in Calls : d # c /\ e # c /\ pc'[d] = "inside" /\ pc'[e] = "inside"
                              /\ key'[d] = key'[e] => d = e
    BY <1>3 DEF MutualExclusion
  <2> QED BY <2>1, <2>3, <2>4 DEF MutualExclusion
<1>4. ASSUME Stays
      PROVE  FlagTellsInside' /\ MutualExclusion'
  BY <1>4, <1>1 DEF FlagTellsInside, MutualExclusion
<1>5. ASSUME NEW c \in Calls, NEW k \in Keys, NEW i \in BOOLEAN, ExclusiveCall(c, k, i)
      PROVE  FlagTellsInside' /\ MutualExclusion'
  <2>1. PICK g \in Groups, b \in BOOLEAN :
              /\ Acquire(c, k, g)
              /\ b => ~exclusive[g]
              /\ pc' = [pc EXCEPT ![c] = IF b THEN "inside" ELSE "queued"]
              /\ exclusive' = [exclusive EXCEPT ![g] = @ \/ b]
    BY <1>5 DEF ExclusiveCall
  <2>2. pc[c] = "new" /\ mine' = [mine EXCEPT ![c] = g] /\ key' = [key EXCEPT ![c] = k]
    BY <1>5, <2>1 DEF ExclusiveCall, Acquire
  <2>3. CASE b
    BY <1>3, <2>1, <2>2, <2>3
  <2>4. CASE ~b
    <3>1. exclusive' = exclusive
      BY <2>1, <2>4
    <3> QED BY <1>4, <2>1, <2>2, <2>4, <3>1
  <2> QED BY <2>3, <2>4
<1>6. ASSUME NEW c \in Calls, ExclusiveEnter(c)
      PROVE  FlagTellsInside' /\ MutualExclusion'
  <2>1. mine[c] \in Groups /\ ~exclusive[mine[c]]
    BY <1>6 DEF ExclusiveEnter, MayProceed, References
  <2>2. mine' = [mine EXCEPT ![c] = mine[c]]
    BY <1>6 DEF ExclusiveEnter
  <2>3. Enters(c, mine[c])
    BY <1>6, <2>1, <2>2 DEF ExclusiveEnter
  <2> HIDE DEF Enters
  <2> QED BY <1>3, <2>3
<1>7. ASSUME NEW c \in Calls, ExclusiveExit(c)
      PROVE  FlagTellsInside' /\ MutualExclusion'
  <2>1. mine[c] \in Groups /\ mine[c] # NoGroup /\ pc[c] = "inside"
    BY <1>7 DEF ExclusiveExit, References
  <2>2. \A d \in Calls : mine[d] = mine[c] /\ pc[d] = "inside" => d = c
    BY <2>1, Holding DEF MutualExclusion
  <2>3. /\ exclusive' = [exclusive EXCEPT ![mine[c]] = FALSE]
        /\ pc' = [pc EXCEPT ![c] = "done"]
        /\ mine' = [mine EXCEPT ![c] = NoGroup]
        /\ UNCHANGED key
    BY <1>7 DEF ExclusiveExit, Release
  <2> QED BY <2>1, <2>2, <2>3 DEF FlagTellsInside, MutualExclusion
<1>8. ASSUME NEW c \in Calls, NEW k \in Keys,
             ActivityBegin(c, k) \/ WaitIdleAtOnce(c, k) \/ WaitIdlePark(c, k)
      PROVE  FlagTellsInside' /\ MutualExclusion'
  <2>1. Stays
    BY <1>8 DEF ActivityBegin, WaitIdleAtOnce, WaitIdlePark, Acquire, groupVars
  <2> QED BY <2>1, <1>4
<1>9. ASSUME NEW c \in Calls,
             \/ ActivityEnd(c) \/ ParkAgain(c) \/ ExclusiveRefused(c) \/ ExclusiveCancelled(c)
             \/ WaitIdleReturn(c) \/ WaitIdleCancelled(c)
      PROVE  FlagTellsInside' /\ MutualExclusion'
  <2>1. Stays
    BY <1>9 DEF ActivityEnd, ParkAgain, ExclusiveRefused, ExclusiveCancelled, LeaveQueue,
                WaitIdleReturn, WaitIdleCancelled, StopIdling, Release, groupVars
  <2> QED BY <2>1, <1>4
<1>10. CASE CloseBegin \/ CloseEnd
  <2>1. Stays
    BY <1>10 DEF CloseBegin, CloseEnd, callVars, groupVars
  <2> QED BY <2>1, <1>4
<1> QED BY <1>5, <1>6, <1>7, <1>8, <1>9, <1>10 DEF Next, Resume, BodyEnds

(* A call leaves every queue before it stops waiting.                       *)
LEMMA QueuesStep ==
    ASSUME GroupInv, Next
    PROVE  Queues'
<1> USE DEF GroupInv, TypeOK
<1>1. TypeOK'
  BY TypeStep
(* What has to be shown of the step, call by call.                          *)
<1>2. ASSUME \A d \in Calls : parked'[d] => pc'[d] \in {"idling", "queued"},
             \A d, e \in Calls : e \in ahead'[d] =>
                /\ e # d /\ pc'[d] = "queued" /\ pc'[e] = "queued" /\ mine'[e] = mine'[d]
      PROVE  Queues'
  BY <1>1, <1>2 DEF Queues, Waiting
<1>3. \A d, e \in Calls : e \in ahead[d] =>
            e # d /\ pc[d] = "queued" /\ pc[e] = "queued" /\ mine[e] = mine[d]
  BY DEF Queues, Waiting
<1>4. \A d \in Calls : parked[d] => pc[d] \in {"idling", "queued"}
  BY DEF Queues
<1>5. \A g \in Groups, d \in Calls : Notify(g)[d] => parked[d]
  BY DEF Notify
(* A step of a call that waits in no queue, before or after.                *)
<1>6. ASSUME NEW c \in Calls, UNCHANGED ahead,
             pc[c] # "queued", pc'[c] # "queued",
             parked'[c] => pc'[c] = "idling",
             \A d \in Calls : d # c => /\ pc'[d] = pc[d] /\ mine'[d] = mine[d]
                                       /\ parked'[d] => parked[d]
      PROVE  Queues'
  <2>1. \A d, e \in Calls : e \in ahead'[d] => e # c /\ d # c
    BY <1>3, <1>6
  <2>2. \A d, e \in Calls : e \in ahead'[d] =>
            e # d /\ pc'[d] = "queued" /\ pc'[e] = "queued" /\ mine'[e] = mine'[d]
    <3> SUFFICES ASSUME NEW d \in Calls, NEW e \in Calls, e \in ahead'[d]
                 PROVE  e # d /\ pc'[d] = "queued" /\ pc'[e] = "queued" /\ mine'[e] = mine'[d]
      OBVIOUS
    <3>1. d # c /\ e # c /\ e \in ahead[d]
      BY <1>6, <2>1
    <3>2. pc'[d] = pc[d] /\ mine'[d] = mine[d] /\ pc'[e] = pc[e] /\ mine'[e] = mine[e]
      BY <1>6, <3>1
    <3> QED BY <1>3, <3>1, <3>2
  <2>3. \A d \in Calls : parked'[d] => pc'[d] \in {"idling", "queued"}
    <3> SUFFICES ASSUME NEW d \in Calls, parked'[d] PROVE pc'[d] \in {"idling", "queued"}
      OBVIOUS
    <3>1. CASE d = c
      BY <1>6, <3>1
    <3>2. CASE d # c
      BY <1>4, <1>6, <3>2
    <3> QED BY <3>1, <3>2
  <2> QED BY <1>2, <2>2, <2>3
(* A call leaves the queue.                                                 *)
<1>7. ASSUME NEW c \in Calls, pc[c] = "queued", ahead' = Dequeue(c), ~parked'[c],
             \A d \in Calls : d # c => /\ pc'[d] = pc[d] /\ mine'[d] = mine[d]
                                       /\ parked'[d] => parked[d]
      PROVE  Queues'
  <2>1. \A d, e \in Calls : e \in ahead'[d] => e # c /\ d # c /\ e \in ahead[d]
    BY <1>7 DEF Dequeue
  <2>2. \A d, e \in Calls : e \in ahead'[d] =>
            e # d /\ pc'[d] = "queued" /\ pc'[e] = "queued" /\ mine'[e] = mine'[d]
    <3> SUFFICES ASSUME NEW d \in Calls, NEW e \in Calls, e \in ahead'[d]
                 PROVE  e # d /\ pc'[d] = "queued" /\ pc'[e] = "queued" /\ mine'[e] = mine'[d]
      OBVIOUS
    <3>1. d # c /\ e # c /\ e \in ahead[d]
      BY <1>7, <2>1
    <3>2. pc'[d] = pc[d] /\ mine'[d] = mine[d] /\ pc'[e] = pc[e] /\ mine'[e] = mine[e]
      BY <1>7, <3>1
    <3> QED BY <1>3, <3>1, <3>2
  <2>3. \A d \in Calls : parked'[d] => pc'[d] \in {"idling", "queued"}
    <3> SUFFICES ASSUME NEW d \in Calls, parked'[d] PROVE pc'[d] \in {"idling", "queued"}
      OBVIOUS
    <3>1. CASE d = c
      BY <1>7, <3>1
    <3>2. CASE d # c
      BY <1>4, <1>7, <3>2
    <3> QED BY <3>1, <3>2
  <2> QED BY <1>2, <2>2, <2>3
<1>8. ASSUME NEW c \in Calls, NEW k \in Keys, ActivityBegin(c, k)
      PROVE  Queues'
  <2>1. PICK g \in Groups : Acquire(c, k, g) /\ parked' = Notify(g)
    BY <1>8 DEF ActivityBegin
  <2>2. \A d \in Calls : parked'[d] => parked[d]
    BY <1>5, <2>1
  <2>3. ~parked[c]
    BY <1>4, <1>8 DEF ActivityBegin
  <2> QED BY <1>6, <1>8, <2>1, <2>2, <2>3 DEF ActivityBegin, Acquire
<1>9. ASSUME NEW c \in Calls, NEW k \in Keys, WaitIdleAtOnce(c, k)
      PROVE  Queues'
  <2>1. ~parked[c]
    BY <1>4, <1>9 DEF WaitIdleAtOnce
  <2> QED BY <1>6, <1>9, <2>1 DEF WaitIdleAtOnce
<1>10. ASSUME NEW c \in Calls, NEW k \in Keys, WaitIdlePark(c, k)
      PROVE  Queues'
  BY <1>6, <1>10 DEF WaitIdlePark, Acquire
<1>11. ASSUME NEW c \in Calls, NEW k \in Keys, NEW i \in BOOLEAN, ExclusiveCall(c, k, i)
      PROVE  Queues'
  <2>1. PICK g \in Groups, b \in BOOLEAN :
              /\ Acquire(c, k, g)
              /\ pc' = [pc EXCEPT ![c] = IF b THEN "inside" ELSE "queued"]
              /\ parked' = [parked EXCEPT ![c] = ~b]
              /\ ahead' = [ahead EXCEPT ![c] = IF b THEN {} ELSE Waiting(g)]
    BY <1>11 DEF ExclusiveCall
  <2>2. pc[c] = "new" /\ mine' = [mine EXCEPT ![c] = g]
    BY <1>11, <2>1 DEF ExclusiveCall, Acquire
  <2>3. \A d, e \in Calls : e \in ahead'[d] =>
            e # d /\ pc'[d] = "queued" /\ pc'[e] = "queued" /\ mine'[e] = mine'[d]
    <3> SUFFICES ASSUME NEW d \in Calls, NEW e \in Calls, e \in ahead'[d]
                 PROVE  e # d /\ pc'[d] = "queued" /\ pc'[e] = "queued" /\ mine'[e] = mine'[d]
      OBVIOUS
    <3>1. CASE d = c
      <4>1. ~b /\ e \in Waiting(g)
        BY <2>1, <3>1
      <4> QED BY <2>1, <2>2, <3>1, <4>1 DEF Waiting
    <3>2. CASE d # c
      <4>1. e \in ahead[d]
        BY <2>1, <3>2
      <4> QED BY <1>3, <2>1, <2>2, <3>2, <4>1
    <3> QED BY <3>1, <3>2
  <2>4. \A d \in Calls : parked'[d] => pc'[d] \in {"idling", "queued"}
    BY <1>4, <2>1, <2>2
  <2> QED BY <1>2, <2>3, <2>4
<1>12. ASSUME NEW c \in Calls, ExclusiveEnter(c)
      PROVE  Queues'
  BY <1>7, <1>12 DEF ExclusiveEnter
<1>13. ASSUME NEW c \in Calls, ParkAgain(c)
      PROVE  Queues'
  <2>1. \A d \in Calls : parked'[d] => pc'[d] \in {"idling", "queued"}
    BY <1>4, <1>13 DEF ParkAgain
  <2> QED BY <1>2, <1>3, <1>13, <2>1 DEF ParkAgain
<1>14. ASSUME NEW c \in Calls, ExclusiveRefused(c) \/ ExclusiveCancelled(c)
      PROVE  Queues'
  <2>1. pc[c] = "queued" /\ mine[c] \in Groups /\ LeaveQueue(c)
    BY <1>14 DEF ExclusiveRefused, ExclusiveCancelled, References
  <2>2. \A d \in Calls : parked'[d] => parked[d] /\ d # c
    BY <1>5, <2>1 DEF LeaveQueue, Notify
  <2> QED BY <1>7, <2>1, <2>2 DEF LeaveQueue, Release
<1>15. ASSUME NEW c \in Calls, ActivityEnd(c) \/ ExclusiveExit(c)
      PROVE  Queues'
  <2>1. pc[c] \in {"active", "inside"} /\ parked' = Notify(mine[c]) /\ mine[c] \in Groups
    BY <1>15 DEF ActivityEnd, ExclusiveExit, References
  <2>2. \A d \in Calls : parked'[d] => parked[d] /\ d # c
    BY <1>4, <1>5, <2>1
  <2> QED BY <1>6, <1>15, <2>1, <2>2 DEF ActivityEnd, ExclusiveExit, Release
<1>16. ASSUME NEW c \in Calls, WaitIdleReturn(c) \/ WaitIdleCancelled(c)
      PROVE  Queues'
  BY <1>6, <1>16 DEF WaitIdleReturn, WaitIdleCancelled, StopIdling, Release
<1>17. CASE CloseBegin \/ CloseEnd
  BY <1>2, <1>3, <1>4, <1>17 DEF CloseBegin, CloseEnd, callVars, groupVars
<1> QED BY <1>8, <1>9, <1>10, <1>11, <1>12, <1>13, <1>14, <1>15, <1>16, <1>17
        DEF Next, Resume, BodyEnds

(* What a sleeping call would see depends on its own group only.            *)
LEMMA SameView ==
    ASSUME NEW d \in Calls, UNCHANGED <<closed, pc[d], idle[d], ahead[d], mine[d]>>,
           activity'[mine[d]] = activity[mine[d]],
           exclusive'[mine[d]] = exclusive[mine[d]],
           \A e \in ahead[d] : idle'[e] = idle[e],
           ~MayProceed(d)
    PROVE  ~MayProceed(d)'
BY DEF MayProceed, Eligible

(* Nobody is left asleep: a step that lets a call proceed wakes its group.  *)
LEMMA WakeupStep ==
    ASSUME GroupInv, Next
    PROVE  NoLostWakeup'
<1> USE DEF GroupInv, TypeOK
<1>1. \A d \in Calls : parked[d] => /\ pc[d] \in {"idling", "queued"} /\ ~MayProceed(d)
                                    /\ mine[d] \in Groups
  BY DEF Queues, NoLostWakeup, References
<1>2. \A d, e \in Calls : e \in ahead[d] =>
            e # d /\ pc[d] = "queued" /\ pc[e] = "queued" /\ mine[e] = mine[d]
  BY DEF Queues, Waiting
<1>3. \A g, d \in Calls : Notify(g)[d] => parked[d] /\ mine[d] # g
  BY DEF Notify
<1>4. ASSUME NEW c \in Calls, NEW k \in Keys, ActivityBegin(c, k)
      PROVE  NoLostWakeup'
  <2>1. PICK g \in Groups : /\ Acquire(c, k, g) /\ parked' = Notify(g)
                            /\ activity' = [activity EXCEPT ![g] = @ + 1]
    BY <1>4 DEF ActivityBegin
  <2> SUFFICES ASSUME NEW d \in Calls, parked'[d] PROVE ~MayProceed(d)'
    BY DEF NoLostWakeup
  <2>2. parked[d] /\ mine[d] # g /\ d # c
    BY <1>1, <1>3, <1>4, <2>1 DEF ActivityBegin
  <2>3. UNCHANGED <<closed, pc[d], idle, ahead, mine[d], exclusive>>
    BY <1>4, <2>1, <2>2 DEF ActivityBegin, Acquire
  <2> QED BY <1>1, <2>1, <2>2, <2>3, SameView
<1>5. ASSUME NEW c \in Calls, NEW k \in Keys, WaitIdleAtOnce(c, k)
      PROVE  NoLostWakeup'
  <2> SUFFICES ASSUME NEW d \in Calls, parked'[d] PROVE ~MayProceed(d)'
    BY DEF NoLostWakeup
  <2>1. parked[d] /\ d # c
    BY <1>1, <1>5 DEF WaitIdleAtOnce
  <2> QED BY <1>1, <1>5, <2>1, SameView DEF WaitIdleAtOnce, groupVars
<1>6. ASSUME NEW c \in Calls, NEW k \in Keys, WaitIdlePark(c, k)
      PROVE  NoLostWakeup'
  <2>1. PICK g \in Groups : Acquire(c, k, g) /\ activity[g] > 0
    BY <1>6 DEF WaitIdlePark
  <2>2. mine' = [mine EXCEPT ![c] = g] /\ ~closed /\ pc' = [pc EXCEPT ![c] = "idling"]
        /\ UNCHANGED <<idle, ahead, activity, exclusive, closed>>
        /\ parked' = [parked EXCEPT ![c] = TRUE]
    BY <1>6, <2>1 DEF WaitIdlePark, Acquire
  <2> SUFFICES ASSUME NEW d \in Calls, parked'[d] PROVE ~MayProceed(d)'
    BY DEF NoLostWakeup
  <2>3. CASE d = c
    BY <2>1, <2>2, <2>3 DEF MayProceed
  <2>4. CASE d # c
    BY <1>1, <2>2, <2>4, SameView
  <2> QED BY <2>3, <2>4
<1>7. ASSUME NEW c \in Calls, NEW k \in Keys, NEW i \in BOOLEAN, ExclusiveCall(c, k, i)
      PROVE  NoLostWakeup'
  <2> DEFINE Enters(g) == /\ ~exclusive[g]
                          /\ i => activity[g] = 0
                          /\ \A e \in Waiting(g) : idle[e] /\ activity[g] > 0
  <2>1. PICK g \in Groups :
              /\ Acquire(c, k, g)
              /\ pc' = [pc EXCEPT ![c] = IF Enters(g) THEN "inside" ELSE "queued"]
              /\ parked' = [parked EXCEPT ![c] = ~Enters(g)]
              /\ ahead' = [ahead EXCEPT ![c] = IF Enters(g) THEN {} ELSE Waiting(g)]
              /\ exclusive' = [exclusive EXCEPT ![g] = @ \/ Enters(g)]
    BY <1>7 DEF ExclusiveCall
  <2>2. /\ mine' = [mine EXCEPT ![c] = g] /\ idle' = [idle EXCEPT ![c] = i]
        /\ ~closed /\ UNCHANGED <<closed, activity>> /\ pc[c] = "new"
    BY <1>7, <2>1 DEF ExclusiveCall, Acquire
  <2>3. c \notin Waiting(g) /\ Waiting(g) \subseteq Calls
    BY <2>2 DEF Waiting
  <2>4. ~Enters(g) <=> \/ exclusive[g]
                       \/ (i /\ activity[g] # 0)
                       \/ \E e \in Waiting(g) : ~(idle[e] /\ activity[g] > 0)
    BY Zenon
  <2> SUFFICES ASSUME NEW d \in Calls, parked'[d] PROVE ~MayProceed(d)'
    BY DEF NoLostWakeup
  <2> HIDE DEF Enters
  <2>5. CASE d = c
    <3>1. ~Enters(g)
      BY <2>1, <2>5
    <3>2. /\ pc'[c] = "queued" /\ ahead'[c] = Waiting(g) /\ mine'[c] = g /\ idle'[c] = i
          /\ exclusive'[g] = exclusive[g] /\ activity'[g] = activity[g] /\ ~closed'
          /\ \A e \in Waiting(g) : idle'[e] = idle[e]
      BY <2>1, <2>2, <2>3, <3>1
    <3> QED BY <2>4, <2>5, <3>1, <3>2 DEF MayProceed, Eligible
  <2>6. CASE d # c
    <3>1. parked[d] /\ pc'[d] = pc[d] /\ mine'[d] = mine[d] /\ ahead'[d] = ahead[d] /\ idle'[d] = idle[d]
      BY <2>1, <2>2, <2>6
    <3>2. \A e \in ahead[d] : idle'[e] = idle[e]
      BY <1>2, <2>2
    <3>3. CASE exclusive'[mine[d]] = exclusive[mine[d]]
      BY <1>1, <2>2, <3>1, <3>2, <3>3, SameView
    <3>4. CASE exclusive'[mine[d]] # exclusive[mine[d]]
      <4>1. exclusive'[mine[d]]
        BY <1>1, <2>1, <3>1, <3>4
      <4> QED BY <1>1, <2>2, <3>1, <4>1 DEF MayProceed
    <3> QED BY <3>3, <3>4
  <2> QED BY <2>5, <2>6
<1>8. ASSUME NEW c \in Calls, ExclusiveEnter(c)
      PROVE  NoLostWakeup'
  <2> SUFFICES ASSUME NEW d \in Calls, parked'[d] PROVE ~MayProceed(d)'
    BY DEF NoLostWakeup
  <2>1. parked[d] /\ d # c /\ mine[c] \in Groups /\ pc[c] = "queued"
    BY <1>8 DEF ExclusiveEnter, References
  <2>2. /\ UNCHANGED <<closed, idle, mine, activity>> /\ pc'[d] = pc[d] /\ ~closed
        /\ exclusive' = [exclusive EXCEPT ![mine[c]] = TRUE]
        /\ ahead'[d] = ahead[d] \ {c}
    BY <1>8, <2>1 DEF ExclusiveEnter, Dequeue
  <2>3. CASE mine[d] = mine[c]
    <3>1. exclusive'[mine'[d]]
      BY <2>1, <2>2, <2>3
    <3> QED BY <1>1, <2>1, <2>2, <3>1 DEF MayProceed
  <2>4. CASE mine[d] # mine[c]
    <3>1. c \notin ahead[d]
      BY <1>2, <2>4
    <3>2. ahead'[d] = ahead[d] /\ exclusive'[mine[d]] = exclusive[mine[d]]
      BY <1>1, <2>1, <2>2, <2>4, <3>1
    <3> QED BY <1>1, <2>1, <2>2, <3>2, SameView
  <2> QED BY <2>3, <2>4
<1>9. ASSUME NEW c \in Calls, ParkAgain(c)
      PROVE  NoLostWakeup'
  <2> SUFFICES ASSUME NEW d \in Calls, parked'[d] PROVE ~MayProceed(d)'
    BY DEF NoLostWakeup
  <2>1. ~MayProceed(d)
    BY <1>1, <1>9 DEF ParkAgain
  <2> QED BY <1>9, <2>1, SameView DEF ParkAgain, groupVars
<1>10. ASSUME NEW c \in Calls, ExclusiveRefused(c) \/ ExclusiveCancelled(c)
      PROVE  NoLostWakeup'
  <2>1. pc[c] = "queued" /\ mine[c] \in Groups /\ LeaveQueue(c)
    BY <1>10 DEF ExclusiveRefused, ExclusiveCancelled, References
  <2> SUFFICES ASSUME NEW d \in Calls, parked'[d] PROVE ~MayProceed(d)'
    BY DEF NoLostWakeup
  <2>2. parked[d] /\ mine[d] # mine[c] /\ d # c
    BY <1>3, <2>1 DEF LeaveQueue, Notify
  <2>3. ahead'[d] = ahead[d]
    BY <1>2, <2>1, <2>2 DEF LeaveQueue, Dequeue
  <2>4. UNCHANGED <<closed, idle, activity, exclusive, pc[d], mine[d]>>
    BY <2>1, <2>2 DEF LeaveQueue, Release
  <2> QED BY <1>1, <2>2, <2>3, <2>4, SameView
<1>11. ASSUME NEW c \in Calls, ActivityEnd(c) \/ ExclusiveExit(c)
      PROVE  NoLostWakeup'
  <2>1. /\ pc[c] \in {"active", "inside"} /\ parked' = Notify(mine[c]) /\ mine[c] \in Groups
        /\ UNCHANGED <<closed, idle, ahead>>
        /\ activity' = activity \/ activity' = [activity EXCEPT ![mine[c]] = @ - 1]
        /\ exclusive' = exclusive \/ exclusive' = [exclusive EXCEPT ![mine[c]] = FALSE]
    BY <1>11 DEF ActivityEnd, ExclusiveExit, References
  <2> SUFFICES ASSUME NEW d \in Calls, parked'[d] PROVE ~MayProceed(d)'
    BY DEF NoLostWakeup
  <2>2. parked[d] /\ mine[d] # mine[c] /\ d # c
    BY <1>1, <1>3, <2>1
  <2>3. UNCHANGED <<pc[d], mine[d]>>
    BY <1>11, <2>2 DEF ActivityEnd, ExclusiveExit, Release
  <2>4. UNCHANGED <<activity[mine[d]], exclusive[mine[d]]>>
    BY <1>1, <2>1, <2>2, <2>3
  <2> QED BY <1>1, <2>1, <2>2, <2>3, <2>4, SameView
<1>12. ASSUME NEW c \in Calls, WaitIdleReturn(c) \/ WaitIdleCancelled(c)
      PROVE  NoLostWakeup'
  <2> SUFFICES ASSUME NEW d \in Calls, parked'[d] PROVE ~MayProceed(d)'
    BY DEF NoLostWakeup
  <2>1. StopIdling(c)
    BY <1>12 DEF WaitIdleReturn, WaitIdleCancelled
  <2>2. parked[d] /\ d # c
    BY <2>1 DEF StopIdling
  <2>3. UNCHANGED <<closed, idle, ahead, activity, exclusive, pc[d], mine[d]>>
    BY <2>1, <2>2 DEF StopIdling, Release
  <2> QED BY <1>1, <2>2, <2>3, SameView
<1>13. CASE CloseBegin
  BY <1>13 DEF CloseBegin, NoLostWakeup
<1>14. CASE CloseEnd
  BY <1>14 DEF CloseEnd, NoLostWakeup, MayProceed, Eligible, callVars, groupVars
<1> QED BY <1>4, <1>5, <1>6, <1>7, <1>8, <1>9, <1>10, <1>11, <1>12, <1>13, <1>14
        DEF Next, Resume, BodyEnds

(* The event of close follows the groups, and a closed service admits       *)
(* nobody who could hold one again.                                         *)
LEMMA ClosingStep ==
    ASSUME GroupInv, Next
    PROVE  Closing' /\ CloseIsFinal'
<1> USE DEF GroupInv, TypeOK
<1>1. TypeOK' /\ References'
  BY TypeStep, ReferencesStep
<1> DEFINE DrainedIsExact == drained' <=> \A k \in Keys : current'[k] = NoGroup
<1>2. DrainedIsExact
  <2>1. ASSUME NEW c \in Calls, NEW k \in Keys, NEW g \in Groups, NEW p \in Bodies,
               Takes(c, k, g, p)
        PROVE  DrainedIsExact
    BY <2>1 DEF Takes, Acquire
  <2>2. ASSUME NEW c \in Calls, Gives(c)
        PROVE  DrainedIsExact
    <3>1. mine[c] # NoGroup /\ key[c] \in Keys /\ current[key[c]] # NoGroup
      BY <2>2 DEF Gives, Bodies, References
    <3> QED BY <2>2, <3>1, ZenonT(40) DEF Gives, Release, Closing
  <2>3. ASSUME Keeps
        PROVE  DrainedIsExact
    BY <2>3 DEF Keeps, Closing
  <2> QED BY <2>1, <2>2, <2>3, StepShapes
<1>3. CASE CloseBegin
  BY <1>2, <1>3 DEF CloseBegin, Closing, CloseIsFinal
<1>4. CASE CloseEnd
  <2>1. \A c \in Calls : mine'[c] = NoGroup
    BY <1>1, <1>2, <1>4 DEF CloseEnd, References, Closing, callVars, groupVars
  <2> QED BY <1>2, <1>4, <2>1 DEF CloseEnd, Closing, CloseIsFinal, callVars, groupVars
<1>5. CASE ~CloseBegin /\ ~CloseEnd
  <2>1. UNCHANGED <<closed, closer>>
    BY <1>5 DEF Next, Resume, BodyEnds, ActivityBegin, ActivityEnd, WaitIdleAtOnce,
                WaitIdlePark, ExclusiveCall, ExclusiveEnter, ExclusiveRefused,
                ExclusiveCancelled, LeaveQueue, ExclusiveExit, ParkAgain, WaitIdleReturn,
                WaitIdleCancelled, StopIdling
  <2>2. closed => \A c \in Calls : mine'[c] = mine[c] \/ mine'[c] = NoGroup
    <3>1. ASSUME NEW c \in Calls, NEW k \in Keys, NEW g \in Groups, NEW p \in Bodies,
                 Takes(c, k, g, p)
          PROVE  ~closed
      BY <3>1 DEF Takes, Acquire
    <3>2. ASSUME NEW c \in Calls, Gives(c)
          PROVE  \A d \in Calls : mine'[d] = mine[d] \/ mine'[d] = NoGroup
      BY <3>2 DEF Gives, Release
    <3>3. ASSUME Keeps
          PROVE  \A d \in Calls : mine'[d] = mine[d]
      BY <3>3 DEF Keeps
    <3> QED BY <3>1, <3>2, <3>3, StepShapes
  <2> QED BY <1>2, <2>1, <2>2 DEF Closing, CloseIsFinal
<1> QED BY <1>3, <1>4, <1>5

-----------------------------------------------------------------------------
(* For any finite set of calls on any keys, in every interleaving with      *)
(* cancellations and close: the bookkeeping of Tasks._group and             *)
(* Tasks._release_group is exact, sections of a key exclude each other, no  *)
(* call sleeps through its turn, and close returns after the last holder.   *)
THEOREM GroupInvariant == Spec => []GroupInv
<1>1. Init => GroupInv
  BY InitInv
<1>2. GroupInv /\ [Next]_vars => GroupInv'
  <2> SUFFICES ASSUME GroupInv, [Next]_vars PROVE GroupInv'
    OBVIOUS
  <2>1. CASE Next
    BY <2>1, TypeStep, ReferencesStep, ActivityStep, FlagStep, QueuesStep, WakeupStep,
       ClosingStep DEF GroupInv
  <2>2. CASE UNCHANGED vars
    BY <2>2, StutterInv
  <2> QED BY <2>1, <2>2
<1> QED BY <1>1, <1>2, PTL DEF Spec

(* Two exclusive sections of one key never overlap, although the group that *)
(* guards them may be dropped and made anew between them (Tasks.exclusive). *)
THEOREM MutualExclusionAlways == Spec => []MutualExclusion
<1>1. GroupInv => MutualExclusion
  BY DEF GroupInv
<1> QED BY <1>1, GroupInvariant, PTL

(* No call of exclusive or wait_idle awaits the event of its group while it *)
(* could proceed (_Group.notify).                                           *)
THEOREM NoLostWakeupAlways == Spec => []NoLostWakeup
<1>1. GroupInv => NoLostWakeup
  BY DEF GroupInv
<1> QED BY <1>1, GroupInvariant, PTL

(* Tasks.close returns only after every call has given its group back.      *)
THEOREM CloseIsFinalAlways == Spec => []CloseIsFinal
<1>1. GroupInv => CloseIsFinal
  BY DEF GroupInv
<1> QED BY <1>1, GroupInvariant, PTL
=============================================================================
