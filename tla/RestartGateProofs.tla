-------------------------- MODULE RestartGateProofs --------------------------
(* Theorems about RestartGate, for every finite set of turns and every      *)
(* number of boots.                                                         *)
EXTENDS RestartGate, FiniteSetTheorems, TLAPS

USE RestartAssumption

-----------------------------------------------------------------------------
(* The permits.                                                             *)

LEMMA OutstandingFinite == IsFiniteSet(Outstanding)
<1>1. IsFiniteSet({"root", "tool", "send"})
  <2>1. IsFiniteSet({"root"})
    BY FS_Singleton
  <2>2. IsFiniteSet({"root"} \cup {"tool"})
    BY <2>1, FS_AddElement
  <2>3. IsFiniteSet(({"root"} \cup {"tool"}) \cup {"send"})
    BY <2>2, FS_AddElement
  <2>4. {"root", "tool", "send"} = ({"root"} \cup {"tool"}) \cup {"send"}
    OBVIOUS
  <2> QED BY <2>3, <2>4
<1>2. IsFiniteSet(Turns \X {"root", "tool", "send"})
  BY <1>1, FS_Product
<1>3. Outstanding \subseteq Turns \X {"root", "tool", "send"}
  BY DEF Outstanding
<1> QED BY <1>2, <1>3, FS_Subset

(* What is out is counted: no permit out means no reply task and no effect. *)
LEMMA NothingOut ==
    ASSUME TypeOK, PermitsCounted
    PROVE  /\ permits = 0 <=> Outstanding = {}
           /\ Outstanding = {} => Roots = {} /\ \A t \in Turns : kids[t] = {}
           /\ \A t \in Turns : phase[t] \in {"running", "closing"} => permits # 0
           /\ \A t \in Turns, effect \in Effects : effect \in kids[t] => permits # 0
<1>1. permits = 0 <=> Outstanding = {}
  BY OutstandingFinite, FS_EmptySet DEF PermitsCounted
<1>2. \A t \in Turns : phase[t] \in {"running", "closing"} => <<t, "root">> \in Outstanding
  BY DEF Outstanding, Roots
<1>3. \A t \in Turns, effect \in Effects : effect \in kids[t] => <<t, effect>> \in Outstanding
  BY DEF Outstanding, Effects
<1>4. \A t \in Turns : kids[t] \subseteq Effects
  BY DEF TypeOK
<1> QED BY <1>1, <1>2, <1>3, <1>4 DEF Roots

(* While a permit is out nobody has seen `drained` and nothing is           *)
(* committed; with the gate open, neither.                                  *)
LEMMA NobodyWoken ==
    ASSUME TypeOK, Quiet, permits # 0 \/ accepting
    PROVE  woken = {} /\ ~committed
<1>1. CASE permits # 0
  BY <1>1 DEF Quiet
<1>2. CASE accepting
  <2>1. request = NoRequest
    BY <1>2 DEF Quiet
  <2>2. \A w \in Committers : ~Draining(w)
    BY <2>1 DEF Quiet, Draining, Committers
  <2>3. watcher.at # "returned" /\ settings # "done"
    BY <2>1 DEF Quiet
  <2> QED BY <2>2, <2>3 DEF Quiet, TypeOK
<1> QED BY <1>1, <1>2

LEMMA PermitTaken ==
    ASSUME TypeOK, PermitsCounted, TakePermit, life = "up", life' = "up", NEW p,
           p \notin Outstanding, Outstanding' = Outstanding \cup {p}
    PROVE  PermitsCounted' /\ permits' \in Nat /\ permits' # 0 /\ drained' = FALSE
<1>1. Cardinality(Outstanding') = Cardinality(Outstanding) + 1 /\ Cardinality(Outstanding) \in Nat
  BY OutstandingFinite, FS_AddElement, FS_CardinalityType
<1> QED BY <1>1 DEF PermitsCounted, TakePermit

LEMMA PermitGiven ==
    ASSUME TypeOK, PermitsCounted, GivePermit, life = "up", life' = "up", NEW p,
           p \in Outstanding, Outstanding' = Outstanding \ {p}
    PROVE  PermitsCounted' /\ permits' \in Nat /\ permits # 0 /\ drained' \in BOOLEAN
<1>1. Cardinality(Outstanding') = Cardinality(Outstanding) - 1
  BY OutstandingFinite, FS_RemoveElement
<1>2. Cardinality(Outstanding) \in Nat /\ Cardinality(Outstanding') \in Nat
  <2>1. IsFiniteSet(Outstanding')
    BY OutstandingFinite, FS_Subset
  <2> QED BY <2>1, OutstandingFinite, FS_CardinalityType
<1>3. permits = Cardinality(Outstanding) /\ permits # 0 /\ ~drained
  BY <1>1, <1>2 DEF PermitsCounted
<1>4. permits' = Cardinality(Outstanding')
  BY <1>1, <1>2, <1>3 DEF GivePermit
<1>5. drained' \in BOOLEAN /\ (drained' <=> permits' = 0)
  <2>1. drained' = (drained \/ permits = 1)
    BY DEF GivePermit
  <2>2. drained' = (permits = 1)
    BY <1>3, <2>1, Zenon
  <2>3. permits' = 0 <=> permits = 1
    BY <1>1, <1>2, <1>3, <1>4
  <2> QED BY <2>2, <2>3
<1> QED BY <1>2, <1>3, <1>4, <1>5 DEF PermitsCounted

-----------------------------------------------------------------------------
(* The turns.                                                               *)

(* Steps that neither take nor give a permit and leave the log as it is.    *)
LEMMA WantedSteps ==
    ASSUME GateInv, NEW t \in Turns,
           \/ Accept(t) \/ Retry(t) \/ (Start(t) /\ ~accepting)
           \/ \E how \in {"open", "complete", "abandoned"} : Finish(t, how)
    PROVE  GateInv'
<1>1. TypeOK /\ PermitsCounted /\ Quiet /\ TurnsClose /\ CommitsOrdered
  BY DEF GateInv
<1> USE DEF gateVars, commitVars, bootVars
<1>2. /\ UNCHANGED <<asked, sent, kids, claim, request, accepting, permits, drained, committed>>
      /\ UNCHANGED <<watcher, fresh, settings, woken, life, exit, ready, boot, sup, commits>>
  BY DEF Accept, Retry, Start, Finish
<1>3. TypeOK'
  <2>1. /\ phase' \in [Turns -> {"none", "wanted", "running", "closing", "done"}]
        /\ outcome' \in [Turns -> {"open", "complete", "abandoned"}]
        /\ parked' \in [Turns -> BOOLEAN]
    <3>1. CASE Accept(t) \/ Retry(t)
      BY <1>1, <3>1 DEF Accept, Retry, TypeOK
    <3>2. CASE Start(t) /\ ~accepting
      BY <1>1, <3>2 DEF Start, TypeOK
    <3>3. CASE \E how \in {"open", "complete", "abandoned"} : Finish(t, how)
      BY <1>1, <3>3 DEF Finish, TypeOK
    <3> QED BY <3>1, <3>2, <3>3
  <2> QED BY <1>1, <1>2, <2>1 DEF TypeOK
<1>4. Roots' = Roots
  BY <1>1 DEF Accept, Retry, Start, Finish, Roots, TypeOK
<1>5. PermitsCounted'
  BY <1>1, <1>2, <1>4 DEF PermitsCounted, Outstanding
<1>6. Quiet'
  BY <1>1, <1>2 DEF Quiet, Draining
<1>7. TurnsClose'
  <2>1. \/ outcome' = outcome /\ \A u \in Turns : phase[u] \in {"closing", "done"} /\ outcome[u] # "open" => phase'[u] = phase[u]
        \/ \E how : /\ outcome' = [outcome EXCEPT ![t] = how] /\ outcome[t] = "open"
                    /\ phase' = [phase EXCEPT ![t] = "closing"]
    <3>1. CASE Accept(t) \/ Retry(t) \/ (Start(t) /\ ~accepting)
      BY <1>1, <3>1 DEF Accept, Retry, Start, TypeOK
    <3>2. CASE \E how \in {"open", "complete", "abandoned"} : Finish(t, how)
      BY <1>1, <3>2 DEF Finish, TurnsClose
    <3> QED BY <3>1, <3>2
  <2>2. \A u \in Turns : outcome[u] # "open" => outcome'[u] = outcome[u]
    BY <1>1, <2>1 DEF TypeOK
  <2>3. \A u \in Turns : outcome'[u] # "open" => phase'[u] \in {"closing", "done"}
    BY <1>1, <2>1 DEF TypeOK, TurnsClose
  <2>4. watcher.at # "idle" => watcher.turn \in Turns
    BY <1>1 DEF Quiet
  <2> QED BY <1>1, <1>2, <2>2, <2>3, <2>4 DEF TurnsClose, RestartAfterDelivery
<1>8. CommitsOrdered'
  BY <1>1, <1>2 DEF CommitsOrdered, RestartsAccounted, CommitValid
<1> QED BY <1>3, <1>5, <1>6, <1>7, <1>8 DEF GateInv

(* Steps that take a permit: a new reply task behind an open gate, or an    *)
(* effect of one that still holds its own.                                  *)
LEMMA TakingSteps ==
    ASSUME GateInv, NEW t \in Turns,
           (Start(t) /\ accepting) \/ StartEffect(t) \/ StartSend(t)
    PROVE  GateInv'
<1>1. TypeOK /\ PermitsCounted /\ Quiet /\ TurnsClose /\ CommitsOrdered
  BY DEF GateInv
<1> USE DEF gateVars, commitVars, bootVars
<1>2. /\ TakePermit /\ life = "up"
      /\ UNCHANGED <<outcome, asked, claim, parked, request, accepting, committed>>
      /\ UNCHANGED <<watcher, fresh, settings, woken, life, exit, ready, boot, sup, commits>>
  BY DEF Start, StartEffect, StartSend, Child, Up
<1>3. permits # 0 \/ accepting
  BY <1>1, NothingOut DEF StartEffect, StartSend, Child
<1>4. woken = {} /\ ~committed
  BY <1>1, <1>3, NobodyWoken
<1>5. PICK p \in Turns \X {"root", "tool", "send"} :
            p \notin Outstanding /\ Outstanding' = Outstanding \cup {p}
  <2>1. CASE Start(t) /\ accepting
    <3>1. phase' = [phase EXCEPT ![t] = "running"] /\ UNCHANGED kids /\ phase[t] = "wanted"
      BY <2>1, <1>1 DEF Start, TypeOK
    <3>2. Roots' = Roots \cup {t} /\ t \notin Roots
      BY <1>1, <3>1 DEF Roots, TypeOK
    <3>3. <<t, "root">> \notin Outstanding /\ Outstanding' = Outstanding \cup {<<t, "root">>}
      BY <3>1, <3>2 DEF Outstanding
    <3> QED BY <3>3
  <2>2. ASSUME NEW e \in {"tool", "send"}, kids' = [kids EXCEPT ![t] = @ \cup {e}], e \notin kids[t],
               UNCHANGED phase
        PROVE  <<t, e>> \notin Outstanding /\ Outstanding' = Outstanding \cup {<<t, e>>}
    <3>1. Roots' = Roots /\ <<t, e>> \notin Outstanding
      BY <2>2 DEF Roots, Outstanding
    <3>2. \A u \in Turns, f \in {"tool", "send"} : f \in kids'[u] <=> (f \in kids[u] \/ (u = t /\ f = e))
      BY <1>1, <2>2 DEF TypeOK
    <3>3. ASSUME NEW q \in Turns \X {"root", "tool", "send"}
          PROVE  q \in Outstanding' <=> q \in Outstanding \/ q = <<t, e>>
      <4>1. CASE q[2] = "root"
        BY <3>1, <4>1 DEF Outstanding
      <4>2. CASE q[2] # "root"
        <5>1. q[1] \in Turns /\ q[2] \in {"tool", "send"} /\ q = <<q[1], q[2]>>
          BY <4>2
        <5>2. q \in Outstanding' <=> q[2] \in kids'[q[1]]
          BY <4>2 DEF Outstanding
        <5>3. q \in Outstanding <=> q[2] \in kids[q[1]]
          BY <4>2 DEF Outstanding
        <5>4. q = <<t, e>> <=> q[1] = t /\ q[2] = e
          BY <5>1
        <5> QED BY <3>2, <5>1, <5>2, <5>3, <5>4
      <4> QED BY <4>1, <4>2
    <3>4. Outstanding \subseteq Turns \X {"root", "tool", "send"}
            /\ Outstanding' \subseteq Turns \X {"root", "tool", "send"}
      BY DEF Outstanding
    <3>5. <<t, e>> \in Turns \X {"root", "tool", "send"}
      OBVIOUS
    <3>6. Outstanding' = Outstanding \cup {<<t, e>>}
      BY <3>3, <3>4, <3>5
    <3> QED BY <3>1, <3>6
  <2>3. CASE StartEffect(t)
    <3>1. kids' = [kids EXCEPT ![t] = @ \cup {"tool"}] /\ "tool" \notin kids[t] /\ UNCHANGED phase
      BY <2>3 DEF StartEffect, Child
    <3> QED BY <2>2, <3>1
  <2>4. CASE StartSend(t)
    <3>1. kids' = [kids EXCEPT ![t] = @ \cup {"send"}] /\ UNCHANGED phase
      BY <2>4 DEF StartSend, Child
    <3>2. "send" \notin kids[t]
      BY <1>1, <2>4 DEF StartSend, TurnsClose
    <3> QED BY <2>2, <3>1, <3>2
  <2> QED BY <2>1, <2>3, <2>4
<1>6. PermitsCounted' /\ permits' \in Nat /\ drained' = FALSE
  BY <1>1, <1>2, <1>5, PermitTaken
<1>7. TypeOK'
  <2>1. /\ phase' \in [Turns -> {"none", "wanted", "running", "closing", "done"}]
        /\ kids' \in [Turns -> SUBSET Effects]
        /\ sent' \in [Turns -> {"no", "sending", "delivered", "failed"}]
    BY <1>1 DEF Start, StartEffect, StartSend, Child, TypeOK, Effects
  <2>2. permits' \in Nat /\ drained' \in BOOLEAN
    BY <1>6
  <2>3. /\ UNCHANGED <<outcome, asked, claim, parked, request, accepting, committed>>
        /\ UNCHANGED <<watcher, fresh, settings, woken, life, exit, ready, boot, sup, commits>>
    BY <1>2
  <2> QED BY <1>1, <2>1, <2>2, <2>3 DEF TypeOK
<1>8. Quiet'
  BY <1>1, <1>2, <1>4 DEF Quiet
<1>9. TurnsClose'
  <2>1. \A u \in Turns : outcome[u] # "open" => phase'[u] = phase[u]
    BY <1>1 DEF Start, StartEffect, StartSend, Child, TypeOK, TurnsClose
  <2>2. \A u \in Turns : "send" \in kids'[u] => sent'[u] = "sending"
    BY <1>1 DEF Start, StartEffect, StartSend, Child, TypeOK, TurnsClose
  <2>3. \A u \in Turns : sent[u] = "delivered" => sent'[u] = "delivered"
    BY <1>1 DEF Start, StartEffect, StartSend, Child, TypeOK
  <2>4. watcher.at # "idle" => watcher.turn \in Turns
    BY <1>1 DEF Quiet
  <2> QED BY <1>1, <1>2, <2>1, <2>2, <2>3, <2>4 DEF TurnsClose, RestartAfterDelivery
<1>10. CommitsOrdered'
  BY <1>1, <1>2 DEF CommitsOrdered, RestartsAccounted, CommitValid
<1> QED BY <1>6, <1>7, <1>8, <1>9, <1>10 DEF GateInv

(* Steps that give a permit back; the last one wakes who waits for it.      *)
LEMMA GivingSteps ==
    ASSUME GateInv, NEW t \in Turns,
           TaskDone(t) \/ \E effect \in Effects : EffectDone(t, effect)
    PROVE  GateInv'
<1>1. TypeOK /\ PermitsCounted /\ Quiet /\ TurnsClose /\ CommitsOrdered
  BY DEF GateInv
<1> USE DEF bootVars
<1>2. /\ GivePermit /\ life = "up"
      /\ UNCHANGED <<outcome, asked, claim, parked, request, accepting, committed>>
      /\ UNCHANGED <<watcher, fresh, settings, life, exit, ready, boot, sup, commits>>
  BY DEF TaskDone, EffectDone, Up
<1>3. PICK p \in Outstanding : Outstanding' = Outstanding \ {p}
  <2>1. CASE TaskDone(t)
    <3>1. phase' = [phase EXCEPT ![t] = "done"] /\ UNCHANGED kids /\ phase[t] = "closing"
      BY <2>1 DEF TaskDone
    <3>2. Roots' = Roots \ {t} /\ t \in Roots
      BY <1>1, <3>1 DEF Roots, TypeOK
    <3>3. <<t, "root">> \in Outstanding /\ Outstanding' = Outstanding \ {<<t, "root">>}
      BY <3>1, <3>2 DEF Outstanding
    <3> QED BY <3>3
  <2>2. ASSUME NEW e \in Effects, EffectDone(t, e)
        PROVE  <<t, e>> \in Outstanding /\ Outstanding' = Outstanding \ {<<t, e>>}
    <3>1. kids' = [kids EXCEPT ![t] = @ \ {e}] /\ e \in kids[t] /\ UNCHANGED phase /\ e \in {"tool", "send"}
      BY <2>2 DEF EffectDone, Effects
    <3>2. Roots' = Roots /\ <<t, e>> \in Outstanding
      BY <3>1 DEF Roots, Outstanding
    <3>3. \A u \in Turns, f \in {"tool", "send"} : f \in kids'[u] <=> (f \in kids[u] /\ ~(u = t /\ f = e))
      BY <1>1, <3>1 DEF TypeOK
    <3>4. ASSUME NEW q \in Turns \X {"root", "tool", "send"}
          PROVE  q \in Outstanding' <=> q \in Outstanding /\ q # <<t, e>>
      <4>1. CASE q[2] = "root"
        BY <3>1, <3>2, <4>1 DEF Outstanding
      <4>2. CASE q[2] # "root"
        <5>1. q[1] \in Turns /\ q[2] \in {"tool", "send"} /\ q = <<q[1], q[2]>>
          BY <4>2
        <5>2. q \in Outstanding' <=> q[2] \in kids'[q[1]]
          BY <4>2 DEF Outstanding
        <5>3. q \in Outstanding <=> q[2] \in kids[q[1]]
          BY <4>2 DEF Outstanding
        <5>4. q = <<t, e>> <=> q[1] = t /\ q[2] = e
          BY <5>1
        <5> QED BY <3>3, <5>1, <5>2, <5>3, <5>4
      <4> QED BY <4>1, <4>2
    <3>5. Outstanding \subseteq Turns \X {"root", "tool", "send"}
            /\ Outstanding' \subseteq Turns \X {"root", "tool", "send"}
      BY DEF Outstanding
    <3>6. Outstanding' = Outstanding \ {<<t, e>>}
      BY <3>4, <3>5
    <3> QED BY <3>2, <3>6
  <2> QED BY <2>1, <2>2
<1>4. PermitsCounted' /\ permits' \in Nat /\ drained' \in BOOLEAN /\ permits # 0
  BY <1>1, <1>2, <1>3, PermitGiven
<1>5. woken = {} /\ ~committed
  BY <1>1, <1>4, NobodyWoken
<1>6. /\ woken' \subseteq Committers
      /\ \A w \in woken' : Draining(w)' /\ permits' = 0
  <2>1. woken' = {} \/ (woken' = {w \in Committers : Draining(w)} /\ permits = 1)
    BY <1>2, <1>5 DEF GivePermit
  <2>2. permits = 1 => permits' = 0
    BY <1>2 DEF GivePermit
  <2>3. \A w : Draining(w)' <=> Draining(w)
    BY <1>2 DEF Draining
  <2> QED BY <2>1, <2>2, <2>3
<1>7. TypeOK'
  <2>1. /\ phase' \in [Turns -> {"none", "wanted", "running", "closing", "done"}]
        /\ kids' \in [Turns -> SUBSET Effects]
        /\ sent' \in [Turns -> {"no", "sending", "delivered", "failed"}]
    <3>1. CASE TaskDone(t)
      BY <1>1, <3>1 DEF TaskDone, TypeOK
    <3>2. ASSUME NEW e \in Effects, EffectDone(t, e)
          PROVE  /\ UNCHANGED phase /\ kids' \in [Turns -> SUBSET Effects]
                 /\ sent' \in [Turns -> {"no", "sending", "delivered", "failed"}]
      BY <1>1, <3>2 DEF EffectDone, TypeOK
    <3> QED BY <1>1, <3>1, <3>2 DEF TypeOK
  <2>2. permits' \in Nat /\ drained' \in BOOLEAN /\ woken' \subseteq Committers
    BY <1>4, <1>6
  <2>3. /\ UNCHANGED <<outcome, asked, claim, parked, request, accepting, committed>>
        /\ UNCHANGED <<watcher, fresh, settings, life, exit, ready, boot, sup, commits>>
    BY <1>2
  <2> QED BY <1>1, <2>1, <2>2, <2>3 DEF TypeOK
<1>8. Quiet'
  BY <1>1, <1>2, <1>5, <1>6 DEF Quiet
<1>9. TurnsClose'
  <2>1. \A u \in Turns : outcome[u] # "open" => phase'[u] \in {"closing", "done"}
    BY <1>1 DEF TaskDone, EffectDone, TypeOK, TurnsClose
  <2>2. /\ \A u \in Turns : "send" \in kids'[u] => sent'[u] = "sending"
        /\ \A u \in Turns : sent[u] = "delivered" => sent'[u] = "delivered"
    <3>1. CASE TaskDone(t)
      BY <1>1, <3>1 DEF TaskDone, TurnsClose
    <3>2. ASSUME NEW e \in Effects, EffectDone(t, e)
          PROVE  /\ \A u \in Turns : "send" \in kids'[u] => sent'[u] = "sending"
                 /\ \A u \in Turns : sent[u] = "delivered" => sent'[u] = "delivered"
      <4>1. kids' = [kids EXCEPT ![t] = @ \ {e}] /\ e \in kids[t]
        BY <3>2 DEF EffectDone
      <4>2. CASE e = "send"
        <5>1. PICK s : sent' = [sent EXCEPT ![t] = s] /\ sent[t] = "sending"
          BY <1>1, <3>2, <4>1, <4>2 DEF EffectDone, TurnsClose
        <5> QED BY <1>1, <4>1, <4>2, <5>1 DEF TypeOK, TurnsClose
      <4>3. CASE e # "send"
        BY <1>1, <3>2, <4>1, <4>3 DEF EffectDone, TypeOK, TurnsClose
      <4> QED BY <4>2, <4>3
    <3> QED BY <3>1, <3>2
  <2>3. watcher.at # "idle" => watcher.turn \in Turns
    BY <1>1 DEF Quiet
  <2> QED BY <1>1, <1>2, <2>1, <2>2, <2>3 DEF TurnsClose, RestartAfterDelivery
<1>10. CommitsOrdered'
  BY <1>1, <1>2 DEF CommitsOrdered, RestartsAccounted, CommitValid
<1> QED BY <1>4, <1>7, <1>8, <1>9, <1>10 DEF GateInv

(* A request, and what happens to an Output without a permit.               *)
LEMMA LogSteps ==
    ASSUME GateInv, NEW t \in Turns,
           Ask(t) \/ SendLater(t) \/ Disconnect(t)
    PROVE  GateInv'
<1>1. TypeOK /\ PermitsCounted /\ Quiet /\ TurnsClose /\ CommitsOrdered
  BY DEF GateInv
<1> USE DEF gateVars, commitVars, bootVars
<1>2. /\ UNCHANGED <<outcome, phase, kids, parked, request, accepting, permits, drained, committed>>
      /\ UNCHANGED <<watcher, settings, woken, life, exit, ready, boot, sup, commits>>
  BY DEF Ask, SendLater, Disconnect
<1>3. /\ asked' \in [Turns -> BOOLEAN] /\ claim' \in [Turns -> BOOLEAN] /\ fresh' \subseteq Turns
      /\ sent' \in [Turns -> {"no", "sending", "delivered", "failed"}]
  <2>1. CASE Ask(t)
    <3>1. (t \in Programmatic /\ sent[t] # "failed") \in BOOLEAN
      OBVIOUS
    <3> QED BY <1>1, <2>1, <3>1 DEF Ask, TypeOK
  <2>2. CASE SendLater(t) \/ Disconnect(t)
    BY <1>1, <2>2 DEF SendLater, Disconnect, TypeOK
  <2> QED BY <2>1, <2>2
<1>4. TypeOK'
  BY <1>1, <1>2, <1>3 DEF TypeOK
<1>5. PermitsCounted'
  BY <1>1, <1>2 DEF PermitsCounted, Outstanding, Roots
<1>6. Quiet'
  BY <1>1, <1>2 DEF Quiet, Draining
<1>7. watcher.at # "idle" => watcher.turn \in Turns
  BY <1>1 DEF Quiet
<1>8. TurnsClose'
  <2>1. \A u \in Turns : sent[u] \in {"delivered", "sending"} => sent'[u] = sent[u]
    BY <1>1 DEF Ask, SendLater, Disconnect, TypeOK
  <2> QED BY <1>1, <1>2, <1>7, <2>1 DEF TurnsClose, RestartAfterDelivery
<1>9. CommitsOrdered'
  <2>1. CASE Ask(t)
    <3>1. ~asked[t] /\ fresh' = fresh \cup {t} /\ asked'[t] /\ \A u \in Turns : asked[u] => asked'[u]
      BY <1>1, <2>1 DEF Ask, TypeOK
    <3>2. fresh \subseteq Turns
      BY <1>1 DEF TypeOK
    <3> QED BY <1>1, <1>2, <1>7, <3>1, <3>2 DEF CommitsOrdered, RestartsAccounted, CommitValid
  <2>2. CASE SendLater(t) \/ Disconnect(t)
    <3>1. UNCHANGED <<asked, fresh>>
      BY <2>2 DEF SendLater, Disconnect
    <3> QED BY <1>1, <1>2, <3>1 DEF CommitsOrdered, RestartsAccounted, CommitValid
  <2> QED BY <2>1, <2>2
<1> QED BY <1>4, <1>5, <1>6, <1>8, <1>9 DEF GateInv

-----------------------------------------------------------------------------
(* The watcher.                                                             *)

(* A request that is pending is the only one, and nothing is committed.     *)
LEMMA RequestPending ==
    ASSUME GateInv, watcher.at \in {"turn", "delivery", "drain"}
    PROVE  /\ request = watcher.turn /\ watcher.turn \in Turns /\ ~committed /\ ~accepting
           /\ settings \in {"idle", "failed"} /\ woken \subseteq {"watcher"}
           /\ life # "down" => ~CommitValid
<1>1. TypeOK /\ Quiet /\ CommitsOrdered
  BY DEF GateInv
<1>2. request = watcher.turn /\ watcher.turn \in Turns /\ ~committed /\ ~accepting
  BY <1>1 DEF Quiet
<1>3. request # Settings
  BY <1>2
<1>4. settings \in {"idle", "failed"}
  BY <1>1, <1>3 DEF Quiet, TypeOK
<1>5. woken \subseteq {"watcher"}
  BY <1>1, <1>4 DEF Quiet, Draining, TypeOK, Committers
<1>6. life # "down" => ~CommitValid
  BY <1>1, <1>2 DEF CommitsOrdered
<1> QED BY <1>2, <1>4, <1>5, <1>6

(* The gate is given up by the request it was closed for.                   *)
LEMMA Reopened ==
    ASSUME GateInv, watcher.at \in {"turn", "delivery", "drain"}, Abort(watcher.turn),
           watcher' = Idle, woken' = woken \ {"watcher"}, claim' \in [Turns -> BOOLEAN],
           exit' \in {"none", "restart", "stopped", "error"}, life # "down",
           UNCHANGED <<outcome, asked, sent, phase, kids, fresh, settings>>,
           UNCHANGED <<life, ready, boot, sup, commits>>
    PROVE  GateInv'
<1>1. TypeOK /\ PermitsCounted /\ Quiet /\ TurnsClose /\ CommitsOrdered
  BY DEF GateInv
<1>2. /\ request = watcher.turn /\ watcher.turn \in Turns /\ ~committed
      /\ settings \in {"idle", "failed"} /\ woken \subseteq {"watcher"} /\ ~CommitValid
  BY RequestPending
<1>3. /\ request' = NoRequest /\ accepting' = TRUE /\ committed' = FALSE
      /\ parked' = [t \in Turns |-> FALSE] /\ UNCHANGED <<permits, drained>>
  BY <1>2 DEF Abort
<1>4. Idle \in [at : {"idle", "turn", "delivery", "drain", "returned"}, turn : Turns \cup {NoRequest}]
        /\ Idle.at = "idle"
  BY DEF Idle
<1>5. woken' = {}
  BY <1>2
<1>6. TypeOK'
  BY <1>1, <1>3, <1>4, <1>5 DEF TypeOK
<1>7. PermitsCounted'
  BY <1>1, <1>3 DEF PermitsCounted, Outstanding, Roots
<1>8. Quiet'
  BY <1>2, <1>3, <1>4, <1>5 DEF Quiet
<1>9. TurnsClose'
  BY <1>1, <1>4 DEF TurnsClose, RestartAfterDelivery
<1>10. CommitsOrdered'
  BY <1>1, <1>2, <1>4 DEF CommitsOrdered, RestartsAccounted, CommitValid
<1> QED BY <1>6, <1>7, <1>8, <1>9, <1>10 DEF GateInv

LEMMA RejectStep ==
    ASSUME GateInv, Up, watcher.at \in {"turn", "delivery", "drain"}, Reject
    PROVE  GateInv'
<1>1. TypeOK
  BY DEF GateInv
<1>2. /\ Abort(watcher.turn) /\ watcher' = Idle /\ woken' = woken \ {"watcher"}
      /\ UNCHANGED <<outcome, asked, sent, phase, kids, fresh, settings>>
      /\ UNCHANGED <<life, exit, ready, boot, sup, commits>>
  BY DEF Reject, bootVars
<1>3. claim' \in [Turns -> BOOLEAN]
  <2>1. \A t \in Turns : (claim[t] /\ t # watcher.turn) \in BOOLEAN
    OBVIOUS
  <2> QED BY <2>1 DEF Reject
<1>4. life # "down" /\ exit' \in {"none", "restart", "stopped", "error"}
  BY <1>1, <1>2 DEF Up, TypeOK
<1> QED BY <1>2, <1>3, <1>4, Reopened

LEMMA NoticeStep ==
    ASSUME GateInv, NEW t \in Turns, Notice(t)
    PROVE  GateInv'
<1>1. TypeOK /\ PermitsCounted /\ Quiet /\ TurnsClose /\ CommitsOrdered
  BY DEF GateInv
<1> USE DEF gateVars, bootVars
<1>2. /\ UNCHANGED <<outcome, asked, sent, phase, kids, settings, woken>>
      /\ UNCHANGED <<permits, drained, life, exit, ready, boot, sup, commits>>
      /\ fresh' = fresh \ {t} /\ t \in fresh /\ watcher.at = "idle" /\ life = "up"
  BY DEF Notice, Close, Abort, Up
<1>3. PermitsCounted'
  BY <1>1, <1>2 DEF PermitsCounted, Outstanding, Roots
<1>4. CASE request = NoRequest
  <2>1. /\ request' = t /\ accepting' = FALSE /\ UNCHANGED <<claim, parked, committed>>
        /\ watcher' = [at |-> "turn", turn |-> t]
    BY <1>4 DEF Notice, Close
  <2>2. watcher'.at = "turn" /\ watcher'.turn = t
        /\ watcher' \in [at : {"idle", "turn", "delivery", "drain", "returned"}, turn : Turns \cup {NoRequest}]
    BY <2>1
  <2>3. woken = {} /\ ~committed /\ accepting /\ settings \in {"idle", "failed"}
    <3>1. accepting /\ settings \in {"idle", "failed"}
      BY <1>1, <1>4 DEF Quiet, TypeOK
    <3> QED BY <1>1, <3>1, NobodyWoken
  <2>4. TypeOK'
    BY <1>1, <1>2, <2>1, <2>2 DEF TypeOK
  <2>5. Quiet'
    BY <1>1, <1>2, <2>1, <2>2, <2>3 DEF Quiet
  <2>6. TurnsClose'
    BY <1>1, <1>2, <2>2 DEF TurnsClose, RestartAfterDelivery
  <2>7. CommitsOrdered'
    <3>1. asked[t] /\ \A c \in commits : c.id # t
      BY <1>1, <1>2 DEF CommitsOrdered
    <3> QED BY <1>1, <1>2, <2>1, <2>2, <3>1 DEF CommitsOrdered, RestartsAccounted, CommitValid
  <2> QED BY <1>3, <2>4, <2>5, <2>6, <2>7 DEF GateInv
<1>5. CASE request # NoRequest /\ request # t
  <2>1. /\ claim' = [claim EXCEPT ![t] = FALSE]
        /\ UNCHANGED <<request, accepting, committed, parked, watcher>>
    BY <1>5 DEF Notice, Abort
  <2>2. TypeOK'
    BY <1>1, <1>2, <2>1 DEF TypeOK
  <2>3. Quiet'
    BY <1>1, <1>2, <2>1 DEF Quiet, Draining
  <2>4. TurnsClose'
    BY <1>1, <1>2, <2>1 DEF TurnsClose, RestartAfterDelivery
  <2>5. CommitsOrdered'
    BY <1>1, <1>2, <2>1 DEF CommitsOrdered, RestartsAccounted, CommitValid
  <2> QED BY <1>3, <2>2, <2>3, <2>4, <2>5 DEF GateInv
<1>6. CASE request = t
  <2>1. t # NoRequest /\ t # Settings
    BY RestartAssumption
  <2>2. /\ claim' = [claim EXCEPT ![t] = FALSE] /\ UNCHANGED watcher
        /\ request' = NoRequest /\ accepting' = TRUE /\ committed' = FALSE
        /\ parked' = [u \in Turns |-> FALSE]
    BY <1>6, <2>1 DEF Notice, Abort
  <2>3. settings \in {"idle", "failed"} /\ woken = {} /\ ~committed
    <3>1. settings \in {"idle", "failed"}
      BY <1>1, <1>6, <2>1 DEF Quiet, TypeOK
    <3>2. woken = {}
      BY <1>1, <1>2, <3>1 DEF Quiet, Draining, TypeOK, Committers
    <3> QED BY <1>1, <1>2, <3>1, <3>2 DEF Quiet
  <2>4. TypeOK'
    BY <1>1, <1>2, <2>2 DEF TypeOK
  <2>5. Quiet'
    BY <1>1, <1>2, <2>2, <2>3 DEF Quiet
  <2>6. TurnsClose'
    BY <1>1, <1>2, <2>2 DEF TurnsClose, RestartAfterDelivery
  <2>7. CommitsOrdered'
    BY <1>1, <1>2, <2>2, <2>3 DEF CommitsOrdered, RestartsAccounted, CommitValid
  <2> QED BY <1>3, <2>4, <2>5, <2>6, <2>7 DEF GateInv
<1> QED BY <1>4, <1>5, <1>6

(* The request goes on to the next of its waits.                            *)
LEMMA WatcherGoesOn ==
    ASSUME GateInv, Up, NEW at \in {"delivery", "drain"},
           watcher.at \in {"turn", "delivery", "drain"},
           watcher' = [watcher EXCEPT !.at = at],
           outcome[watcher.turn] = "complete",
           at = "drain" => sent[watcher.turn] = "delivered",
           watcher.at # "drain",
           woken' = IF at = "drain" /\ drained THEN woken \cup {"watcher"} ELSE woken,
           UNCHANGED <<outcome, asked, sent, phase, kids, claim, parked>>,
           UNCHANGED <<gateVars, fresh, settings, bootVars>>
    PROVE  GateInv'
<1>1. TypeOK /\ PermitsCounted /\ Quiet /\ TurnsClose /\ CommitsOrdered
  BY DEF GateInv
<1>2. UNCHANGED <<request, accepting, permits, drained, committed, life, exit, ready, boot, sup, commits>>
  BY DEF gateVars, bootVars
<1>3. /\ watcher'.at = at /\ watcher'.turn = watcher.turn
      /\ watcher' \in [at : {"idle", "turn", "delivery", "drain", "returned"}, turn : Turns \cup {NoRequest}]
  BY <1>1 DEF TypeOK
<1>4. /\ request = watcher.turn /\ watcher.turn \in Turns /\ ~committed
      /\ settings \in {"idle", "failed"} /\ woken \subseteq {"watcher"}
  BY RequestPending
<1>5. woken = {}
  BY <1>1, <1>4 DEF Quiet, Draining
<1>6. woken' \subseteq {"watcher"} /\ (woken' # {} => at = "drain" /\ permits = 0)
  BY <1>1, <1>5 DEF PermitsCounted
<1>7. TypeOK'
  BY <1>1, <1>2, <1>3, <1>6 DEF TypeOK, Committers
<1>8. PermitsCounted'
  BY <1>1, <1>2 DEF PermitsCounted, Outstanding, Roots
<1>9. Quiet'
  <2>1. \A w \in woken' : Draining(w)' /\ permits' = 0
    BY <1>2, <1>3, <1>6 DEF Draining
  <2> QED BY <1>1, <1>2, <1>3, <1>4, <2>1 DEF Quiet
<1>10. TurnsClose'
  BY <1>1, <1>2, <1>3 DEF TurnsClose, RestartAfterDelivery
<1>11. CommitsOrdered'
  BY <1>1, <1>2, <1>3 DEF CommitsOrdered, RestartsAccounted, CommitValid
<1> QED BY <1>7, <1>8, <1>9, <1>10, <1>11 DEF GateInv

LEMMA WatchSteps ==
    ASSUME GateInv, TurnClosed \/ OutputArrived \/ WatchTimeout
    PROVE  GateInv'
<1>1. Up /\ watcher.at \in {"turn", "delivery", "drain"}
  BY DEF TurnClosed, OutputArrived, WatchTimeout
<1>2. CASE TurnClosed /\ ~Reject
  BY <1>1, <1>2, WatcherGoesOn DEF TurnClosed, turnVars
<1>3. CASE OutputArrived /\ ~Reject
  <2>1. outcome[watcher.turn] = "complete"
    BY <1>3 DEF OutputArrived, GateInv, TurnsClose
  <2> QED BY <1>1, <1>3, <2>1, WatcherGoesOn DEF OutputArrived, turnVars
<1>4. CASE Reject
  BY <1>1, <1>4, RejectStep
<1> QED BY <1>2, <1>3, <1>4 DEF WatchTimeout

(* A commit frame is the first of its boot, and of its request.             *)
LEMMA FrameWritten ==
    ASSUME GateInv, NEW id \in Turns \cup {Settings}, WriteFrame(id), life # "down", ~committed,
           committed' = TRUE,
           id \in Turns => /\ asked[id] /\ id \notin fresh /\ \A c \in commits : c.id # id
                           /\ outcome[id] = "complete" /\ sent[id] = "delivered",
           UNCHANGED <<outcome, asked, sent, fresh, boot, life>>
    PROVE  /\ commits' \subseteq [boot : 1..MaxBoots, id : Turns \cup {Settings}]
           /\ exit' \in {"none", "restart", "stopped", "error"}
           /\ RestartAfterDelivery' /\ RestartsAccounted'
           /\ \A c \in commits' : c.boot <= boot'
           /\ CommitValid' => life' = "down" \/ committed'
           /\ \A t \in fresh' : asked'[t]
           /\ \A c \in commits' : c.id \in Turns => asked'[c.id] /\ c.id \notin fresh'
<1>1. TypeOK /\ TurnsClose /\ CommitsOrdered
  BY DEF GateInv
<1> DEFINE c0 == [boot |-> boot, id |-> id]
<1>2. commits' = commits \cup {c0} /\ c0.boot = boot /\ c0.id = id
  BY DEF WriteFrame
<1>3. boot \in 1..MaxBoots /\ commits \subseteq [boot : 1..MaxBoots, id : Turns \cup {Settings}]
  BY <1>1 DEF TypeOK
<1>4. c0 \in [boot : 1..MaxBoots, id : Turns \cup {Settings}]
  BY <1>3
<1> HIDE DEF c0
<1>5. \A c \in commits : c.boot # boot /\ (c.id = id => id \notin Turns)
  BY <1>1 DEF CommitsOrdered, CommitValid
<1>6. exit' \in {"none", "restart", "stopped", "error"}
  BY <1>1 DEF WriteFrame, TypeOK
<1>7. RestartsAccounted'
  <2>1. \A b \in 1..(boot' - 1) : \E c \in commits' : c.boot = b
    BY <1>1, <1>2 DEF CommitsOrdered, RestartsAccounted
  <2>2. ASSUME NEW c \in commits', NEW d \in commits', c.boot = d.boot \/ (c.id = d.id /\ c.id \in Turns)
        PROVE  c = d
    <3>1. CASE c \in commits /\ d \in commits
      BY <1>1, <2>2, <3>1 DEF CommitsOrdered, RestartsAccounted
    <3>2. CASE c = c0 /\ d = c0
      BY <3>2
    <3>3. CASE (c \in commits /\ d = c0) \/ (c = c0 /\ d \in commits)
      BY <1>2, <1>5, <2>2, <3>3
    <3> QED BY <1>2, <3>1, <3>2, <3>3
  <2> QED BY <2>1, <2>2 DEF RestartsAccounted
<1>8. RestartAfterDelivery'
  BY <1>1, <1>2 DEF TurnsClose, RestartAfterDelivery
<1>9. \A c \in commits' : c.boot <= boot'
  BY <1>1, <1>2, <1>3 DEF CommitsOrdered
<1>10. /\ \A t \in fresh' : asked'[t]
       /\ \A c \in commits' : c.id \in Turns => asked'[c.id] /\ c.id \notin fresh'
  BY <1>1, <1>2 DEF CommitsOrdered
<1> QED BY <1>2, <1>3, <1>4, <1>6, <1>7, <1>8, <1>9, <1>10

LEMMA WatchCommitStep ==
    ASSUME GateInv, WatchCommit
    PROVE  GateInv'
<1>1. TypeOK /\ PermitsCounted /\ Quiet /\ TurnsClose /\ CommitsOrdered
  BY DEF GateInv
<1>2. life = "up" /\ watcher.at = "drain" /\ "watcher" \in woken
  BY DEF WatchCommit, Up
<1>3. /\ request = watcher.turn /\ watcher.turn \in Turns /\ ~committed /\ ~accepting
      /\ settings \in {"idle", "failed"} /\ woken \subseteq {"watcher"} /\ ~CommitValid
  BY <1>2, RequestPending
<1>4. permits = 0
  BY <1>1, <1>2 DEF Quiet
<1>5. claim' = [claim EXCEPT ![watcher.turn] = FALSE] /\ claim' \in [Turns -> BOOLEAN]
  BY <1>1 DEF WatchCommit, TypeOK
<1>6. CASE WriteFrame(watcher.turn) /\ committed' = TRUE
  <2>1. /\ watcher' = [watcher EXCEPT !.at = "returned"] /\ woken' = {}
        /\ UNCHANGED <<outcome, asked, sent, phase, kids, parked, request, accepting, permits>>
        /\ UNCHANGED <<drained, fresh, settings, life, ready, boot, sup>>
    BY <1>2, <1>3, <1>6 DEF WatchCommit, Abort
  <2>2. /\ watcher'.at = "returned" /\ watcher'.turn = watcher.turn
        /\ watcher' \in [at : {"idle", "turn", "delivery", "drain", "returned"}, turn : Turns \cup {NoRequest}]
    BY <1>1, <2>1 DEF TypeOK
  <2>3. /\ asked[watcher.turn] /\ watcher.turn \notin fresh /\ \A c \in commits : c.id # watcher.turn
        /\ outcome[watcher.turn] = "complete" /\ sent[watcher.turn] = "delivered"
    BY <1>1, <1>2 DEF CommitsOrdered, TurnsClose
  <2>4. /\ commits' \subseteq [boot : 1..MaxBoots, id : Turns \cup {Settings}]
        /\ exit' \in {"none", "restart", "stopped", "error"}
        /\ RestartAfterDelivery' /\ RestartsAccounted'
        /\ \A c \in commits' : c.boot <= boot'
        /\ CommitValid' => life' = "down" \/ committed'
        /\ \A t \in fresh' : asked'[t]
        /\ \A c \in commits' : c.id \in Turns => asked'[c.id] /\ c.id \notin fresh'
    BY <1>2, <1>3, <1>6, <2>1, <2>3, FrameWritten
  <2>5. TypeOK'
    BY <1>1, <1>5, <1>6, <2>1, <2>2, <2>4 DEF TypeOK
  <2>6. PermitsCounted'
    BY <1>1, <2>1 DEF PermitsCounted, Outstanding, Roots
  <2>7. Quiet'
    BY <1>1, <1>3, <1>4, <1>6, <2>1, <2>2 DEF Quiet
  <2>8. TurnsClose'
    BY <1>1, <2>1, <2>2, <2>3, <2>4 DEF TurnsClose
  <2>9. CommitsOrdered'
    BY <2>1, <2>2, <2>3, <2>4 DEF CommitsOrdered
  <2> QED BY <2>5, <2>6, <2>7, <2>8, <2>9 DEF GateInv
<1>7. CASE ~(WriteFrame(watcher.turn) /\ committed' = TRUE)
  BY <1>2, <1>5, <1>7, Reopened DEF WatchCommit
<1> QED BY <1>6, <1>7

-----------------------------------------------------------------------------
(* The settings restart.                                                    *)

LEMMA SettingsPrepareStep ==
    ASSUME GateInv, SettingsPrepare
    PROVE  GateInv'
<1>1. TypeOK /\ PermitsCounted /\ Quiet /\ TurnsClose /\ CommitsOrdered
  BY DEF GateInv
<1> USE DEF turnVars, gateVars
<1>2. /\ UNCHANGED <<outcome, asked, sent, phase, kids, claim, parked>>
      /\ UNCHANGED <<permits, drained, committed, watcher, fresh, life, ready, boot, sup, commits>>
      /\ settings = "idle"
  BY DEF SettingsPrepare, Close
<1>3. PermitsCounted'
  BY <1>1, <1>2 DEF PermitsCounted, Outstanding, Roots
<1>4. TurnsClose' /\ CommitsOrdered'
  BY <1>1, <1>2 DEF TurnsClose, RestartAfterDelivery, CommitsOrdered, RestartsAccounted, CommitValid
<1>5. CASE request = NoRequest
  <2>1. /\ request' = Settings /\ accepting' = FALSE /\ settings' = "drain" /\ UNCHANGED exit
        /\ woken' = IF drained THEN woken \cup {"settings"} ELSE woken
    BY <1>5 DEF SettingsPrepare, Close
  <2>2. woken = {} /\ ~committed /\ watcher.at = "idle"
    <3>1. accepting /\ watcher.at = "idle"
      BY <1>1, <1>5 DEF Quiet, TypeOK
    <3> QED BY <1>1, <3>1, NobodyWoken
  <2>3. woken' \subseteq {"settings"} /\ (woken' # {} => permits = 0)
    BY <1>1, <2>1, <2>2 DEF PermitsCounted
  <2>4. TypeOK'
    <3>1. request' \in Turns \cup {Settings, NoRequest} /\ accepting' \in BOOLEAN
          /\ settings' \in {"idle", "drain", "done", "failed"} /\ woken' \subseteq Committers
      BY <2>1, <2>3 DEF Committers
    <3>2. UNCHANGED exit
      BY <2>1
    <3> QED BY <1>1, <1>2, <3>1, <3>2 DEF TypeOK
  <2>5. Quiet'
    <3>1. \A w \in woken' : Draining(w)' /\ permits' = 0
      BY <1>2, <2>1, <2>3 DEF Draining
    <3> QED BY <1>1, <1>2, <2>1, <2>2, <3>1 DEF Quiet
  <2> QED BY <1>3, <1>4, <2>4, <2>5 DEF GateInv
<1>6. CASE request # NoRequest
  <2>1. /\ settings' = "failed" /\ exit' = "error" /\ UNCHANGED <<request, accepting, woken>>
    BY <1>6 DEF SettingsPrepare
  <2>2. TypeOK'
    BY <1>1, <1>2, <2>1 DEF TypeOK
  <2>3. Quiet'
    BY <1>1, <1>2, <2>1 DEF Quiet, Draining
  <2> QED BY <1>3, <1>4, <2>2, <2>3 DEF GateInv
<1> QED BY <1>5, <1>6

LEMMA SettingsSteps ==
    ASSUME GateInv, SettingsStep
    PROVE  GateInv'
<1>1. TypeOK /\ PermitsCounted /\ Quiet /\ TurnsClose /\ CommitsOrdered
  BY DEF GateInv
<1>2. life # "down" /\ settings = "drain" /\ woken' = woken \ {"settings"}
  BY DEF SettingsStep, SettingsCommit, SettingsFail
<1>3. /\ request = Settings /\ ~committed /\ ~accepting
      /\ watcher.at = "idle" /\ woken \subseteq {"settings"} /\ ~CommitValid
  <2>1. request = Settings /\ ~committed /\ ~accepting
    BY <1>1, <1>2 DEF Quiet
  <2>2. watcher.at = "idle"
    BY <1>1, <2>1 DEF Quiet, TypeOK
  <2>3. woken \subseteq {"settings"}
    BY <1>1, <2>2 DEF Quiet, Draining, TypeOK, Committers
  <2>4. ~CommitValid
    BY <1>1, <1>2, <2>1 DEF CommitsOrdered
  <2> QED BY <2>1, <2>2, <2>3, <2>4
<1>4. CASE SettingsCommit
  <2>1. /\ WriteFrame(Settings) /\ committed' = TRUE /\ settings' = "done" /\ woken' = {} /\ permits = 0
        /\ UNCHANGED <<outcome, asked, sent, phase, kids, claim, parked, request, accepting, permits>>
        /\ UNCHANGED <<drained, watcher, fresh, life, ready, boot, sup>>
    BY <1>1, <1>3, <1>4 DEF SettingsCommit, Quiet, turnVars
  <2>2. /\ commits' \subseteq [boot : 1..MaxBoots, id : Turns \cup {Settings}]
        /\ exit' \in {"none", "restart", "stopped", "error"}
        /\ RestartAfterDelivery' /\ RestartsAccounted'
        /\ \A c \in commits' : c.boot <= boot'
        /\ CommitValid' => life' = "down" \/ committed'
        /\ \A t \in fresh' : asked'[t]
        /\ \A c \in commits' : c.id \in Turns => asked'[c.id] /\ c.id \notin fresh'
    BY <1>2, <1>3, <2>1, FrameWritten
  <2>3. TypeOK'
    BY <1>1, <2>1, <2>2 DEF TypeOK
  <2>4. PermitsCounted'
    BY <1>1, <2>1 DEF PermitsCounted, Outstanding, Roots
  <2>5. Quiet'
    BY <1>1, <1>3, <2>1 DEF Quiet
  <2>6. TurnsClose'
    BY <1>1, <1>3, <2>1, <2>2 DEF TurnsClose
  <2>7. CommitsOrdered'
    BY <1>3, <2>1, <2>2 DEF CommitsOrdered
  <2> QED BY <2>3, <2>4, <2>5, <2>6, <2>7 DEF GateInv
<1>5. CASE SettingsFail
  <2>1. /\ request' = NoRequest /\ accepting' = TRUE /\ committed' = FALSE
        /\ parked' = [t \in Turns |-> FALSE] /\ UNCHANGED <<permits, drained>>
        /\ settings' = "failed" /\ exit' = "error" /\ woken' = {}
        /\ UNCHANGED <<outcome, asked, sent, phase, kids, claim, watcher, fresh>>
        /\ UNCHANGED <<life, ready, boot, sup, commits>>
    BY <1>3, <1>5 DEF SettingsFail, Abort
  <2>2. TypeOK'
    BY <1>1, <2>1 DEF TypeOK
  <2>3. PermitsCounted'
    BY <1>1, <2>1 DEF PermitsCounted, Outstanding, Roots
  <2>4. Quiet'
    BY <1>3, <2>1 DEF Quiet
  <2>5. TurnsClose'
    BY <1>1, <1>3, <2>1 DEF TurnsClose, RestartAfterDelivery
  <2>6. CommitsOrdered'
    BY <1>1, <1>3, <2>1 DEF CommitsOrdered, RestartsAccounted, CommitValid
  <2> QED BY <2>2, <2>3, <2>4, <2>5, <2>6 DEF GateInv
<1> QED BY <1>4, <1>5 DEF SettingsStep

-----------------------------------------------------------------------------
(* The process and its supervisor.                                          *)

LEMMA ProcessSteps ==
    ASSUME GateInv, RuntimeStarted \/ MarkReady \/ StopSignal \/ SupervisorReturns
    PROVE  GateInv'
<1>1. TypeOK /\ PermitsCounted /\ Quiet /\ TurnsClose /\ CommitsOrdered
  BY DEF GateInv
<1>2. /\ UNCHANGED <<outcome, asked, sent, phase, kids, claim, parked, request, accepting, permits>>
      /\ UNCHANGED <<drained, committed, watcher, fresh, settings, woken, boot, commits>>
  BY DEF RuntimeStarted, MarkReady, StopSignal, SupervisorReturns, turnVars, gateVars, commitVars
<1>3. /\ exit' \in {"none", "restart", "stopped", "error"} /\ ready' \in BOOLEAN
      /\ sup' \in {"running", "returned"}
      /\ life' = life \/ (life = "starting" /\ life' = "up")
  BY <1>1 DEF RuntimeStarted, MarkReady, StopSignal, SupervisorReturns, TypeOK
<1>4. TypeOK'
  BY <1>1, <1>2, <1>3 DEF TypeOK
<1>5. PermitsCounted'
  BY <1>1, <1>2, <1>3 DEF PermitsCounted, Outstanding, Roots
<1>6. Quiet'
  BY <1>1, <1>2 DEF Quiet, Draining
<1>7. TurnsClose' /\ CommitsOrdered'
  BY <1>1, <1>2, <1>3 DEF TurnsClose, RestartAfterDelivery, CommitsOrdered, RestartsAccounted, CommitValid
<1> QED BY <1>4, <1>5, <1>6, <1>7 DEF GateInv

(* The end of a process gives every permit back and leaves the log, the     *)
(* receipts and the commits.                                                *)
LEMMA EndSteps ==
    ASSUME GateInv, ServeEnds \/ Die
    PROVE  GateInv'
<1>1. TypeOK /\ PermitsCounted /\ Quiet /\ TurnsClose /\ CommitsOrdered
  BY DEF GateInv
<1>2. ProcessEnds /\ exit' \in {"none", "restart", "stopped", "error"}
  BY <1>1 DEF ServeEnds, Die, TypeOK
<1>3. /\ life' = "down" /\ kids' = [t \in Turns |-> {}]
      /\ claim' = [t \in Turns |-> FALSE] /\ parked' = [t \in Turns |-> FALSE]
      /\ request' = NoRequest /\ accepting' = TRUE
      /\ permits' = 0 /\ drained' = TRUE /\ committed' = FALSE
      /\ watcher' = Idle /\ fresh' = {} /\ settings' = "idle" /\ woken' = {}
      /\ UNCHANGED <<outcome, asked, ready, boot, sup, commits>>
  BY <1>2 DEF ProcessEnds
<1>4. Idle \in [at : {"idle", "turn", "delivery", "drain", "returned"}, turn : Turns \cup {NoRequest}]
        /\ Idle.at = "idle"
  BY DEF Idle
<1>5. /\ phase' = [t \in Turns |-> phase'[t]]
      /\ \A t \in Turns : /\ phase'[t] \in {"none", "wanted", "done"}
                          /\ phase[t] \in {"closing", "done"} => phase'[t] = "done"
  <2>1. ASSUME NEW t \in Turns
        PROVE  /\ phase'[t] \in {"none", "wanted", "done"}
               /\ phase[t] \in {"closing", "done"} => phase'[t] = "done"
    <3>1. CASE phase[t] = "running"
      BY <1>2, <3>1 DEF ProcessEnds
    <3>2. CASE phase[t] = "closing"
      BY <1>2, <3>2 DEF ProcessEnds
    <3>3. CASE phase[t] \notin {"running", "closing"}
      BY <1>1, <1>2, <3>3 DEF ProcessEnds, TypeOK
    <3> QED BY <3>1, <3>2, <3>3
  <2>2. phase' = [t \in Turns |-> phase'[t]]
    BY <1>2 DEF ProcessEnds
  <2> QED BY <2>1, <2>2
<1>6. /\ sent' \in [Turns -> {"no", "sending", "delivered", "failed"}]
      /\ \A t \in Turns : sent[t] = "delivered" => sent'[t] = "delivered"
  BY <1>1, <1>2 DEF ProcessEnds, TypeOK
<1>7. phase' \in [Turns -> {"none", "wanted", "running", "closing", "done"}]
  BY <1>5
<1>8. TypeOK'
  BY <1>1, <1>2, <1>3, <1>4, <1>6, <1>7 DEF TypeOK
<1>9. PermitsCounted'
  <2>1. Outstanding' = {}
    BY <1>3, <1>5 DEF Outstanding, Roots
  <2> QED BY <1>3, <2>1, FS_EmptySet DEF PermitsCounted
<1>10. Quiet'
  BY <1>3, <1>4 DEF Quiet
<1>11. TurnsClose'
  BY <1>1, <1>3, <1>4, <1>5, <1>6 DEF TurnsClose, RestartAfterDelivery, TypeOK
<1>12. CommitsOrdered'
  BY <1>1, <1>3, <1>4 DEF CommitsOrdered, RestartsAccounted
<1> QED BY <1>8, <1>9, <1>10, <1>11, <1>12 DEF GateInv

LEMMA RebootStep ==
    ASSUME GateInv, Reboot
    PROVE  GateInv'
<1>1. TypeOK /\ PermitsCounted /\ Quiet /\ TurnsClose /\ CommitsOrdered
  BY DEF GateInv
<1>2. /\ UNCHANGED <<outcome, asked, sent, phase, kids, claim, parked, request, accepting, permits>>
      /\ UNCHANGED <<drained, committed, watcher, fresh, settings, woken, sup, commits>>
      /\ life = "down" /\ life' = "starting" /\ exit' = "none" /\ ready' = FALSE
      /\ boot' = boot + 1 /\ boot < MaxBoots /\ CommitValid
  BY DEF Reboot, turnVars, gateVars, commitVars
<1>3. boot \in 1..MaxBoots /\ boot' \in 1..MaxBoots
  BY <1>1, <1>2 DEF TypeOK
<1>4. TypeOK'
  <2>1. /\ outcome' = outcome /\ asked' = asked /\ sent' = sent /\ phase' = phase /\ kids' = kids
        /\ claim' = claim /\ parked' = parked /\ request' = request /\ accepting' = accepting
        /\ permits' = permits /\ drained' = drained /\ committed' = committed /\ watcher' = watcher
        /\ fresh' = fresh /\ settings' = settings /\ woken' = woken /\ sup' = sup /\ commits' = commits
    BY <1>2
  <2>2. life' = "starting" /\ exit' = "none" /\ ready' = FALSE /\ boot' \in 1..MaxBoots
    BY <1>2, <1>3
  <2>3. TypeOK
    BY <1>1
  <2>4. /\ outcome' \in [Turns -> {"open", "complete", "abandoned"}]
        /\ asked' \in [Turns -> BOOLEAN]
        /\ sent' \in [Turns -> {"no", "sending", "delivered", "failed"}]
        /\ phase' \in [Turns -> {"none", "wanted", "running", "closing", "done"}]
        /\ kids' \in [Turns -> SUBSET Effects]
        /\ claim' \in [Turns -> BOOLEAN] /\ parked' \in [Turns -> BOOLEAN]
    BY <2>1, <2>3 DEF TypeOK
  <2>5. /\ request' \in Turns \cup {Settings, NoRequest}
        /\ accepting' \in BOOLEAN /\ drained' \in BOOLEAN /\ committed' \in BOOLEAN
        /\ permits' \in Nat
        /\ watcher' \in [at : {"idle", "turn", "delivery", "drain", "returned"}, turn : Turns \cup {NoRequest}]
        /\ fresh' \subseteq Turns
        /\ settings' \in {"idle", "drain", "done", "failed"}
        /\ woken' \subseteq Committers
        /\ sup' \in {"running", "returned"}
        /\ commits' \subseteq [boot : 1..MaxBoots, id : Turns \cup {Settings}]
    BY <2>1, <2>3 DEF TypeOK
  <2>6. /\ life' \in {"starting", "up", "down"}
        /\ exit' \in {"none", "restart", "stopped", "error"}
        /\ ready' \in BOOLEAN
    BY <2>2
  <2> QED BY <2>2, <2>4, <2>5, <2>6, Zenon DEF TypeOK
<1>5. PermitsCounted'
  BY <1>1, <1>2 DEF PermitsCounted, Outstanding, Roots
<1>6. Quiet'
  BY <1>1, <1>2 DEF Quiet, Draining
<1>7. TurnsClose'
  BY <1>1, <1>2 DEF TurnsClose, RestartAfterDelivery
<1>8. CommitsOrdered'
  <2>1. \A c \in commits : c.boot \in 1..MaxBoots /\ c.boot <= boot
    BY <1>1 DEF CommitsOrdered, TypeOK
  <2>2. ~CommitValid' /\ \A c \in commits : c.boot <= boot'
    BY <1>2, <1>3, <2>1 DEF CommitValid
  <2>3. \A b \in 1..(boot' - 1) : b = boot \/ b \in 1..(boot - 1)
    BY <1>2, <1>3
  <2>4. \A b \in 1..(boot' - 1) : \E c \in commits : c.boot = b
    BY <1>1, <1>2, <2>3 DEF CommitsOrdered, RestartsAccounted, CommitValid
  <2> QED BY <1>1, <1>2, <2>2, <2>4 DEF CommitsOrdered, RestartsAccounted
<1> QED BY <1>4, <1>5, <1>6, <1>7, <1>8 DEF GateInv

-----------------------------------------------------------------------------
LEMMA GateInvInit == Init => GateInv
<1> SUFFICES ASSUME Init PROVE GateInv
  OBVIOUS
<1>1. TypeOK
  <2>1. Idle \in [at : {"idle", "turn", "delivery", "drain", "returned"}, turn : Turns \cup {NoRequest}]
    BY DEF Idle
  <2>2. 1 \in 1..MaxBoots
    OBVIOUS
  <2> QED BY <2>1, <2>2 DEF Init, TypeOK
<1>2. PermitsCounted
  <2>1. Outstanding = {}
    BY DEF Init, Outstanding, Roots
  <2> QED BY <2>1, FS_EmptySet DEF Init, PermitsCounted
<1>3. Quiet /\ TurnsClose
  BY DEF Init, Idle, Quiet, TurnsClose, RestartAfterDelivery
<1>4. CommitsOrdered
  BY DEF Init, Idle, CommitsOrdered, RestartsAccounted, CommitValid
<1> QED BY <1>1, <1>2, <1>3, <1>4 DEF GateInv

LEMMA GateInvStep == GateInv /\ [Next]_vars => GateInv'
<1> SUFFICES ASSUME GateInv, [Next]_vars PROVE GateInv'
  OBVIOUS
<1>1. ASSUME NEW t \in Turns,
             \/ Accept(t) \/ Retry(t) \/ StartEffect(t) \/ Ask(t) \/ StartSend(t)
             \/ \E how \in {"open", "complete", "abandoned"} : Finish(t, how)
             \/ \E effect \in Effects : EffectDone(t, effect)
             \/ SendLater(t) \/ Disconnect(t)
             \/ Start(t) \/ TaskDone(t)
      PROVE  GateInv'
  BY <1>1, WantedSteps, TakingSteps, GivingSteps, LogSteps
<1>2. CASE WatcherStep
  BY <1>2, NoticeStep, WatchSteps, WatchCommitStep DEF WatcherStep
<1>3. CASE SettingsPrepare \/ SettingsStep
  BY <1>3, SettingsPrepareStep, SettingsSteps
<1>4. CASE RuntimeStarted \/ MarkReady \/ StopSignal \/ ServeEnds \/ Die \/ SupervisorStep
  BY <1>4, ProcessSteps, EndSteps, RebootStep DEF SupervisorStep
<1>5. CASE UNCHANGED vars
  BY <1>5 DEF vars, turnVars, gateVars, commitVars, bootVars, GateInv, TypeOK, PermitsCounted, Outstanding,
              Roots, Quiet, Draining, TurnsClose, RestartAfterDelivery, CommitsOrdered, RestartsAccounted,
              CommitValid
<1> QED BY <1>1, <1>2, <1>3, <1>4, <1>5 DEF Next

(* The inductive invariant of the gate: what is out is counted, whoever saw *)
(* the gate drained is behind a closed gate with nothing out, closed turns  *)
(* stay as they are, and commits are accounted for.                         *)
THEOREM GateInvariant == Spec => []GateInv
<1> QED BY GateInvInit, GateInvStep, PTL DEF Spec

(* From the commit frame to the end of the process no reply task runs and   *)
(* no effect of one is under way: a restart interrupts nothing.             *)
THEOREM NothingInterrupted == Spec => []RestartInterruptsNothing
<1>1. GateInv => RestartInterruptsNothing
  <2> SUFFICES ASSUME GateInv, committed PROVE Roots = {} /\ \A t \in Turns : kids[t] = {}
    BY DEF RestartInterruptsNothing
  <2>1. TypeOK /\ PermitsCounted /\ permits = 0
    BY DEF GateInv, Quiet
  <2> QED BY <2>1, NothingOut
<1> QED BY <1>1, GateInvariant, PTL

(* A self-restart is committed only for a complete turn whose final Output  *)
(* was delivered.                                                           *)
THEOREM CommittedAfterDelivery == Spec => []RestartAfterDelivery
<1>1. GateInv => RestartAfterDelivery
  BY DEF GateInv, TurnsClose
<1> QED BY <1>1, GateInvariant, PTL

(* Every later boot follows exactly one commit of the one before it, and a  *)
(* ToolResult restarts the program at most once.                            *)
THEOREM BootsAccounted == Spec => []RestartsAccounted
<1>1. GateInv => RestartsAccounted
  BY DEF GateInv, CommitsOrdered
<1> QED BY <1>1, GateInvariant, PTL
=============================================================================
