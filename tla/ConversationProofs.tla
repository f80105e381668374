------------------------- MODULE ConversationProofs -------------------------
(***************************************************************************)
(* Proofs about Conversation, for any bounds on inputs, controls, steps,   *)
(* calls and crashes: what a reply may commit, start and blame, the order  *)
(* of calls and results, and the step budget.                              *)
(*                                                                         *)
(* The log is read by scans (Boundary, PausedThrough), which are functions *)
(* defined by recursion over positions.  What a scan makes of one more     *)
(* message is proved by taking the least position at which it could fail.  *)
(***************************************************************************)
EXTENDS Conversation, FiniteSetTheorems, WellFoundedInduction, TLAPS

-----------------------------------------------------------------------------
(* Least elements and recursion over positions.                            *)

LEMMA NatMin ==
    ASSUME NEW T \in SUBSET Nat, T # {}
    PROVE  \E x \in T : \A y \in T : x <= y
<1> DEFINE R == OpToRel(<, Nat)
<1>1. IsWellFoundedOn(R, Nat)
  BY NatLessThanWellFounded
<1>2. \A x, y \in Nat : <<x, y>> \in R <=> x < y
  BY DEF OpToRel
<1> HIDE DEF R
<1>3. PICK x \in T : \A y \in T : ~ (<<y, x>> \in R)
  BY <1>1, WFMin
<1>4. \A y \in T : x <= y
  <2> TAKE y \in T
  <2>1. x \in Nat /\ y \in Nat /\ ~ (<<y, x>> \in R)
    BY <1>3
  <2>2. ~ (y < x)
    BY <1>2, <2>1
  <2> QED BY <2>1, <2>2
<1> QED BY <1>4

(* g says what a scan over N positions makes of one more.                  *)
IsStep(N, g) == g \in [(1 .. N) \X Nat -> Nat]

(* f is the scan over N positions with the step g.                         *)
IsScan(N, g, f) ==
    /\ f \in [0 .. N -> Nat]
    /\ f[0] = 0
    /\ \A n \in 1 .. N : f[n] = g[<<n, f[n - 1]>>]

SameStep(N, f, h) ==
    /\ f[0] = h[0]
    /\ \A n \in 1 .. N : f[n - 1] = h[n - 1] => f[n] = h[n]

LEMMA ScanExists ==
    ASSUME NEW N \in Nat, NEW g, IsStep(N, g)
    PROVE  \E f : IsScan(N, g, f)
<1>0. g \in [(1 .. N) \X Nat -> Nat]
  BY DEF IsStep
<1> DEFINE Good(k) == \E f \in [0 .. k -> Nat] :
                        f[0] = 0 /\ \A n \in 1 .. k : f[n] = g[<<n, f[n - 1]>>]
           T == {k \in 0 .. N : ~ Good(k)}
<1>1. Good(0)
  <2> WITNESS [k \in 0 .. 0 |-> 0] \in [0 .. 0 -> Nat]
  <2> QED OBVIOUS
<1>2. ASSUME NEW k \in 0 .. N, k + 1 \in 0 .. N, Good(k)
      PROVE  Good(k + 1)
  <2>1. PICK f \in [0 .. k -> Nat] : f[0] = 0 /\ \A n \in 1 .. k : f[n] = g[<<n, f[n - 1]>>]
    BY <1>2
  <2>2. g[<<k + 1, f[k]>>] \in Nat
    <3>1. <<k + 1, f[k]>> \in (1 .. N) \X Nat
      BY <1>2
    <3> QED BY <1>0, <3>1
  <2> DEFINE h == [n \in 0 .. k + 1 |-> IF n = k + 1 THEN g[<<k + 1, f[k]>>] ELSE f[n]]
  <2>3. h \in [0 .. k + 1 -> Nat]
    BY <2>2
  <2>4. h[0] = 0
    BY <2>1
  <2>5. ASSUME NEW n \in 1 .. k + 1
        PROVE  h[n] = g[<<n, h[n - 1]>>]
    <3>1. CASE n = k + 1
      <4>1. h[n - 1] = f[k] /\ h[n] = g[<<k + 1, f[k]>>]
        BY <3>1
      <4> QED BY <3>1, <4>1
    <3>2. CASE n # k + 1
      <4>1. h[n] = f[n] /\ h[n - 1] = f[n - 1] /\ n \in 1 .. k
        BY <3>2
      <4> QED BY <2>1, <4>1
    <3> QED BY <3>1, <3>2
  <2> HIDE DEF h
  <2> QED BY <2>3, <2>4, <2>5
<1> HIDE DEF Good
<1>3. T = {}
  <2> SUFFICES ASSUME T # {} PROVE FALSE
    OBVIOUS
  <2>1. T \in SUBSET Nat
    OBVIOUS
  <2>2. PICK k \in T : \A j \in T : k <= j
    BY <2>1, NatMin
  <2>3. k # 0
    BY <1>1
  <2>4. k \in 0 .. N /\ k - 1 \in 0 .. N
    BY <2>3
  <2>5. k - 1 \notin T
    BY <2>2, <2>4
  <2>6. Good(k - 1)
    BY <2>4, <2>5
  <2>7. Good((k - 1) + 1)
    BY <1>2, <2>4, <2>6
  <2> QED BY <2>4, <2>7
<1>4. N \in 0 .. N
  OBVIOUS
<1> QED BY <1>3, <1>4, ZenonT(40) DEF Good, IsScan

(* Two functions with the same start and step agree.                       *)
LEMMA ScanUnique ==
    ASSUME NEW N \in Nat, NEW f, NEW h, SameStep(N, f, h)
    PROVE  \A n \in 0 .. N : f[n] = h[n]
<1> DEFINE T == {n \in 0 .. N : f[n] # h[n]}
<1> SUFFICES ASSUME T # {} PROVE FALSE
  OBVIOUS
<1>1. PICK k \in T : \A j \in T : k <= j
  <2>1. T \in SUBSET Nat
    OBVIOUS
  <2> HIDE DEF T
  <2> QED BY <2>1, NatMin
<1>2. k \in 1 .. N
  BY DEF SameStep
<1>3. k - 1 \notin T /\ k - 1 \in 0 .. N
  BY <1>1, <1>2
<1>4. f[k - 1] = h[k - 1]
  BY <1>3
<1> QED BY <1>2, <1>4 DEF SameStep

LEMMA BiggestPair ==
    ASSUME NEW a \in Nat, NEW b \in Nat
    PROVE  /\ Biggest({a, b}) \in Nat /\ Biggest({a, b}) >= a /\ Biggest({a, b}) >= b
           /\ Biggest({a, b}) \in {a, b}
<1>1. \E x \in {a, b} : \A y \in {a, b} : y <= x
  <2>1. CASE a <= b
    BY <2>1
  <2>2. CASE ~ (a <= b)
    BY <2>2
  <2> QED BY <2>1, <2>2
<1>2. {a, b} # {}
  OBVIOUS
<1> DEFINE S == {a, b}
<1>3. Biggest(S) \in S /\ \A y \in S : y <= Biggest(S)
  <2> HIDE DEF S
  <2>1. S # {} /\ \E x \in S : \A y \in S : y <= x
    BY <1>1 DEF S
  <2>2. Biggest(S) = CHOOSE x \in S : \A y \in S : y <= x
    BY <2>1 DEF Biggest
  <2> QED BY <2>1, <2>2
<1> QED BY <1>3

-----------------------------------------------------------------------------
(* Messages and logs.                                                      *)

LEMMA Fields ==
    ASSUME NEW m \in Message
    PROVE  /\ m.kind \in {"input", "output", "tool_result", "control"}
           /\ m.kind = "output" => m.calls \in Nat /\ m.finish \in Finishes
           /\ m.kind = "tool_result" => m.ref \in Nat \X Nat
           /\ m.kind = "control" => /\ m.through \in Nat
                                    /\ m.action \in {"pause", "resume", "abandon", "failure"}
                                    /\ m.action = "failure" => m.seen \in Nat
<1>1. CASE m \in [kind : {"input"}]
  BY <1>1
<1>2. CASE m \in [kind : {"output"}, calls : 0 .. MaxCalls, finish : Finishes, basis : Nat]
  BY <1>2, BoundsAssumption
<1>3. CASE m \in [kind : {"tool_result"}, ref : Nat \X Nat]
  BY <1>3
<1>4. CASE m \in [kind : {"control"}, action : {"pause", "resume", "abandon"}, through : Nat]
  BY <1>4
<1>5. CASE m \in [kind : {"control"}, action : {"failure"}, through : Nat, seen : Nat, basis : Nat,
                  cause : {"error", "conflict"}]
  BY <1>5
<1> QED BY <1>1, <1>2, <1>3, <1>4, <1>5 DEF Message

(* The log k is the log l and one more message.                            *)
Grows(l, k, m) ==
    /\ l \in Seq(Message) /\ k \in Seq(Message) /\ m \in Message
    /\ Len(l) \in Nat /\ Len(k) = Len(l) + 1
    /\ DOMAIN l = 1 .. Len(l) /\ DOMAIN k = 1 .. Len(l) + 1
    /\ \A p \in 1 .. Len(l) : k[p] = l[p] /\ l[p] \in Message
    /\ k[Len(l) + 1] = m
    /\ \A n \in 0 .. Len(l) : Prefix(k, n) = Prefix(l, n)
    /\ Prefix(k, Len(l)) = l

LEMMA AppendGrows ==
    ASSUME NEW l \in Seq(Message), NEW m \in Message
    PROVE  Grows(l, Append(l, m), m)
<1> DEFINE k == Append(l, m)
<1>1. /\ k \in Seq(Message) /\ Len(l) \in Nat /\ Len(k) = Len(l) + 1
      /\ DOMAIN l = 1 .. Len(l) /\ DOMAIN k = 1 .. Len(l) + 1
      /\ k[Len(l) + 1] = m
  OBVIOUS
<1>2. ASSUME NEW p \in 1 .. Len(l)
      PROVE  k[p] = l[p] /\ l[p] \in Message
  OBVIOUS
<1>3. ASSUME NEW n \in 0 .. Len(l)
      PROVE  Prefix(k, n) = Prefix(l, n)
  <2>1. n \in Nat /\ n <= Len(l) /\ n <= Len(k)
    BY <1>1
  <2>2. Prefix(l, n) = [i \in 1 .. n |-> l[i]]
    BY <1>1, <2>1 DEF Prefix
  <2>3. Prefix(k, n) = [i \in 1 .. n |-> k[i]]
    BY <1>1, <2>1 DEF Prefix
  <2>4. \A i \in 1 .. n : k[i] = l[i]
    BY <1>1, <1>2, <2>1
  <2> QED BY <2>2, <2>3, <2>4
<1>4. Prefix(k, Len(l)) = l
  <2>1. Prefix(k, Len(l)) = Prefix(l, Len(l))
    BY <1>1, <1>3
  <2>2. Prefix(l, Len(l)) = l
    BY DEF Prefix
  <2> QED BY <2>1, <2>2
<1> QED BY <1>1, <1>2, <1>3, <1>4 DEF Grows

-----------------------------------------------------------------------------
(* The scans.                                                              *)

BoundaryStep(l, n, v) ==
    IF IsClosing(l[n]) THEN n
    ELSE IF IsControl(l[n], {"abandon"}) THEN Biggest({v, l[n].through}) ELSE v

PausedStep(l, n, v) ==
    IF IsControl(l[n], {"pause", "failure"}) THEN Biggest({v, l[n].through})
    ELSE IF IsControl(l[n], {"resume"}) /\ l[n].through >= v THEN 0 ELSE v

BoundaryScan(l, b) == b = [n \in 0 .. Len(l) |->
    IF n = 0 THEN 0
    ELSE IF IsClosing(l[n]) THEN n
    ELSE IF IsControl(l[n], {"abandon"})
         THEN Biggest({b[n - 1], l[n].through})
    ELSE b[n - 1]]

PausedScan(l, p) == p = [n \in 0 .. Len(l) |->
    IF n = 0 THEN 0
    ELSE IF IsControl(l[n], {"pause", "failure"})
         THEN Biggest({p[n - 1], l[n].through})
    ELSE IF IsControl(l[n], {"resume"}) /\ l[n].through >= p[n - 1]
         THEN 0
    ELSE p[n - 1]]

LEMMA StepTypes ==
    ASSUME NEW l \in Seq(Message), NEW n \in 1 .. Len(l), NEW v \in Nat
    PROVE  BoundaryStep(l, n, v) \in Nat /\ PausedStep(l, n, v) \in Nat
<1>1. l[n] \in Message
  OBVIOUS
<1>2. l[n].kind = "control" => l[n].through \in Nat
  BY <1>1, Fields
<1>3. l[n].kind = "control" => Biggest({v, l[n].through}) \in Nat
  BY <1>2, BiggestPair
<1> QED BY <1>2, <1>3 DEF BoundaryStep, PausedStep, IsControl

LEMMA BoundaryIs ==
    ASSUME NEW l \in Seq(Message)
    PROVE  \E f \in [0 .. Len(l) -> Nat] :
              /\ f[0] = 0 /\ \A n \in 1 .. Len(l) : f[n] = BoundaryStep(l, n, f[n - 1])
              /\ Boundary(l) = f[Len(l)]
<1> DEFINE N == Len(l)
           g == [x \in (1 .. N) \X Nat |-> BoundaryStep(l, x[1], x[2])]
<1>1. N \in Nat
  OBVIOUS
<1>2. g \in [(1 .. N) \X Nat -> Nat]
  BY StepTypes
<1>3. \A n \in 1 .. N, v \in Nat : g[<<n, v>>] = BoundaryStep(l, n, v)
  OBVIOUS
<1> HIDE DEF g, N
<1>4. PICK f \in [0 .. N -> Nat] : f[0] = 0 /\ \A n \in 1 .. N : f[n] = g[<<n, f[n - 1]>>]
  <2>1. IsStep(N, g)
    BY <1>2 DEF IsStep
  <2>2. PICK f : IsScan(N, g, f)
    BY <1>1, <2>1, ScanExists
  <2> QED BY <2>2 DEF IsScan
<1>5. \A n \in 1 .. N : f[n] = BoundaryStep(l, n, f[n - 1])
  <2> TAKE n \in 1 .. N
  <2>1. n - 1 \in 0 .. N
    BY <1>1
  <2> QED BY <1>3, <1>4, <2>1
<1>6. BoundaryScan(l, f)
  <2>1. f = [n \in 0 .. N |-> f[n]]
    OBVIOUS
  <2>2. \A n \in 0 .. N : f[n] = (IF n = 0 THEN 0 ELSE BoundaryStep(l, n, f[n - 1]))
    BY <1>1, <1>4, <1>5
  <2>3. f = [n \in 0 .. N |-> IF n = 0 THEN 0 ELSE BoundaryStep(l, n, f[n - 1])]
    BY <2>1, <2>2
  <2> QED BY <2>3 DEF BoundaryScan, BoundaryStep, N
<1> DEFINE b == CHOOSE h : BoundaryScan(l, h)
<1>7. BoundaryScan(l, b)
  BY <1>6
<1>8. Boundary(l) = b[N]
  BY DEF Boundary, BoundaryScan, N
<1> HIDE DEF b
<1>9. \A n \in 0 .. N : b[n] = (IF n = 0 THEN 0 ELSE BoundaryStep(l, n, b[n - 1]))
  BY <1>7 DEF BoundaryScan, BoundaryStep, N
<1>10. SameStep(N, b, f)
  BY <1>1, <1>4, <1>5, <1>9 DEF SameStep
<1>11. b[N] = f[N]
  <2>1. \A n \in 0 .. N : b[n] = f[n]
    BY <1>1, <1>10, ScanUnique
  <2> QED BY <1>1, <2>1
<1> QED BY <1>4, <1>5, <1>8, <1>11 DEF N

LEMMA PausedIs ==
    ASSUME NEW l \in Seq(Message)
    PROVE  \E f \in [0 .. Len(l) -> Nat] :
              /\ f[0] = 0 /\ \A n \in 1 .. Len(l) : f[n] = PausedStep(l, n, f[n - 1])
              /\ PausedThrough(l) = f[Len(l)]
<1> DEFINE N == Len(l)
           g == [x \in (1 .. N) \X Nat |-> PausedStep(l, x[1], x[2])]
<1>1. N \in Nat
  OBVIOUS
<1>2. g \in [(1 .. N) \X Nat -> Nat]
  BY StepTypes
<1>3. \A n \in 1 .. N, v \in Nat : g[<<n, v>>] = PausedStep(l, n, v)
  OBVIOUS
<1> HIDE DEF g, N
<1>4. PICK f \in [0 .. N -> Nat] : f[0] = 0 /\ \A n \in 1 .. N : f[n] = g[<<n, f[n - 1]>>]
  <2>1. IsStep(N, g)
    BY <1>2 DEF IsStep
  <2>2. PICK f : IsScan(N, g, f)
    BY <1>1, <2>1, ScanExists
  <2> QED BY <2>2 DEF IsScan
<1>5. \A n \in 1 .. N : f[n] = PausedStep(l, n, f[n - 1])
  <2> TAKE n \in 1 .. N
  <2>1. n - 1 \in 0 .. N
    BY <1>1
  <2> QED BY <1>3, <1>4, <2>1
<1>6. PausedScan(l, f)
  <2>1. f = [n \in 0 .. N |-> f[n]]
    OBVIOUS
  <2>2. \A n \in 0 .. N : f[n] = (IF n = 0 THEN 0 ELSE PausedStep(l, n, f[n - 1]))
    BY <1>1, <1>4, <1>5
  <2>3. f = [n \in 0 .. N |-> IF n = 0 THEN 0 ELSE PausedStep(l, n, f[n - 1])]
    BY <2>1, <2>2
  <2> QED BY <2>3 DEF PausedScan, PausedStep, N
<1> DEFINE b == CHOOSE h : PausedScan(l, h)
<1>7. PausedScan(l, b)
  BY <1>6
<1>8. PausedThrough(l) = b[N]
  BY DEF PausedThrough, PausedScan, N
<1> HIDE DEF b
<1>9. \A n \in 0 .. N : b[n] = (IF n = 0 THEN 0 ELSE PausedStep(l, n, b[n - 1]))
  BY <1>7 DEF PausedScan, PausedStep, N
<1>10. SameStep(N, b, f)
  BY <1>1, <1>4, <1>5, <1>9 DEF SameStep
<1>11. b[N] = f[N]
  <2>1. \A n \in 0 .. N : b[n] = f[n]
    BY <1>1, <1>10, ScanUnique
  <2> QED BY <1>1, <2>1
<1> QED BY <1>4, <1>5, <1>8, <1>11 DEF N

(* One more message takes each scan one step further.                      *)
LEMMA ScansGrow ==
    ASSUME NEW l, NEW k, NEW m, Grows(l, k, m)
    PROVE  /\ Boundary(l) \in Nat /\ PausedThrough(l) \in Nat
           /\ Boundary(k) = BoundaryStep(k, Len(l) + 1, Boundary(l))
           /\ PausedThrough(k) = PausedStep(k, Len(l) + 1, PausedThrough(l))
<1>1. /\ l \in Seq(Message) /\ k \in Seq(Message) /\ Len(l) \in Nat /\ Len(k) = Len(l) + 1
      /\ \A n \in 1 .. Len(l) : k[n] = l[n]
  BY DEF Grows
<1>2. /\ Boundary(l) \in Nat
      /\ Boundary(k) = BoundaryStep(k, Len(l) + 1, Boundary(l))
  <2>1. PICK f \in [0 .. Len(l) -> Nat] :
           /\ f[0] = 0 /\ \A n \in 1 .. Len(l) : f[n] = BoundaryStep(l, n, f[n - 1])
           /\ Boundary(l) = f[Len(l)]
    BY <1>1, BoundaryIs
  <2>2. PICK h \in [0 .. Len(k) -> Nat] :
           /\ h[0] = 0 /\ \A n \in 1 .. Len(k) : h[n] = BoundaryStep(k, n, h[n - 1])
           /\ Boundary(k) = h[Len(k)]
    BY <1>1, BoundaryIs
  <2>3. SameStep(Len(l), h, f)
    <3>1. \A n \in 1 .. Len(l), v \in Nat : BoundaryStep(k, n, v) = BoundaryStep(l, n, v)
      BY <1>1 DEF BoundaryStep
    <3>2. \A n \in 1 .. Len(l) : h[n] = BoundaryStep(k, n, h[n - 1]) /\ h[n - 1] \in Nat
      BY <1>1, <2>2
    <3> QED BY <2>1, <2>2, <3>1, <3>2 DEF SameStep
  <2>4. h[Len(l)] = f[Len(l)]
    <3>1. \A n \in 0 .. Len(l) : h[n] = f[n]
      BY <1>1, <2>3, ScanUnique
    <3> QED BY <1>1, <3>1
  <2>5. f[Len(l)] \in Nat /\ Len(l) + 1 \in 1 .. Len(k) /\ (Len(l) + 1) - 1 = Len(l)
    BY <1>1
  <2>6. h[Len(l) + 1] = BoundaryStep(k, Len(l) + 1, h[(Len(l) + 1) - 1])
    BY <2>2, <2>5
  <2> QED BY <1>1, <2>1, <2>2, <2>4, <2>5, <2>6
<1>3. /\ PausedThrough(l) \in Nat
      /\ PausedThrough(k) = PausedStep(k, Len(l) + 1, PausedThrough(l))
  <2>1. PICK f \in [0 .. Len(l) -> Nat] :
           /\ f[0] = 0 /\ \A n \in 1 .. Len(l) : f[n] = PausedStep(l, n, f[n - 1])
           /\ PausedThrough(l) = f[Len(l)]
    BY <1>1, PausedIs
  <2>2. PICK h \in [0 .. Len(k) -> Nat] :
           /\ h[0] = 0 /\ \A n \in 1 .. Len(k) : h[n] = PausedStep(k, n, h[n - 1])
           /\ PausedThrough(k) = h[Len(k)]
    BY <1>1, PausedIs
  <2>3. SameStep(Len(l), h, f)
    <3>1. \A n \in 1 .. Len(l), v \in Nat : PausedStep(k, n, v) = PausedStep(l, n, v)
      BY <1>1 DEF PausedStep
    <3>2. \A n \in 1 .. Len(l) : h[n] = PausedStep(k, n, h[n - 1]) /\ h[n - 1] \in Nat
      BY <1>1, <2>2
    <3> QED BY <2>1, <2>2, <3>1, <3>2 DEF SameStep
  <2>4. h[Len(l)] = f[Len(l)]
    <3>1. \A n \in 0 .. Len(l) : h[n] = f[n]
      BY <1>1, <2>3, ScanUnique
    <3> QED BY <1>1, <3>1
  <2>5. f[Len(l)] \in Nat /\ Len(l) + 1 \in 1 .. Len(k) /\ (Len(l) + 1) - 1 = Len(l)
    BY <1>1
  <2>6. h[Len(l) + 1] = PausedStep(k, Len(l) + 1, h[(Len(l) + 1) - 1])
    BY <2>2, <2>5
  <2> QED BY <1>1, <2>1, <2>2, <2>4, <2>5, <2>6
<1> QED BY <1>2, <1>3

(* What one more message means to what is asked for.                       *)
LEMMA BoundaryGrows ==
    ASSUME NEW l, NEW k, NEW m, Grows(l, k, m)
    PROVE  /\ Boundary(l) \in Nat /\ Boundary(k) \in Nat
           /\ IsClosing(m) => Boundary(k) = Len(l) + 1
           /\ ~ IsClosing(m) => Boundary(k) >= Boundary(l)
           /\ ~ IsClosing(m) /\ ~ IsControl(m, {"abandon"}) => Boundary(k) = Boundary(l)
           /\ IsControl(m, {"abandon"}) => Boundary(k) >= m.through
<1>1. /\ Boundary(l) \in Nat /\ k[Len(l) + 1] = m /\ Len(l) + 1 \in Nat
      /\ Boundary(k) = BoundaryStep(k, Len(l) + 1, Boundary(l))
  BY ScansGrow DEF Grows
<1>2. m.kind = "control" => m.through \in Nat
  BY Fields DEF Grows
<1>3. CASE IsClosing(m)
  BY <1>1, <1>3 DEF BoundaryStep, IsClosing, IsControl
<1>4. CASE ~ IsClosing(m) /\ IsControl(m, {"abandon"})
  <2>1. Boundary(k) = Biggest({Boundary(l), m.through}) /\ m.through \in Nat
    BY <1>1, <1>2, <1>4 DEF BoundaryStep, IsControl
  <2> QED BY <1>1, <1>4, <2>1, BiggestPair
<1>5. CASE ~ IsClosing(m) /\ ~ IsControl(m, {"abandon"})
  BY <1>1, <1>5 DEF BoundaryStep
<1> QED BY <1>3, <1>4, <1>5

LEMMA PausedGrows ==
    ASSUME NEW l, NEW k, NEW m, Grows(l, k, m), ~ IsControl(m, {"pause", "failure"})
    PROVE  /\ PausedThrough(l) \in Nat
           /\ PausedThrough(k) \in {0, PausedThrough(l)}
<1>1. /\ PausedThrough(l) \in Nat /\ k[Len(l) + 1] = m
      /\ PausedThrough(k) = PausedStep(k, Len(l) + 1, PausedThrough(l))
  BY ScansGrow DEF Grows
<1> QED BY <1>1 DEF PausedStep

LEMMA LatestGrows ==
    ASSUME NEW l, NEW k, NEW m, Grows(l, k, m), ~ IsInput(m)
    PROVE  LatestInput(k) = LatestInput(l)
<1>1. {p \in DOMAIN k : IsInput(k[p])} = {p \in DOMAIN l : IsInput(l[p])}
  <2>1. /\ DOMAIN l = 1 .. Len(l) /\ DOMAIN k = 1 .. Len(l) + 1 /\ Len(l) \in Nat
        /\ \A p \in 1 .. Len(l) : k[p] = l[p]
        /\ k[Len(l) + 1] = m
    BY DEF Grows
  <2>2. \A p \in 1 .. Len(l) + 1 : p \in 1 .. Len(l) \/ p = Len(l) + 1
    BY <2>1
  <2>3. \A p \in 1 .. Len(l) : p \in 1 .. Len(l) + 1
    BY <2>1
  <2> QED BY <2>1, <2>2, <2>3
<1> QED BY <1>1 DEF LatestInput

(* A result, an Output that goes on and a resume leave a reply wanted.     *)
LEMMA WantedGrows ==
    ASSUME NEW l, NEW k, NEW m, Grows(l, k, m), NeedsReply(l), LatestInput(l) \in Nat,
           ~ IsInput(m), ~ IsClosing(m), ~ IsControl(m, {"pause", "abandon", "failure"})
    PROVE  NeedsReply(k)
<1>1. ~ IsControl(m, {"abandon"}) /\ ~ IsControl(m, {"pause", "failure"})
  BY DEF IsControl
<1>2. Boundary(k) = Boundary(l) /\ Boundary(l) \in Nat
  BY <1>1, BoundaryGrows
<1>3. PausedThrough(k) \in {0, PausedThrough(l)} /\ PausedThrough(l) \in Nat
  BY <1>1, PausedGrows
<1>4. LatestInput(k) = LatestInput(l)
  BY LatestGrows
<1>5. LatestInput(l) > Biggest({Boundary(l), PausedThrough(l)})
  BY DEF NeedsReply
<1>6. Biggest({Boundary(k), PausedThrough(k)}) <= Biggest({Boundary(l), PausedThrough(l)})
  <2> DEFINE a == Boundary(l)
             b == PausedThrough(l)
             c == PausedThrough(k)
             x == Biggest({a, c})
             y == Biggest({a, b})
  <2>1. a \in Nat /\ b \in Nat /\ c \in {0, b} /\ c \in Nat
    BY <1>2, <1>3
  <2> HIDE DEF a, b, c
  <2>2. x \in Nat /\ y \in Nat /\ y >= a /\ y >= b /\ x \in {a, c}
    BY <2>1, BiggestPair
  <2> HIDE DEF x, y
  <2>3. x <= y
    BY <2>1, <2>2
  <2> QED BY <1>2, <2>3 DEF a, b, c, x, y
<1>7. Biggest({Boundary(k), PausedThrough(k)}) \in Nat /\ Biggest({Boundary(l), PausedThrough(l)}) \in Nat
  BY <1>2, <1>3, BiggestPair
<1> QED BY <1>4, <1>5, <1>6, <1>7 DEF NeedsReply

LEMMA LatestIs ==
    ASSUME NEW l \in Seq(Message)
    PROVE  LatestInput(l) \in 0 .. Len(l)
<1> DEFINE S == {p \in DOMAIN l : IsInput(l[p])}
           N == Len(l)
           T == {N - p : p \in S}
<1>1. N \in Nat /\ S \subseteq 1 .. N
  OBVIOUS
<1>2. CASE S = {}
  <2>1. LatestInput(l) = 0
    BY <1>2 DEF LatestInput, Biggest
  <2> QED BY <1>1, <2>1
<1>3. CASE S # {}
  <2>1. T \in SUBSET Nat /\ T # {}
    BY <1>1, <1>3
  <2>2. PICK t \in T : \A u \in T : t <= u
    <3> HIDE DEF T
    <3> QED BY <2>1, NatMin
  <2>3. PICK x \in S : t = N - x
    OBVIOUS
  <2>4. \A y \in S : y <= x
    <3> TAKE y \in S
    <3>1. N - y \in T
      OBVIOUS
    <3>2. t <= N - y /\ x \in 1 .. N /\ y \in 1 .. N
      BY <1>1, <2>2, <3>1
    <3> QED BY <1>1, <2>3, <3>2
  <2>5. LatestInput(l) = CHOOSE z \in S : \A y \in S : y <= z
    BY <1>3 DEF LatestInput, Biggest
  <2> HIDE DEF S
  <2>6. LatestInput(l) \in S
    BY <2>3, <2>4, <2>5
  <2>7. LatestInput(l) \in 1 .. N
    BY <1>1, <2>6
  <2> QED BY ONLY <1>1, <2>7
<1> QED BY <1>2, <1>3

(* A log that asks for a reply holds a message.                            *)
LEMMA WantedNonempty ==
    ASSUME NEW l \in Seq(Message), NeedsReply(l)
    PROVE  Len(l) \in Nat /\ Len(l) > 0
<1>1. LatestInput(l) \in 0 .. Len(l) /\ Len(l) \in Nat
  BY LatestIs
<1>2. Boundary(l) \in Nat /\ PausedThrough(l) \in Nat
  <2>1. [kind |-> "input"] \in Message
    BY DEF Message
  <2>2. Grows(l, Append(l, [kind |-> "input"]), [kind |-> "input"])
    BY <2>1, AppendGrows
  <2> QED BY <2>2, ScansGrow
<1>3. Biggest({Boundary(l), PausedThrough(l)}) \in Nat
  BY <1>2, BiggestPair
<1> QED BY <1>1, <1>3 DEF NeedsReply

-----------------------------------------------------------------------------
(* Calls, results and steps.                                               *)

LEMMA CallsGrow ==
    ASSUME NEW l, NEW k, NEW m, Grows(l, k, m)
    PROVE  /\ Calls(l) \subseteq Calls(k)
           /\ \A c \in Calls(l) : c \in Nat \X Nat /\ c[1] \in 1 .. Len(l)
           /\ m.kind # "output" => Calls(k) = Calls(l)
           /\ Answered(l) \subseteq Answered(k)
           /\ m.kind = "tool_result" => m.ref \in Answered(k)
<1>1. /\ DOMAIN l = 1 .. Len(l) /\ DOMAIN k = 1 .. Len(l) + 1 /\ Len(l) \in Nat
      /\ \A p \in 1 .. Len(l) : k[p] = l[p] /\ l[p] \in Message
      /\ k[Len(l) + 1] = m
  BY DEF Grows
<1>2. ASSUME NEW p \in 1 .. Len(l)
      PROVE  CallsOf(k, p) = CallsOf(l, p) /\ p \in 1 .. Len(l) + 1
  <2>1. k[p] = l[p] /\ p \in 1 .. Len(l) + 1
    BY <1>1
  <2>2. CallsOf(k, p) = CallsOf(l, p)
    BY <2>1, Zenon DEF CallsOf
  <2> QED BY <2>1, <2>2
<1>3. Calls(l) \subseteq Calls(k)
  BY <1>1, <1>2 DEF Calls
<1>4. ASSUME NEW c \in Calls(l)
      PROVE  c \in Nat \X Nat /\ c[1] \in 1 .. Len(l)
  <2>1. PICK p \in 1 .. Len(l) : c \in CallsOf(l, p)
    BY <1>1 DEF Calls
  <2>2. l[p].kind = "output" /\ l[p].calls \in Nat
    BY <1>1, <2>1, Fields DEF CallsOf
  <2>3. PICK i \in 1 .. l[p].calls : c = <<p, i>>
    BY <2>1, <2>2 DEF CallsOf
  <2> QED BY <1>1, <2>2, <2>3
<1>5. ASSUME m.kind # "output"
      PROVE  Calls(k) \subseteq Calls(l)
  <2>1. CallsOf(k, Len(l) + 1) = {}
    BY <1>1, <1>5 DEF CallsOf
  <2>2. \A p \in DOMAIN k : p \in DOMAIN l \/ p = Len(l) + 1
    BY <1>1
  <2> QED BY <1>1, <1>2, <2>1, <2>2 DEF Calls
<1>6. Answered(l) \subseteq Answered(k)
  BY <1>1, <1>2 DEF Answered
<1>7. m.kind = "tool_result" => m.ref \in Answered(k)
  <2>1. Len(l) + 1 \in DOMAIN k
    BY <1>1
  <2> QED BY <1>1, <2>1 DEF Answered
<1> QED BY <1>3, <1>4, <1>5, <1>6, <1>7

(* Only an Output opens calls; a result closes its own.                    *)
LEMMA PendingGrows ==
    ASSUME NEW l, NEW k, NEW m, Grows(l, k, m), m.kind # "output"
    PROVE  /\ PendingCalls(k) \subseteq PendingCalls(l)
           /\ m.kind = "tool_result" => m.ref \notin PendingCalls(k)
<1>1. Calls(k) = Calls(l) /\ Answered(l) \subseteq Answered(k)
      /\ (m.kind = "tool_result" => m.ref \in Answered(k))
      /\ \A c \in Calls(l) : c[1] \in 1 .. Len(l)
  BY CallsGrow
<1>2. Boundary(k) >= Boundary(l) /\ Boundary(k) \in Nat /\ Boundary(l) \in Nat
  BY BoundaryGrows DEF IsClosing
<1>3. Len(l) \in Nat
  BY DEF Grows
<1>4. ASSUME NEW c \in PendingCalls(k)
      PROVE  c \in PendingCalls(l)
  <2>1. c \in Calls(l) \ Answered(k) /\ c[1] > Boundary(k)
    BY <1>1 DEF PendingCalls
  <2>2. c[1] > Boundary(l)
    BY <1>1, <1>2, <1>3, <2>1
  <2> QED BY <1>1, <2>1, <2>2 DEF PendingCalls
<1> QED BY <1>1, <1>4 DEF PendingCalls

StepSet(l) == {p \in DOMAIN l :
    /\ l[p].kind = "output" /\ l[p].finish = "continue"
    /\ \A q \in p + 1 .. Len(l) :
          ~ IsClosing(l[q]) /\ (IsControl(l[q], {"abandon"}) => l[q].through < p)}

LEMMA StepsFinite ==
    ASSUME NEW l \in Seq(Message)
    PROVE  IsFiniteSet(StepSet(l)) /\ Steps(l) = Cardinality(StepSet(l)) /\ Steps(l) \in Nat
<1>1. IsFiniteSet(1 .. Len(l))
  BY FS_Interval
<1>2. StepSet(l) \subseteq 1 .. Len(l)
  BY DEF StepSet
<1>3. IsFiniteSet(StepSet(l))
  BY <1>1, <1>2, FS_Subset
<1>4. Steps(l) = Cardinality(StepSet(l))
  BY DEF Steps, StepSet
<1> QED BY <1>3, <1>4, FS_CardinalityType

(* Only an Output that goes on is one more step.                           *)
LEMMA StepsGrow ==
    ASSUME NEW l, NEW k, NEW m, Grows(l, k, m)
    PROVE  /\ Steps(l) \in Nat /\ Steps(k) \in Nat
           /\ Steps(k) <= Steps(l) + 1
           /\ ~ (m.kind = "output" /\ m.finish = "continue") => Steps(k) <= Steps(l)
<1>1. /\ l \in Seq(Message) /\ k \in Seq(Message)
      /\ DOMAIN l = 1 .. Len(l) /\ DOMAIN k = 1 .. Len(l) + 1 /\ Len(l) \in Nat /\ Len(k) = Len(l) + 1
      /\ \A p \in 1 .. Len(l) : k[p] = l[p]
      /\ k[Len(l) + 1] = m
  BY DEF Grows
<1>2. ASSUME NEW p \in StepSet(k), p # Len(l) + 1
      PROVE  p \in StepSet(l)
  <2>1. p \in 1 .. Len(l) /\ k[p] = l[p]
    BY <1>1, <1>2 DEF StepSet
  <2>2. ASSUME NEW q \in p + 1 .. Len(l)
        PROVE  q \in p + 1 .. Len(k) /\ k[q] = l[q]
    BY <1>1, <2>1
  <2> QED BY <1>1, <2>1, <2>2 DEF StepSet
<1>3. /\ IsFiniteSet(StepSet(l)) /\ Steps(l) = Cardinality(StepSet(l)) /\ Steps(l) \in Nat
      /\ IsFiniteSet(StepSet(k)) /\ Steps(k) = Cardinality(StepSet(k)) /\ Steps(k) \in Nat
  BY <1>1, StepsFinite
<1>4. Steps(k) <= Steps(l) + 1
  <2> DEFINE S == StepSet(l) \cup {Len(l) + 1}
  <2>1. StepSet(k) \subseteq S
    BY <1>2
  <2>2. /\ IsFiniteSet(S)
        /\ Cardinality(S) = (IF Len(l) + 1 \in StepSet(l) THEN Cardinality(StepSet(l)) ELSE Cardinality(StepSet(l)) + 1)
    BY <1>3, FS_AddElement
  <2> HIDE DEF S
  <2>3. Cardinality(StepSet(k)) <= Cardinality(S) /\ Cardinality(S) \in Nat
    BY <2>1, <2>2, FS_Subset, FS_CardinalityType
  <2> QED BY <1>3, <2>2, <2>3
<1>5. ASSUME ~ (m.kind = "output" /\ m.finish = "continue")
      PROVE  Steps(k) <= Steps(l)
  <2>1. StepSet(k) \subseteq StepSet(l)
    BY <1>1, <1>2, <1>5 DEF StepSet
  <2> QED BY <1>3, <2>1, FS_Subset
<1> QED BY <1>3, <1>4, <1>5

LEMMA AbandonedGrows ==
    ASSUME NEW l, NEW k, NEW m, Grows(l, k, m), NEW c \in Calls(l),
           ~ IsControl(m, {"abandon"}), ~ Abandoned(l, c)
    PROVE  ~ Abandoned(k, c)
<1>1. /\ Len(l) \in Nat /\ Len(k) = Len(l) + 1 /\ k[Len(l) + 1] = m
      /\ \A p \in 1 .. Len(l) : k[p] = l[p]
  BY DEF Grows
<1>2. c[1] \in 1 .. Len(l)
  BY CallsGrow
<1>3. ASSUME NEW p \in c[1] + 1 .. Len(k), IsControl(k[p], {"abandon"}), k[p].through >= c[1]
      PROVE  FALSE
  <2>1. p # Len(l) + 1
    BY <1>1, <1>3
  <2>2. p \in c[1] + 1 .. Len(l) /\ k[p] = l[p]
    BY <1>1, <1>2, <2>1
  <2> QED BY <1>3, <2>2 DEF Abandoned
<1> QED BY <1>3 DEF Abandoned

(* The call that is settled next is one of the list.                       *)
LEMMA FirstIn ==
    ASSUME NEW cs, cs \subseteq Nat \X Nat, cs # {}
    PROVE  First(cs) \in cs
<1> DEFINE S == {c[1] : c \in cs}
<1>1. S \in SUBSET Nat /\ S # {}
  OBVIOUS
<1>2. PICK a \in S : \A b \in S : a <= b
  <2> HIDE DEF S
  <2> QED BY <1>1, NatMin
<1> DEFINE T == {c[2] : c \in {d \in cs : d[1] = a}}
<1>3. T \in SUBSET Nat /\ T # {}
  OBVIOUS
<1>4. PICK i \in T : \A j \in T : i <= j
  <2> HIDE DEF T
  <2> QED BY <1>3, NatMin
<1>5. PICK c \in cs : c[1] = a /\ c[2] = i
  OBVIOUS
<1>6. ASSUME NEW d \in cs
      PROVE  c[1] < d[1] \/ (c[1] = d[1] /\ c[2] <= d[2])
  <2>1. d[1] \in S /\ c[1] \in Nat /\ d[1] \in Nat /\ a <= d[1]
    BY <1>2
  <2>2. CASE d[1] = a
    <3>1. d[2] \in T
      BY <2>2
    <3> QED BY <1>4, <1>5, <2>2, <3>1
  <2>3. CASE d[1] # a
    BY <1>5, <2>1, <2>3
  <2> QED BY <2>2, <2>3
<1> QED BY <1>6 DEF First

-----------------------------------------------------------------------------
(* The invariant, by log, task and the others.                             *)

Unwanted(m) == IsInput(m) \/ IsControl(m, {"pause", "abandon", "failure"})

(* What is true of the message at a position of the log.                   *)
PlaceOK(l, p) ==
    /\ l[p].kind = "control" => l[p].through \in 1 .. p - 1
    /\ l[p].kind = "tool_result" => l[p].ref \in Calls(Prefix(l, p))
    /\ l[p].kind = "output" => NeedsReply(Prefix(l, p - 1)) /\ PendingCalls(Prefix(l, p - 1)) = {}
    /\ IsControl(l[p], {"failure"}) => \A q \in l[p].seen + 1 .. p - 1 : ~ Unwanted(l[q])

LogInv(l) ==
    /\ l \in Seq(Message)
    /\ \A p \in DOMAIN l : PlaceOK(l, p)
    /\ Steps(l) <= MaxSteps
    /\ \A p \in DOMAIN l : IsControl(l[p], {"abandon"}) => l[p].through <= Boundary(l)

Tasks(l) ==
    [pc : Places, active : BOOLEAN, seen : 0 .. Len(l), head : 0 .. Len(l),
     todo : SUBSET Calls(l), cause : {"none", "error", "conflict"}]

(* A reply that still has its right.                                       *)
Fresh(l, t) ==
    /\ NeedsReply(l)
    /\ t.pc # "new" => \A q \in t.seen + 1 .. Len(l) : ~ Unwanted(l[q])
    /\ t.pc \in {"settle", "effect"} => \A c \in t.todo : ~ Abandoned(l, c)

Covers(l, t) ==
    /\ t.pc \in {"settle", "effect"} => PendingCalls(l) \subseteq t.todo
    /\ t.pc = "effect" => t.todo # {}
    /\ t.pc = "failing" => t.cause # "none"
    /\ t.pc = "model" /\ t.head = Len(l) => PendingCalls(l) = {} /\ Steps(l) < MaxSteps

TaskInv(l, t) ==
    \/ t = NoTask
    \/ /\ t \in Tasks(l)
       /\ t.pc # "report" /\ t.active => Fresh(l, t)
       /\ Covers(l, t)

OthersOK ==
    /\ started \subseteq Calls(log)
    /\ abandonTodo \subseteq Calls(log)
    /\ report \in [pc : {"none", "wait", "look", "join", "own", "done"}, seen : 0 .. Len(log)]
    /\ drive \in {"none", "loop", "start", "drain", "admit", "gate", "join"}
    /\ wake \in BOOLEAN /\ gateOpen \in BOOLEAN /\ crashes \in Nat
    /\ followHead \in 0 .. Len(log) /\ abandonHead \in 0 .. Len(log)

LEMMA TaskParts ==
    ASSUME TypeOK
    PROVE  TaskInv(log, task) <=> ReplyFresh /\ ListCovers
<1>1. task = NoTask \/ task \in Tasks(log)
  BY DEF TypeOK, Tasks
<1>2. CASE task = NoTask
  <2>1. task.pc = "none"
    BY <1>2 DEF NoTask
  <2> QED BY <1>2, <2>1 DEF TaskInv, ReplyFresh, ListCovers, Replying, Unwinding
<1>3. CASE task \in Tasks(log)
  <2>1. task.pc \in Unwinding \cup {"effect", "failing", "report"}
    BY <1>3 DEF Tasks, Places
  <2>2. Replying <=> task.pc # "report"
    BY <2>1 DEF Replying, Unwinding
  <2>3. task # NoTask
    BY <2>1 DEF NoTask, Unwinding
  <2>4. Covers(log, task) <=>
          /\ task.pc \in {"settle", "effect"} => PendingCalls(log) \subseteq task.todo
          /\ task.pc = "effect" => task.todo # {}
          /\ task.pc = "failing" => task.cause # "none"
          /\ task.pc = "model" /\ task.head = Len(log) => PendingCalls(log) = {} /\ Steps(log) < MaxSteps
    BY DEF Covers
  <2>5. Fresh(log, task) <=>
          /\ NeedsReply(log)
          /\ task.pc # "new" => \A q \in task.seen + 1 .. Len(log) : ~ Unwanted(log[q])
          /\ task.pc \in {"settle", "effect"} => \A c \in task.todo : ~ Abandoned(log, c)
    BY DEF Fresh
  <2>6. TaskInv(log, task) <=> (task.pc # "report" /\ task.active => Fresh(log, task)) /\ Covers(log, task)
    BY <1>3, <2>3 DEF TaskInv
  <2>7. ReplyFresh <=> (task.pc # "report" /\ task.active =>
          /\ NeedsReply(log)
          /\ task.pc # "new" => \A q \in task.seen + 1 .. Len(log) : ~ Unwanted(log[q]))
    BY <2>2 DEF ReplyFresh, Unwanted
  <2>8. ListCovers <=>
          /\ Covers(log, task)
          /\ task.pc \in {"settle", "effect"} /\ task.active => \A c \in task.todo : ~ Abandoned(log, c)
    BY <2>4 DEF ListCovers
  <2> QED BY <2>5, <2>6, <2>7, <2>8
<1> QED BY <1>1, <1>2, <1>3

LEMMA ConvParts == ConvInv <=> LogInv(log) /\ TaskInv(log, task) /\ OthersOK
<1>1. ASSUME ConvInv
      PROVE  LogInv(log) /\ TaskInv(log, task) /\ OthersOK
  <2>1. \A p \in DOMAIN log : PlaceOK(log, p)
    BY <1>1 DEF ConvInv, TypeOK, OutputsWereWanted, CallsAnsweredFirst, FailuresBlameSeenWork, PlaceOK, Unwanted
  <2>2. LogInv(log)
    BY <1>1, <2>1 DEF ConvInv, TypeOK, StepBudget, AbandonedClosed, LogInv
  <2>3. TaskInv(log, task)
    BY <1>1, TaskParts DEF ConvInv
  <2> QED BY <1>1, <2>2, <2>3 DEF ConvInv, TypeOK, OthersOK
<1>2. ASSUME LogInv(log), TaskInv(log, task), OthersOK
      PROVE  ConvInv
  <2>1. TypeOK
    <3>1. task \in {NoTask} \cup Tasks(log)
      BY <1>2 DEF TaskInv
    <3> QED BY <1>2, <3>1 DEF TypeOK, LogInv, PlaceOK, OthersOK, Tasks
  <2>2. OutputsWereWanted /\ CallsAnsweredFirst /\ FailuresBlameSeenWork
    BY <1>2 DEF LogInv, PlaceOK, OutputsWereWanted, CallsAnsweredFirst, FailuresBlameSeenWork, Unwanted
  <2>3. StepBudget /\ AbandonedClosed
    BY <1>2 DEF LogInv, StepBudget, AbandonedClosed
  <2> QED BY <1>2, <2>1, <2>2, <2>3, TaskParts DEF ConvInv
<1> QED BY <1>1, <1>2

LEMMA ConvPartsNext == ConvInv' <=> LogInv(log') /\ TaskInv(log', task') /\ OthersOK'
<1>1. (ConvInv <=> LogInv(log) /\ TaskInv(log, task) /\ OthersOK)'
  BY ConvParts, PTL
<1> QED BY <1>1

(* What one more message must bring along.                                 *)
LEMMA LogGrows ==
    ASSUME NEW l, NEW k, NEW m, Grows(l, k, m), LogInv(l),
           m.kind = "control" => m.through \in 1 .. Len(l),
           m.kind = "tool_result" => m.ref \in Calls(l),
           m.kind = "output" => NeedsReply(l) /\ PendingCalls(l) = {} /\ Steps(l) < MaxSteps,
           IsControl(m, {"failure"}) => \A q \in m.seen + 1 .. Len(l) : ~ Unwanted(l[q])
    PROVE  LogInv(k)
<1>1. /\ k \in Seq(Message) /\ DOMAIN l = 1 .. Len(l) /\ DOMAIN k = 1 .. Len(l) + 1 /\ Len(l) \in Nat
      /\ Len(k) = Len(l) + 1 /\ m \in Message
      /\ \A p \in 1 .. Len(l) : k[p] = l[p] /\ l[p] \in Message
      /\ k[Len(l) + 1] = m
      /\ \A n \in 0 .. Len(l) : Prefix(k, n) = Prefix(l, n)
      /\ Prefix(k, Len(l)) = l
  BY DEF Grows
<1>2. ASSUME NEW p \in 1 .. Len(l)
      PROVE  PlaceOK(k, p)
  <2>1. /\ k[p] = l[p] /\ Prefix(k, p) = Prefix(l, p) /\ Prefix(k, p - 1) = Prefix(l, p - 1)
        /\ PlaceOK(l, p) /\ l[p] \in Message
    BY <1>1 DEF LogInv
  <2>2. ASSUME IsControl(l[p], {"failure"})
        PROVE  \A q \in l[p].seen + 1 .. p - 1 : k[q] = l[q]
    <3>1. l[p].seen \in Nat
      BY <2>1, <2>2, Fields DEF IsControl
    <3> QED BY <1>1, <3>1
  <2> QED BY <2>1, <2>2 DEF PlaceOK
<1>3. PlaceOK(k, Len(l) + 1)
  <2>1. Prefix(k, Len(l) + 1) = k
    BY <1>1 DEF Prefix
  <2>2. Calls(l) \subseteq Calls(k)
    BY CallsGrow
  <2>3. (Len(l) + 1) - 1 = Len(l)
    BY <1>1
  <2>4. ASSUME IsControl(m, {"failure"})
        PROVE  \A q \in m.seen + 1 .. Len(l) : k[q] = l[q]
    <3>1. m.seen \in Nat
      BY <1>1, <2>4, Fields DEF IsControl
    <3> QED BY <1>1, <3>1
  <2> QED BY <1>1, <2>1, <2>2, <2>3, <2>4 DEF PlaceOK
<1>4. Steps(k) <= MaxSteps
  <2>1. Steps(l) <= MaxSteps /\ MaxSteps \in Nat
    BY BoundsAssumption DEF LogInv
  <2> QED BY <2>1, StepsGrow
<1>5. ASSUME NEW p \in 1 .. Len(l) + 1, IsControl(k[p], {"abandon"})
      PROVE  k[p].through <= Boundary(k)
  <2>1. CASE p = Len(l) + 1
    BY <1>1, <1>5, <2>1, BoundaryGrows
  <2>2. CASE p # Len(l) + 1
    <3>1. p \in 1 .. Len(l) /\ k[p] = l[p] /\ l[p] \in Message
      BY <1>1, <2>2
    <3>2. /\ l[p].through <= Boundary(l) /\ l[p].through \in 1 .. p - 1 /\ l[p].through \in Nat
      BY <1>1, <1>5, <3>1, Fields DEF LogInv, PlaceOK, IsControl
    <3>3. CASE IsClosing(m)
      <4>1. Boundary(k) = Len(l) + 1
        BY <3>3, BoundaryGrows
      <4> QED BY <1>1, <3>1, <3>2, <4>1
    <3>4. CASE ~ IsClosing(m)
      <4>1. Boundary(k) >= Boundary(l) /\ Boundary(k) \in Nat /\ Boundary(l) \in Nat
        BY <3>4, BoundaryGrows
      <4> QED BY <3>1, <3>2, <4>1
    <3> QED BY <3>3, <3>4
  <2> QED BY <2>1, <2>2
<1> QED BY <1>1, <1>2, <1>3, <1>4, <1>5 DEF LogInv

(* A message that is no Output leaves the invariant of the task alone, as  *)
(* long as a reply with its right does not see a word of the user in it.   *)
LEMMA TaskGrows ==
    ASSUME NEW l, NEW k, NEW m, NEW t, Grows(l, k, m), LogInv(l), TaskInv(l, t),
           m.kind # "output",
           t # NoTask /\ t.pc # "report" /\ t.active => ~ Unwanted(m)
    PROVE  TaskInv(k, t)
<1>1. CASE t = NoTask
  BY <1>1 DEF TaskInv
<1>2. CASE t # NoTask
  <2>1. /\ t \in Tasks(l) /\ (t.pc # "report" /\ t.active => Fresh(l, t)) /\ Covers(l, t)
    BY <1>2 DEF TaskInv
  <2>2. /\ l \in Seq(Message) /\ Len(l) \in Nat /\ Len(k) = Len(l) + 1 /\ k[Len(l) + 1] = m /\ m \in Message
        /\ \A p \in 1 .. Len(l) : k[p] = l[p]
    BY DEF Grows
  <2>3. /\ Calls(k) = Calls(l) /\ \A c \in Calls(l) : c[1] \in 1 .. Len(l)
    BY CallsGrow
  <2>4. PendingCalls(k) \subseteq PendingCalls(l)
    BY PendingGrows
  <2>5. t \in Tasks(k)
    <3>1. 0 .. Len(l) \subseteq 0 .. Len(k)
      BY <2>2
    <3> QED BY <2>1, <2>3, <3>1 DEF Tasks
  <2>6. /\ t.seen \in Nat /\ t.head \in 0 .. Len(l) /\ t.todo \subseteq Calls(l)
    BY <2>1 DEF Tasks
  <2>7. Covers(k, t)
    <3>1. t.head # Len(k)
      BY <2>2, <2>6
    <3> QED BY <2>1, <2>4, <3>1 DEF Covers
  <2>8. ASSUME t.pc # "report", t.active
        PROVE  Fresh(k, t)
    <3>1. Fresh(l, t) /\ ~ Unwanted(m)
      BY <1>2, <2>1, <2>8
    <3>2. NeedsReply(k)
      <4>1. LatestInput(l) \in Nat
        BY <2>2, LatestIs
      <4>2. ~ IsClosing(m)
        BY DEF IsClosing
      <4> QED BY <3>1, <4>1, <4>2, WantedGrows DEF Fresh, Unwanted
    <3>3. ASSUME t.pc # "new", NEW q \in t.seen + 1 .. Len(k)
          PROVE  ~ Unwanted(k[q])
      <4>1. CASE q = Len(l) + 1
        BY <2>2, <3>1, <4>1
      <4>2. CASE q # Len(l) + 1
        <5>1. q \in t.seen + 1 .. Len(l) /\ k[q] = l[q]
          BY <2>2, <2>6, <3>3, <4>2
        <5> QED BY <3>1, <3>3, <5>1 DEF Fresh
      <4> QED BY <4>1, <4>2
    <3>4. ASSUME t.pc \in {"settle", "effect"}, NEW c \in t.todo
          PROVE  ~ Abandoned(k, c)
      <4>1. c \in Calls(l) /\ ~ Abandoned(l, c) /\ ~ IsControl(m, {"abandon"})
        BY <2>6, <3>1, <3>4 DEF Fresh, Unwanted, IsControl
      <4> QED BY <4>1, AbandonedGrows
    <3> QED BY <3>2, <3>3, <3>4 DEF Fresh
  <2> QED BY <2>5, <2>7, <2>8 DEF TaskInv
<1> QED BY <1>1, <1>2

(* Revoking a task drops its right and nothing else.                       *)
LEMMA CancelKeeps ==
    ASSUME NEW l, NEW t, TaskInv(l, t)
    PROVE  /\ TaskInv(l, CancelTask(t))
           /\ CancelTask(t) = NoTask \/ ~ CancelTask(t).active
<1>1. CASE t = NoTask
  <2>1. CancelTask(t) = NoTask
    BY <1>1 DEF CancelTask, NoTask
  <2> QED BY <2>1 DEF TaskInv
<1>2. CASE t # NoTask
  <2>1. t \in Tasks(l) /\ Covers(l, t)
    BY <1>2 DEF TaskInv
  <2>2. t.pc # "none"
    BY <2>1 DEF Tasks, Places, Unwinding
  <2>3. CancelTask(t) = [t EXCEPT !.active = FALSE]
    BY <2>2 DEF CancelTask
  <2> DEFINE u == [t EXCEPT !.active = FALSE]
  <2>4. u \in Tasks(l)
    BY <2>1 DEF Tasks
  <2>5. u.pc = t.pc /\ u.todo = t.todo /\ u.cause = t.cause /\ u.head = t.head /\ ~ u.active
    BY <2>1 DEF Tasks
  <2> HIDE DEF u
  <2>6. Covers(l, u)
    BY <2>1, <2>5 DEF Covers
  <2> QED BY <2>3, <2>4, <2>5, <2>6 DEF TaskInv, u
<1> QED BY <1>1, <1>2

(* The rest of the state is typed as before: lists and heads only refer to *)
(* a log that never shrinks.                                               *)
LEMMA OthersGrow ==
    ASSUME OthersOK, NEW m, Grows(log, log', m), m.kind # "output",
           started' \subseteq Calls(log), abandonTodo' \subseteq Calls(log),
           UNCHANGED <<driver, abandonHead, followHead, report, gateOpen, crashes>>
    PROVE  OthersOK'
<1>1. Calls(log') = Calls(log)
  BY CallsGrow
<1>2. Len(log) \in Nat /\ Len(log') = Len(log) + 1
  BY DEF Grows
<1>3. 0 .. Len(log) \subseteq 0 .. Len(log')
  BY <1>2
<1>4. /\ drive' = drive /\ wake' = wake /\ abandonHead' = abandonHead
      /\ followHead' = followHead /\ report' = report /\ gateOpen' = gateOpen /\ crashes' = crashes
  BY DEF driver
<1>5. report' \in [pc : {"none", "wait", "look", "join", "own", "done"}, seen : 0 .. Len(log')]
  BY <1>3, <1>4 DEF OthersOK
<1> QED BY <1>1, <1>3, <1>4, <1>5 DEF OthersOK

(* A step that appends one message that is no Output.                      *)
LEMMA GrowStep ==
    ASSUME ConvInv, NEW m \in Message, log' = Append(log, m), m.kind # "output",
           m.kind = "control" => m.through \in 1 .. Len(log),
           m.kind = "tool_result" => m.ref \in Calls(log),
           IsControl(m, {"failure"}) => \A q \in m.seen + 1 .. Len(log) : ~ Unwanted(log[q]),
           TaskInv(log', task'),
           started' \subseteq Calls(log), abandonTodo' \subseteq Calls(log),
           UNCHANGED <<driver, abandonHead, followHead, report, gateOpen, crashes>>
    PROVE  ConvInv'
<1>1. LogInv(log) /\ OthersOK
  BY ConvParts
<1>2. Grows(log, log', m)
  BY <1>1, AppendGrows DEF LogInv
<1>3. LogInv(log')
  BY <1>1, <1>2, LogGrows
<1>4. OthersOK'
  BY <1>1, <1>2, OthersGrow
<1> QED BY <1>3, <1>4, ConvPartsNext

(* A step that leaves the log alone.                                       *)
LEMMA QuietStep ==
    ASSUME ConvInv, log' = log, TaskInv(log, task'), OthersOK'
    PROVE  ConvInv'
BY ConvParts, ConvPartsNext

LEMMA OthersSame ==
    ASSUME OthersOK, log' = log, UNCHANGED <<started, driver, consumers, gateOpen, crashes>>
    PROVE  OthersOK'
BY DEF OthersOK, driver, consumers

-----------------------------------------------------------------------------
(* The user's steps.                                                       *)

(* A word of the user revokes the running reply, or it is a resume.        *)
LEMMA UserStep ==
    ASSUME ConvInv, NEW m \in Message, log' = Append(log, m),
           m.kind \in {"input", "control"}, ~ IsControl(m, {"failure"}),
           m.kind = "control" => m.through \in 1 .. Len(log),
           task' = CancelTask(task) \/ (task' = task /\ ~ Unwanted(m)),
           UNCHANGED <<started, driver, consumers, gateOpen, crashes>>
    PROVE  ConvInv'
<1>1. LogInv(log) /\ TaskInv(log, task) /\ OthersOK
  BY ConvParts
<1>2. Grows(log, log', m)
  BY <1>1, AppendGrows DEF LogInv
<1>3. m.kind # "output" /\ m.kind # "tool_result"
  OBVIOUS
<1>4. TaskInv(log, task') /\ (task' # NoTask /\ task'.pc # "report" /\ task'.active => ~ Unwanted(m))
  <2>1. CASE task' = CancelTask(task)
    <3>1. TaskInv(log, CancelTask(task)) /\ (CancelTask(task) = NoTask \/ ~ CancelTask(task).active)
      BY <1>1, CancelKeeps
    <3> QED BY <2>1, <3>1
  <2>2. CASE task' = task /\ ~ Unwanted(m)
    BY <1>1, <2>2
  <2> QED BY <2>1, <2>2
<1>5. TaskInv(log', task')
  <2>1. PICK k : k = log'
    OBVIOUS
  <2>2. PICK t : t = task'
    OBVIOUS
  <2>3. TaskInv(k, t)
    BY <1>1, <1>2, <1>3, <1>4, <2>1, <2>2, TaskGrows
  <2> QED BY <2>1, <2>2, <2>3
<1>6. /\ started' \subseteq Calls(log) /\ abandonTodo' \subseteq Calls(log)
      /\ UNCHANGED <<driver, abandonHead, followHead, report, gateOpen, crashes>>
  BY <1>1 DEF OthersOK, consumers
<1> QED BY <1>3, <1>5, <1>6, GrowStep

LEMMA ControlTyped ==
    ASSUME NEW a \in {"pause", "resume", "abandon"}, NEW p \in Nat
    PROVE  /\ ControlMessage(a, p) \in Message
           /\ ControlMessage(a, p).kind = "control"
           /\ ControlMessage(a, p).action = a
           /\ ControlMessage(a, p).through = p
           /\ ~ IsControl(ControlMessage(a, p), {"failure"})
           /\ a = "resume" => ~ Unwanted(ControlMessage(a, p))
<1>1. ControlMessage(a, p) \in [kind : {"control"}, action : {"pause", "resume", "abandon"}, through : Nat]
  BY DEF ControlMessage
<1>2. ControlMessage(a, p) \in Message
  BY <1>1 DEF Message
<1>3. /\ ControlMessage(a, p).kind = "control" /\ ControlMessage(a, p).action = a
      /\ ControlMessage(a, p).through = p
  BY DEF ControlMessage
<1> QED BY <1>2, <1>3 DEF IsControl, Unwanted, IsInput

LEMMA AcceptStep == ASSUME ConvInv, Accept PROVE ConvInv'
<1>1. InputMessage \in Message
  BY DEF InputMessage, Message
<1>2. InputMessage.kind = "input" /\ ~ IsControl(InputMessage, {"failure"})
  BY DEF InputMessage, IsControl
<1>3. /\ log' = Append(log, InputMessage) /\ task' = CancelTask(task)
      /\ UNCHANGED <<started, driver, consumers, gateOpen, crashes>>
  BY DEF Accept
<1> QED BY <1>1, <1>2, <1>3, UserStep

(* Pause, resume and abandon name a prefix of the log.                     *)
LEMMA ControlStep ==
    ASSUME ConvInv, NEW a \in {"pause", "resume", "abandon"}, NEW p \in 1 .. Len(log),
           log' = Append(log, ControlMessage(a, p)),
           task' = CancelTask(task) \/ (task' = task /\ a = "resume"),
           UNCHANGED <<started, driver, consumers, gateOpen, crashes>>
    PROVE  ConvInv'
<1>1. log \in Seq(Message)
  BY ConvParts DEF LogInv
<1>2. p \in Nat
  BY <1>1
<1>3. PICK m : m = ControlMessage(a, p)
  OBVIOUS
<1>4. /\ m \in Message /\ m.kind = "control" /\ m.through = p /\ ~ IsControl(m, {"failure"})
      /\ (a = "resume" => ~ Unwanted(m))
  BY <1>2, <1>3, ControlTyped
<1> QED BY <1>3, <1>4, UserStep

LEMMA UserKeeps == ASSUME ConvInv, User PROVE ConvInv'
<1>1. log \in Seq(Message) /\ Len(log) \in Nat /\ DOMAIN log = 1 .. Len(log)
  <2>1. log \in Seq(Message)
    BY ConvParts DEF LogInv
  <2> QED BY <2>1
<1>2. CASE Accept
  BY <1>2, AcceptStep
<1>3. CASE Pause
  <2>1. Len(log) \in 1 .. Len(log)
    BY <1>1, <1>3 DEF Pause
  <2> QED BY <1>3, <2>1, ControlStep DEF Pause
<1>4. CASE Resume
  <2>1. Len(log) \in 1 .. Len(log)
    <3>1. LatestInput(log) > 0 /\ LatestInput(log) \in 0 .. Len(log)
      BY <1>1, <1>4, LatestIs DEF Resume
    <3> QED BY <1>1, <3>1
  <2>2. /\ log' = Append(log, ControlMessage("resume", Len(log))) /\ task' = task
        /\ UNCHANGED <<started, driver, consumers, gateOpen, crashes>>
    BY <1>4 DEF Resume
  <2> QED BY <2>1, <2>2, ControlStep
<1>5. CASE Complete
  <2>1. LogInv(log) /\ TaskInv(log, task) /\ OthersOK
    BY ConvParts
  <2>2. log' = log /\ task' = task
    BY <1>5 DEF Complete, ReportStep
  <2>3. report' \in [pc : {"none", "wait", "look", "join", "own", "done"}, seen : 0 .. Len(log)]
    BY <1>1, <1>5 DEF Complete
  <2>4. OthersOK'
    BY <1>5, <2>1, <2>2, <2>3 DEF Complete, ReportStep, OthersOK, driver
  <2> QED BY <2>1, <2>2, <2>4, QuietStep
<1>6. ASSUME NEW p \in DOMAIN log, Control("pause", p) \/ Control("resume", p)
      PROVE  ConvInv'
  <2>1. PICK a \in {"pause", "resume"} : Control(a, p)
    BY <1>6
  <2>2. /\ log' = Append(log, ControlMessage(a, p))
        /\ task' = CancelTask(task) \/ (task' = task /\ a = "resume")
        /\ UNCHANGED <<started, driver, consumers, gateOpen, crashes>>
    BY <2>1 DEF Control
  <2> QED BY <1>1, <2>2, ControlStep
<1>7. ASSUME NEW p \in DOMAIN log, Abandon(p)
      PROVE  ConvInv'
  <2>1. /\ log' = Append(log, ControlMessage("abandon", p))
        /\ task' = CancelTask(task)
        /\ UNCHANGED <<started, driver, consumers, gateOpen, crashes>>
    BY <1>7 DEF Abandon
  <2> QED BY <1>1, <2>1, ControlStep
<1> QED BY <1>2, <1>3, <1>4, <1>5, <1>6, <1>7 DEF User

-----------------------------------------------------------------------------
(* The follower, its drive, the caller of complete, gate and restart.      *)

LEMMA FollowKeeps == ASSUME ConvInv, Follow PROVE ConvInv'
<1>1. LogInv(log) /\ TaskInv(log, task) /\ OthersOK
  BY ConvParts
<1>2. Len(log) \in 0 .. Len(log)
  BY <1>1 DEF LogInv
<1>3. OthersOK'
  BY <1>1, <1>2 DEF Follow, OthersOK
<1>4. log' = log /\ task' = task
  BY DEF Follow
<1> QED BY <1>1, <1>3, <1>4, QuietStep

(* A new task is in the slot because a reply is wanted.                    *)
LEMMA NewTaskOK ==
    ASSUME NEW l \in Seq(Message)
    PROVE  /\ NeedsReply(l) => TaskInv(l, NewTask)
           /\ TaskInv(l, NewReportTask)
<1>1. 0 \in 0 .. Len(l)
  OBVIOUS
<1>2. /\ NewTask.pc = "new" /\ NewTask.active /\ NewTask \in Tasks(l)
  BY <1>1 DEF NewTask, Tasks, Places, Unwinding
<1>3. /\ NewReportTask.pc = "report" /\ NewReportTask \in Tasks(l)
  BY <1>1 DEF NewReportTask, NewTask, Tasks, Places, Unwinding
<1>4. NeedsReply(l) => TaskInv(l, NewTask)
  BY <1>2 DEF TaskInv, Fresh, Covers
<1>5. TaskInv(l, NewReportTask)
  BY <1>3 DEF TaskInv, Covers
<1> QED BY <1>4, <1>5

LEMMA DriveKeeps == ASSUME ConvInv, Drive PROVE ConvInv'
<1>1. LogInv(log) /\ TaskInv(log, task) /\ OthersOK
  BY ConvParts
<1>2. CASE DriveLoop
  <2>1. OthersOK'
    BY <1>1, <1>2 DEF DriveLoop, OthersOK, consumers
  <2> QED BY <1>1, <1>2, <2>1, QuietStep DEF DriveLoop
<1>3. CASE DriveCurrent
  <2>1. OthersOK'
    BY <1>1, <1>3 DEF DriveCurrent, OthersOK, consumers
  <2> QED BY <1>1, <1>3, <2>1, QuietStep DEF DriveCurrent
<1>4. CASE DriveDrained
  <2>1. OthersOK'
    BY <1>1, <1>4 DEF DriveDrained, OthersOK, consumers
  <2> QED BY <1>1, <1>4, <2>1, QuietStep DEF DriveDrained
<1>5. CASE DriveGate
  <2>1. OthersOK'
    BY <1>1, <1>5 DEF DriveGate, OthersOK, consumers
  <2> QED BY <1>1, <1>5, <2>1, QuietStep DEF DriveGate
<1>6. CASE DriveJoin
  <2>1. OthersOK'
    BY <1>1, <1>6 DEF DriveJoin, OthersOK, consumers
  <2> QED BY <1>1, <1>6, <2>1, QuietStep DEF DriveJoin
<1>7. CASE DriveAdmit
  <2>1. /\ log' = log /\ started' = started /\ wake' = wake /\ abandonHead' = abandonHead
        /\ abandonTodo' = abandonTodo /\ followHead' = followHead /\ gateOpen' = gateOpen /\ crashes' = crashes
    BY <1>7 DEF DriveAdmit
  <2>2. drive' \in {"join", "loop", "gate"}
    BY <1>7 DEF DriveAdmit
  <2>3. report' \in [pc : {"none", "wait", "look", "join", "own", "done"}, seen : 0 .. Len(log)]
    <3>1. report' = report \/ report' = [report EXCEPT !.pc = IF @ = "join" THEN "look" ELSE @]
      BY <1>7 DEF DriveAdmit
    <3> QED BY <1>1, <3>1 DEF OthersOK
  <2>4. OthersOK'
    BY <1>1, <2>1, <2>2, <2>3 DEF OthersOK
  <2>5. TaskInv(log, task')
    <3>1. task' = task \/ (NeedsReply(log) /\ task' = NewTask)
      BY <1>7 DEF DriveAdmit
    <3> QED BY <1>1, <3>1, NewTaskOK DEF LogInv
  <2> QED BY <2>1, <2>4, <2>5, QuietStep
<1> QED BY <1>2, <1>3, <1>4, <1>5, <1>6, <1>7 DEF Drive

LEMMA ReporterKeeps == ASSUME ConvInv, Reporter PROVE ConvInv'
<1>1. LogInv(log) /\ TaskInv(log, task) /\ OthersOK
  BY ConvParts
<1>2. report \in [pc : {"none", "wait", "look", "join", "own", "done"}, seen : 0 .. Len(log)]
  BY <1>1 DEF OthersOK
<1>3. /\ log' = log /\ started' = started /\ abandonHead' = abandonHead
      /\ abandonTodo' = abandonTodo /\ followHead' = followHead /\ gateOpen' = gateOpen /\ crashes' = crashes
  BY DEF Reporter, CompleteNotified, CompleteAdmit, CompleteJoined, CompleteEnds, CompletePreempted, ReportStep
<1>4. report' \in [pc : {"none", "wait", "look", "join", "own", "done"}, seen : 0 .. Len(log)]
  <2>1. CASE CompleteNotified
    <3>1. report.seen \in 0 .. Len(log) /\ Len(log) \in Nat
      BY <1>1, <1>2 DEF LogInv
    <3>2. report.seen + 1 \in 0 .. Len(log)
      BY <2>1, <3>1 DEF CompleteNotified
    <3> QED BY <2>1, <3>2 DEF CompleteNotified
  <2>2. CASE CompleteAdmit
    BY <1>2, <2>2 DEF CompleteAdmit
  <2>3. CASE CompleteJoined
    BY <1>2, <2>3 DEF CompleteJoined
  <2>4. CASE CompleteEnds
    BY <1>2, <2>4 DEF CompleteEnds
  <2>5. CASE CompletePreempted
    BY <1>2, <2>5 DEF CompletePreempted
  <2> QED BY <2>1, <2>2, <2>3, <2>4, <2>5 DEF Reporter
<1>5. /\ drive' \in {"none", "loop", "start", "drain", "admit", "gate", "join"}
      /\ wake' \in BOOLEAN
  <2>1. CASE UNCHANGED driver
    BY <1>1, <2>1 DEF OthersOK, driver
  <2>2. CASE CompleteAdmit /\ ~ UNCHANGED driver
    <3>1. /\ drive' = (CASE drive = "join" -> "loop"
                        [] drive = "drain" -> "admit"
                        [] OTHER -> drive)
          /\ wake' = (wake \/ drive = "join")
      BY <2>2 DEF CompleteAdmit
    <3>2. drive' \in {"loop", "admit", drive}
      BY <3>1
    <3> QED BY <1>1, <3>1, <3>2 DEF OthersOK
  <2> QED BY <2>1, <2>2 DEF Reporter, CompleteNotified, CompleteJoined, CompleteEnds, CompletePreempted
<1>6. OthersOK'
  BY <1>1, <1>3, <1>4, <1>5 DEF OthersOK
<1>7. TaskInv(log, task')
  <2>1. task' \in {task, NoTask, NewReportTask}
    BY DEF Reporter, CompleteNotified, CompleteAdmit, CompleteJoined, CompleteEnds, CompletePreempted
  <2>2. TaskInv(log, NewReportTask) /\ TaskInv(log, NoTask)
    BY <1>1, NewTaskOK DEF LogInv, TaskInv
  <2> QED BY <1>1, <2>1, <2>2
<1> QED BY <1>3, <1>6, <1>7, QuietStep

LEMMA GateKeeps == ASSUME ConvInv, GateChange PROVE ConvInv'
<1>1. LogInv(log) /\ TaskInv(log, task) /\ OthersOK
  BY ConvParts
<1>2. OthersOK'
  BY <1>1 DEF GateChange, OthersOK, driver, consumers
<1> QED BY <1>1, <1>2, QuietStep DEF GateChange

LEMMA CrashKeeps == ASSUME ConvInv, Crash PROVE ConvInv'
<1>1. LogInv(log) /\ OthersOK
  BY ConvParts
<1>2. 0 \in 0 .. Len(log)
  BY <1>1 DEF LogInv
<1>3. log' = log /\ task' = NoTask
  BY DEF Crash, Restart
<1>4. report' \in [pc : {"none", "wait", "look", "join", "own", "done"}, seen : 0 .. Len(log')]
  BY <1>2, <1>3 DEF Crash, Restart, NoReport
<1>5. crashes' \in Nat
  BY <1>1 DEF Crash, Restart, OthersOK
<1>6. OthersOK'
  BY <1>1, <1>2, <1>3, <1>4, <1>5 DEF Crash, Restart, OthersOK
<1>7. TaskInv(log, task')
  BY <1>3 DEF TaskInv
<1> QED BY <1>3, <1>6, <1>7, QuietStep

-----------------------------------------------------------------------------
(* The consumer of abandon controls.                                       *)

(* A result for a call of the log is a message that may be appended.       *)
LEMMA ResultTyped ==
    ASSUME NEW l \in Seq(Message), NEW c \in Calls(l)
    PROVE  /\ ResultMessage(c) \in Message
           /\ ResultMessage(c).kind = "tool_result" /\ ResultMessage(c).ref = c
           /\ ~ Unwanted(ResultMessage(c)) /\ ~ IsControl(ResultMessage(c), {"failure"})
<1>1. c \in Nat \X Nat
  <2>1. InputMessage \in Message
    BY DEF InputMessage, Message
  <2>2. Grows(l, Append(l, InputMessage), InputMessage)
    BY <2>1, AppendGrows
  <2> QED BY <2>2, CallsGrow
<1>2. ResultMessage(c) \in [kind : {"tool_result"}, ref : Nat \X Nat]
  BY <1>1 DEF ResultMessage
<1>3. ResultMessage(c) \in Message
  BY <1>2 DEF Message
<1>4. ResultMessage(c).kind = "tool_result" /\ ResultMessage(c).ref = c
  BY DEF ResultMessage
<1> QED BY <1>3, <1>4 DEF Unwanted, IsInput, IsControl

LEMMA CallsTyped ==
    ASSUME NEW l \in Seq(Message)
    PROVE  Calls(l) \subseteq Nat \X Nat /\ \A c \in Calls(l) : c[1] \in 1 .. Len(l)
<1>1. InputMessage \in Message
  BY DEF InputMessage, Message
<1>2. Grows(l, Append(l, InputMessage), InputMessage)
  BY <1>1, AppendGrows
<1> QED BY <1>2, CallsGrow

(* The calls of a prefix are calls of the log.                             *)
LEMMA PrefixCalls ==
    ASSUME NEW l \in Seq(Message), NEW n \in 0 .. Len(l)
    PROVE  Calls(Prefix(l, n)) \subseteq Calls(l)
<1>1. Len(l) \in Nat /\ DOMAIN l = 1 .. Len(l) /\ n \in Nat /\ n <= Len(l)
  OBVIOUS
<1>2. Prefix(l, n) = [i \in 1 .. n |-> l[i]]
  BY <1>1 DEF Prefix
<1>3. PICK k : k = Prefix(l, n)
  OBVIOUS
<1>4. DOMAIN k = 1 .. n /\ \A i \in 1 .. n : k[i] = l[i]
  BY <1>2, <1>3
<1>5. ASSUME NEW p \in 1 .. n
      PROVE  p \in DOMAIN l /\ CallsOf(k, p) = CallsOf(l, p)
  <2>1. k[p] = l[p] /\ p \in 1 .. Len(l)
    BY <1>1, <1>4
  <2> QED BY <1>1, <2>1, Zenon DEF CallsOf
<1>6. Calls(k) \subseteq Calls(l)
  BY <1>4, <1>5 DEF Calls
<1> QED BY <1>3, <1>6

LEMMA AbandonKeeps == ASSUME ConvInv, AbandonConsumer PROVE ConvInv'
<1>1. LogInv(log) /\ TaskInv(log, task) /\ OthersOK
  BY ConvParts
<1>2. log \in Seq(Message) /\ Len(log) \in Nat /\ DOMAIN log = 1 .. Len(log)
  BY <1>1 DEF LogInv
<1>3. CASE AbandonRead
  <2>1. ASSUME NEW a \in {p \in abandonHead + 1 .. Len(log) : IsControl(log[p], {"abandon"})}
        PROVE  AbandonedBy(log, a) \subseteq Calls(log)
    <3>1. a \in DOMAIN log
      BY <1>1, <1>2 DEF OthersOK
    <3>2. log[a].through \in 1 .. a - 1
      BY <1>1, <2>1, <3>1 DEF LogInv, PlaceOK, IsControl
    <3>3. log[a].through \in 0 .. Len(log)
      BY <1>2, <3>1, <3>2
    <3>4. Calls(Prefix(log, log[a].through)) \subseteq Calls(log)
      BY <1>2, <3>3, PrefixCalls
    <3> QED BY <3>4 DEF AbandonedBy
  <2>2. abandonTodo' \subseteq Calls(log)
    BY <1>3, <2>1 DEF AbandonRead
  <2>3. OthersOK'
    <3>1. /\ log' = log /\ started' = started /\ drive' = drive /\ wake' = wake
          /\ followHead' = followHead /\ report' = report /\ gateOpen' = gateOpen /\ crashes' = crashes
      BY <1>3 DEF AbandonRead, driver
    <3>2. abandonHead' \in 0 .. Len(log)
      BY <1>2, <1>3 DEF AbandonRead
    <3> QED BY <1>1, <2>2, <3>1, <3>2 DEF OthersOK
  <2> QED BY <1>1, <1>3, <2>3, QuietStep DEF AbandonRead
<1>4. CASE AbandonSettle
  <2>1. PICK c : c = First(abandonTodo)
    OBVIOUS
  <2>2. c \in Calls(log)
    <3>1. abandonTodo \subseteq Nat \X Nat /\ abandonTodo # {}
      BY <1>1, <1>2, <1>4, CallsTyped DEF OthersOK, AbandonSettle
    <3> QED BY <1>1, <2>1, <3>1, FirstIn DEF OthersOK
  <2>3. /\ log' = Answer(c) /\ abandonTodo' \subseteq Calls(log) /\ task' = task
        /\ started' \subseteq Calls(log)
        /\ UNCHANGED <<driver, abandonHead, followHead, report, gateOpen, crashes>>
    BY <1>1, <1>4, <2>1 DEF AbandonSettle, OthersOK
  <2>4. CASE c \in Answered(log)
    <3>1. log' = log
      BY <2>3, <2>4 DEF Answer
    <3>2. OthersOK'
      BY <1>1, <1>4, <2>3, <3>1 DEF AbandonSettle, OthersOK, driver
    <3> QED BY <1>1, <2>3, <3>1, <3>2, QuietStep
  <2>5. CASE c \notin Answered(log)
    <3>1. PICK m : m = ResultMessage(c)
      OBVIOUS
    <3>2. /\ m \in Message /\ m.kind = "tool_result" /\ m.ref = c
          /\ ~ Unwanted(m) /\ ~ IsControl(m, {"failure"})
      BY <1>2, <2>2, <3>1, ResultTyped
    <3>3. log' = Append(log, m)
      BY <2>3, <2>5, <3>1 DEF Answer
    <3>4. Grows(log, log', m)
      BY <1>2, <3>2, <3>3, AppendGrows
    <3>5. TaskInv(log', task')
      <4>1. m.kind # "output"
        BY <3>2
      <4>2. TaskInv(log', task)
        BY <1>1, <3>2, <3>4, <4>1, TaskGrows
      <4> QED BY <2>3, <4>2
    <3> QED BY <2>2, <2>3, <3>2, <3>3, <3>5, GrowStep
  <2> QED BY <2>4, <2>5
<1> QED BY <1>3, <1>4 DEF AbandonConsumer

-----------------------------------------------------------------------------
(* The reply program.                                                      *)

LEMMA TaskIs ==
    ASSUME ConvInv, task.pc # "none", task.pc # "report"
    PROVE  /\ task \in Tasks(log)
           /\ task.active => Fresh(log, task)
           /\ Covers(log, task)
           /\ task.todo \subseteq Calls(log) /\ task.todo \subseteq Nat \X Nat
           /\ task.seen \in 0 .. Len(log) /\ task.head \in 0 .. Len(log)
           /\ log \in Seq(Message) /\ Len(log) \in Nat
<1>1. TaskInv(log, task) /\ log \in Seq(Message)
  BY ConvParts DEF LogInv
<1>2. task # NoTask
  BY DEF NoTask
<1>3. /\ task \in Tasks(log) /\ (task.active => Fresh(log, task)) /\ Covers(log, task)
  BY <1>1, <1>2 DEF TaskInv
<1>4. /\ task.todo \subseteq Calls(log) /\ task.seen \in 0 .. Len(log) /\ task.head \in 0 .. Len(log)
  BY <1>3 DEF Tasks
<1>5. Calls(log) \subseteq Nat \X Nat
  BY <1>1, CallsTyped
<1> QED BY <1>1, <1>3, <1>4, <1>5

(* A step of the program that only moves the program.                      *)
LEMMA ProgramStep ==
    ASSUME ConvInv, log' = log, TaskInv(log, task'),
           started' \subseteq Calls(log), UNCHANGED <<driver, consumers, gateOpen, crashes>>
    PROVE  ConvInv'
<1>1. OthersOK
  BY ConvParts
<1>2. OthersOK'
  BY <1>1 DEF OthersOK, driver, consumers
<1> QED BY <1>2, QuietStep

LEMMA EndStep ==
    ASSUME ConvInv, log' = log, task' = NoTask, started' = started,
           UNCHANGED <<driver, consumers, gateOpen, crashes>>
    PROVE  ConvInv'
<1>1. TaskInv(log, task') /\ started' \subseteq Calls(log)
  BY ConvParts DEF TaskInv, OthersOK
<1> QED BY <1>1, ProgramStep

(* A call that has its result may leave the list.                          *)
LEMMA LeaveList ==
    ASSUME NEW k, NEW t \in Tasks(k), NEW u \in Tasks(k), NEW c,
           TaskInv(k, t), t.pc \in {"settle", "effect"}, c \notin PendingCalls(k),
           u.pc = "settle", u.todo = t.todo \ {c}, u.active = t.active, u.seen = t.seen
    PROVE  TaskInv(k, u)
<1>1. t # NoTask
  BY DEF NoTask
<1>2. (t.active => Fresh(k, t)) /\ Covers(k, t)
  BY <1>1 DEF TaskInv
<1>3. Covers(k, u)
  BY <1>2 DEF Covers
<1>4. u.active => Fresh(k, u)
  BY <1>2 DEF Fresh
<1> QED BY <1>3, <1>4 DEF TaskInv

LEMMA AnswerStep ==
    ASSUME ConvInv, task.pc \in {"settle", "effect"}, NEW c \in task.todo, log' = Answer(c),
           \/ task' = NoTask
           \/ task' = [task EXCEPT !.pc = "settle", !.todo = @ \ {c}],
           UNCHANGED <<started, driver, consumers, gateOpen, crashes>>
    PROVE  ConvInv'
<1>1. /\ task \in Tasks(log) /\ task.todo \subseteq Calls(log)
      /\ log \in Seq(Message) /\ c \in Calls(log)
  BY TaskIs
<1>2. LogInv(log) /\ TaskInv(log, task) /\ OthersOK
  BY ConvParts
<1> DEFINE u == [task EXCEPT !.pc = "settle", !.todo = @ \ {c}]
<1>3. /\ u \in [pc : Places, active : BOOLEAN, seen : 0 .. Len(log), head : 0 .. Len(log),
           todo : SUBSET Calls(log), cause : {"none", "error", "conflict"}]
      /\ u.pc = "settle" /\ u.todo = task.todo \ {c} /\ u.active = task.active /\ u.seen = task.seen
  BY <1>1 DEF Tasks, Places, Unwinding
<1>4. u \in Tasks(log)
  BY <1>3 DEF Tasks
<1> HIDE DEF u
<1>5. CASE c \in Answered(log)
  <2>1. log' = log
    BY <1>5 DEF Answer
  <2>2. c \notin PendingCalls(log)
    BY <1>5 DEF PendingCalls
  <2>3. TaskInv(log, u)
    BY <1>1, <1>2, <1>3, <1>4, <2>2, LeaveList
  <2>4. TaskInv(log, task')
    BY <2>3 DEF u, TaskInv
  <2>5. started' \subseteq Calls(log)
    BY <1>2 DEF OthersOK
  <2> QED BY <2>1, <2>4, <2>5, ProgramStep
<1>6. CASE c \notin Answered(log)
  <2>1. PICK m : m = ResultMessage(c)
    OBVIOUS
  <2>2. /\ m \in Message /\ m.kind = "tool_result" /\ m.ref = c
        /\ ~ Unwanted(m) /\ ~ IsControl(m, {"failure"})
    BY <1>1, <2>1, ResultTyped
  <2>3. log' = Append(log, m)
    BY <1>6, <2>1 DEF Answer
  <2>4. PICK k : k = log'
    OBVIOUS
  <2>5. Grows(log, k, m) /\ m.kind # "output"
    BY <1>1, <2>2, <2>3, <2>4, AppendGrows
  <2>6. TaskInv(k, task)
    BY <1>2, <2>2, <2>5, TaskGrows
  <2>7. c \notin PendingCalls(k)
    BY <2>2, <2>5, PendingGrows
  <2>8. task \in Tasks(k) /\ u \in Tasks(k)
    <3>1. Calls(k) = Calls(log)
      BY <2>5, CallsGrow
    <3>2. 0 .. Len(log) \subseteq 0 .. Len(k)
      BY <2>5 DEF Grows
    <3> QED BY <1>1, <1>4, <3>1, <3>2 DEF Tasks
  <2>9. TaskInv(k, u)
    BY <1>3, <2>6, <2>7, <2>8, LeaveList
  <2>10. TaskInv(log', task')
    BY <2>4, <2>9 DEF u, TaskInv
  <2>11. /\ started' \subseteq Calls(log) /\ abandonTodo' \subseteq Calls(log)
         /\ UNCHANGED <<driver, abandonHead, followHead, report, gateOpen, crashes>>
    BY <1>2 DEF OthersOK, consumers
  <2> QED BY <1>1, <2>2, <2>3, <2>5, <2>10, <2>11, GrowStep
<1> QED BY <1>5, <1>6

LEMMA RunKeeps == ASSUME ConvInv, TaskRun PROVE ConvInv'
<1>1. /\ task \in Tasks(log) /\ Fresh(log, task) /\ Len(log) \in Nat
  BY TaskIs DEF TaskRun
<1> DEFINE u == [task EXCEPT !.pc = "run", !.seen = Len(log)]
<1>2. u \in Tasks(log) /\ u.pc = "run" /\ u.seen = Len(log)
  <2>1. PICK n : n = Len(log)
    OBVIOUS
  <2>2. n \in 0 .. n
    BY <1>1, <2>1
  <2> QED BY <1>1, <2>1, <2>2 DEF Tasks, Places, Unwinding
<1> HIDE DEF u
<1>3. Fresh(log, u) /\ Covers(log, u)
  BY <1>1, <1>2 DEF Fresh, Covers
<1>4. TaskInv(log, u)
  BY <1>2, <1>3 DEF TaskInv
<1>5. started' \subseteq Calls(log)
  BY ConvParts DEF TaskRun, OthersOK
<1>6. TaskInv(log, task')
  BY <1>4 DEF TaskRun, u
<1> QED BY <1>5, <1>6, ProgramStep DEF TaskRun

(* A call of the open segment lies after every abandoned prefix.           *)
LEMMA PendingNotAbandoned ==
    ASSUME NEW l, LogInv(l), NEW c \in PendingCalls(l)
    PROVE  ~ Abandoned(l, c)
<1>1. l \in Seq(Message) /\ c \in Calls(l) /\ c[1] > Boundary(l)
  BY DEF LogInv, PendingCalls
<1>2. c[1] \in 1 .. Len(l) /\ Len(l) \in Nat
  BY <1>1, CallsTyped
<1>3. Boundary(l) \in Nat
  <2>1. InputMessage \in Message
    BY DEF InputMessage, Message
  <2>2. Grows(l, Append(l, InputMessage), InputMessage)
    BY <1>1, <2>1, AppendGrows
  <2> QED BY <2>2, ScansGrow
<1>4. ASSUME NEW p \in c[1] + 1 .. Len(l), IsControl(l[p], {"abandon"}), l[p].through >= c[1]
      PROVE  FALSE
  <2>1. p \in 1 .. Len(l) /\ p \in DOMAIN l
    BY <1>1, <1>2
  <2>2. l[p].through <= Boundary(l) /\ l[p].through \in 1 .. p - 1
    BY <1>4, <2>1 DEF LogInv, PlaceOK, IsControl
  <2>3. l[p].through \in Int
    BY <1>2, <2>1, <2>2
  <2> QED BY <1>1, <1>2, <1>3, <1>4, <2>2, <2>3
<1> QED BY <1>4 DEF Abandoned

LEMMA PendingKeeps == ASSUME ConvInv, TaskPending PROVE ConvInv'
<1>1. /\ task \in Tasks(log) /\ (task.active => Fresh(log, task))
  BY TaskIs DEF TaskPending
<1>2. PendingCalls(log) \subseteq Calls(log)
  BY DEF PendingCalls
<1> DEFINE u == [task EXCEPT !.pc = "settle", !.todo = PendingCalls(log)]
<1>3. /\ u \in Tasks(log) /\ u.pc = "settle" /\ u.todo = PendingCalls(log)
      /\ u.seen = task.seen /\ u.active = task.active
  BY <1>1, <1>2 DEF Tasks, Places, Unwinding
<1> HIDE DEF u
<1>4. \A c \in PendingCalls(log) : ~ Abandoned(log, c)
  BY ConvParts, PendingNotAbandoned
<1>5. task.pc = "run"
  BY DEF TaskPending
<1>6. Covers(log, u) /\ (u.active => Fresh(log, u))
  BY <1>1, <1>3, <1>4, <1>5 DEF Fresh, Covers
<1>7. TaskInv(log, u)
  BY <1>3, <1>6 DEF TaskInv
<1>8. started' \subseteq Calls(log)
  BY ConvParts DEF TaskPending, OthersOK
<1>9. TaskInv(log, task')
  BY <1>7 DEF TaskPending, u
<1> QED BY <1>8, <1>9, ProgramStep DEF TaskPending

LEMMA CallKeeps == ASSUME ConvInv, TaskCall PROVE ConvInv'
<1>1. /\ task \in Tasks(log) /\ (task.active => Fresh(log, task)) /\ Covers(log, task)
      /\ task.todo \subseteq Calls(log) /\ task.todo \subseteq Nat \X Nat
  BY TaskIs DEF TaskCall
<1>2. task.pc = "settle" /\ task.todo # {} /\ UNCHANGED <<driver, consumers, gateOpen, crashes>>
  BY DEF TaskCall
<1>3. PICK c : c = First(task.todo)
  OBVIOUS
<1>4. c \in task.todo
  BY <1>1, <1>2, <1>3, FirstIn
<1>5. CASE log' = Answer(c) /\ task' = [task EXCEPT !.todo = @ \ {c}] /\ started' = started
  <2>1. task' = [task EXCEPT !.pc = "settle", !.todo = @ \ {c}]
    BY <1>1, <1>2, <1>5 DEF Tasks
  <2> QED BY <1>2, <1>4, <1>5, <2>1, AnswerStep
<1>6. CASE task' = NoTask /\ log' = log /\ started' = started
  BY <1>2, <1>6, EndStep
<1>7. CASE started' = started \cup {c} /\ task' = [task EXCEPT !.pc = "effect"] /\ log' = log
  <2> DEFINE u == [task EXCEPT !.pc = "effect"]
  <2>1. /\ u \in Tasks(log) /\ u.pc = "effect" /\ u.todo = task.todo
        /\ u.seen = task.seen /\ u.active = task.active
    BY <1>1 DEF Tasks, Places
  <2> HIDE DEF u
  <2>2. Covers(log, u)
    BY <1>1, <1>2, <2>1 DEF Covers
  <2>3. u.active => Fresh(log, u)
    BY <1>1, <1>2, <2>1 DEF Fresh
  <2>4. TaskInv(log, u)
    BY <2>1, <2>2, <2>3 DEF TaskInv
  <2>5. started' \subseteq Calls(log)
    BY <1>1, <1>4, <1>7, ConvParts DEF OthersOK
  <2>6. TaskInv(log, task')
    BY <1>7, <2>4 DEF u
  <2> QED BY <1>2, <1>7, <2>5, <2>6, ProgramStep
<1> QED BY <1>3, <1>5, <1>6, <1>7 DEF TaskCall

(* A failing program keeps its right if it had it.                         *)
LEMMA FailingTask ==
    ASSUME NEW k, NEW t \in Tasks(k), TaskInv(k, t), t.pc \notin {"new", "report"},
           NEW u \in Tasks(k), u.pc = "failing", u.cause # "none",
           u.active = t.active, u.seen = t.seen
    PROVE  TaskInv(k, u)
<1>1. t # NoTask
  BY DEF NoTask, Tasks
<1>2. t.active => Fresh(k, t)
  BY <1>1 DEF TaskInv
<1>3. Covers(k, u)
  BY DEF Covers
<1>4. u.active => Fresh(k, u)
  BY <1>2 DEF Fresh
<1> QED BY <1>3, <1>4 DEF TaskInv

(* The two ways to fail: an exception, or an Output on a moved head.       *)
Failings == {Raised, [task EXCEPT !.pc = "failing", !.cause = "conflict"]}

LEMMA FailingIs ==
    ASSUME NEW l, task \in Tasks(l), Len(l) \in Nat, NEW u \in Failings
    PROVE  /\ u \in Tasks(l) /\ u.pc = "failing" /\ u.cause # "none"
           /\ u.active = task.active /\ u.seen = task.seen
<1>1. 0 \in 0 .. Len(l) /\ {} \in SUBSET Calls(l)
  OBVIOUS
<1>2. CASE u = Raised
  BY <1>1, <1>2 DEF Raised, Tasks, Places
<1>3. CASE u = [task EXCEPT !.pc = "failing", !.cause = "conflict"]
  BY <1>3 DEF Tasks, Places
<1> QED BY <1>2, <1>3 DEF Failings

(* The program gives up: it remembers why.                                 *)
LEMMA FailingStep ==
    ASSUME ConvInv, task.pc \in {"settle", "effect", "model"},
           log' = log, NEW u \in Failings, task' = u,
           UNCHANGED <<started, driver, consumers, gateOpen, crashes>>
    PROVE  ConvInv'
<1>1. task \in Tasks(log) /\ TaskInv(log, task) /\ Len(log) \in Nat
  BY TaskIs, ConvParts
<1>2. TaskInv(log, u)
  BY <1>1, FailingIs, FailingTask
<1>3. started' \subseteq Calls(log)
  BY ConvParts DEF OthersOK
<1> QED BY <1>2, <1>3, ProgramStep

(* The tool raised and its error was recorded.                             *)
LEMMA RaisedAnswerStep ==
    ASSUME ConvInv, task.pc = "effect", NEW c \in task.todo, log' = Answer(c),
           task' = Raised, UNCHANGED <<started, driver, consumers, gateOpen, crashes>>
    PROVE  ConvInv'
<1>1. /\ task \in Tasks(log) /\ task.todo \subseteq Calls(log)
      /\ log \in Seq(Message) /\ c \in Calls(log)
  BY TaskIs
<1>2. LogInv(log) /\ TaskInv(log, task) /\ OthersOK
  BY ConvParts
<1>3. CASE c \in Answered(log)
  BY <1>3, FailingStep DEF Answer, Failings
<1>4. CASE c \notin Answered(log)
  <2>1. PICK m : m = ResultMessage(c)
    OBVIOUS
  <2>2. /\ m \in Message /\ m.kind = "tool_result" /\ m.ref = c
        /\ ~ Unwanted(m) /\ ~ IsControl(m, {"failure"})
    BY <1>1, <2>1, ResultTyped
  <2>3. log' = Append(log, m)
    BY <1>4, <2>1 DEF Answer
  <2>4. PICK k : k = log'
    OBVIOUS
  <2>5. Grows(log, k, m) /\ m.kind # "output"
    BY <1>1, <2>2, <2>3, <2>4, AppendGrows
  <2>6. TaskInv(k, task)
    BY <1>2, <2>2, <2>5, TaskGrows
  <2>7. task \in Tasks(k) /\ Len(k) \in Nat
    <3>1. Calls(k) = Calls(log)
      BY <2>5, CallsGrow
    <3>2. 0 .. Len(log) \subseteq 0 .. Len(k) /\ Len(k) \in Nat
      BY <1>1, <2>5 DEF Grows
    <3> QED BY <1>1, <3>1, <3>2 DEF Tasks
  <2>8. PICK u : u = Raised
    OBVIOUS
  <2>9. /\ u \in Tasks(k) /\ u.pc = "failing" /\ u.cause # "none"
        /\ u.active = task.active /\ u.seen = task.seen
    BY <2>7, <2>8, FailingIs DEF Failings
  <2>10. TaskInv(k, u)
    BY <2>6, <2>7, <2>9, FailingTask
  <2>11. /\ started' \subseteq Calls(log) /\ abandonTodo' \subseteq Calls(log)
         /\ UNCHANGED <<driver, abandonHead, followHead, report, gateOpen, crashes>>
    BY <1>2 DEF OthersOK, consumers
  <2> QED BY <1>1, <2>2, <2>3, <2>4, <2>8, <2>10, <2>11, GrowStep
<1> QED BY <1>3, <1>4

LEMMA EffectKeeps == ASSUME ConvInv, TaskEffect PROVE ConvInv'
<1>1. /\ Covers(log, task) /\ task.todo \subseteq Nat \X Nat /\ task.pc = "effect"
  BY TaskIs DEF TaskEffect
<1>2. PICK c : c = First(task.todo)
  OBVIOUS
<1>3. c \in task.todo
  BY <1>1, <1>2, FirstIn DEF Covers
<1>4. UNCHANGED <<started, driver, consumers, gateOpen, crashes>>
  BY DEF TaskEffect
<1>5. CASE log' = Answer(c) /\ task' = [task EXCEPT !.pc = "settle", !.todo = @ \ {c}]
  BY <1>1, <1>3, <1>4, <1>5, AnswerStep
<1>6. CASE log' \in {log, Answer(c)} /\ task' = Raised
  <2>1. CASE log' = log
    BY <1>1, <1>4, <1>6, <2>1, FailingStep DEF Failings
  <2>2. CASE log' = Answer(c)
    BY <1>1, <1>3, <1>4, <1>6, <2>2, RaisedAnswerStep
  <2> QED BY <1>6, <2>1, <2>2
<1>7. CASE log' \in {log, Answer(c)} /\ task' = NoTask
  <2>1. CASE log' = log
    BY <1>1, <1>4, <1>7, <2>1, EndStep
  <2>2. CASE log' = Answer(c)
    BY <1>1, <1>3, <1>4, <1>7, <2>2, AnswerStep
  <2> QED BY <1>7, <2>1, <2>2
<1> QED BY <1>2, <1>5, <1>6, <1>7 DEF TaskEffect

LEMMA ThinkKeeps == ASSUME ConvInv, TaskThink PROVE ConvInv'
<1>1. /\ task \in Tasks(log) /\ (task.active => Fresh(log, task)) /\ Covers(log, task)
      /\ log \in Seq(Message) /\ Len(log) \in Nat
  BY TaskIs DEF TaskThink
<1>2. /\ task.pc = "settle" /\ task.todo = {} /\ log' = log
      /\ UNCHANGED <<started, driver, consumers, gateOpen, crashes>>
  BY DEF TaskThink
<1>3. CASE Steps(log) >= MaxSteps
  BY <1>2, <1>3, FailingStep DEF TaskThink, Failings
<1>4. CASE ~ (Steps(log) >= MaxSteps)
  <2>1. PICK n : n = Len(log)
    OBVIOUS
  <2>2. n \in 0 .. n
    BY <1>1, <2>1
  <2> DEFINE u == [task EXCEPT !.pc = "model", !.head = n]
  <2>3. /\ u \in Tasks(log) /\ u.pc = "model" /\ u.seen = task.seen /\ u.active = task.active
    BY <1>1, <2>1, <2>2 DEF Tasks, Places, Unwinding
  <2>4. task' = u
    BY <1>4, <2>1 DEF TaskThink
  <2> HIDE DEF u
  <2>5. PendingCalls(log) = {}
    BY <1>1, <1>2 DEF Covers
  <2>6. Steps(log) < MaxSteps
    BY <1>1, <1>4, StepsFinite, BoundsAssumption
  <2>7. Covers(log, u)
    BY <2>3, <2>5, <2>6 DEF Covers
  <2>8. u.active => Fresh(log, u)
    BY <1>1, <1>2, <2>3 DEF Fresh
  <2>9. TaskInv(log, task')
    BY <2>3, <2>4, <2>7, <2>8 DEF TaskInv
  <2>10. started' \subseteq Calls(log)
    BY <1>2, ConvParts DEF OthersOK
  <2> QED BY <1>2, <2>9, <2>10, ProgramStep
<1> QED BY <1>3, <1>4

(* An Output is committed on the head its author read, by a reply with its *)
(* right: it was wanted, no call was open and a step was left.             *)
LEMMA OutputStep ==
    ASSUME ConvInv, task.pc = "model", task.active, Len(log) = task.head,
           NEW n \in 0 .. MaxCalls, NEW finish \in Finishes,
           log' = Append(log, OutputMessage(n, finish, task.head)),
           task' = IF finish = "complete" THEN NoTask ELSE [task EXCEPT !.pc = "run", !.head = 0],
           UNCHANGED <<started, driver, consumers, gateOpen, crashes>>
    PROVE  ConvInv'
<1>1. /\ task \in Tasks(log) /\ Fresh(log, task) /\ Covers(log, task)
      /\ log \in Seq(Message) /\ Len(log) \in Nat /\ task.seen \in 0 .. Len(log)
      /\ LogInv(log) /\ OthersOK
  BY TaskIs, ConvParts
<1>2. NeedsReply(log) /\ PendingCalls(log) = {} /\ Steps(log) < MaxSteps
  BY <1>1 DEF Fresh, Covers
<1>3. PICK m : m = OutputMessage(n, finish, task.head)
  OBVIOUS
<1>4. m.kind = "output" /\ m.finish = finish
  BY <1>3 DEF OutputMessage
<1>5. m \in Message
  <2>1. task.head \in Nat
    BY <1>1
  <2>2. m \in [kind : {"output"}, calls : 0 .. MaxCalls, finish : Finishes, basis : Nat]
    BY <1>3, <2>1 DEF OutputMessage
  <2> QED BY <2>2 DEF Message
<1>6. ~ Unwanted(m) /\ ~ IsInput(m) /\ ~ IsControl(m, {"failure"})
      /\ ~ IsControl(m, {"pause", "abandon", "failure"})
  BY <1>4 DEF Unwanted, IsInput, IsControl
<1>7. PICK k : k = log'
  OBVIOUS
<1>8. Grows(log, k, m)
  BY <1>1, <1>3, <1>5, <1>7, AppendGrows
<1>9. LogInv(k)
  BY <1>1, <1>2, <1>4, <1>6, <1>8, LogGrows
<1>10. /\ Calls(log) \subseteq Calls(k) /\ Len(k) = Len(log) + 1 /\ k[Len(log) + 1] = m
       /\ 0 .. Len(log) \subseteq 0 .. Len(k)
       /\ \A p \in 1 .. Len(log) : k[p] = log[p]
  BY <1>1, <1>8, CallsGrow DEF Grows
<1>11. OthersOK'
  <2>1. /\ started' = started /\ drive' = drive /\ wake' = wake /\ abandonHead' = abandonHead
        /\ abandonTodo' = abandonTodo /\ followHead' = followHead /\ report' = report
        /\ gateOpen' = gateOpen /\ crashes' = crashes
    BY DEF driver, consumers
  <2>2. report' \in [pc : {"none", "wait", "look", "join", "own", "done"}, seen : 0 .. Len(k)]
    BY <1>1, <1>10, <2>1 DEF OthersOK
  <2> QED BY <1>1, <1>7, <1>10, <2>1, <2>2 DEF OthersOK
<1>12. TaskInv(k, task')
  <2>1. CASE finish = "complete"
    BY <2>1 DEF TaskInv
  <2>2. CASE finish # "complete"
    <3> DEFINE u == [task EXCEPT !.pc = "run", !.head = 0]
    <3>1. /\ u \in Tasks(log) /\ u.pc = "run" /\ u.seen = task.seen
      <4>1. 0 \in 0 .. Len(log)
        BY <1>1
      <4> QED BY <1>1, <4>1 DEF Tasks, Places, Unwinding
    <3> HIDE DEF u
    <3>2. u \in Tasks(k)
      BY <1>10, <3>1 DEF Tasks
    <3>3. NeedsReply(k)
      <4>1. ~ IsClosing(m)
        BY <1>4, <2>2 DEF Finishes, IsClosing
      <4>2. LatestInput(log) \in Nat
        BY <1>1, LatestIs
      <4> QED BY <1>2, <1>6, <1>8, <4>1, <4>2, WantedGrows
    <3>4. ASSUME NEW q \in task.seen + 1 .. Len(k)
          PROVE  ~ Unwanted(k[q])
      <4>1. CASE q = Len(log) + 1
        BY <1>6, <1>10, <4>1
      <4>2. CASE q # Len(log) + 1
        <5>1. q \in task.seen + 1 .. Len(log) /\ k[q] = log[q]
          BY <1>1, <1>10, <4>2
        <5> QED BY <1>1, <5>1 DEF Fresh
      <4> QED BY <4>1, <4>2
    <3>5. Fresh(k, u) /\ Covers(k, u)
      BY <3>1, <3>3, <3>4 DEF Fresh, Covers
    <3> QED BY <2>2, <3>2, <3>5 DEF TaskInv, u
  <2> QED BY <2>1, <2>2
<1> QED BY <1>7, <1>9, <1>11, <1>12, ConvPartsNext

LEMMA OutputKeeps ==
    ASSUME ConvInv, NEW n \in 0 .. MaxCalls, NEW finish \in Finishes, TaskOutput(n, finish)
    PROVE  ConvInv'
<1>1. task.pc = "model" /\ UNCHANGED <<started, driver, consumers, gateOpen, crashes>>
  BY DEF TaskOutput
<1>2. CASE log' = log /\ task' \in Failings
  BY <1>1, <1>2, FailingStep
<1>3. CASE /\ task.active
           /\ Len(log) = task.head
           /\ log' = Append(log, OutputMessage(n, finish, task.head))
           /\ task' = IF finish = "complete" THEN NoTask ELSE [task EXCEPT !.pc = "run", !.head = 0]
  BY <1>1, <1>3, OutputStep
<1> QED BY <1>2, <1>3 DEF TaskOutput, Failings

(* A failure is recorded by a reply with its right: nobody has spoken      *)
(* since its program started.                                              *)
LEMMA FailedKeeps == ASSUME ConvInv, TaskFailed PROVE ConvInv'
<1>1. /\ task \in Tasks(log) /\ (task.active => Fresh(log, task)) /\ Covers(log, task)
      /\ log \in Seq(Message) /\ Len(log) \in Nat /\ task.seen \in 0 .. Len(log)
      /\ task.head \in 0 .. Len(log) /\ task.pc = "failing"
  BY TaskIs DEF TaskFailed
<1>2. task' = NoTask /\ UNCHANGED <<started, driver, consumers, gateOpen, crashes>>
  BY DEF TaskFailed
<1>3. CASE ~ task.active
  BY <1>2, <1>3, EndStep DEF TaskFailed
<1>4. CASE task.active
  <2>1. PICK m : m = FailureMessage(Len(log), task.seen, task.head, task.cause)
    OBVIOUS
  <2>2. /\ m.kind = "control" /\ m.through = Len(log) /\ m.seen = task.seen
    BY <2>1 DEF FailureMessage
  <2>3. m \in Message
    <3>1. task.cause \in {"error", "conflict"}
      BY <1>1 DEF Covers, Tasks
    <3>2. task.seen \in Nat /\ task.head \in Nat
      BY <1>1
    <3>3. m \in [kind : {"control"}, action : {"failure"}, through : Nat, seen : Nat, basis : Nat,
                 cause : {"error", "conflict"}]
      BY <1>1, <2>1, <3>1, <3>2 DEF FailureMessage
    <3> QED BY <3>3 DEF Message
  <2>4. m.through \in 1 .. Len(log)
    <3>1. Len(log) > 0
      BY <1>1, <1>4, WantedNonempty DEF Fresh
    <3> QED BY <1>1, <2>2, <3>1
  <2>5. \A q \in m.seen + 1 .. Len(log) : ~ Unwanted(log[q])
    BY <1>1, <1>4, <2>2 DEF Fresh
  <2>6. log' = Append(log, m)
    BY <1>4, <2>1 DEF TaskFailed
  <2>7. TaskInv(log', task')
    BY <1>2 DEF TaskInv
  <2>8. /\ started' \subseteq Calls(log) /\ abandonTodo' \subseteq Calls(log)
        /\ UNCHANGED <<driver, abandonHead, followHead, report, gateOpen, crashes>>
    BY <1>2, ConvParts DEF OthersOK, consumers
  <2> QED BY <2>2, <2>3, <2>4, <2>5, <2>6, <2>7, <2>8, GrowStep
<1> QED BY <1>3, <1>4

LEMMA ReplyKeeps == ASSUME ConvInv, Reply PROVE ConvInv'
<1>1. CASE TaskUnwind
  BY <1>1, EndStep DEF TaskUnwind, TaskEnds
<1>2. CASE TaskRaises
  BY <1>2, FailingStep DEF TaskRaises, Failings
<1>4. CASE TaskStops
  BY <1>4, EndStep DEF TaskStops, TaskEnds
<1>3. CASE \E n \in 0 .. MaxCalls, finish \in Finishes : TaskOutput(n, finish)
  BY <1>3, OutputKeeps
<1> QED BY <1>1, <1>2, <1>3, <1>4, RunKeeps, PendingKeeps, CallKeeps, EffectKeeps, ThinkKeeps, FailedKeeps DEF Reply

-----------------------------------------------------------------------------
(* The theorems.                                                           *)

LEMMA InitInv == ASSUME Init PROVE ConvInv
<1>1. /\ log = << >> /\ task = NoTask /\ started = {} /\ abandonTodo = {} /\ report = NoReport
      /\ drive = "none" /\ wake = FALSE /\ gateOpen = TRUE
      /\ followHead = 0 /\ abandonHead = 0 /\ crashes = 0
  BY DEF Init
<1>2. log \in Seq(Message) /\ Len(log) = 0 /\ DOMAIN log = {}
  BY <1>1
<1>3. Steps(log) <= MaxSteps
  <2>1. StepSet(log) = {}
    BY <1>2 DEF StepSet
  <2>2. Steps(log) = 0
    BY <1>2, <2>1, StepsFinite, FS_EmptySet
  <2> QED BY <2>2, BoundsAssumption
<1>4. LogInv(log)
  BY <1>2, <1>3 DEF LogInv
<1>5. TaskInv(log, task)
  BY <1>1 DEF TaskInv
<1>6. 0 \in 0 .. Len(log)
  BY <1>2
<1>7. report \in [pc : {"none", "wait", "look", "join", "own", "done"}, seen : 0 .. Len(log)]
  BY <1>1, <1>6 DEF NoReport
<1>8. OthersOK
  BY <1>1, <1>6, <1>7 DEF OthersOK
<1> QED BY <1>4, <1>5, <1>8, ConvParts

LEMMA NextKeeps == ASSUME ConvInv, [Next]_vars PROVE ConvInv'
<1>1. CASE Next
  BY <1>1, UserKeeps, FollowKeeps, DriveKeeps, ReplyKeeps, ReporterKeeps, AbandonKeeps,
     CrashKeeps, GateKeeps DEF Next
<1>2. CASE UNCHANGED vars
  <2>1. LogInv(log) /\ TaskInv(log, task) /\ OthersOK
    BY ConvParts
  <2>2. OthersOK' /\ log' = log /\ task' = task
    BY <1>2, <2>1 DEF OthersOK, vars
  <2> QED BY <2>1, <2>2, QuietStep
<1> QED BY <1>1, <1>2

(* The inductive invariant: what the log holds was wanted when it was      *)
(* written (write_output, append_control), a running reply that has its    *)
(* right still matches the log (Conversation.accept and control revoke it  *)
(* in the step that speaks), and its list holds every open call.           *)
THEOREM ConvInvariant == Spec => []ConvInv
<1>1. Init => ConvInv
  BY InitInv
<1>2. ConvInv /\ [Next]_vars => ConvInv'
  BY NextKeeps
<1> QED BY <1>1, <1>2, PTL DEF Spec

(* A stopped source stays silent: no Output is ever committed (react,      *)
(* MessageWriter.write_output) when no input asks for one.                 *)
THEOREM OutputsWereWantedAlways == Spec => []OutputsWereWanted
<1>1. ConvInv => OutputsWereWanted
  BY DEF ConvInv
<1> QED BY <1>1, ConvInvariant, PTL

(* The model is asked only when every call of the open segment has its     *)
(* result (react, _pending_calls), also after a restart.                   *)
THEOREM CallsAnsweredFirstAlways == Spec => []CallsAnsweredFirst
<1>1. ConvInv => CallsAnsweredFirst
  BY DEF ConvInv
<1> QED BY <1>1, ConvInvariant, PTL

(* The open segment never outgrows max_steps (react, _steps), whatever     *)
(* restarts, inputs and resumes come between its steps.                    *)
THEOREM StepBudgetAlways == Spec => []StepBudget
<1>1. ConvInv => StepBudget
  BY DEF ConvInv
<1> QED BY <1>1, ConvInvariant, PTL

(* A failure never blames what its task had not seen (Conversation.start). *)
THEOREM FailuresBlameSeenWorkAlways == Spec => []FailuresBlameSeenWork
<1>1. ConvInv => FailuresBlameSeenWork
  BY DEF ConvInv
<1> QED BY <1>1, ConvInvariant, PTL

(* Only check_start lets an effect begin.                                  *)
LEMMA StartsAreWanted ==
    ASSUME ConvInv, [Next]_vars
    PROVE  \A c \in started' \ started : ~ Abandoned(log, c) /\ NeedsReply(log)
<1>1. CASE TaskCall
  <2>1. /\ task.pc = "settle" /\ task.todo # {} /\ task.todo \subseteq Nat \X Nat
        /\ (task.active => Fresh(log, task))
    BY <1>1, TaskIs DEF TaskCall
  <2>2. PICK c : c = First(task.todo)
    OBVIOUS
  <2>3. c \in task.todo
    BY <2>1, <2>2, FirstIn
  <2>4. started' = started \/ (started' = started \cup {c} /\ task.active)
    BY <1>1, <2>2 DEF TaskCall, SourceUnchanged
  <2>5. CASE started' = started
    BY <2>5
  <2>6. CASE started' = started \cup {c} /\ task.active
    BY <2>1, <2>3, <2>6 DEF Fresh
  <2> QED BY <2>4, <2>5, <2>6
<1>2. CASE ~ TaskCall
  <2>1. CASE User
    BY <2>1 DEF User, Accept, Pause, Resume, Complete, Control, Abandon, ReportStep
  <2>2. CASE Follow
    BY <2>2 DEF Follow
  <2>3. CASE Drive
    BY <2>3 DEF Drive, DriveLoop, DriveCurrent, DriveDrained, DriveAdmit, DriveGate, DriveJoin
  <2>4. CASE Reply
    BY <1>2, <2>4 DEF Reply, TaskUnwind, TaskEnds, TaskRun, TaskPending, TaskEffect,
       TaskThink, TaskStops, TaskRaises, TaskOutput, TaskFailed
  <2>5. CASE Reporter
    BY <2>5 DEF Reporter, CompleteNotified, CompleteAdmit, CompleteJoined, CompleteEnds,
       CompletePreempted, ReportStep
  <2>6. CASE AbandonConsumer
    BY <2>6 DEF AbandonConsumer, AbandonRead, AbandonSettle
  <2>7. CASE Crash
    BY <2>7 DEF Crash, Restart
  <2>8. CASE GateChange
    BY <2>8 DEF GateChange
  <2>9. CASE UNCHANGED vars
    BY <2>9 DEF vars
  <2> QED BY <2>1, <2>2, <2>3, <2>4, <2>5, <2>6, <2>7, <2>8, <2>9 DEF Next
<1> QED BY <1>1, <1>2

(* A tool effect starts only for a call that is not abandoned, in a source *)
(* that still wants its reply (ToolExecution, check_start).                *)
THEOREM EffectsWantedAlways == Spec => EffectsWanted
<1>1. ConvInv /\ [Next]_vars => \A c \in started' \ started : ~ Abandoned(log, c) /\ NeedsReply(log)
  BY StartsAreWanted
<1>2. ConvInv /\ [Next]_vars
        => [\A c \in started' \ started : ~ Abandoned(log, c) /\ NeedsReply(log)]_vars
  BY <1>1
<1> QED BY <1>2, ConvInvariant, PTL DEF Spec, EffectsWanted
=============================================================================
