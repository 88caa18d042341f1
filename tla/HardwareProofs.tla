--------------------------- MODULE HardwareProofs ---------------------------
(***************************************************************************)
(* The invariants that the run of the hardware models checks, for every    *)
(* value of the constants given to its components.  A behaviour keeps to   *)
(* one component; x1 to x10 hold that component's variables, in the order  *)
(* of its tuple vars.                                                      *)
(***************************************************************************)
EXTENDS MCHardware, Sums, SequenceTheorems, FiniteSetTheorems, WellFoundedInduction, TLAPS

-----------------------------------------------------------------------------
(* Multicore: x1 work, x2 layer, x3 progress, x4 now, x5 starts,           *)
(* x6 arrivals.                                                            *)

(* No core is ahead of the clock, and the activation of the last layer has *)
(* arrived by now.                                                         *)
CoresInv ==
  /\ x1 \in Seq(Nat) /\ x2 \in 0..Len(x1)
  /\ x4 \in Nat /\ x4 = Cores!Latest(x3)
  /\ x3 \in [0..CoreCount - 1 -> Nat]
  /\ \A c \in 0..CoreCount - 1 : x3[c] <= x4
  /\ x5 \in Seq(Nat) /\ Len(x5) = x2
  /\ x6 \in Seq(Nat) /\ Len(x6) = x2 + 1
  /\ x6[x2 + 1] <= x4
  /\ \A i \in 1..x2 : x5[i] >= x6[i]

(* The maximum of core_progress is the value of any core that none is      *)
(* ahead of.                                                               *)
LEMMA LatestIsReached ==
  ASSUME NEW p \in [0..CoreCount - 1 -> Nat], NEW c \in 0..CoreCount - 1,
         \A d \in 0..CoreCount - 1 : p[d] <= p[c]
  PROVE  Cores!Latest(p) = p[c]
<1> DEFINE S == {p[d] : d \in DOMAIN p}
<1>1. p[c] \in S /\ \A y \in S : y \in Nat /\ p[c] >= y
  OBVIOUS
<1>2. \A x \in S : (\A y \in S : x >= y) => x = p[c]
  <2> HIDE DEF S
  <2> SUFFICES ASSUME NEW x \in S, \A y \in S : x >= y PROVE x = p[c]
    OBVIOUS
  <2>1. x >= p[c] /\ p[c] >= x /\ x \in Nat /\ p[c] \in Nat
    BY <1>1
  <2> QED BY <2>1
<1>3. (CHOOSE x \in S : \A y \in S : x >= y) = p[c]
  <2> HIDE DEF S
  <2> QED BY <1>1, <1>2
<1> QED BY <1>3 DEF Cores!Latest, Cores!Max

(* The serial sum, as a function that satisfies its recursion.             *)
IsSerial(g, n) ==
  g = [l \in 0..n |-> IF l = 0 THEN 0 ELSE g[l - 1] + Cores!Cost(l)]

(* Layer by layer there is such a function. *)
LEMMA SerialExists ==
  ASSUME NEW n \in Nat, \A l \in 1..n : Cores!Cost(l) \in Nat
  PROVE  \E g \in [0..n -> Nat] : IsSerial(g, n)
<1> DEFINE Good(k) == \E g \in [0..k -> Nat] : IsSerial(g, k)
           Bad == {k \in Nat : k <= n /\ ~ Good(k)}
<1>1. Good(0)
  <2> DEFINE g == [l \in 0..0 |-> 0]
  <2>1. g \in [0..0 -> Nat] /\ g = [l \in 0..0 |-> IF l = 0 THEN 0 ELSE g[l - 1] + Cores!Cost(l)]
    OBVIOUS
  <2> QED BY <2>1 DEF IsSerial
<1>2. ASSUME NEW k \in 0..n, k # 0, Good(k - 1) PROVE Good(k)
  <2>1. PICK g \in [0..k - 1 -> Nat] : IsSerial(g, k - 1)
    BY <1>2
  <2>2. \A l \in 0..k - 1 : g[l] = IF l = 0 THEN 0 ELSE g[l - 1] + Cores!Cost(l)
    BY <2>1 DEF IsSerial
  <2> DEFINE h == [l \in 0..k |-> IF l = k THEN g[k - 1] + Cores!Cost(k) ELSE g[l]]
  <2>3. Cores!Cost(k) \in Nat /\ g[k - 1] \in Nat
    BY <1>2
  <2>4. h \in [0..k -> Nat]
    BY <2>3
  <2>5. \A l \in 0..k : h[l] = IF l = 0 THEN 0 ELSE h[l - 1] + Cores!Cost(l)
    <3> TAKE l \in 0..k
    <3>1. CASE l = k
      BY <3>1, <1>2
    <3>2. CASE l # k
      <4>1. h[l] = g[l] /\ (l # 0 => h[l - 1] = g[l - 1])
        BY <3>2
      <4> QED BY <2>2, <3>2, <4>1
    <3> QED BY <3>1, <3>2
  <2> HIDE DEF h
  <2> QED BY <2>4, <2>5 DEF IsSerial
<1> HIDE DEF Good
<1>3. Bad = {}
  <2> SUFFICES ASSUME Bad # {} PROVE FALSE
    OBVIOUS
  <2>1. PICK k \in Bad : \A m \in Bad : ~ (<<m, k>> \in OpToRel(<, Nat))
    BY WFMin, NatLessThanWellFounded, Zenon
  <2>2. \A m \in Bad : ~ (m < k)
    BY <2>1, Zenon DEF OpToRel
  <2>3. k # 0 /\ k \in 0..n /\ k - 1 \notin Bad
    BY <1>1, <2>2
  <2>4. Good(k - 1)
    BY <2>3
  <2> QED BY <1>2, <2>3, <2>4
<1>4. Good(n)
  BY <1>3
<1> QED BY <1>4 DEF Good

(* SpanIsSerial's sum obeys its recursion. *)
LEMMA SerialUnfolds ==
  ASSUME Cores!MulticoreAssumption, CoresInv
  PROVE  /\ Cores!Serial[0] = 0
         /\ \A l \in 1..Len(x1) : Cores!Serial[l] = Cores!Serial[l - 1] + Cores!Cost(l)
<1>1. Cores!Serial = CHOOSE g : IsSerial(g, Len(x1))
  BY DEF Cores!Serial, IsSerial, Cores!Cost
<1>2. \A l \in 1..Len(x1) : Cores!Cost(l) \in Nat
  <2> TAKE l \in 1..Len(x1)
  <2>1. x1[l] \in Nat
    BY ElementOfSeq DEF CoresInv
  <2>2. CoreTransfer \in Nat
    BY DEF Cores!MulticoreAssumption
  <2> QED BY <2>1, <2>2 DEF Cores!Cost
<1>3. Len(x1) \in Nat
  BY DEF CoresInv
<1>4. \E g : IsSerial(g, Len(x1))
  BY <1>2, <1>3, SerialExists
<1>5. IsSerial(Cores!Serial, Len(x1))
  BY <1>1, <1>4, Zenon
<1>6. \A l \in 0..Len(x1) :
        Cores!Serial[l] = IF l = 0 THEN 0 ELSE Cores!Serial[l - 1] + Cores!Cost(l)
  BY <1>5, Zenon DEF IsSerial
<1> HIDE DEF Cores!Serial, Cores!Cost
<1> QED BY <1>3, <1>6

(* Which layers there are, and so what they sum up to, is fixed at the     *)
(* beginning.                                                              *)
LEMMA SerialIsFixed == UNCHANGED x1 => Cores!Serial' = Cores!Serial
BY DEF Cores!Serial, Cores!Cost, Cores!HandsOver, Cores!Core

(* At the start no core has done anything, and there is no activation to   *)
(* wait for.                                                               *)
LEMMA CoresStart == ASSUME Cores!MulticoreAssumption, Cores!Init PROVE CoresInv
<1>1. x1 \in Seq(Nat)
  <2>1. PICK n \in 1..CoreLayers : x1 \in [1..n -> CoreWork]
    BY DEF Cores!Init
  <2>2. n \in Nat
    BY DEF Cores!MulticoreAssumption
  <2>3. \A i \in 1..n : x1[i] \in Nat
    BY <2>1 DEF Cores!MulticoreAssumption
  <2>4. x1 \in [1..n -> Nat]
    BY <2>1, <2>3
  <2> QED BY <2>2, <2>4, SeqDef
<1>2. x5 = <<>> /\ x6 = <<0>> /\ x2 = 0 /\ x4 = 0
  BY DEF Cores!Init
<1>3. x3 = [c \in 0..CoreCount - 1 |-> 0]
  BY DEF Cores!Init
<1>4. Len(x1) \in Nat
  BY <1>1
<1>5. Cores!Latest(x3) = 0
  <2>1. 0 \in 0..CoreCount - 1
    BY DEF Cores!MulticoreAssumption
  <2>2. /\ x3 \in [0..CoreCount - 1 -> Nat]
        /\ \A d \in 0..CoreCount - 1 : x3[d] <= x3[0]
        /\ x3[0] = 0
    BY <1>3, <2>1
  <2> QED BY <2>1, <2>2, LatestIsReached
<1> QED BY <1>1, <1>2, <1>3, <1>4, <1>5 DEF CoresInv, Cores!MulticoreAssumption

(* A layer starts at the present, when its activation has arrived, and the *)
(* clock moves to when its core is free again.                             *)
LEMMA CoresRun ==
  ASSUME Cores!MulticoreAssumption, CoresInv, Cores!RunLayer
  PROVE  CoresInv' /\ x4' = x4 + Cores!Cost(x2 + 1)
<1> DEFINE c == Cores!Core(x2)
           end == Cores!Start(x2) + x1[x2 + 1]
           free == IF Cores!HandsOver(x2) THEN end + CoreTransfer ELSE end
<1>1. x2 < Len(x1) /\ x2 \in Nat /\ x2' = x2 + 1 /\ x1' = x1
  BY DEF Cores!RunLayer, CoresInv
<1>2. c \in 0..CoreCount - 1
  BY <1>1 DEF Cores!MulticoreAssumption, Cores!Core
<1>3. Cores!Start(x2) = x4
  BY <1>2 DEF Cores!Start, Cores!Larger, CoresInv
<1>4. x1[x2 + 1] \in Nat
  <2>1. x2 + 1 \in 1..Len(x1)
    BY <1>1 DEF CoresInv
  <2> QED BY <2>1, ElementOfSeq DEF CoresInv
<1>5. free \in Nat /\ free >= x4
  <2>1. end = x4 + x1[x2 + 1] /\ x4 \in Nat
    BY <1>3 DEF CoresInv
  <2>2. end \in Nat /\ end >= x4
    <3> HIDE DEF end
    <3> QED BY <1>4, <2>1
  <2> HIDE DEF end
  <2>3. free = end \/ free = end + CoreTransfer
    OBVIOUS
  <2> HIDE DEF free
  <2> QED BY <2>1, <2>2, <2>3 DEF Cores!MulticoreAssumption
<1>6. /\ x3' = [x3 EXCEPT ![c] = free]
      /\ x5' = Append(x5, x4)
      /\ x6' = Append(x6, free)
      /\ x4' = Cores!Latest(x3')
  BY <1>3 DEF Cores!RunLayer
<1>13. free = x4 + Cores!Cost(x2 + 1)
  <2>1. (x2 + 1) - 1 = x2
    BY <1>1
  <2>2. end = x4 + x1[x2 + 1] /\ x4 \in Nat
    BY <1>3 DEF CoresInv
  <2>3. Cores!Cost(x2 + 1) = x1[x2 + 1] + IF Cores!HandsOver(x2) THEN CoreTransfer ELSE 0
    BY <2>1 DEF Cores!Cost
  <2>4. free = IF Cores!HandsOver(x2) THEN end + CoreTransfer ELSE end
    OBVIOUS
  <2> DEFINE d == x1[x2 + 1]
  <2>5. d \in Nat /\ CoreTransfer \in Nat
    BY <1>4 DEF Cores!MulticoreAssumption
  <2>6. end = x4 + d /\ Cores!Cost(x2 + 1) = d + IF Cores!HandsOver(x2) THEN CoreTransfer ELSE 0
    BY <2>2, <2>3
  <2> HIDE DEF free, end, d
  <2> QED BY <2>2, <2>4, <2>5, <2>6
<1> HIDE DEF c, end, free
<1>7. x3' \in [0..CoreCount - 1 -> Nat] /\ x3'[c] = free
  BY <1>2, <1>5, <1>6 DEF CoresInv
<1>8. \A d \in 0..CoreCount - 1 : x3'[d] <= free
  <2> SUFFICES ASSUME NEW d \in 0..CoreCount - 1 PROVE x3'[d] <= free
    OBVIOUS
  <2>1. CASE d = c
    BY <2>1, <1>5, <1>7
  <2>2. CASE d # c
    <3>1. x3'[d] = x3[d] /\ x3[d] <= x4 /\ x3[d] \in Nat /\ x4 \in Nat
      BY <2>2, <1>6 DEF CoresInv
    <3> QED BY <3>1, <1>5
  <2> QED BY <2>1, <2>2
<1>9. x4' = free
  BY <1>2, <1>6, <1>7, <1>8, LatestIsReached
<1>10. x5' \in Seq(Nat) /\ Len(x5') = x2' /\ x6' \in Seq(Nat) /\ Len(x6') = x2' + 1
  BY <1>1, <1>5, <1>6 DEF CoresInv
<1>11. x6'[x2' + 1] = free
  BY <1>1, <1>5, <1>6 DEF CoresInv
<1>12. \A i \in 1..x2' : x5'[i] >= x6'[i]
  <2> SUFFICES ASSUME NEW i \in 1..x2' PROVE x5'[i] >= x6'[i]
    OBVIOUS
  <2>1. CASE i = x2 + 1
    <3>1. x5'[i] = x4 /\ x6'[i] = x6[x2 + 1]
      BY <2>1, <1>1, <1>6 DEF CoresInv
    <3> QED BY <3>1, <1>1 DEF CoresInv
  <2>2. CASE i # x2 + 1
    <3>1. i \in 1..x2
      BY <2>2, <1>1
    <3>2. /\ x5 \in Seq(Nat) /\ Len(x5) = x2
          /\ x6 \in Seq(Nat) /\ Len(x6) = x2 + 1
      BY DEF CoresInv
    <3>3. x5'[i] = x5[i] /\ x6'[i] = x6[i]
      BY <3>1, <3>2, <1>1, <1>6
    <3> QED BY <3>1, <3>3 DEF CoresInv
  <2> QED BY <2>1, <2>2
<1>14. /\ x1' \in Seq(Nat) /\ x2' \in 0..Len(x1') /\ x4' \in Nat
       /\ x4' = Cores!Latest(x3') /\ x6'[x2' + 1] <= x4'
       /\ \A d \in 0..CoreCount - 1 : x3'[d] <= x4'
  <2>1. x1' \in Seq(Nat) /\ x2' \in 0..Len(x1')
    BY <1>1 DEF CoresInv
  <2>2. free <= free
    BY <1>5
  <2>3. x4' \in Nat /\ x4' = Cores!Latest(x3') /\ x6'[x2' + 1] <= x4'
    BY <1>5, <1>6, <1>9, <1>11, <2>2
  <2>4. \A d \in 0..CoreCount - 1 : x3'[d] <= x4'
    BY <1>8, <1>9
  <2> QED BY <2>1, <2>3, <2>4
<1>15. CoresInv'
  BY <1>7, <1>10, <1>12, <1>14 DEF CoresInv, Cores!Latest
<1> QED BY <1>9, <1>13, <1>15

(* On any number of cores a layer starts only when the activation of the   *)
(* layer before has reached its core (simulate_pipeline), although the     *)
(* code looks at the latest core only; and the span of a token is the      *)
(* serial sum of its layers and transfers: the pipeline gains nothing.     *)
THEOREM ActivationsArrive == Spec => []ActivationHasArrived
<1> DEFINE Inv == part = "cores" => CoresInv /\ Cores!SpanIsSerial
<1>1. Init => Inv
  <2> SUFFICES ASSUME Cores!Init PROVE CoresInv /\ Cores!SpanIsSerial
    BY DEF Init
  <2>1. CoresInv /\ x4 = 0 /\ x2 = 0
    BY HardwareAssumption, CoresStart DEF HardwareAssumption, Cores!Init
  <2> QED BY <2>1, HardwareAssumption, SerialUnfolds DEF HardwareAssumption, Cores!SpanIsSerial
<1>2. Inv /\ [Next]_state => Inv'
  <2> SUFFICES ASSUME Inv, [Next]_state, part' = "cores" PROVE CoresInv' /\ Cores!SpanIsSerial'
    OBVIOUS
  <2>1. part = "cores" /\ CoresInv /\ Cores!SpanIsSerial /\ Cores!MulticoreAssumption
    BY HardwareAssumption DEF HardwareAssumption, Next, state
  <2>2. CASE Next
    <3>0. Cores!RunLayer
      BY <2>1, <2>2 DEF Next, Cores!Next
    <3>1. CoresInv' /\ x4' = x4 + Cores!Cost(x2 + 1)
      BY <2>1, <3>0, CoresRun
    <3>2. x2' = x2 + 1 /\ x2 + 1 \in 1..Len(x1) /\ UNCHANGED x1
      BY <2>1, <3>0 DEF Cores!RunLayer, CoresInv
    <3>3. /\ Cores!Serial[x2 + 1] = Cores!Serial[(x2 + 1) - 1] + Cores!Cost(x2 + 1)
          /\ (x2 + 1) - 1 = x2
      BY <2>1, <3>2, SerialUnfolds DEF CoresInv
    <3>4. Cores!Serial' = Cores!Serial
      BY <3>2, SerialIsFixed
    <3>5. x4 = Cores!Serial[x2]
      BY <2>1 DEF Cores!SpanIsSerial
    <3>6. x4' = Cores!Serial'[x2']
      BY <3>1, <3>2, <3>3, <3>4, <3>5, Zenon
    <3> QED BY <3>1, <3>6 DEF Cores!SpanIsSerial
  <2>3. CASE UNCHANGED state
    <3>1. Cores!Serial' = Cores!Serial
      BY <2>3, SerialIsFixed DEF state
    <3> QED BY <2>1, <2>3, <3>1 DEF state, CoresInv, Cores!SpanIsSerial, Cores!Latest
  <2> QED BY <2>2, <2>3
<1>3. Inv => ActivationHasArrived
  BY DEF ActivationHasArrived, CoresInv, Cores!TypeOK, Cores!ActivationHasArrived
<1> QED BY <1>1, <1>2, <1>3, PTL DEF Spec

-----------------------------------------------------------------------------
(* CountedResources: x1 allocated, x2 holders.                             *)

\* a table of members and what they hold
Holdings(f) == IsFiniteSet(DOMAIN f) /\ \A m \in DOMAIN f : f[m] \in Nat \ {0}
UnitsInv == \A f \in {x1, x2} : Holdings(f) /\ Units!Sum(f) <= UnitCapacity

(* The sum over a table is the sum that Sums is about. *)
LEMMA TableSum == \A f : Units!Sum(f) = SumFunctionOnSet(f, DOMAIN f)
BY DEF Units!Sum, Units!SumFunctionOnSet, Units!FoldFunctionOnSet, Units!MapThenFoldSet,
       SumFunctionOnSet, FoldFunctionOnSet, MapThenFoldSet

(* An empty table holds nothing. *)
LEMMA EmptyTable == Holdings([m \in {} |-> 0]) /\ Units!Sum([m \in {} |-> 0]) = 0
<1> DEFINE f == [m \in {} |-> 0]
<1>1. DOMAIN f = {} /\ Holdings(f)
  BY FS_EmptySet DEF Holdings
<1>2. SumFunctionOnSet(f, {}) = 0
  <2> HIDE DEF f
  <2> QED BY SumUnfold, FS_EmptySet
<1>3. Units!Sum(f) = SumFunctionOnSet(f, {})
  BY <1>1, TableSum
<1> QED BY <1>1, <1>2, <1>3

(* What a member held is taken out of the table. *)
LEMMA DropTotal ==
    ASSUME NEW f, Holdings(f), NEW m, m \in DOMAIN f
    PROVE  /\ Holdings(Units!Without(f, m)) /\ Units!Sum(f) \in Nat
           /\ Units!Sum(Units!Without(f, m)) \in Nat
           /\ Units!Sum(f) = Units!Sum(Units!Without(f, m)) + f[m]
<1> DEFINE D == DOMAIN f  E == D \ {m}  g == Units!Without(f, m)
<1>1. IsFiniteSet(D) /\ IsFiniteSet(E) /\ \A x \in D : f[x] \in Nat \ {0}
  BY FS_Subset DEF Holdings
<1>2. DOMAIN g = E /\ \A x \in E : g[x] = f[x]
  BY DEF Units!Without
<1> HIDE DEF g
<1>3. Holdings(g)
  BY <1>1, <1>2 DEF Holdings
<1>4. SumFunctionOnSet(f, D) = f[m] + SumFunctionOnSet(f, E)
  BY <1>1, SumRemove
<1>5. SumFunctionOnSet(g, E) = SumFunctionOnSet(f, E)
  <2>1. \A x \in E : f[x] \in Int /\ g[x] = f[x]
    BY <1>1, <1>2
  <2> HIDE DEF E
  <2> QED BY <1>1, <2>1, SumSame
<1>6. SumFunctionOnSet(f, E) \in Nat
  BY <1>1, SumNat
<1>7. Units!Sum(f) = SumFunctionOnSet(f, D) /\ Units!Sum(g) = SumFunctionOnSet(g, E)
  BY <1>2, TableSum
<1> DEFINE sf == SumFunctionOnSet(f, E)
<1>8. f[m] \in Nat /\ Units!Sum(f) = f[m] + sf /\ Units!Sum(g) = sf /\ sf \in Nat
  BY <1>1, <1>4, <1>5, <1>6, <1>7
<1> HIDE DEF sf
<1> QED BY <1>3, <1>8 DEF g

(* And something else is put in. *)
LEMMA SetTotal ==
    ASSUME NEW f, Holdings(f), NEW m, NEW v \in Nat \ {0}
    PROVE  /\ Holdings(Units!With(f, m, v)) /\ Units!Sum(f) \in Nat /\ Units!Held(f, m) \in Nat
           /\ Units!Sum(Units!With(f, m, v)) = Units!Sum(f) + v - Units!Held(f, m)
<1> DEFINE D == DOMAIN f  E == D \cup {m}  g == Units!With(f, m, v)
<1>1. IsFiniteSet(D) /\ IsFiniteSet(E) /\ \A x \in D : f[x] \in Nat \ {0}
  BY FS_AddElement DEF Holdings
<1>2. DOMAIN g = E /\ g[m] = v /\ \A x \in D : x # m => g[x] = f[x]
  BY DEF Units!With
<1> HIDE DEF g
<1>3. Holdings(g)
  BY <1>1, <1>2 DEF Holdings
<1>4. /\ Units!Sum(g) = Units!Sum(Units!Without(g, m)) + v
      /\ Units!Sum(Units!Without(g, m)) \in Nat
  BY <1>2, <1>3, DropTotal
<1>5. CASE m \in D
  <2>1. Units!Without(g, m) = Units!Without(f, m)
    BY <1>2, <1>5 DEF Units!Without
  <2>2. Units!Sum(f) = Units!Sum(Units!Without(f, m)) + f[m] /\ Units!Sum(f) \in Nat
    BY <1>5, DropTotal
  <2>3. Units!Held(f, m) = f[m] /\ f[m] \in Nat
    BY <1>1, <1>5 DEF Units!Held
  <2> DEFINE a == Units!Sum(Units!Without(f, m))  h == f[m]
  <2>4. /\ Units!Sum(g) = a + v /\ Units!Sum(f) = a + h /\ a \in Nat /\ h \in Nat
        /\ Units!Held(f, m) = h
    BY <1>4, <2>1, <2>2, <2>3
  <2> HIDE DEF a, h
  <2>5. Units!Sum(g) = Units!Sum(f) + v - h
    BY <2>4
  <2> QED BY <1>3, <2>2, <2>3, <2>4, <2>5 DEF g
<1>6. CASE m \notin D
  <2>1. DOMAIN Units!Without(g, m) = D /\ \A x \in D : Units!Without(g, m)[x] = f[x]
    BY <1>2, <1>6 DEF Units!Without
  <2>2. SumFunctionOnSet(Units!Without(g, m), D) = SumFunctionOnSet(f, D)
    <3> DEFINE h == Units!Without(g, m)
    <3>1. \A x \in D : f[x] \in Int /\ h[x] = f[x]
      BY <1>1, <2>1
    <3> HIDE DEF D, h
    <3>2. SumFunctionOnSet(h, D) = SumFunctionOnSet(f, D)
      BY <1>1, <3>1, SumSame
    <3> QED BY <3>2 DEF h
  <2>3. Units!Sum(Units!Without(g, m)) = Units!Sum(f)
    BY <2>1, <2>2, TableSum
  <2>4. Units!Held(f, m) = 0
    BY <1>6 DEF Units!Held
  <2> DEFINE a == Units!Sum(f)
  <2>5. Units!Sum(g) = a + v /\ a \in Nat
    BY <1>4, <2>3
  <2> HIDE DEF a
  <2>6. Units!Sum(g) = a + v - Units!Held(f, m)
    BY <2>4, <2>5
  <2> QED BY <1>3, <2>4, <2>5, <2>6 DEF g, a
<1> QED BY <1>5, <1>6

(* What is added is there to be added. *)
LEMMA TakeUnits ==
    ASSUME NEW f, Holdings(f), NEW m, NEW u \in Nat \ {0}, Units!Sum(f) + u <= UnitCapacity,
           UnitCapacity \in Nat
    PROVE  LET g == Units!With(f, m, Units!Held(f, m) + u) IN
           Holdings(g) /\ Units!Sum(g) <= UnitCapacity
<1> DEFINE h == Units!Held(f, m)  v == h + u  a == Units!Sum(f)
<1>1. h \in Nat /\ a \in Nat
  BY SetTotal
<1> HIDE DEF h, a
<1>2. v \in Nat \ {0}
  BY <1>1
<1>3. Holdings(Units!With(f, m, v)) /\ Units!Sum(Units!With(f, m, v)) = a + v - h
  <2> HIDE DEF v
  <2> QED BY <1>2, SetTotal DEF a, h
<1>4. a + v - h <= UnitCapacity
  BY <1>1 DEF a
<1> QED BY <1>3, <1>4 DEF h

(* What is given back is what there was. *)
LEMMA GiveUnits ==
    ASSUME NEW f, Holdings(f), NEW m \in DOMAIN f, NEW u \in Nat, Units!Sum(f) <= UnitCapacity,
           UnitCapacity \in Nat, u # 0
    PROVE  LET g == Units!Released(f, m, u) IN
           Holdings(g) /\ Units!Sum(g) <= UnitCapacity
<1> DEFINE h == f[m]  a == Units!Sum(f)
<1>1. h \in Nat /\ a \in Nat /\ Units!Held(f, m) = h
  BY DropTotal DEF Holdings, Units!Held
<1>2. CASE h <= u
  <2> DEFINE g == Units!Without(f, m)
  <2>1. Units!Released(f, m, u) = g
    BY <1>1, <1>2 DEF Units!Released
  <2>2. Holdings(g) /\ Units!Sum(g) \in Nat /\ a = Units!Sum(g) + h
    BY DropTotal
  <2> HIDE DEF g, h, a
  <2>3. Units!Sum(g) <= UnitCapacity
    BY <1>1, <2>2 DEF a
  <2> QED BY <2>1, <2>2, <2>3
<1>3. CASE ~(h <= u)
  <2> DEFINE v == h - u  g == Units!With(f, m, v)
  <2>1. Units!Released(f, m, u) = g
    BY <1>1, <1>3 DEF Units!Released
  <2>2. v \in Nat \ {0}
    BY <1>1, <1>3
  <2>3. Holdings(g) /\ Units!Sum(g) = a + v - h
    <3> HIDE DEF v, h, a
    <3> QED BY <1>1, <2>2, SetTotal DEF a
  <2> HIDE DEF g, h, a
  <2>4. Units!Sum(g) <= UnitCapacity
    BY <1>1, <1>3, <2>3 DEF a
  <2> QED BY <2>1, <2>3, <2>4
<1> QED BY <1>2, <1>3

(* Whoever asks for whatever, releases whatever or everything. *)
LEMMA UnitsKeep ==
    ASSUME UnitsInv, Units!Next
    PROVE  UnitsInv'
<1>0. UnitCapacity \in Nat /\ UnitCounts \subseteq Nat \ {0}
  BY HardwareAssumption DEF HardwareAssumption, Units!ResourceAssumption
<1>1. /\ Holdings(x1) /\ Units!Sum(x1) <= UnitCapacity
      /\ Holdings(x2) /\ Units!Sum(x2) <= UnitCapacity
  BY DEF UnitsInv
<1>2. SUFFICES /\ Holdings(x1') /\ Units!Sum(x1') <= UnitCapacity
               /\ Holdings(x2') /\ Units!Sum(x2') <= UnitCapacity
  BY DEF UnitsInv, Units!Sum
<1>3. ASSUME NEW m, NEW u \in UnitCounts, Units!Allocate(m, u)
      PROVE  Holdings(x1') /\ Units!Sum(x1') <= UnitCapacity /\ x2' = x2
  <2> DEFINE a == Units!Sum(x1)  g == Units!Grant(u)
  <2>1. a \in Nat
    BY <1>1, SetTotal
  <2>2. a < UnitCapacity /\ x1' = Units!With(x1, m, Units!Held(x1, m) + g) /\ x2' = x2
    BY <1>3, <2>1, <1>0 DEF Units!Allocate
  <2>3. g \in Nat \ {0} /\ a + g <= UnitCapacity
    <3>1. g = IF u < UnitCapacity - a THEN u ELSE UnitCapacity - a
      BY DEF Units!Grant, Units!Smaller
    <3> HIDE DEF a, g
    <3> QED BY <1>0, <2>1, <2>2, <3>1
  <2> HIDE DEF g
  <2> QED BY <1>0, <1>1, <2>2, <2>3, TakeUnits
<1>4. ASSUME NEW m, NEW u \in UnitCounts, Units!Release(m, u)
      PROVE  Holdings(x1') /\ Units!Sum(x1') <= UnitCapacity /\ x2' = x2
  <2>1. m \in DOMAIN x1 /\ x1' = Units!Released(x1, m, u) /\ x2' = x2
    BY <1>4 DEF Units!Release
  <2> QED BY <1>0, <1>1, <2>1, GiveUnits
<1>5. ASSUME NEW m, NEW u \in UnitCounts, Units!Acquire(m, u)
      PROVE  Holdings(x2') /\ Units!Sum(x2') <= UnitCapacity /\ x1' = x1
  <2> DEFINE a == Units!Sum(x2)
  <2>1. a \in Nat
    BY <1>1, SetTotal
  <2>2. UnitCapacity - a >= u /\ x2' = Units!With(x2, m, Units!Held(x2, m) + u) /\ x1' = x1
    BY <1>5 DEF Units!Acquire
  <2>3. a + u <= UnitCapacity
    <3> HIDE DEF a
    <3> QED BY <1>0, <2>1, <2>2
  <2> QED BY <1>0, <1>1, <2>2, <2>3, TakeUnits
<1>6. ASSUME NEW m, NEW u \in UnitCounts, Units!ReleaseBounded(m, u)
      PROVE  Holdings(x2') /\ Units!Sum(x2') <= UnitCapacity /\ x1' = x1
  <2>1. m \in DOMAIN x2 /\ x2' = Units!Released(x2, m, u) /\ x1' = x1
    BY <1>6 DEF Units!ReleaseBounded
  <2> QED BY <1>0, <1>1, <2>1, GiveUnits
<1>7. ASSUME Units!ReleaseAll
      PROVE  Holdings(x1') /\ Units!Sum(x1') <= UnitCapacity /\ x2' = x2
  BY <1>0, <1>7, EmptyTable DEF Units!ReleaseAll
<1> QED BY <1>1, <1>3, <1>4, <1>5, <1>6, <1>7 DEF Units!Next

-----------------------------------------------------------------------------
(* ByteServer: x1 server, x2 mode, x3 at, x4 now.                          *)

MemberRecords == [bytes : ServerBytes, priority : ServerPriorities, done : Nat]

\* members that are served
Served(ms) ==
    /\ IsFiniteSet(DOMAIN ms) /\ DOMAIN ms \subseteq ServerMembers
    /\ \A m \in DOMAIN ms : ms[m] \in MemberRecords

\* the time m takes, as Duration counts it
Rounds(ms) == [k \in DOMAIN ms |-> Server!CeilDiv(ms[k].bytes, ServerBandwidth)]
Takes(mode, ms, m) ==
    IF mode = "equal_share"
    THEN Server!CeilDiv(ms[m].bytes * Cardinality(DOMAIN ms), ServerBandwidth)
    ELSE SumFunctionOnSet(Rounds(ms), Server!Ahead(ms, m))

\* the promises count from time t
Promised(mode, ms, t) == \A m \in DOMAIN ms : ms[m].done = t + Takes(mode, ms, m)

ServerInv ==
    /\ Served(x1) /\ Promised(x2, x1, x3)
    /\ x2 \in {"equal_share", "strict_priority"}
    /\ x3 \in Nat /\ x4 \in Nat /\ x3 <= x4

(* What the server's parameters are. *)
LEMMA ServerConstants ==
    /\ ServerMembers \subseteq Int /\ ServerBandwidth \in Nat \ {0}
    /\ ServerBytes \subseteq Nat /\ ServerPriorities \subseteq Int
BY HardwareAssumption DEF HardwareAssumption, Server!ServerAssumption

(* The fields of a member. *)
LEMMA MemberFields ==
    ASSUME NEW r \in MemberRecords
    PROVE  /\ r.bytes \in ServerBytes /\ r.bytes \in Nat
           /\ r.priority \in ServerPriorities /\ r.priority \in Int /\ r.done \in Nat
<1>1. r.bytes \in ServerBytes /\ r.priority \in ServerPriorities /\ r.done \in Nat
  BY DEF MemberRecords
<1> QED BY <1>1, ServerConstants

(* Takes is what Duration counts. *)
LEMMA TakesIsDuration == \A ms, m : Server!Duration(ms, m) = Takes(x2, ms, m)
<1>1. \A f, S : Server!SumFunctionOnSet(f, S) = SumFunctionOnSet(f, S)
  BY DEF Server!SumFunctionOnSet, Server!FoldFunctionOnSet, Server!MapThenFoldSet,
         SumFunctionOnSet, FoldFunctionOnSet, MapThenFoldSet
<1>2. \A S : Server!Cardinality(S) = Cardinality(S)
  BY DEF Server!Cardinality, Server!IsFiniteSet, Cardinality, IsFiniteSet
<1> QED BY <1>1, <1>2 DEF Server!Duration, Takes, Rounds

(* It depends on bytes and priorities only. *)
LEMMA TakesSame ==
    ASSUME NEW mode, NEW ms, NEW ns, DOMAIN ns = DOMAIN ms,
           \A k \in DOMAIN ms : ns[k].bytes = ms[k].bytes /\ ns[k].priority = ms[k].priority
    PROVE  \A m \in DOMAIN ms : Takes(mode, ns, m) = Takes(mode, ms, m)
<1> TAKE m \in DOMAIN ms
<1>1. Rounds(ns) = Rounds(ms)
  BY DEF Rounds
<1>2. Server!Ahead(ns, m) = Server!Ahead(ms, m)
  BY DEF Server!Ahead
<1> QED BY <1>1, <1>2 DEF Takes

(* A division rounded up. *)
LEMMA RoundedUp ==
    ASSUME NEW a \in Nat, NEW b \in Nat \ {0}
    PROVE  Server!CeilDiv(a, b) \in Nat /\ b * Server!CeilDiv(a, b) >= a
<1> DEFINE x == a + b - 1  q == x \div b
<1>1. x \in Nat /\ q \in Nat
  OBVIOUS
<1>2. q * b <= x /\ x < q * b + b
  BY <1>1
<1> DEFINE qb == q * b
<1>3. qb \in Nat /\ b * q = qb
  BY <1>1
<1> HIDE DEF qb, q
<1>4. qb >= a
  BY <1>2, <1>3 DEF qb
<1> QED BY <1>1, <1>3, <1>4 DEF Server!CeilDiv, q

(* In the time of its own that a member takes all its bytes are sent. *)
LEMMA RoundsAreNumbers ==
    ASSUME NEW ms, Served(ms), NEW k \in DOMAIN ms
    PROVE  Rounds(ms)[k] \in Nat /\ ServerBandwidth * Rounds(ms)[k] >= ms[k].bytes
<1>1. ms[k].bytes \in Nat
  BY MemberFields DEF Served
<1>2. Rounds(ms)[k] = Server!CeilDiv(ms[k].bytes, ServerBandwidth)
  BY DEF Rounds
<1> QED BY <1>1, <1>2, RoundedUp, ServerConstants

(* A duration is a number. *)
LEMMA TakesNumber ==
    ASSUME NEW mode, NEW ms, Served(ms), NEW m \in DOMAIN ms
    PROVE  Takes(mode, ms, m) \in Nat
<1>1. CASE mode = "equal_share"
  <2>1. ms[m].bytes \in Nat /\ Cardinality(DOMAIN ms) \in Nat
    BY MemberFields, FS_CardinalityType DEF Served
  <2>2. ms[m].bytes * Cardinality(DOMAIN ms) \in Nat
    BY <2>1
  <2> QED BY <1>1, <2>2, RoundedUp, ServerConstants DEF Takes
<1>2. CASE mode # "equal_share"
  <2> DEFINE S == Server!Ahead(ms, m)  w == Rounds(ms)
  <2>1. S \subseteq DOMAIN ms /\ IsFiniteSet(S)
    BY FS_Subset DEF Server!Ahead, Served
  <2>2. \A k \in S : w[k] \in Nat
    BY <2>1, RoundsAreNumbers
  <2>3. SumFunctionOnSet(w, S) \in Nat
    <3> HIDE DEF S, w
    <3> QED BY <2>1, <2>2, SumNat
  <2> QED BY <1>2, <2>3 DEF Takes
<1> QED BY <1>1, <1>2

(* Equal shares: nobody in S has more bytes than its share by then. *)
LEMMA SharesFit ==
    ASSUME NEW ms, Served(ms), NEW t \in Nat, Promised("equal_share", ms, t),
           NEW m \in DOMAIN ms, NEW S, S = {k \in DOMAIN ms : ms[k].done <= ms[m].done}
    PROVE  SumFunctionOnSet([k \in DOMAIN ms |-> ms[k].bytes], S)
             <= ServerBandwidth * (ms[m].done - t)
<1> DEFINE D == DOMAIN ms  n == Cardinality(D)  w == [k \in DOMAIN ms |-> ms[k].bytes]
           time == ms[m].done - t  room == ServerBandwidth * time  share == room \div n
<1>1. /\ IsFiniteSet(D) /\ IsFiniteSet(S) /\ S \subseteq D /\ m \in S
      /\ n \in Nat \ {0} /\ Cardinality(S) \in Nat /\ Cardinality(S) <= n
  <2>1. IsFiniteSet(D) /\ IsFiniteSet(S) /\ S \subseteq D
    BY FS_Subset DEF Served
  <2>2. n \in Nat /\ Cardinality(S) \in Nat /\ Cardinality(S) <= n /\ n # 0
    BY <2>1, FS_CardinalityType, FS_Subset, FS_EmptySet
  <2>3. ms[m].done \in Nat
    BY MemberFields DEF Served
  <2> QED BY <2>1, <2>2, <2>3
<1>2. time \in Nat
  <2>1. Takes("equal_share", ms, m) \in Nat /\ ms[m].done = t + Takes("equal_share", ms, m)
    BY TakesNumber DEF Promised
  <2> QED BY <2>1
<1>3. room \in Nat
  BY <1>2, ServerConstants
<1>4. share \in Nat /\ share * n <= room /\ \A b \in Nat : b * n <= room => b <= share
  <2> HIDE DEF room, n
  <2>1. \A r \in Nat, d \in Nat \ {0} :
          /\ r \div d \in Nat /\ (r \div d) * d <= r /\ r < (r \div d) * d + d
    OBVIOUS
  <2>2. share \in Nat /\ share * n <= room /\ room < share * n + n
    BY <1>1, <1>3, <2>1
  <2>3. ASSUME NEW b \in Nat, b * n <= room, b > share PROVE FALSE
    <3> HIDE DEF share
    <3>1. b >= share + 1
      BY <2>2, <2>3
    <3>2. b * n >= (share + 1) * n
      BY <1>1, <2>2, <3>1
    <3> DEFINE sn == share * n  bn == b * n
    <3>3. (share + 1) * n = sn + n /\ sn \in Nat /\ bn \in Nat
      BY <1>1, <2>2
    <3>4. bn >= sn + n /\ bn <= room /\ room < sn + n
      BY <2>2, <2>3, <3>2, <3>3
    <3> HIDE DEF sn, bn
    <3> QED BY <1>1, <1>3, <3>3, <3>4
  <2> QED BY <2>2, <2>3
<1>5. ASSUME NEW k \in S PROVE w[k] \in Int /\ w[k] <= share
  <2> DEFINE b == ms[k].bytes  bn == b * n  q == Server!CeilDiv(bn, ServerBandwidth)
  <2>1. k \in D /\ w[k] = b /\ b \in Nat /\ ms[k].done \in Nat /\ ms[m].done \in Nat
    BY <1>1, <1>5, MemberFields DEF Served
  <2>2. bn \in Nat
    BY <1>1, <2>1
  <2> HIDE DEF bn
  <2>3. q \in Nat /\ ServerBandwidth * q >= bn
    BY <2>2, RoundedUp, ServerConstants
  <2>4. ms[k].done = t + q
    BY <2>1 DEF Promised, Takes, bn
  <2> HIDE DEF q, time
  <2>5. q <= time
    BY <1>1, <1>5, <2>1, <2>3, <2>4 DEF time
  <2>6. ServerBandwidth * q <= room
    BY <1>2, <2>3, <2>5, ServerConstants
  <2> DEFINE bq == ServerBandwidth * q
  <2>7. bq \in Nat
    BY <2>3, ServerConstants
  <2> HIDE DEF bq, room
  <2>8. bn <= room
    BY <1>3, <2>2, <2>3, <2>6, <2>7 DEF bq
  <2> HIDE DEF share, b
  <2> QED BY <1>4, <2>1, <2>8 DEF bn
<1> HIDE DEF w, share, room, n
<1>6. SumFunctionOnSet(w, S) <= Cardinality(S) * share
  <2>1. \A k \in S : w[k] \in Int /\ w[k] <= share
    BY <1>5
  <2>2. IsFiniteSet(S) /\ share \in Int
    BY <1>1, <1>4
  <2> QED BY <2>1, <2>2, SumAtMost
<1>7. Cardinality(S) * share <= share * n
  BY <1>1, <1>4
<1>8. SumFunctionOnSet(w, S) \in Int
  BY <1>1, <1>5, SumUnfold
<1> DEFINE total == SumFunctionOnSet(w, S)  cs == Cardinality(S) * share  sn == share * n
<1>9. cs \in Int /\ sn \in Int
  BY <1>1, <1>4
<1> HIDE DEF total, cs, sn
<1>10. total <= room
  BY <1>3, <1>4, <1>6, <1>7, <1>8, <1>9 DEF total, cs, sn
<1> QED BY <1>10 DEF total, room, w, time

(* By priority: one of S comes after all the others of S. *)
LEMMA SomeoneIsLast ==
    ASSUME NEW ms, Served(ms), NEW S \in SUBSET DOMAIN ms, S # {}
    PROVE  \E l \in S : S \subseteq Server!Ahead(ms, l)
<1> DEFINE D == DOMAIN ms
           Behind(k) == D \ Server!Ahead(ms, k)
           B == {Behind(k) : k \in S}
<1>1. PICK b \in B : \A c \in B : c \subseteq b => c = b
  <2>1. IsFiniteSet(D) /\ B \in SUBSET (SUBSET D) /\ B # {}
    BY DEF Served
  <2> HIDE DEF B, D
  <2> QED BY <2>1, Smallest
<1>2. PICK l \in S : b = Behind(l)
  BY <1>1
<1>3. \A k \in D : k \in Int /\ ms[k].priority \in Int
  BY MemberFields, ServerConstants DEF Served
<1>4. ASSUME NEW k \in S, k \notin Server!Ahead(ms, l) PROVE FALSE
  <2>1. l \in Server!Ahead(ms, k) /\ Server!Ahead(ms, l) \subseteq Server!Ahead(ms, k)
    BY <1>2, <1>3, <1>4 DEF Server!Ahead
  <2>2. Behind(k) \subseteq Behind(l) /\ Behind(k) \in B
    BY <2>1
  <2>3. Behind(k) = Behind(l)
    BY <1>1, <1>2, <2>2
  <2>4. k \in Server!Ahead(ms, k) /\ k \in D
    BY <1>3 DEF Server!Ahead
  <2> QED BY <1>4, <2>3, <2>4
<1> QED BY <1>4

(* And by the time it is done, all of them are. *)
LEMMA PrioritiesFit ==
    ASSUME NEW mode, mode # "equal_share", NEW ms, Served(ms), NEW t \in Nat,
           Promised(mode, ms, t),
           NEW m \in DOMAIN ms, NEW S, S = {k \in DOMAIN ms : ms[k].done <= ms[m].done}
    PROVE  SumFunctionOnSet([k \in DOMAIN ms |-> ms[k].bytes], S)
             <= ServerBandwidth * (ms[m].done - t)
<1> DEFINE D == DOMAIN ms  w == [k \in DOMAIN ms |-> ms[k].bytes]
           v == [k \in DOMAIN ms |-> ServerBandwidth * Rounds(ms)[k]]
<1>1. \A k \in D : ms[k].done \in Nat /\ w[k] \in Nat
  BY MemberFields DEF Served
<1>2. S \subseteq D /\ m \in S /\ IsFiniteSet(D)
  BY <1>1 DEF Served
<1>3. PICK l \in S : S \subseteq Server!Ahead(ms, l)
  BY <1>2, SomeoneIsLast
<1> DEFINE A == Server!Ahead(ms, l)
<1>4. A \subseteq D /\ IsFiniteSet(A) /\ S \subseteq A
  BY <1>2, <1>3, FS_Subset DEF Server!Ahead
<1>5. \A k \in D : /\ Rounds(ms)[k] \in Nat /\ v[k] = ServerBandwidth * Rounds(ms)[k]
                   /\ v[k] \in Nat /\ w[k] <= v[k]
  <2> TAKE k \in D
  <2>1. Rounds(ms)[k] \in Nat /\ ServerBandwidth * Rounds(ms)[k] >= w[k]
    BY RoundsAreNumbers
  <2>2. ServerBandwidth * Rounds(ms)[k] \in Nat
    BY <2>1, ServerConstants
  <2> QED BY <1>1, <2>1, <2>2
<1> DEFINE r == Rounds(ms)
<1> HIDE DEF v, w, A, r
<1>6. SumFunctionOnSet(w, S) <= SumFunctionOnSet(w, A)
  <2>1. \A k \in A : w[k] \in Nat
    BY <1>1, <1>4
  <2> QED BY <1>4, <2>1, SumWithin
<1>7. SumFunctionOnSet(w, A) <= SumFunctionOnSet(v, A)
  <2>1. \A k \in A : w[k] \in Int /\ v[k] \in Int /\ w[k] <= v[k]
    BY <1>1, <1>4, <1>5
  <2> QED BY <1>4, <2>1, SumLess
<1>8. SumFunctionOnSet(v, A) = ServerBandwidth * SumFunctionOnSet(r, A)
  <2>1. \A k \in A : r[k] \in Int /\ v[k] = ServerBandwidth * r[k]
    BY <1>4, <1>5 DEF r
  <2> QED BY <1>4, <2>1, SumTimes, ServerConstants
<1>9. ms[l].done = t + SumFunctionOnSet(r, A)
  BY <1>2, <1>3 DEF Promised, Takes, r, A
<1>10. SumFunctionOnSet(r, A) \in Nat
  <2>1. \A k \in A : r[k] \in Nat
    BY <1>4, <1>5 DEF r
  <2> QED BY <1>4, <2>1, SumNat
<1>11. ms[l].done <= ms[m].done /\ ms[l].done \in Nat /\ ms[m].done \in Nat
  BY <1>1, <1>2, <1>3
<1> DEFINE done == ms[m].done  last == ms[l].done  sr == SumFunctionOnSet(r, A)
<1>12. ServerBandwidth * sr <= ServerBandwidth * (done - t)
  <2>1. sr \in Nat /\ sr <= done - t /\ done - t \in Nat
    <3> HIDE DEF sr, done, last
    <3> QED BY <1>9, <1>10, <1>11 DEF sr, done, last
  <2> DEFINE x == done - t
  <2> HIDE DEF sr, x
  <2>2. sr \in Nat /\ x \in Nat /\ sr <= x
    BY <2>1 DEF x
  <2>3. \A b \in Nat, y, z \in Nat : y <= z => b * y <= b * z
    OBVIOUS
  <2> QED BY <2>2, <2>3, ServerConstants DEF x
<1>13. /\ SumFunctionOnSet(w, S) \in Int /\ SumFunctionOnSet(w, A) \in Int
       /\ SumFunctionOnSet(v, A) \in Int
  <2>1. IsFiniteSet(S) /\ \A k \in S : w[k] \in Nat
    BY <1>1, <1>2, FS_Subset
  <2>2. \A k \in A : w[k] \in Nat /\ v[k] \in Nat
    BY <1>1, <1>4, <1>5
  <2> QED BY <1>4, <2>1, <2>2, SumNat
<1> DEFINE a == SumFunctionOnSet(w, S)  b == SumFunctionOnSet(w, A)
           c == SumFunctionOnSet(v, A)  d == ServerBandwidth * (done - t)
<1>14. d \in Int
  BY <1>11, ServerConstants
<1> HIDE DEF a, b, c, d, sr
<1>15. a <= d
  BY <1>6, <1>7, <1>8, <1>12, <1>13, <1>14 DEF a, b, c, d, sr
<1> QED BY <1>15 DEF a, d, w

(* The sums of the promises are those that Sums is about. *)
LEMMA ServerSums == \A f, S : Server!SumFunctionOnSet(f, S) = SumFunctionOnSet(f, S)
BY DEF Server!SumFunctionOnSet, Server!FoldFunctionOnSet, Server!MapThenFoldSet,
       SumFunctionOnSet, FoldFunctionOnSet, MapThenFoldSet

(* The promises that are kept to date fit the bandwidth, by either mode. *)
LEMMA PromisesFit == ASSUME ServerInv PROVE Server!TypeOK /\ Server!PromisesFitBandwidth
<1>1. Served(x1) /\ Promised(x2, x1, x3) /\ x3 \in Nat /\ x4 \in Nat /\ x3 <= x4
  BY DEF ServerInv
<1>2. ASSUME NEW m \in DOMAIN x1
      PROVE  SumFunctionOnSet([k \in DOMAIN x1 |-> x1[k].bytes],
                              {k \in DOMAIN x1 : x1[k].done <= x1[m].done})
               <= ServerBandwidth * (x1[m].done - x3)
  <2> DEFINE S == {k \in DOMAIN x1 : x1[k].done <= x1[m].done}
  <2>1. CASE x2 = "equal_share"
    <3>1. Promised("equal_share", x1, x3)
      BY <1>1, <2>1
    <3> QED BY <1>1, <1>2, <3>1, SharesFit
  <2>2. CASE x2 # "equal_share"
    BY <1>1, <1>2, <2>2, PrioritiesFit
  <2> QED BY <2>1, <2>2
<1>3. Server!PromisesFitBandwidth
  BY <1>2, ServerSums DEF Server!PromisesFitBandwidth
<1>4. ASSUME NEW m \in DOMAIN x1 PROVE x1[m].bytes \in ServerBytes /\ x1[m].done >= x3
  <2>1. x1[m].bytes \in ServerBytes
    BY <1>1, <1>4, MemberFields DEF Served
  <2>2. Takes(x2, x1, m) \in Nat /\ x1[m].done = x3 + Takes(x2, x1, m)
    BY <1>1, <1>4, TakesNumber DEF Promised
  <2> QED BY <1>1, <2>1, <2>2
<1> QED BY <1>1, <1>3, <1>4 DEF Server!TypeOK

(* Served with the promises still to be made. *)
LEMMA RecomputeKeeps ==
    ASSUME ServerInv, NEW ms, Served(ms), Server!Recompute(ms)
    PROVE  /\ ServerInv' /\ DOMAIN x1' = DOMAIN ms
           /\ \A k \in DOMAIN ms : /\ x1'[k].bytes = ms[k].bytes
                                  /\ x1'[k].priority = ms[k].priority
                                  /\ x1'[k].done = x4 + Takes(x2, ms, k)
<1>1. /\ x1' = [m \in DOMAIN ms |-> [ms[m] EXCEPT !.done = x4 + Takes(x2, ms, m)]]
      /\ x3' = (IF ms = [m \in {} |-> 0] THEN x3 ELSE x4) /\ x2' = x2 /\ x4' = x4
  BY TakesIsDuration DEF Server!Recompute
<1>2. x3 \in Nat /\ x4 \in Nat /\ x3 <= x4 /\ x2 \in {"equal_share", "strict_priority"}
  BY DEF ServerInv
<1>3. ASSUME NEW k \in DOMAIN ms
      PROVE  /\ x1'[k] \in MemberRecords /\ x1'[k].bytes = ms[k].bytes
             /\ x1'[k].priority = ms[k].priority /\ x1'[k].done = x4 + Takes(x2, ms, k)
  <2> DEFINE d == x4 + Takes(x2, ms, k)
  <2>1. d \in Nat
    BY <1>2, <1>3, TakesNumber
  <2>2. x1'[k] = [ms[k] EXCEPT !.done = d] /\ ms[k] \in MemberRecords
    BY <1>1, <1>3 DEF Served
  <2> HIDE DEF d
  <2>3. /\ x1'[k] \in MemberRecords /\ x1'[k].bytes = ms[k].bytes
        /\ x1'[k].priority = ms[k].priority /\ x1'[k].done = d
    BY <2>1, <2>2 DEF MemberRecords
  <2> QED BY <2>3 DEF d
<1>4. DOMAIN x1' = DOMAIN ms
  BY <1>1
<1>5. Served(x1')
  BY <1>3, <1>4 DEF Served
<1>6. Promised(x2, x1', x3')
  <2>1. ASSUME NEW m \in DOMAIN x1' PROVE x1'[m].done = x3' + Takes(x2, x1', m)
    <3>1. x3' = x4
      BY <1>1, <1>4, <2>1
    <3>2. Takes(x2, x1', m) = Takes(x2, ms, m)
      BY <1>3, <1>4, <2>1, TakesSame
    <3> QED BY <1>3, <1>4, <2>1, <3>1, <3>2
  <2> QED BY <2>1 DEF Promised
<1>7. x3' \in Nat /\ x4' \in Nat /\ x3' <= x4' /\ x2' \in {"equal_share", "strict_priority"}
  BY <1>1, <1>2
<1>8. ServerInv'
  <2>1. Promised(x2', x1', x3')
    BY <1>1, <1>6
  <2> QED BY <1>5, <1>7, <2>1 DEF ServerInv
<1> QED BY <1>3, <1>4, <1>8

(* Nobody is served at the start. *)
LEMMA ServerStarts == ASSUME Server!Init PROVE ServerInv
<1>1. x1 = [m \in {} |-> 0] /\ x2 \in {"equal_share", "strict_priority"} /\ x3 = 0 /\ x4 = 0
  BY DEF Server!Init
<1>2. DOMAIN x1 = {}
  BY <1>1
<1> QED BY <1>1, <1>2, FS_EmptySet DEF ServerInv, Served, Promised

(* The members that a call leaves to be served. *)
LEMMA MembersServed ==
    ASSUME NEW ms, Served(ms), NEW m \in ServerMembers
    PROVE  /\ Served(Server!Without(ms, m))
           /\ \A r \in MemberRecords : Served(Server!With(ms, m, r))
           /\ \A b \in ServerBytes : m \in DOMAIN ms => Served([ms EXCEPT ![m].bytes = b])
<1>1. /\ IsFiniteSet(DOMAIN ms) /\ IsFiniteSet(DOMAIN ms \ {m})
      /\ IsFiniteSet(DOMAIN ms \cup {m})
  BY FS_Subset, FS_AddElement DEF Served
<1>2. Served(Server!Without(ms, m))
  BY <1>1 DEF Served, Server!Without
<1>3. ASSUME NEW r \in MemberRecords PROVE Served(Server!With(ms, m, r))
  BY <1>1 DEF Served, Server!With
<1>4. ASSUME NEW b \in ServerBytes, m \in DOMAIN ms PROVE Served([ms EXCEPT ![m].bytes = b])
  <2> DEFINE ns == [ms EXCEPT ![m].bytes = b]
  <2>1. DOMAIN ns = DOMAIN ms
    OBVIOUS
  <2>2. ASSUME NEW k \in DOMAIN ms PROVE ns[k] \in MemberRecords
    <3>1. ms[k] \in MemberRecords
      BY <2>2 DEF Served
    <3>2. CASE k = m
      <4>1. ns[k] = [ms[k] EXCEPT !.bytes = b]
        BY <2>2, <3>2
      <4> HIDE DEF ns
      <4> QED BY <3>1, <4>1 DEF MemberRecords
    <3>3. CASE k # m
      <4>1. ns[k] = ms[k]
        BY <2>2, <3>3
      <4> QED BY <3>1, <4>1
    <3> QED BY <3>2, <3>3
  <2> HIDE DEF ns
  <2>3. Served(ns)
    BY <1>1, <2>1, <2>2 DEF Served
  <2> QED BY <2>3 DEF ns
<1> QED BY <1>2, <1>3, <1>4

(* Who comes after k does not change the time that k takes. *)
LEMMA NewcomerBehind ==
    ASSUME NEW ms, Served(ms), NEW m, m \notin DOMAIN ms, NEW r, NEW k \in DOMAIN ms,
           r.priority \in Int, ms[k].priority > r.priority
    PROVE  Takes("strict_priority", Server!With(ms, m, r), k)
             = Takes("strict_priority", ms, k)
<1> DEFINE ns == Server!With(ms, m, r)  A == Server!Ahead(ms, k)
           v == Rounds(ms)  w == Rounds(ns)
<1>1. /\ DOMAIN ns = DOMAIN ms \cup {m} /\ ns[m] = r
      /\ \A j \in DOMAIN ms : ns[j] = ms[j]
  BY DEF Server!With
<1> HIDE DEF ns
<1>2. \A j \in DOMAIN ms : ms[j].priority \in Int
  BY MemberFields DEF Served
<1>3. Server!Ahead(ns, k) = A
  <2>1. ~(r.priority > ms[k].priority) /\ r.priority # ms[k].priority
    BY <1>2
  <2> QED BY <1>1, <2>1 DEF Server!Ahead
<1>4. A \subseteq DOMAIN ms /\ IsFiniteSet(A)
  BY FS_Subset DEF Server!Ahead, Served
<1>5. \A j \in A : v[j] \in Int /\ w[j] = v[j]
  <2> TAKE j \in A
  <2>1. j \in DOMAIN ms /\ j \in DOMAIN ns /\ ns[j] = ms[j]
    BY <1>1, <1>4
  <2>2. v[j] \in Nat
    BY <2>1, RoundsAreNumbers
  <2>3. w[j] = v[j]
    BY <2>1 DEF Rounds
  <2> QED BY <2>2, <2>3
<1> HIDE DEF A, v, w
<1>6. SumFunctionOnSet(w, A) = SumFunctionOnSet(v, A)
  BY <1>4, <1>5, SumSame
<1>7. Takes("strict_priority", ns, k) = SumFunctionOnSet(w, A)
  BY <1>3 DEF Takes, w
<1>8. Takes("strict_priority", ms, k) = SumFunctionOnSet(v, A)
  BY DEF Takes, v, A
<1> QED BY <1>6, <1>7, <1>8 DEF ns

(* Every call remakes the promises; only a newcomer can postpone any.       *)
LEMMA ServerKeeps ==
    ASSUME ServerInv, Server!Next
    PROVE  ServerInv' /\ Server!NewcomerStep
<1>1. Served(x1) /\ Promised(x2, x1, x3) /\ x3 \in Nat /\ x4 \in Nat /\ x3 <= x4
  BY DEF ServerInv
<1>2. ASSUME NEW m \in ServerMembers, NEW b \in ServerBytes, Server!UpdateBytes(m, b)
      PROVE  ServerInv' /\ Server!NewcomerStep
  <2> DEFINE ms == [x1 EXCEPT ![m].bytes = b]
  <2>1. m \in DOMAIN x1 /\ Server!Recompute(ms) /\ DOMAIN ms = DOMAIN x1
    BY <1>2 DEF Server!UpdateBytes
  <2>2. Served(ms)
    BY <1>1, <1>2, <2>1, MembersServed
  <2> HIDE DEF ms
  <2>3. ServerInv' /\ DOMAIN x1' = DOMAIN x1
    BY <2>1, <2>2, RecomputeKeeps
  <2> QED BY <2>3 DEF Server!NewcomerStep
<1>3. ASSUME NEW m \in ServerMembers, NEW b \in ServerBytes, NEW p \in ServerPriorities,
             Server!AddMember(m, b, p)
      PROVE  ServerInv' /\ Server!NewcomerStep
  <2> DEFINE r == [bytes |-> b, priority |-> p, done |-> 0]  ms == Server!With(x1, m, r)
  <2>1. Server!Recompute(ms) /\ DOMAIN ms = DOMAIN x1 \cup {m} /\ ms # [k \in {} |-> 0]
    BY <1>3 DEF Server!AddMember, Server!With
  <2>2. r \in MemberRecords /\ r.priority = p /\ p \in Int
    BY ServerConstants DEF MemberRecords
  <2>3. Served(ms)
    <3> HIDE DEF r
    <3> QED BY <1>1, <1>3, <2>2, MembersServed
  <2>4. \A k \in DOMAIN x1 : k # m => ms[k] = x1[k]
    BY DEF Server!With
  <2>5. ms[m] = r
    BY DEF Server!With
  <2>6. x3' = x4
    BY <2>1 DEF Server!Recompute
  <2> HIDE DEF ms
  <2>7. /\ ServerInv' /\ DOMAIN x1' = DOMAIN ms
        /\ \A k \in DOMAIN ms : /\ x1'[k].priority = ms[k].priority
                               /\ x1'[k].done = x4 + Takes(x2, ms, k)
    BY <2>1, <2>3, RecomputeKeeps
  <2>8. ASSUME x2 = "strict_priority", x3' = x3,
               NEW n \in DOMAIN x1' \ DOMAIN x1, NEW k \in DOMAIN x1,
               x1'[k].priority > x1'[n].priority
        PROVE  x1'[k].done <= x1[k].done
    <3>1. n = m /\ m \notin DOMAIN x1 /\ k \in DOMAIN ms /\ m \in DOMAIN ms /\ ms[k] = x1[k]
      BY <2>1, <2>4, <2>7, <2>8
    <3>2. x1[k].priority > r.priority
      <4>1. x1'[k].priority = x1[k].priority /\ x1'[n].priority = r.priority
        BY <2>5, <2>7, <3>1
      <4> QED BY <2>8, <4>1
    <3>3. Takes("strict_priority", ms, k) = Takes("strict_priority", x1, k)
      <4> HIDE DEF r
      <4> QED BY <1>1, <2>2, <2>8, <3>1, <3>2, NewcomerBehind DEF ms
    <3>4. x1'[k].done = x1[k].done
      BY <1>1, <2>6, <2>7, <2>8, <3>1, <3>3 DEF Promised
    <3>5. x1[k].done \in Nat
      BY <1>1, <2>8, MemberFields DEF Served
    <3> QED BY <3>4, <3>5
  <2> QED BY <2>7, <2>8 DEF Server!NewcomerStep
<1>4. ASSUME NEW m \in ServerMembers, Server!RemoveMember(m)
      PROVE  ServerInv' /\ Server!NewcomerStep
  <2> DEFINE ms == Server!Without(x1, m)
  <2>1. m \in DOMAIN x1 /\ Server!Recompute(ms) /\ DOMAIN ms = DOMAIN x1 \ {m}
    BY <1>4 DEF Server!RemoveMember, Server!Without
  <2>2. Served(ms)
    BY <1>1, <1>4, MembersServed
  <2> HIDE DEF ms
  <2>3. ServerInv' /\ DOMAIN x1' = DOMAIN x1 \ {m}
    BY <2>1, <2>2, RecomputeKeeps
  <2> QED BY <2>1, <2>3 DEF Server!NewcomerStep
<1>5. ASSUME Server!Clear PROVE ServerInv' /\ Server!NewcomerStep
  <2>1. x1' = [m \in {} |-> 0] /\ x2' = x2 /\ x3' = x3 /\ x4' = x4
    BY <1>5 DEF Server!Clear
  <2>2. DOMAIN x1' = {}
    BY <2>1
  <2> QED BY <2>1, <2>2, FS_EmptySet DEF ServerInv, Served, Promised, Server!NewcomerStep
<1>6. ASSUME Server!Tick PROVE ServerInv' /\ Server!NewcomerStep
  <2>1. x1' = x1 /\ x2' = x2 /\ x3' = x3 /\ x4' = x4 + 1
    BY <1>6 DEF Server!Tick
  <2>2. x4' \in Nat /\ x3 <= x4'
    BY <1>1, <2>1
  <2> QED BY <2>1, <2>2 DEF ServerInv, Server!NewcomerStep
<1> QED BY <1>2, <1>3, <1>4, <1>5, <1>6 DEF Server!Next

(* CapacityResource and BoundedResource never hand out more units than     *)
(* there are, whatever is asked for and given back; the completion times   *)
(* that ByteServer promises fit its bandwidth in both modes of service,    *)
(* and a newcomer does not postpone a member of higher priority.           *)
THEOREM ResourcesAreShared == Spec => SharesWhatThereIs
<1> DEFINE Inv == /\ part = "units" => UnitsInv
                  /\ part = "server" => ServerInv
<1>1. Init => Inv
  <2>1. ASSUME Units!Init PROVE UnitsInv
    <3>1. UnitCapacity \in Nat
      BY HardwareAssumption DEF HardwareAssumption, Units!ResourceAssumption
    <3> QED BY <2>1, <3>1, EmptyTable DEF Units!Init, UnitsInv
  <2> QED BY <2>1, ServerStarts DEF Init
<1>2. Inv /\ [Next]_state => Inv' /\ (part = "server" => Server!NewcomerStep)
  <2> SUFFICES ASSUME Inv, [Next]_state PROVE Inv' /\ (part = "server" => Server!NewcomerStep)
    OBVIOUS
  <2>1. CASE Next
    <3>1. part' = part
      BY <2>1 DEF Next
    <3>2. part = "units" => Units!Next
      BY <2>1 DEF Next
    <3>3. part = "server" => Server!Next
      BY <2>1 DEF Next
    <3> QED BY <3>1, <3>2, <3>3, UnitsKeep, ServerKeeps
  <2>2. CASE UNCHANGED state
    <3>1. x1' = x1 /\ x2' = x2 /\ x3' = x3 /\ x4' = x4 /\ part' = part
      BY <2>2 DEF state
    <3>2. Units!Sum(x1)' = Units!Sum(x1) /\ Units!Sum(x2)' = Units!Sum(x2)
      BY <3>1
    <3> QED BY <3>1 DEF UnitsInv, ServerInv, Server!NewcomerStep
  <2> QED BY <2>1, <2>2
<1>3. Inv => /\ part = "units" => Units!NeverOversold
             /\ part = "server" => Server!TypeOK /\ Server!PromisesFitBandwidth
  <2>1. ASSUME UnitsInv PROVE Units!NeverOversold
    BY <2>1 DEF UnitsInv, Units!NeverOversold, Holdings
  <2> QED BY <2>1, PromisesFit
<1> QED BY <1>1, <1>2, <1>3, PTL DEF Spec, SharesWhatThereIs

-----------------------------------------------------------------------------
(* DmaModel: x1 arbitration, x2 queues, x3 estimate, x4 arrivals.          *)

Requests == [type : Channels!Types, size : Nat, blocks : Nat, arrival : Nat]

\* a queue in the order of service of arbitration a, of the first n calls
InOrder(a, q, n) ==
    /\ q \in Seq(Requests)
    /\ \A i \in 1..Len(q) : q[i].arrival <= n
    /\ \A i, j \in 1..Len(q) : i < j =>
          /\ a = "fixed_priority" => Channels!Priority(q[i].type) >= Channels!Priority(q[j].type)
          /\ q[i].type = q[j].type => q[i].arrival <= q[j].arrival

ChannelsInv ==
    /\ x1 \in {"round_robin", "fixed_priority"} /\ x3 \in Nat /\ x4 \in Nat
    /\ DOMAIN x2 = 0..ChannelCount - 1
    /\ x2 = [c \in 0..ChannelCount - 1 |-> x2[c]]
    /\ \A c \in 0..ChannelCount - 1 : InOrder(x1, x2[c], x4)

(* The parameters of the channels. *)
LEMMA ChannelConstants ==
    /\ ChannelCount \in Nat \ {0} /\ DmaSizes \subseteq Nat /\ DmaBlocks \subseteq Nat
    /\ DmaBurst \in Nat \ {0} /\ DmaBytesPerCycle \in Nat \ {0}
    /\ DmaOverhead \in Nat /\ DmaFifoDepth \in Nat
BY HardwareAssumption DEF HardwareAssumption, Channels!DmaAssumption

(* Each type of request has a channel and a priority. *)
LEMMA TypesHaveChannels ==
    ASSUME NEW t \in Channels!Types
    PROVE  Channels!Channel(t) \in 0..ChannelCount - 1 /\ Channels!Priority(t) \in Nat
<1>1. Channels!Index[t] \in 0..2
  BY DEF Channels!Types, Channels!Index
<1>2. \A i \in 0..2, n \in Nat \ {0} : i % n \in 0..n - 1
  OBVIOUS
<1>3. \A i \in 0..2 : 2 - i \in Nat
  OBVIOUS
<1> QED BY <1>1, <1>2, <1>3, ChannelConstants DEF Channels!Channel, Channels!Priority

(* A set of numbers has a least one. *)
LEMMA LeastOfNumbers ==
    ASSUME NEW I, I \subseteq Nat, I # {}
    PROVE  Channels!Min(I) \in I /\ \A j \in I : Channels!Min(I) <= j
<1>1. PICK x \in I : \A y \in I : ~(<<y, x>> \in OpToRel(<, Nat))
  BY WFMin, NatLessThanWellFounded, Zenon
<1>2. \A y \in I : ~(y < x)
  BY <1>1, Zenon DEF OpToRel
<1>3. x \in I /\ \A y \in I : x =< y
  BY <1>2
<1>4. Channels!Min(I) = CHOOSE z \in I : \A y \in I : z =< y
  BY DEF Channels!Min
<1>5. /\ (CHOOSE z \in I : \A y \in I : z =< y) \in I
      /\ \A y \in I : (CHOOSE z \in I : \A u \in I : z =< u) =< y
  BY <1>3, Zenon
<1> QED BY <1>4, <1>5

(* In a finite set somebody is below nobody. *)
LEMMA NobodyAbove ==
    ASSUME NEW S, IsFiniteSet(S), S # {}, NEW r,
           \A x \in S : <<x, x>> \notin r,
           \A x, y, z \in S : <<x, y>> \in r /\ <<y, z>> \in r => <<x, z>> \in r
    PROVE  \E x \in S : \A y \in S : <<x, y>> \notin r
<1> DEFINE Above(x) == {y \in S : <<x, y>> \in r}
           B == {Above(x) : x \in S}
<1>1. PICK b \in B : \A c \in B : c \subseteq b => c = b
  <2>1. B \in SUBSET (SUBSET S)
    OBVIOUS
  <2>2. PICK x \in S : TRUE
    OBVIOUS
  <2>3. Above(x) \in B
    OBVIOUS
  <2> HIDE DEF B
  <2> QED BY <2>1, <2>3, Smallest
<1>2. PICK x \in S : b = Above(x)
  BY <1>1
<1>3. ASSUME NEW y \in S, <<x, y>> \in r PROVE FALSE
  <2>1. Above(y) \subseteq Above(x) /\ Above(y) \in B /\ y \in Above(x) /\ y \notin Above(y)
    BY <1>3
  <2> QED BY <1>1, <1>2, <2>1
<1> QED BY <1>3

(* A finite set of numbers has a greatest one. *)
LEMMA GreatestOfNumbers ==
    ASSUME NEW S, S \subseteq Nat, IsFiniteSet(S), S # {}
    PROVE  Channels!Max(S) \in S /\ \A y \in S : Channels!Max(S) >= y
<1> DEFINE r == {p \in S \X S : p[1] < p[2]}
<1>1. \A x, y \in S : x \in Nat /\ y \in Nat /\ (<<x, y>> \in r <=> x < y)
  OBVIOUS
<1> HIDE DEF r
<1>2. /\ \A x \in S : <<x, x>> \notin r
      /\ \A x, y, z \in S : <<x, y>> \in r /\ <<y, z>> \in r => <<x, z>> \in r
  BY <1>1
<1>3. PICK x \in S : \A y \in S : <<x, y>> \notin r
  BY <1>2, NobodyAbove
<1>4. x \in S /\ \A y \in S : x >= y
  <2>1. ASSUME NEW y \in S PROVE x >= y
    <3>1. x \in Nat /\ y \in Nat /\ ~(x < y)
      BY <1>1, <1>3
    <3> QED BY <3>1
  <2> QED BY <2>1
<1>5. Channels!Max(S) = CHOOSE z \in S : \A y \in S : z >= y
  BY DEF Channels!Max
<1>6. /\ (CHOOSE z \in S : \A y \in S : z >= y) \in S
      /\ \A y \in S : (CHOOSE z \in S : \A u \in S : z >= u) >= y
  BY <1>4, Zenon
<1> QED BY <1>5, <1>6

(* What is where after an insertion. *)
LEMMA InsertedAt ==
    ASSUME NEW S, NEW q \in Seq(S), NEW r \in S, NEW f \in 1..Len(q)
    PROVE  LET p == Channels!InsertAt(q, f, r) IN
           /\ p \in Seq(S) /\ Len(p) = Len(q) + 1
           /\ \A i \in 1..Len(q) + 1 :
                 p[i] = IF i < f THEN q[i] ELSE IF i = f THEN r ELSE q[i - 1]
<1> DEFINE a == SubSeq(q, 1, f - 1)  b == SubSeq(q, f, Len(q))
<1>1. Len(q) \in Nat /\ f \in Nat
  OBVIOUS
<1>2. a \in Seq(S) /\ Len(a) = f - 1 /\ \A i \in 1..f - 1 : a[i] = q[i]
  OBVIOUS
<1>3. b \in Seq(S) /\ Len(b) = Len(q) - f + 1 /\ \A i \in 1..Len(q) - f + 1 : b[i] = q[f + i - 1]
  OBVIOUS
<1> DEFINE p == a \o <<r>> \o b
<1>4. Channels!InsertAt(q, f, r) = p
  BY DEF Channels!InsertAt
<1> HIDE DEF a, b
<1>5. p \in Seq(S) /\ Len(p) = Len(q) + 1
  <2> DEFINE ar == a \o <<r>>
  <2>1. ar \in Seq(S) /\ Len(ar) = f
    BY <1>1, <1>2
  <2>2. p = ar \o b
    OBVIOUS
  <2> HIDE DEF ar, p
  <2> QED BY <1>1, <1>3, <2>1, <2>2
<1>6. \A i \in 1..Len(q) + 1 :
        p[i] = IF i < f THEN q[i] ELSE IF i = f THEN r ELSE q[i - 1]
  <2> TAKE i \in 1..Len(q) + 1
  <2> DEFINE ar == a \o <<r>>
  <2>1. ar \in Seq(S) /\ Len(ar) = f /\ \A j \in 1..f : ar[j] = IF j < f THEN q[j] ELSE r
    BY <1>1, <1>2
  <2>2. p = ar \o b
    OBVIOUS
  <2> HIDE DEF ar, p
  <2>3. CASE i <= f
    <3>1. p[i] = ar[i]
      BY <1>1, <1>3, <2>1, <2>2, <2>3
    <3> QED BY <1>1, <2>1, <2>3, <3>1
  <2>4. CASE i > f
    <3>1. p[i] = b[i - f] /\ i - f \in 1..Len(q) - f + 1 /\ f + (i - f) - 1 = i - 1
      BY <1>1, <1>3, <2>1, <2>2, <2>4
    <3> QED BY <1>1, <1>3, <2>4, <3>1
  <2> QED BY <1>1, <2>3, <2>4
<1> HIDE DEF p
<1> QED BY <1>4, <1>5, <1>6

(* A request goes behind those of its own and of higher priority. *)
LEMMA EnqueuedInOrder ==
    ASSUME NEW a \in {"round_robin", "fixed_priority"}, NEW n \in Nat, NEW q, InOrder(a, q, n),
           NEW r \in Requests, r.arrival = n
    PROVE  InOrder(a, IF a = "fixed_priority" THEN Channels!Inserted(q, r) ELSE Append(q, r), n)
<1>1. /\ q \in Seq(Requests) /\ Len(q) \in Nat /\ \A i \in 1..Len(q) : q[i] \in Requests
      /\ \A i \in 1..Len(q) : q[i].arrival <= n
      /\ \A i, j \in 1..Len(q) : i < j =>
          /\ a = "fixed_priority" => Channels!Priority(q[i].type) >= Channels!Priority(q[j].type)
          /\ q[i].type = q[j].type => q[i].arrival <= q[j].arrival
  BY DEF InOrder
<1>2. ASSUME NEW k \in Requests PROVE Channels!Priority(k.type) \in Nat /\ k.arrival \in Nat
  BY TypesHaveChannels DEF Requests
<1> DEFINE before(e) == Channels!Priority(r.type) > Channels!Priority(e.type)
           I == {i \in 1..Len(q) : before(q[i])}
<1>3. CASE a # "fixed_priority" \/ I = {}
  <2> DEFINE p == Append(q, r)
  <2>1. (IF a = "fixed_priority" THEN Channels!Inserted(q, r) ELSE Append(q, r)) = p
    <3>1. CASE a # "fixed_priority"
      BY <3>1
    <3>2. CASE I = {}
      <4>1. Channels!SelectInSeq(q, before) = 0
        BY <3>2 DEF Channels!SelectInSeq
      <4> QED BY <4>1 DEF Channels!Inserted
    <3> QED BY <1>3, <3>1, <3>2
  <2>2. p \in Seq(Requests) /\ Len(p) = Len(q) + 1 /\ p[Len(q) + 1] = r
    BY <1>1
  <2>3. \A i \in 1..Len(q) : p[i] = q[i]
    BY <1>1
  <2> HIDE DEF p
  <2>4. \A i \in 1..Len(p) : p[i].arrival <= n
    BY <1>1, <2>2, <2>3
  <2>5. ASSUME NEW i \in 1..Len(p), NEW j \in 1..Len(p), i < j
        PROVE  /\ a = "fixed_priority" =>
                    Channels!Priority(p[i].type) >= Channels!Priority(p[j].type)
               /\ p[i].type = p[j].type => p[i].arrival <= p[j].arrival
    <3>1. i \in 1..Len(q) /\ p[i] = q[i] /\ q[i] \in Requests
      BY <1>1, <2>2, <2>3, <2>5
    <3>2. CASE j \in 1..Len(q)
      BY <1>1, <2>3, <2>5, <3>1, <3>2
    <3>3. CASE j = Len(q) + 1
      <4>1. a = "fixed_priority" => ~before(q[i])
        BY <1>3, <3>1
      <4> QED BY <1>1, <1>2, <2>2, <3>1, <3>3, <4>1
    <3> QED BY <1>1, <2>2, <3>2, <3>3
  <2> QED BY <2>1, <2>2, <2>4, <2>5 DEF InOrder
<1>4. CASE a = "fixed_priority" /\ I # {}
  <2> DEFINE f == Channels!Min(I)  p == Channels!InsertAt(q, f, r)
  <2>1. f \in I /\ \A j \in I : f <= j
    <3>1. I \subseteq Nat
      OBVIOUS
    <3> HIDE DEF I
    <3> QED BY <1>4, <3>1, LeastOfNumbers
  <2>2. f \in 1..Len(q) /\ before(q[f])
    BY <2>1
  <2>3. (IF a = "fixed_priority" THEN Channels!Inserted(q, r) ELSE Append(q, r)) = p
    <3>1. Channels!SelectInSeq(q, before) = f
      BY <1>4 DEF Channels!SelectInSeq
    <3>2. f # 0
      BY <2>2
    <3> QED BY <1>4, <3>1, <3>2 DEF Channels!Inserted
  <2>4. \A i \in 1..Len(q) : i < f => ~before(q[i])
    BY <1>1, <2>1, <2>2
  <2> HIDE DEF f
  <2>5. /\ p \in Seq(Requests) /\ Len(p) = Len(q) + 1
        /\ \A i \in 1..Len(q) + 1 :
              p[i] = IF i < f THEN q[i] ELSE IF i = f THEN r ELSE q[i - 1]
    BY <1>1, <2>2, InsertedAt
  <2> HIDE DEF p, I, before
  <2>6. ASSUME NEW i \in 1..Len(p)
        PROVE  \/ i < f /\ i \in 1..Len(q) /\ p[i] = q[i]
               \/ i = f /\ p[i] = r
               \/ i > f /\ i - 1 \in 1..Len(q) /\ p[i] = q[i - 1]
    BY <1>1, <2>2, <2>5
  <2>7. \A i \in 1..Len(q) : i >= f => Channels!Priority(r.type) > Channels!Priority(q[i].type)
    <3> TAKE i \in 1..Len(q)
    <3> HAVE i >= f
    <3>1. Channels!Priority(r.type) > Channels!Priority(q[f].type)
      BY <2>2 DEF before
    <3>2. CASE i = f
      BY <3>1, <3>2
    <3>3. CASE i # f
      <4>1. f < i /\ f \in 1..Len(q)
        BY <2>2, <3>3
      <4>2. Channels!Priority(q[f].type) >= Channels!Priority(q[i].type)
        BY <1>1, <1>4, <4>1
      <4>3. q[f] \in Requests /\ q[i] \in Requests
        BY <1>1, <2>2
      <4> QED BY <1>2, <3>1, <4>2, <4>3
    <3> QED BY <3>2, <3>3
  <2>8. \A i \in 1..Len(q) : i < f => Channels!Priority(q[i].type) >= Channels!Priority(r.type)
    BY <1>1, <1>2, <2>4 DEF before
  <2>9. \A i \in 1..Len(p) : p[i].arrival <= n
    <3> TAKE i \in 1..Len(p)
    <3>1. CASE i < f /\ i \in 1..Len(q) /\ p[i] = q[i]
      <4>1. q[i].arrival <= n
        BY <1>1, <3>1
      <4> QED BY <3>1, <4>1
    <3>2. CASE i = f /\ p[i] = r
      BY <1>2, <3>2
    <3>3. CASE i > f /\ i - 1 \in 1..Len(q) /\ p[i] = q[i - 1]
      <4>1. q[i - 1].arrival <= n
        BY <1>1, <3>3
      <4> QED BY <3>3, <4>1
    <3> QED BY <2>6, <3>1, <3>2, <3>3
  <2>10. ASSUME NEW i \in 1..Len(p), NEW j \in 1..Len(p), i < j
         PROVE  /\ Channels!Priority(p[i].type) >= Channels!Priority(p[j].type)
                /\ p[i].type = p[j].type => p[i].arrival <= p[j].arrival
    <3>1. CASE i < f /\ i \in 1..Len(q) /\ p[i] = q[i]
      <4>1. CASE j < f /\ j \in 1..Len(q) /\ p[j] = q[j]
        BY <1>1, <1>4, <2>10, <3>1, <4>1
      <4>2. CASE j = f /\ p[j] = r
        BY <1>1, <2>8, <3>1, <4>2
      <4>3. CASE j > f /\ j - 1 \in 1..Len(q) /\ p[j] = q[j - 1]
        <5>1. i < j - 1
          BY <2>2, <3>1, <4>3
        <5> QED BY <1>1, <1>4, <3>1, <4>3, <5>1
      <4> QED BY <2>6, <4>1, <4>2, <4>3
    <3>2. CASE i = f /\ p[i] = r
      <4>1. j > f /\ j - 1 \in 1..Len(q) /\ p[j] = q[j - 1] /\ j - 1 >= f
        BY <2>2, <2>6, <2>10, <3>2
      <4>2. Channels!Priority(r.type) > Channels!Priority(p[j].type)
        BY <2>7, <4>1
      <4>3. p[j] \in Requests
        BY <1>1, <4>1
      <4> QED BY <1>2, <3>2, <4>2, <4>3
    <3>3. CASE i > f /\ i - 1 \in 1..Len(q) /\ p[i] = q[i - 1]
      <4>0. j > f /\ j # f /\ ~(j < f) /\ i - 1 < j - 1
        BY <2>2, <2>10, <3>3
      <4>1. j > f /\ j - 1 \in 1..Len(q) /\ p[j] = q[j - 1] /\ i - 1 < j - 1
        BY <2>6, <4>0
      <4> QED BY <1>1, <1>4, <3>3, <4>1
    <3> QED BY <2>6, <3>1, <3>2, <3>3
  <2> QED BY <2>3, <2>5, <2>9, <2>10 DEF InOrder
<1> QED BY <1>3, <1>4

(* A sum over a sequence that gets one longer. *)
LEMMA SumLonger ==
    ASSUME NEW n \in Nat, NEW v, NEW w, \A i \in 1..n : v[i] \in Nat /\ w[i] = v[i],
           w[n + 1] \in Nat
    PROVE  /\ SumFunctionOnSet(v, 1..n) \in Nat
           /\ SumFunctionOnSet(w, 1..n + 1) = SumFunctionOnSet(v, 1..n) + w[n + 1]
<1> DEFINE S == 1..n  x == n + 1
<1>1. IsFiniteSet(S) /\ x \notin S /\ 1..n + 1 = S \cup {x}
  <2>1. IsFiniteSet(S)
    BY FS_Interval
  <2>2. x \notin S /\ 1..n + 1 = S \cup {x}
    OBVIOUS
  <2> QED BY <2>1, <2>2
<1>2. \A i \in S : v[i] \in Int /\ w[i] \in Int /\ w[i] = v[i] /\ v[i] \in Nat
  OBVIOUS
<1>3. w[x] \in Int
  OBVIOUS
<1> HIDE DEF S, x
<1>4. SumFunctionOnSet(w, S \cup {x}) = SumFunctionOnSet(w, S) + w[x]
  BY <1>1, <1>2, <1>3, SumAdd
<1>5. SumFunctionOnSet(w, S) = SumFunctionOnSet(v, S)
  BY <1>1, <1>2, SumSame
<1>6. SumFunctionOnSet(v, S) \in Nat
  BY <1>1, <1>2, SumNat
<1> QED BY <1>1, <1>4, <1>5, <1>6 DEF S, x

(* Divisions that are rounded up are numbers and keep an order. *)
LEMMA RoundsUp ==
    ASSUME NEW d \in Nat \ {0}
    PROVE  /\ \A a \in Nat : Channels!CeilDiv(a, d) \in Nat
           /\ \A a, b \in Nat : a <= b => Channels!CeilDiv(a, d) <= Channels!CeilDiv(b, d)
<1>1. \A x \in Nat : x \div d \in Nat
  OBVIOUS
<1>2. ASSUME NEW x \in Nat, NEW y \in Nat, x <= y PROVE x \div d <= y \div d
  <2> DEFINE p == x \div d  q == y \div d
  <2>1. p \in Nat /\ q \in Nat /\ d * p <= x /\ y < d * q + d
    OBVIOUS
  <2> HIDE DEF p, q
  <2>2. ASSUME q < p PROVE FALSE
    <3>1. q + 1 <= p
      BY <2>1, <2>2
    <3>2. d * (q + 1) <= d * p
      BY <2>1, <3>1
    <3>3. d * (q + 1) = d * q + d
      BY <2>1
    <3> DEFINE dq == d * q  dp == d * p
    <3>4. dq \in Nat /\ dp \in Nat
      BY <2>1
    <3>5. dq + d <= dp /\ dp <= x /\ y < dq + d
      BY <2>1, <3>2, <3>3
    <3> HIDE DEF dq, dp
    <3> QED BY <1>2, <3>4, <3>5
  <2>3. p <= q
    BY <2>1, <2>2
  <2> QED BY <2>3 DEF p, q
<1>3. \A a \in Nat : a + d - 1 \in Nat
  OBVIOUS
<1>4. \A a, b \in Nat : a <= b => a + d - 1 <= b + d - 1
  OBVIOUS
<1> QED BY <1>1, <1>2, <1>3, <1>4 DEF Channels!CeilDiv

(* What a request costs is a number. *)
LEMMA RequestCosts == ASSUME NEW r \in Requests PROVE Channels!RequestCycles(r) \in Nat
<1>1. r.size \in Nat /\ r.blocks \in Nat
  BY DEF Requests
<1>2. Channels!Transfer(r.size) \in Nat
  <2> DEFINE a == Channels!CeilDiv(r.size, DmaBytesPerCycle)
             b == Channels!CeilDiv(r.size, DmaBurst)
  <2>1. a \in Nat /\ b \in Nat
    BY <1>1, ChannelConstants, RoundsUp
  <2>2. Channels!Transfer(r.size) = IF r.size <= 0 THEN 0 ELSE DmaOverhead + a + b
    BY DEF Channels!Transfer
  <2> HIDE DEF a, b
  <2> QED BY <2>1, <2>2, ChannelConstants
<1>3. r.blocks * DmaOverhead \in Nat
  BY <1>1, ChannelConstants
<1>4. Channels!LinkFetch(r.blocks) \in Nat
  BY <1>1 DEF Channels!LinkFetch
<1> QED BY <1>2, <1>3, <1>4 DEF Channels!RequestCycles

(* A queue's cost is a number, and one more request does not lessen it. *)
LEMMA CyclesGrow ==
    ASSUME NEW q \in Seq(Requests), NEW r \in Requests
    PROVE  /\ Channels!ChannelCycles(q) \in Nat
           /\ Channels!ChannelCycles(Append(q, r)) \in Nat
           /\ Channels!ChannelCycles(q) <= Channels!ChannelCycles(Append(q, r))
<1> DEFINE n == Len(q)  p == Append(q, r)
           v == [i \in DOMAIN q |-> q[i].size]
           w == [i \in DOMAIN p |-> p[i].size]
           f == [i \in DOMAIN q |-> Channels!RequestCycles(q[i])]
           g == [i \in DOMAIN p |-> Channels!RequestCycles(p[i])]
           fifo == DmaFifoDepth * DmaBurst
           Cost(c, b) == c + IF b > fifo THEN Channels!CeilDiv(b - fifo, DmaBurst) ELSE 0
<1>1. /\ n \in Nat /\ DOMAIN q = 1..n /\ DOMAIN p = 1..n + 1 /\ p[n + 1] = r
      /\ \A i \in 1..n : p[i] = q[i] /\ q[i] \in Requests
  OBVIOUS
<1> HIDE DEF n, p
<1>2. \A e \in Requests : e.size \in Nat /\ Channels!RequestCycles(e) \in Nat
  BY RequestCosts DEF Requests
<1>3. /\ \A i \in 1..n : v[i] \in Nat /\ w[i] = v[i] /\ f[i] \in Nat /\ g[i] = f[i]
      /\ w[n + 1] \in Nat /\ g[n + 1] \in Nat
  <2>1. n + 1 \in 1..n + 1 /\ \A i \in 1..n : i \in 1..n + 1
    BY <1>1
  <2> QED BY <1>1, <1>2, <2>1
<1> HIDE DEF v, w, f, g
<1> DEFINE b == SumFunctionOnSet(v, 1..n)  c == SumFunctionOnSet(f, 1..n)
           s == SumFunctionOnSet(w, 1..n + 1)  t == SumFunctionOnSet(g, 1..n + 1)
<1>4. b \in Nat /\ s = b + w[n + 1]
  BY <1>1, <1>3, SumLonger
<1>5. c \in Nat /\ t = c + g[n + 1]
  BY <1>1, <1>3, SumLonger
<1>6. Channels!ChannelCycles(q) = Cost(c, b) /\ Channels!ChannelCycles(p) = Cost(t, s)
  <2>1. \A h, S : Channels!SumFunctionOnSet(h, S) = SumFunctionOnSet(h, S)
    BY DEF Channels!SumFunctionOnSet, Channels!FoldFunctionOnSet, Channels!MapThenFoldSet,
           SumFunctionOnSet, FoldFunctionOnSet, MapThenFoldSet
  <2>2. Channels!ChannelCycles(q) = Cost(c, b)
    BY <1>1, <2>1 DEF Channels!ChannelCycles, v, f
  <2>3. Channels!ChannelCycles(p) = Cost(t, s)
    BY <1>1, <2>1 DEF Channels!ChannelCycles, w, g
  <2> QED BY <2>2, <2>3
<1>7. fifo \in Nat
  BY ChannelConstants
<1>8. b \in Nat /\ s \in Nat /\ b <= s /\ c \in Nat /\ t \in Nat /\ c <= t
  <2> HIDE DEF b, c, s, t
  <2> QED BY <1>3, <1>4, <1>5
<1> HIDE DEF b, c, s, t, fifo
<1>9. Cost(c, b) \in Nat /\ Cost(t, s) \in Nat /\ Cost(c, b) <= Cost(t, s)
  <2> DEFINE x == IF b > fifo THEN Channels!CeilDiv(b - fifo, DmaBurst) ELSE 0
             y == IF s > fifo THEN Channels!CeilDiv(s - fifo, DmaBurst) ELSE 0
  <2>1. x \in Nat /\ y \in Nat /\ x <= y
    <3>1. CASE ~(s > fifo)
      BY <1>7, <1>8, <3>1
    <3>2. CASE s > fifo /\ ~(b > fifo)
      <4>1. s - fifo \in Nat
        BY <1>7, <1>8, <3>2
      <4>2. Channels!CeilDiv(s - fifo, DmaBurst) \in Nat
        BY <4>1, ChannelConstants, RoundsUp
      <4> QED BY <3>2, <4>2
    <3>3. CASE s > fifo /\ b > fifo
      <4>1. s - fifo \in Nat /\ b - fifo \in Nat /\ b - fifo <= s - fifo
        BY <1>7, <1>8, <3>3
      <4> QED BY <3>3, <4>1, ChannelConstants, RoundsUp
    <3> QED BY <3>1, <3>2, <3>3
  <2>2. Cost(c, b) = c + x /\ Cost(t, s) = t + y
    OBVIOUS
  <2> HIDE DEF x, y, Cost
  <2> QED BY <1>8, <2>1, <2>2
<1> HIDE DEF Cost
<1> QED BY <1>6, <1>9 DEF p

(* The busiest channel's cost is a number and bounds that of every channel. *)
LEMMA BusiestChannel ==
    ASSUME NEW qs, DOMAIN qs = 0..ChannelCount - 1,
           \A c \in DOMAIN qs : Channels!ChannelCycles(qs[c]) \in Nat
    PROVE  /\ Channels!TotalCycles(qs) \in {Channels!ChannelCycles(qs[c]) : c \in DOMAIN qs}
           /\ Channels!TotalCycles(qs) \in Nat
           /\ \A c \in DOMAIN qs : Channels!TotalCycles(qs) >= Channels!ChannelCycles(qs[c])
<1> DEFINE D == DOMAIN qs  f == [c \in D |-> Channels!ChannelCycles(qs[c])]
           S == {Channels!ChannelCycles(qs[c]) : c \in D}
<1>1. IsFiniteSet(D) /\ 0 \in D
  BY FS_Interval, ChannelConstants
<1>2. IsFiniteSet(S)
  <2>1. f \in Surjection(D, S)
    BY DEF Surjection
  <2> HIDE DEF f, S, D
  <2> QED BY <1>1, <2>1, FS_Surjection
<1>3. S \subseteq Nat /\ Channels!ChannelCycles(qs[0]) \in S
  BY <1>1
<1>4. Channels!TotalCycles(qs) = Channels!Max(S)
  BY DEF Channels!TotalCycles
<1>5. \A c \in D : Channels!ChannelCycles(qs[c]) \in S
  OBVIOUS
<1> HIDE DEF S
<1>6. Channels!Max(S) \in S /\ \A y \in S : Channels!Max(S) >= y
  BY <1>2, <1>3, GreatestOfNumbers
<1>7. Channels!TotalCycles(qs) \in Nat
  BY <1>3, <1>4, <1>6
<1>8. Channels!TotalCycles(qs) \in S
  BY <1>4, <1>6
<1>9. \A c \in D : Channels!TotalCycles(qs) >= Channels!ChannelCycles(qs[c])
  BY <1>4, <1>5, <1>6
<1> QED BY <1>7, <1>8, <1>9 DEF S

(* No request is queued at the start. *)
LEMMA ChannelsStart == ASSUME Channels!Init PROVE ChannelsInv
<1>1. /\ x1 \in {"round_robin", "fixed_priority"} /\ x3 = 0 /\ x4 = 0
      /\ x2 = [c \in 0..ChannelCount - 1 |-> <<>>]
  BY DEF Channels!Init
<1>2. DOMAIN x2 = 0..ChannelCount - 1 /\ \A c \in 0..ChannelCount - 1 : x2[c] = <<>>
  BY <1>1
<1>3. InOrder(x1, <<>>, 0)
  BY DEF InOrder
<1>4. x2 = [c \in 0..ChannelCount - 1 |-> x2[c]]
  BY <1>1
<1> QED BY <1>1, <1>2, <1>3, <1>4 DEF ChannelsInv

(* The queues with one more request, which is the last of its channel when *)
(* channels take turns.                                                    *)
LEMMA EnqueuedKeeps ==
    ASSUME ChannelsInv, NEW r \in Requests, r.arrival = x4
    PROVE  LET qs == Channels!Enqueued(x2, r)
               c == Channels!Channel(r.type)
           IN  /\ DOMAIN qs = 0..ChannelCount - 1 /\ c \in 0..ChannelCount - 1
               /\ qs = [x2 EXCEPT ![c] = qs[c]]
               /\ \A d \in 0..ChannelCount - 1 : InOrder(x1, qs[d], x4)
               /\ x1 = "round_robin" => qs[c] = Append(x2[c], r)
<1> DEFINE c == Channels!Channel(r.type)
           q == IF x1 = "fixed_priority" THEN Channels!Inserted(x2[c], r) ELSE Append(x2[c], r)
           qs == [x2 EXCEPT ![c] = q]
<1>1. Channels!Enqueued(x2, r) = qs
  BY DEF Channels!Enqueued
<1>2. c \in 0..ChannelCount - 1
  BY TypesHaveChannels DEF Requests
<1>3. DOMAIN x2 = 0..ChannelCount - 1 /\ \A d \in 0..ChannelCount - 1 : InOrder(x1, x2[d], x4)
  BY DEF ChannelsInv
<1>4. InOrder(x1, q, x4)
  BY <1>2, <1>3, EnqueuedInOrder DEF ChannelsInv
<1>5. x1 = "round_robin" => q = Append(x2[c], r)
  OBVIOUS
<1> HIDE DEF q, c
<1>6. qs[c] = q /\ DOMAIN qs = 0..ChannelCount - 1 /\ \A d \in DOMAIN x2 : d # c => qs[d] = x2[d]
  BY <1>2, <1>3
<1>7. \A d \in 0..ChannelCount - 1 : InOrder(x1, qs[d], x4)
  BY <1>3, <1>4, <1>6
<1>8. qs = [x2 EXCEPT ![c] = qs[c]]
  BY <1>6
<1> HIDE DEF qs
<1> QED BY <1>1, <1>2, <1>5, <1>6, <1>7, <1>8 DEF c

(* With more calls made, and without its last request, a queue is in order. *)
LEMMA StillInOrder ==
    ASSUME NEW a, NEW n \in Nat, NEW q, InOrder(a, q, n)
    PROVE  /\ InOrder(a, q, n + 1)
           /\ Len(q) > 0 => InOrder(a, Channels!Front(q), n)
<1>1. /\ q \in Seq(Requests) /\ Len(q) \in Nat
      /\ \A i \in 1..Len(q) : q[i].arrival \in Nat /\ q[i].arrival <= n
  <2>1. q \in Seq(Requests) /\ Len(q) \in Nat /\ \A i \in 1..Len(q) : q[i].arrival <= n
    BY DEF InOrder
  <2>2. \A i \in 1..Len(q) : q[i] \in Requests
    BY <2>1
  <2>3. \A e \in Requests : e.arrival \in Nat
    BY DEF Requests
  <2> QED BY <2>1, <2>2, <2>3
<1>2. InOrder(a, q, n + 1)
  <2>1. \A i \in 1..Len(q) : q[i].arrival <= n + 1
    BY <1>1
  <2> QED BY <2>1 DEF InOrder
<1>3. ASSUME Len(q) > 0 PROVE InOrder(a, Channels!Front(q), n)
  <2> DEFINE p == SubSeq(q, 1, Len(q) - 1)
  <2>1. p \in Seq(Requests) /\ Len(p) = Len(q) - 1 /\ \A i \in 1..Len(q) - 1 : p[i] = q[i]
    <3> DEFINE m == Len(q) - 1
    <3>1. m \in Nat /\ \A i \in 1..m : i \in 1..Len(q)
      BY <1>1, <1>3
    <3>2. \A i \in 1..m : q[i] \in Requests
      BY <1>1, <3>1
    <3> HIDE DEF m
    <3>3. /\ SubSeq(q, 1, m) \in Seq(Requests)
          /\ Len(SubSeq(q, 1, m)) = IF 1 <= m THEN m - 1 + 1 ELSE 0
          /\ \A i \in 1..m - 1 + 1 : SubSeq(q, 1, m)[i] = q[1 + i - 1]
      BY <3>1, <3>2, SubSeqProperties
    <3>4. Len(SubSeq(q, 1, m)) = m /\ \A i \in 1..m : SubSeq(q, 1, m)[i] = q[i]
      BY <3>1, <3>3
    <3> QED BY <3>3, <3>4 DEF m
  <2>2. Channels!Front(q) = p
    BY DEF Channels!Front
  <2> HIDE DEF p
  <2>3. \A i \in 1..Len(p) : i \in 1..Len(q) /\ p[i] = q[i]
    BY <1>1, <2>1
  <2> QED BY <2>1, <2>2, <2>3 DEF InOrder
<1> QED BY <1>2, <1>3

(* Enqueue. *)
LEMMA EnqueueKeeps ==
    ASSUME ChannelsInv, Channels!Enqueue
    PROVE  ChannelsInv' /\ Channels!NeutralStep
<1>1. PICK t \in Channels!Types, s \in DmaSizes, b \in DmaBlocks :
        x2' = Channels!Enqueued(x2, Channels!Request(t, s, b))
  BY DEF Channels!Enqueue
<1>2. x4' = x4 + 1 /\ x1' = x1 /\ x3' = x3 /\ x4 \in Nat /\ x3 \in Nat
      /\ x1 \in {"round_robin", "fixed_priority"}
  BY DEF Channels!Enqueue, ChannelsInv
<1> DEFINE r == Channels!Request(t, s, b)
<1>3. r \in Requests /\ r.arrival = x4
  BY <1>2, ChannelConstants DEF Channels!Request, Requests
<1> HIDE DEF r
<1>4. /\ DOMAIN x2' = 0..ChannelCount - 1
      /\ x2' = [x2 EXCEPT ![Channels!Channel(r.type)] = x2'[Channels!Channel(r.type)]]
      /\ \A d \in 0..ChannelCount - 1 : InOrder(x1, x2'[d], x4)
  BY <1>1, <1>3, EnqueuedKeeps DEF r
<1>5. \A d \in 0..ChannelCount - 1 : InOrder(x1', x2'[d], x4')
  BY <1>2, <1>4, StillInOrder
<1>6. x2' = [c \in 0..ChannelCount - 1 |-> x2'[c]]
  BY <1>4
<1>7. ChannelsInv'
  BY <1>2, <1>4, <1>5, <1>6 DEF ChannelsInv
<1>8. x4' # x4
  BY <1>2
<1> QED BY <1>7, <1>8 DEF Channels!NeutralStep

(* estimate_weight_load. *)
LEMMA EstimateKeeps ==
    ASSUME ChannelsInv, Channels!EstimateWeightLoad
    PROVE  ChannelsInv' /\ Channels!NeutralStep
<1>1. PICK s \in DmaSizes :
        LET with == Channels!Enqueued(x2, Channels!Request("weight_load", s, 1))
        IN /\ x3' = Channels!TotalCycles(with)
           /\ x2' = [with EXCEPT ![Channels!Channel("weight_load")] = Channels!WithoutLast(@)]
           /\ UNCHANGED <<x1, x4>>
  BY DEF Channels!EstimateWeightLoad
<1> DEFINE r == Channels!Request("weight_load", s, 1)  with == Channels!Enqueued(x2, r)
           c == Channels!Channel("weight_load")  D == 0..ChannelCount - 1
<1>2. x4' = x4 /\ x1' = x1 /\ x3 \in Nat /\ x4 \in Nat /\ x1 \in {"round_robin", "fixed_priority"}
  BY <1>1 DEF ChannelsInv
<1>3. r \in Requests /\ r.arrival = x4 /\ r.type = "weight_load"
  <2>1. "weight_load" \in Channels!Types
    BY DEF Channels!Types
  <2> QED BY <1>2, <2>1, ChannelConstants DEF Channels!Request, Requests
<1> HIDE DEF r
<1>4. /\ DOMAIN with = D /\ c \in D
      /\ with = [x2 EXCEPT ![c] = with[c]]
      /\ \A d \in D : InOrder(x1, with[d], x4)
      /\ x1 = "round_robin" => with[c] = Append(x2[c], r)
  BY <1>3, EnqueuedKeeps
<1>5. x3' = Channels!TotalCycles(with) /\ x2' = [with EXCEPT ![c] = Channels!Front(with[c])]
  BY <1>1 DEF r, Channels!WithoutLast
<1> HIDE DEF with, c
<1>6. DOMAIN x2 = D /\ x2 = [d \in D |-> x2[d]] /\ \A d \in D : InOrder(x1, x2[d], x4)
  BY DEF ChannelsInv
<1>7. \A d \in D : Channels!ChannelCycles(x2[d]) \in Nat /\ Channels!ChannelCycles(with[d]) \in Nat
  BY <1>3, <1>4, <1>6, CyclesGrow DEF InOrder
<1>8. x3' \in Nat /\ \A d \in D : x3' >= Channels!ChannelCycles(with[d])
  BY <1>4, <1>5, <1>7, BusiestChannel
<1>9. ASSUME x1 = "round_robin" PROVE x2' = x2 /\ x3' >= Channels!TotalCycles(x2)
  <2>1. Channels!Front(with[c]) = x2[c]
    <3>1. x2[c] \in Seq(Requests)
      BY <1>4, <1>6 DEF InOrder
    <3>2. SubSeq(Append(x2[c], r), 1, Len(Append(x2[c], r)) - 1) = x2[c]
      BY <1>3, <3>1
    <3> QED BY <1>4, <1>9, <3>2 DEF Channels!Front
  <2>2. x2' = x2
    <3>1. \A d \in D : x2'[d] = x2[d]
      BY <1>4, <1>5, <1>6, <2>1
    <3>2. x2' = [d \in D |-> x2'[d]]
      BY <1>4, <1>5
    <3> QED BY <1>6, <3>1, <3>2
  <2>3. \A d \in D : Channels!ChannelCycles(x2[d]) <= Channels!ChannelCycles(with[d])
    <3> TAKE d \in D
    <3>1. CASE d = c
      BY <1>3, <1>4, <1>6, <1>9, <3>1, CyclesGrow DEF InOrder
    <3>2. CASE d # c
      <4>1. with[d] = x2[d]
        BY <1>4, <1>6, <3>2
      <4> QED BY <1>7, <4>1
    <3> QED BY <3>1, <3>2
  <2>4. PICK d \in D : Channels!TotalCycles(x2) = Channels!ChannelCycles(x2[d])
    BY <1>6, <1>7, BusiestChannel
  <2>5. x3' >= Channels!TotalCycles(x2)
    BY <1>7, <1>8, <2>3, <2>4
  <2> QED BY <2>2, <2>5
<1>10. \A d \in D : InOrder(x1', x2'[d], x4')
  <2> TAKE d \in D
  <2>1. CASE d = c
    <3>1. x2'[d] = Channels!Front(with[c])
      BY <1>4, <1>5, <2>1
    <3>2. CASE Len(with[c]) > 0
      BY <1>2, <1>4, <3>1, <3>2, StillInOrder
    <3>3. CASE ~(Len(with[c]) > 0)
      <4>1. with[c] = <<>> /\ Channels!Front(with[c]) = <<>>
        <5>1. with[c] \in Seq(Requests)
          BY <1>4 DEF InOrder
        <5>2. with[c] = <<>>
          BY <3>3, <5>1
        <5> QED BY <5>2 DEF Channels!Front
      <4> QED BY <1>2, <1>4, <3>1, <4>1
    <3> QED BY <3>2, <3>3
  <2>2. CASE d # c
    <3>1. x2'[d] = with[d]
      BY <1>4, <1>5, <2>2
    <3> QED BY <1>2, <1>4, <3>1
  <2> QED BY <2>1, <2>2
<1>11. DOMAIN x2' = D /\ x2' = [d \in D |-> x2'[d]]
  BY <1>4, <1>5
<1>12. ChannelsInv'
  BY <1>2, <1>8, <1>10, <1>11 DEF ChannelsInv
<1> QED BY <1>9, <1>12 DEF Channels!NeutralStep

(* Under fixed priority no channel serves a request before one of higher   *)
(* priority, and in both modes requests of a type are served in the order  *)
(* of their calls, whatever estimate_weight_load leaves in the queues; and *)
(* with channels in turn an estimate leaves the queues as they were and is *)
(* at least the cost of what is in them.                                   *)
THEOREM RequestsAreServedInOrder == Spec => ServedInOrder
<1> DEFINE Inv == part = "channels" => ChannelsInv
<1>1. Init => Inv
  BY ChannelsStart DEF Init
<1>2. Inv /\ [Next]_state => Inv' /\ (part = "channels" => Channels!NeutralStep)
  <2> SUFFICES ASSUME Inv, [Next]_state
               PROVE  Inv' /\ (part = "channels" => Channels!NeutralStep)
    OBVIOUS
  <2>1. CASE Next
    <3>1. part' = part /\ (part = "channels" => Channels!Next)
      BY <2>1 DEF Next
    <3> QED BY <3>1, EnqueueKeeps, EstimateKeeps DEF Channels!Next
  <2>2. CASE UNCHANGED state
    <3>1. x1' = x1 /\ x2' = x2 /\ x3' = x3 /\ x4' = x4 /\ part' = part
      BY <2>2 DEF state
    <3> QED BY <3>1 DEF ChannelsInv, Channels!NeutralStep
  <2> QED BY <2>1, <2>2
<1>3. Inv => (part = "channels" => Channels!TypeOK /\ Channels!ServedInOrder)
  <2> SUFFICES ASSUME ChannelsInv PROVE Channels!TypeOK /\ Channels!ServedInOrder
    OBVIOUS
  <2>1. \A c \in DOMAIN x2 : InOrder(x1, x2[c], x4) /\ DOMAIN x2[c] = 1..Len(x2[c])
    BY DEF ChannelsInv, InOrder
  <2>2. Channels!TypeOK
    <3>1. \A c \in DOMAIN x2 : \A i \in DOMAIN x2[c] : x2[c][i].type \in Channels!Types
      <4> TAKE c \in DOMAIN x2
      <4> TAKE i \in DOMAIN x2[c]
      <4>1. x2[c] \in Seq(Requests) /\ i \in 1..Len(x2[c])
        BY <2>1 DEF InOrder
      <4>2. x2[c][i] \in Requests
        BY <4>1
      <4> QED BY <4>2 DEF Requests
    <3> QED BY <3>1 DEF Channels!TypeOK, ChannelsInv
  <2>3. Channels!ServedInOrder
    BY <2>1 DEF InOrder, Channels!ServedInOrder
  <2> QED BY <2>2, <2>3
<1> QED BY <1>1, <1>2, <1>3, PTL DEF Spec, ServedInOrder

-----------------------------------------------------------------------------
(* Residency: x1 items, x2 models, x3 allow_spill, x4 allocations,         *)
(* x5 placements, x6 status.                                               *)

Placed == [parts : [Memory!Tiers -> Nat], resident : Nat, spill : Int,
           destination : Memory!Tiers, spill_tier : Memory!Tiers]

(* What the placements before the k-th one take of a tier. *)
Taken(ps, k, t) == SumFunctionOnSet([j \in 1..(k - 1) |-> ps[j].parts[t]], 1..(k - 1))

(* An item is placed as the run's property has it. *)
Accounted(is, models, ps, k) ==
    LET i == is[k]  p == ps[k]  first == Memory!First(i)
        bytes == IF i.category = "weight" THEN i.bytes * models ELSE i.bytes
        held == SumFunctionOnSet(p.parts, Memory!Tiers)
    IN  /\ p.spill > 0 => Taken(ps, k, first) + TierReserve[first] + bytes > TierCapacity[first]
        /\ Memory!Atomic(i) => held \in {0, bytes}
        /\ ~Memory!Atomic(i) =>
              \/ held = bytes
              \/ \A t \in Memory!Eligible(i) :
                    Taken(ps, k + 1, t) + TierReserve[t] = TierCapacity[t]

MemoryInv ==
    /\ x1 \in Seq(Tensors) /\ x2 \in Nat \ {0} /\ x5 \in Seq(Placed) /\ Len(x5) <= Len(x1)
    /\ x4 \in [Memory!Tiers -> Nat]
    /\ \A t \in Memory!Tiers : x4[t] + TierReserve[t] <= TierCapacity[t]
    /\ \A t \in Memory!Tiers : x4[t] = Taken(x5, Len(x5) + 1, t)
    /\ \A k \in 1..Len(x5) : Accounted(x1, x2, x5, k)

(* A set of numbers has a least one. *)
LEMMA LeastInMemory ==
    ASSUME NEW I, I \subseteq Nat, I # {}
    PROVE  Memory!Min(I) \in I /\ \A j \in I : Memory!Min(I) <= j
BY LeastOfNumbers DEF Memory!Min, Channels!Min

(* What the parameters are. *)
LEMMA MemoryConstants ==
    /\ TierCount \in Nat \ {0} /\ TierOnChip \in 0..TierCount
    /\ \A t \in Memory!Tiers : TierCapacity[t] \in Nat /\ TierReserve[t] \in Nat
    /\ \A i \in Tensors : i.bytes \in Nat
    /\ ModelCounts \subseteq Nat \ {0} /\ MaxTensors \in Nat
    /\ IsFiniteSet(Memory!Tiers) /\ Memory!Tiers = 1..TierCount
    /\ \A i : Memory!First(i) \in Memory!Tiers
              /\ Memory!Eligible(i) \subseteq Memory!Tiers /\ Memory!First(i) \in Memory!Eligible(i)
<1>1. Memory!ResidencyAssumption
  BY HardwareAssumption DEF HardwareAssumption
<1>2. TierCount \in Nat \ {0} /\ TierOnChip \in 0..TierCount /\ Memory!Tiers = 1..TierCount
  BY <1>1 DEF Memory!ResidencyAssumption, Memory!Tiers
<1>3. IsFiniteSet(Memory!Tiers)
  BY <1>2, FS_Interval
<1>4. \A i : Memory!First(i) \in 1..TierCount
  BY <1>2 DEF Memory!First
<1>5. \A i : /\ Memory!Eligible(i) \subseteq Memory!Tiers /\ Memory!First(i) \in Memory!Eligible(i)
  BY <1>2, <1>4 DEF Memory!Eligible
<1>6. /\ \A t \in Memory!Tiers : TierCapacity[t] \in Nat /\ TierReserve[t] \in Nat
      /\ \A i \in Tensors : i.bytes \in Nat
      /\ ModelCounts \subseteq Nat \ {0} /\ MaxTensors \in Nat
  BY <1>1 DEF Memory!ResidencyAssumption
<1> QED BY <1>2, <1>3, <1>4, <1>5, <1>6

(* The sums of the run's properties are the proofs' sums: of the rooms, of *)
(* what a tier gave before, and of the parts of an item.                   *)
LEMMA RoomSum ==
    ASSUME NEW S \in SUBSET Memory!Tiers, NEW w,
           \A t \in S : w[t] = Memory!Room(t) /\ w[t] \in Int
    PROVE  Memory!MapThenSumSet(Memory!Room, S) = SumFunctionOnSet(w, S)
<1> DEFINE Op(g) == g = [s \in SUBSET S |->
                           IF s = {} THEN 0 ELSE Memory!Room(Pick(s)) + g[s \ {Pick(s)}]]
<1>1. Memory!MapThenSumSet(Memory!Room, S) = (CHOOSE g : Op(g))[S]
  BY DEF Memory!MapThenSumSet, Memory!MapThenFoldSet, Pick
<1>2. \A s \in SUBSET S : s # {} => Memory!Room(Pick(s)) = w[Pick(s)]
  BY DEF Pick
<1>3. ASSUME NEW g PROVE Op(g) <=> IsSum(g, w, S)
  BY <1>2 DEF IsSum
<1>4. IsFiniteSet(S)
  BY MemoryConstants, FS_Subset
<1>5. \E g : Op(g)
  BY <1>3, <1>4, SomeFunction
<1> HIDE DEF Op
<1>6. Op(CHOOSE g : Op(g))
  BY <1>5
<1>7. IsSum(CHOOSE g : Op(g), w, S)
  BY <1>3, <1>6
<1> QED BY <1>1, <1>4, <1>7, SumByFunction

(* The same for what the placements before took of a tier. *)
LEMMA BeforeSum ==
    ASSUME NEW k \in Nat \ {0}, NEW t, \A j \in 1..(k - 1) : x5[j].parts[t] \in Int
    PROVE  Memory!PartsBefore(k, t) = Taken(x5, k, t)
<1> DEFINE S == 1..(k - 1)
           w == [j \in S |-> x5[j].parts[t]]
           Op(g) == g = [s \in SUBSET S |->
                           IF s = {} THEN 0 ELSE x5[Pick(s)].parts[t] + g[s \ {Pick(s)}]]
<1>1. Memory!PartsBefore(k, t) = (CHOOSE g : Op(g))[S]
  BY DEF Memory!PartsBefore, Memory!MapThenSumSet, Memory!MapThenFoldSet, Pick
<1>2. \A s \in SUBSET S : s # {} => x5[Pick(s)].parts[t] = w[Pick(s)]
  <2> TAKE s \in SUBSET S
  <2> HAVE s # {}
  <2>1. Pick(s) \in S
    BY DEF Pick
  <2> DEFINE j == Pick(s)
  <2> HIDE DEF j
  <2>2. w[j] = x5[j].parts[t]
    BY <2>1 DEF j
  <2> QED BY <2>2 DEF j
<1>3. ASSUME NEW g PROVE Op(g) <=> IsSum(g, w, S)
  BY <1>2 DEF IsSum
<1>4. IsFiniteSet(S) /\ \A j \in S : w[j] \in Int
  BY FS_Interval
<1>8. Taken(x5, k, t) = SumFunctionOnSet(w, S)
  BY DEF Taken
<1> HIDE DEF S, w
<1>5. \E g : Op(g)
  BY <1>3, <1>4, SomeFunction
<1> HIDE DEF Op
<1>6. Op(CHOOSE g : Op(g))
  BY <1>5
<1>7. IsSum(CHOOSE g : Op(g), w, S)
  BY <1>3, <1>6
<1> QED BY <1>1, <1>4, <1>7, <1>8, SumByFunction

(* And for what one placement holds over all tiers. *)
LEMMA HeldSum ==
    ASSUME NEW p, \A t \in Memory!Tiers : p.parts[t] \in Int
    PROVE  Memory!MapThenSumSet(LAMBDA t : p.parts[t], Memory!Tiers)
             = SumFunctionOnSet(p.parts, Memory!Tiers)
<1> DEFINE S == Memory!Tiers  w == p.parts
<1>1. Memory!MapThenSumSet(LAMBDA t : p.parts[t], Memory!Tiers)
        = (CHOOSE g : IsSum(g, w, S))[S]
  BY DEF Memory!MapThenSumSet, Memory!MapThenFoldSet, Pick, IsSum
<1> QED BY <1>1, SumDef

(* One placement more: those before it and what they took stay. *)
Extended(ps, p, qs) ==
    /\ qs \in Seq(Placed) /\ Len(qs) = Len(ps) + 1 /\ qs[Len(ps) + 1] = p
    /\ \A k \in 1..Len(ps) : qs[k] = ps[k] /\ ps[k] \in Placed
    /\ \A k \in 1..(Len(ps) + 1) : \A t \in Memory!Tiers :
          Taken(qs, k, t) = Taken(ps, k, t) /\ Taken(ps, k, t) \in Nat
    /\ \A t \in Memory!Tiers :
          Taken(qs, Len(ps) + 2, t) = Taken(ps, Len(ps) + 1, t) + p.parts[t]

(* What was placed before stays when an item is placed. *)
LEMMA TakenStays ==
    ASSUME NEW ps \in Seq(Placed), NEW p \in Placed
    PROVE  Extended(ps, p, Append(ps, p))
<1> DEFINE qs == Append(ps, p)
<1> DEFINE n == Len(ps)
<1>1. /\ qs \in Seq(Placed) /\ Len(qs) = n + 1 /\ qs[n + 1] = p /\ n \in Nat
      /\ \A k \in 1..n : qs[k] = ps[k]
  OBVIOUS
<1>2. \A k \in 1..n : ps[k] \in Placed
  BY ElementOfSeq
<1> HIDE DEF n, qs
<1>3. \A q \in Placed : \A t \in Memory!Tiers : q.parts[t] \in Nat
  BY DEF Placed
<1>4. ASSUME NEW k \in 1..(n + 1), NEW t \in Memory!Tiers
      PROVE  Taken(qs, k, t) = Taken(ps, k, t) /\ Taken(ps, k, t) \in Nat
  <2> DEFINE S == 1..(k - 1)
             v == [j \in S |-> ps[j].parts[t]]
             w == [j \in S |-> qs[j].parts[t]]
  <2>1. \A j \in S : j \in 1..n
    BY <1>1
  <2>2. \A j \in S : v[j] \in Nat /\ w[j] = v[j]
    <3> TAKE j \in S
    <3>1. qs[j] = ps[j] /\ ps[j].parts[t] \in Nat
      BY <1>1, <1>2, <1>3, <2>1
    <3> QED BY <3>1
  <2>3. IsFiniteSet(S)
    BY <1>1, FS_Interval
  <2>4. Taken(qs, k, t) = SumFunctionOnSet(w, S) /\ Taken(ps, k, t) = SumFunctionOnSet(v, S)
    BY DEF Taken
  <2> HIDE DEF S, v, w
  <2>5. \A j \in S : v[j] \in Int
    BY <2>2
  <2>6. SumFunctionOnSet(w, S) = SumFunctionOnSet(v, S)
    BY <2>2, <2>3, <2>5, SumSame
  <2>7. SumFunctionOnSet(v, S) \in Nat
    BY <2>2, <2>3, SumNat
  <2> QED BY <2>4, <2>6, <2>7
<1>5. ASSUME NEW t \in Memory!Tiers
      PROVE  Taken(qs, n + 2, t) = Taken(ps, n + 1, t) + p.parts[t]
  <2> DEFINE S == 1..n
             v == [j \in S |-> ps[j].parts[t]]
             w == [j \in 1..(n + 1) |-> qs[j].parts[t]]
  <2>1. \A j \in 1..n : v[j] \in Nat /\ w[j] = v[j]
    <3> TAKE j \in 1..n
    <3>1. qs[j] = ps[j] /\ ps[j].parts[t] \in Nat /\ j \in 1..(n + 1)
      BY <1>1, <1>2, <1>3
    <3> QED BY <3>1
  <2>2. w[n + 1] = p.parts[t] /\ p.parts[t] \in Nat
    BY <1>1, <1>3
  <2>3. (n + 2) - 1 = n + 1 /\ (n + 1) - 1 = n
    BY <1>1
  <2>4. Taken(qs, n + 2, t) = SumFunctionOnSet(w, 1..n + 1)
    BY <2>3 DEF Taken
  <2>5. Taken(ps, n + 1, t) = SumFunctionOnSet(v, 1..n)
    BY <2>3 DEF Taken
  <2> HIDE DEF v, w
  <2>6. SumFunctionOnSet(w, 1..n + 1) = SumFunctionOnSet(v, 1..n) + w[n + 1]
    BY <1>1, <2>1, <2>2, SumLonger
  <2> QED BY <2>2, <2>4, <2>5, <2>6
<1>6. Extended(ps, p, qs)
  BY <1>1, <1>2, <1>4, <1>5 DEF n, Extended
<1> QED BY <1>6 DEF qs

(* An item whose parts fit the room there is keeps the accounts. *)
LEMMA PlaceKeeps ==
    ASSUME MemoryInv, Memory!Placing, NEW parts \in [Memory!Tiers -> Nat],
           Memory!Place(parts), \A t \in Memory!Tiers : parts[t] <= Memory!Room(t),
           parts[Memory!First(Memory!Item)] < Memory!Effective(Memory!Item) =>
              Memory!Room(Memory!First(Memory!Item)) < Memory!Effective(Memory!Item),
           LET held == SumFunctionOnSet(parts, Memory!Tiers) IN
              IF Memory!Atomic(Memory!Item) THEN held \in {0, Memory!Effective(Memory!Item)}
              ELSE held = Memory!Effective(Memory!Item)
                   \/ \A t \in Memory!Eligible(Memory!Item) : parts[t] = Memory!Room(t)
    PROVE  MemoryInv'
<1> DEFINE i == Memory!Item  n == Len(x5)  bytes == Memory!Effective(i)
           p == Memory!Placement(i, parts)  first == Memory!First(i)
<1>1. /\ x1 \in Seq(Tensors) /\ x2 \in Nat \ {0} /\ x5 \in Seq(Placed) /\ n \in Nat
      /\ Len(x1) \in Nat /\ n < Len(x1) /\ i = x1[n + 1] /\ i \in Tensors
      /\ x4 \in [Memory!Tiers -> Nat]
  BY ElementOfSeq DEF MemoryInv, Memory!Placing, Memory!Item
<1>2. /\ x1' = x1 /\ x2' = x2 /\ x5' = Append(x5, p)
      /\ x4' = [t \in Memory!Tiers |-> x4[t] + parts[t]]
  BY DEF Memory!Place
<1>3. bytes \in Nat /\ bytes = IF i.category = "weight" THEN i.bytes * x2 ELSE i.bytes
  <2>1. i.bytes \in Nat /\ x2 \in Nat
    BY <1>1, MemoryConstants
  <2>2. i.bytes * x2 \in Nat
    BY <2>1
  <2> QED BY <2>1, <2>2 DEF Memory!Effective
<1>4. first \in Memory!Tiers /\ Memory!Eligible(i) \subseteq Memory!Tiers
  BY MemoryConstants
<1>5. p \in Placed /\ p.parts = parts /\ p.resident = parts[first]
      /\ p.spill = bytes - parts[first]
  <2> DEFINE used == {t \in Memory!Tiers : parts[t] > 0}
             destination == IF used # {} THEN Memory!Min(used)
                            ELSE IF Memory!Atomic(i) /\ bytes = 0 THEN first ELSE TierCount
             resident == IF first \in used THEN parts[first] ELSE 0
             others == used \ {destination}
             spill_tier == IF resident > 0 /\ others # {} THEN Memory!Min(others) ELSE TierCount
  <2>1. p = [parts |-> parts, resident |-> resident, spill |-> bytes - resident,
             destination |-> destination, spill_tier |-> spill_tier]
    BY DEF Memory!Placement
  <2>2. resident = parts[first] /\ resident \in Nat
    BY <1>4
  <2>3. \A I \in SUBSET Memory!Tiers : I # {} => Memory!Min(I) \in Memory!Tiers
    <3> TAKE I \in SUBSET Memory!Tiers
    <3> HAVE I # {}
    <3>1. I \subseteq Nat
      BY MemoryConstants
    <3>2. Memory!Min(I) \in I
      BY <3>1, LeastInMemory
    <3> QED BY <3>2
  <2>4. TierCount \in Memory!Tiers
    BY MemoryConstants
  <2>5. destination \in Memory!Tiers
    BY <1>4, <2>3, <2>4
  <2> HIDE DEF destination, resident
  <2>6. spill_tier \in Memory!Tiers
    BY <2>3, <2>4
  <2> HIDE DEF spill_tier, p, bytes, first
  <2>7. bytes - resident \in Int
    BY <1>3, <2>2
  <2>8. p \in Placed
    BY <2>1, <2>2, <2>5, <2>6, <2>7 DEF Placed
  <2> QED BY <2>1, <2>2, <2>8
<1> HIDE DEF p
<1>6. /\ x5' \in Seq(Placed) /\ Len(x5') = n + 1 /\ x5'[n + 1] = p
      /\ \A k \in 1..n : x5'[k] = x5[k] /\ x5[k] \in Placed
      /\ \A k \in 1..(n + 1) : \A t \in Memory!Tiers :
            Taken(x5', k, t) = Taken(x5, k, t) /\ Taken(x5, k, t) \in Nat
      /\ \A t \in Memory!Tiers : Taken(x5', n + 2, t) = Taken(x5, n + 1, t) + p.parts[t]
  <2> HIDE DEF i, bytes, first
  <2>1. x5 \in Seq(Placed) /\ p \in Placed /\ x5' = Append(x5, p)
    BY <1>1, <1>2, <1>5
  <2>2. Extended(x5, p, x5')
    BY <2>1, TakenStays
  <2> QED BY <2>2 DEF Extended
<1>7. \A t \in Memory!Tiers :
         /\ x4[t] \in Nat /\ parts[t] \in Nat /\ x4[t] = Taken(x5, n + 1, t)
         /\ x4'[t] = x4[t] + parts[t]
         /\ Memory!Room(t) = TierCapacity[t] - x4[t] - TierReserve[t]
         /\ TierCapacity[t] \in Nat /\ TierReserve[t] \in Nat
  BY <1>1, <1>2, MemoryConstants DEF MemoryInv, Memory!Room
<1>8. \A t \in Memory!Tiers :
         /\ x4'[t] \in Nat /\ x4'[t] + TierReserve[t] <= TierCapacity[t]
         /\ x4'[t] = Taken(x5', Len(x5') + 1, t)
  <2> TAKE t \in Memory!Tiers
  <2>1. x4'[t] = x4[t] + parts[t] /\ parts[t] <= TierCapacity[t] - x4[t] - TierReserve[t]
    BY <1>7
  <2>2. x4'[t] \in Nat /\ x4'[t] + TierReserve[t] <= TierCapacity[t]
    BY <1>7, <2>1
  <2>3. Len(x5') + 1 = n + 2
    BY <1>1, <1>6
  <2>4. Taken(x5', n + 2, t) = Taken(x5, n + 1, t) + parts[t]
    BY <1>5, <1>6
  <2> QED BY <1>7, <2>1, <2>2, <2>3, <2>4
<1>9. ASSUME NEW k \in 1..n PROVE Accounted(x1', x2', x5', k)
  <2>1. Accounted(x1, x2, x5, k)
    BY <1>9 DEF MemoryInv
  <2>2. x5'[k] = x5[k] /\ k \in 1..(n + 1) /\ k + 1 \in 1..(n + 1)
    BY <1>1, <1>6
  <2>3. \A t \in Memory!Tiers :
           Taken(x5', k, t) = Taken(x5, k, t) /\ Taken(x5', k + 1, t) = Taken(x5, k + 1, t)
    BY <1>6, <2>2
  <2>4. Memory!First(x1[k]) \in Memory!Tiers /\ Memory!Eligible(x1[k]) \subseteq Memory!Tiers
    BY MemoryConstants
  <2> QED BY <1>2, <2>1, <2>2, <2>3, <2>4 DEF Accounted
<1>10. Accounted(x1', x2', x5', n + 1)
  <2>1. p.spill > 0 => Taken(x5, n + 1, first) + TierReserve[first] + bytes > TierCapacity[first]
    <3> SUFFICES ASSUME p.spill > 0
                 PROVE  Taken(x5, n + 1, first) + TierReserve[first] + bytes > TierCapacity[first]
      OBVIOUS
    <3>1. parts[first] < bytes
      BY <1>3, <1>4, <1>5
    <3>2. Memory!Room(first) < bytes
      BY <3>1
    <3> HIDE DEF first, bytes
    <3> QED BY <1>3, <1>4, <1>7, <3>2
  <2>2. \A t \in Memory!Tiers : parts[t] = Memory!Room(t) =>
           Taken(x5', n + 2, t) + TierReserve[t] = TierCapacity[t]
    <3> TAKE t \in Memory!Tiers
    <3> HAVE parts[t] = Memory!Room(t)
    <3>1. Taken(x5', n + 2, t) = x4[t] + parts[t]
      BY <1>5, <1>6, <1>7
    <3> QED BY <1>7, <3>1
  <2>3. (n + 1) + 1 = n + 2 /\ n + 1 \in 1..(n + 1)
    BY <1>1
  <2>4. Taken(x5', n + 1, first) = Taken(x5, n + 1, first)
    BY <1>4, <1>6, <2>3
  <2> DEFINE held == SumFunctionOnSet(parts, Memory!Tiers)
  <2>5. /\ Memory!Atomic(i) => held \in {0, bytes}
        /\ ~Memory!Atomic(i) => \/ held = bytes
                                \/ \A t \in Memory!Eligible(i) :
                                      Taken(x5', n + 2, t) + TierReserve[t] = TierCapacity[t]
    BY <1>4, <2>2
  <2>6. x1'[n + 1] = i /\ x5'[n + 1] = p /\ p.parts = parts
    BY <1>1, <1>2, <1>5, <1>6
  <2> HIDE DEF held, n, i
  <2> QED BY <1>2, <1>3, <2>1, <2>3, <2>4, <2>5, <2>6 DEF Accounted, held
<1>11. \A k \in 1..(n + 1) : Accounted(x1', x2', x5', k)
  <2> TAKE k \in 1..(n + 1)
  <2>1. k \in 1..n \/ k = n + 1
    BY <1>1
  <2> QED BY <1>9, <1>10, <2>1
<1>12. x4' \in [Memory!Tiers -> Nat]
  <2>1. \A t \in Memory!Tiers : x4[t] + parts[t] \in Nat
    BY <1>7
  <2> QED BY <1>2, <2>1
<1>13. Len(x5') <= Len(x1')
  BY <1>1, <1>2, <1>6
<1> QED BY <1>1, <1>2, <1>6, <1>8, <1>11, <1>12, <1>13 DEF MemoryInv
(* Before the first item nothing is taken. *)
LEMMA MemoryStarts == ASSUME Memory!Init PROVE MemoryInv
<1>1. x1 \in Seq(Tensors) /\ x2 \in Nat \ {0} /\ Len(x1) \in Nat
  <2>1. PICK n \in 0..MaxTensors : x1 \in [1..n -> Tensors]
    BY DEF Memory!Init
  <2>2. n \in Nat
    BY MemoryConstants
  <2>3. x1 \in Seq(Tensors)
    BY <2>1, <2>2, SeqDef
  <2>4. x2 \in Nat \ {0}
    BY MemoryConstants DEF Memory!Init
  <2> QED BY <2>3, <2>4
<1>2. x5 = <<>> /\ x5 \in Seq(Placed) /\ Len(x5) = 0 /\ x4 = [t \in Memory!Tiers |-> 0]
  BY DEF Memory!Init
<1>3. \A t \in Memory!Tiers :
         x4[t] = 0 /\ x4[t] + TierReserve[t] <= TierCapacity[t] /\ Taken(x5, 1, t) = 0
  <2> TAKE t \in Memory!Tiers
  <2>1. TierReserve[t] <= TierCapacity[t]
    BY HardwareAssumption DEF HardwareAssumption, Memory!ResidencyAssumption
  <2> DEFINE w == [j \in 1..(1 - 1) |-> x5[j].parts[t]]
  <2>2. 1..(1 - 1) = {}
    OBVIOUS
  <2>3. Taken(x5, 1, t) = SumFunctionOnSet(w, 1..(1 - 1))
    BY DEF Taken
  <2> HIDE DEF w
  <2>4. IsFiniteSet({}) /\ \A x \in {} : w[x] \in Int
    BY FS_EmptySet
  <2>5. SumFunctionOnSet(w, {}) = 0
    BY <2>4, SumUnfold
  <2> QED BY <1>2, <2>1, <2>2, <2>3, <2>5, MemoryConstants
<1>4. 1..Len(x5) = {}
  BY <1>2
<1> QED BY <1>1, <1>2, <1>3, <1>4 DEF MemoryInv

(* Every tier has as much room as what was taken leaves, and no less than  *)
(* nothing.                                                                *)
LEMMA RoomsAreNumbers ==
    ASSUME MemoryInv
    PROVE  \A t \in Memory!Tiers : Memory!Room(t) \in Nat
<1> TAKE t \in Memory!Tiers
<1>1. /\ x4[t] \in Nat /\ x4[t] + TierReserve[t] <= TierCapacity[t]
      /\ TierReserve[t] \in Nat /\ TierCapacity[t] \in Nat
  BY MemoryConstants DEF MemoryInv
<1> QED BY <1>1 DEF Memory!Room

(* The bytes of an item. *)
LEMMA ItemBytes ==
    ASSUME MemoryInv, Memory!Placing
    PROVE  Memory!Effective(Memory!Item) \in Nat
<1>1. Memory!Item \in Tensors /\ x2 \in Nat
  <2>1. x1 \in Seq(Tensors) /\ Len(x5) \in Nat /\ Len(x1) \in Nat /\ Len(x5) < Len(x1)
    BY DEF MemoryInv, Memory!Placing
  <2> QED BY <2>1, ElementOfSeq DEF Memory!Item, MemoryInv
<1>2. Memory!Item.bytes \in Nat
  BY <1>1, MemoryConstants
<1>3. Memory!Item.bytes * x2 \in Nat
  BY <1>1, <1>2
<1> QED BY <1>2, <1>3 DEF Memory!Effective

(* What is placed in one piece goes where all of it fits, into its first   *)
(* tier if it can.                                                         *)
LEMMA PlaceAtomicKeeps == ASSUME MemoryInv, Memory!PlaceAtomic PROVE MemoryInv'
<1> DEFINE i == Memory!Item  E == Memory!Effective(i)  parts == Memory!AtomicParts(i)
           fitting == {t \in Memory!Eligible(i) : Memory!Room(t) >= E}
           first == Memory!First(i)
<1>1. Memory!Placing /\ Memory!Atomic(i) /\ Memory!Place(parts)
  BY DEF Memory!PlaceAtomic
<1>2. /\ E \in Nat /\ \A t \in Memory!Tiers : Memory!Room(t) \in Nat
      /\ first \in Memory!Tiers /\ first \in Memory!Eligible(i)
      /\ Memory!Eligible(i) \subseteq Memory!Tiers /\ Memory!Tiers \subseteq Nat
  BY <1>1, ItemBytes, RoomsAreNumbers, MemoryConstants
<1>3. parts = [t \in Memory!Tiers |->
                 IF fitting # {} /\ t = Memory!Min(fitting) THEN E ELSE 0]
  BY DEF Memory!AtomicParts
<1>4. fitting \subseteq Memory!Tiers
  BY <1>2
<1>5. fitting # {} =>
         Memory!Min(fitting) \in fitting /\ \A t \in fitting : Memory!Min(fitting) <= t
  <2>1. fitting \subseteq Nat
    BY <1>2, <1>4
  <2> HIDE DEF fitting
  <2> QED BY <2>1, LeastInMemory
<1>6. \A t \in Memory!Eligible(i) : first <= t
  BY DEF Memory!Eligible
<1> DEFINE m == Memory!Min(fitting)
<1> HIDE DEF m, parts, E
<1>7. parts \in [Memory!Tiers -> Nat]
  BY <1>2, <1>3 DEF m
<1>8. ASSUME NEW t \in Memory!Tiers PROVE parts[t] <= Memory!Room(t)
  <2>1. CASE fitting # {} /\ t = m
    <3>1. parts[t] = E /\ t \in fitting
      BY <1>3, <1>5, <2>1 DEF m
    <3> QED BY <1>2, <3>1
  <2>2. CASE ~(fitting # {} /\ t = m)
    <3>1. parts[t] = 0
      BY <1>3, <2>2 DEF m
    <3> QED BY <1>2, <3>1
  <2> QED BY <2>1, <2>2
<1>9. parts[first] < E => Memory!Room(first) < E
  <2> SUFFICES ASSUME ~(Memory!Room(first) < E) PROVE ~(parts[first] < E)
    OBVIOUS
  <2>0. Memory!Room(first) \in Nat
    BY <1>2
  <2>1. first \in fitting
    BY <1>2, <2>0
  <2>2. m \in fitting /\ m <= first /\ first <= m /\ m \in Nat /\ first \in Nat
    BY <1>2, <1>4, <1>5, <1>6, <2>1 DEF m
  <2>3. m = first
    BY <2>2
  <2>4. parts[first] = E
    BY <1>2, <1>3, <2>1, <2>3 DEF m
  <2> QED BY <1>2, <2>4
<1>10. SumFunctionOnSet(parts, Memory!Tiers) \in {0, E}
  <2>1. IsFiniteSet(Memory!Tiers) /\ \A t \in Memory!Tiers : parts[t] \in Int
    BY <1>7, MemoryConstants
  <2>2. CASE fitting = {}
    <3>1. \A t \in Memory!Tiers : parts[t] = 0
      BY <1>3, <2>2
    <3> QED BY <2>1, <3>1, SumNone
  <2>3. CASE fitting # {}
    <3>1. m \in Memory!Tiers /\ parts[m] = E
      BY <1>3, <1>4, <1>5, <2>3 DEF m
    <3>2. \A t \in Memory!Tiers : t # m => parts[t] = 0
      BY <1>3 DEF m
    <3> HIDE DEF fitting
    <3>3. SumFunctionOnSet(parts, Memory!Tiers) = parts[m]
      BY <2>1, <3>1, <3>2, SumOne
    <3> QED BY <3>1, <3>3
  <2> QED BY <2>2, <2>3
<1>11. MemoryInv'
  <2>1. parts[Memory!First(Memory!Item)] < Memory!Effective(Memory!Item) =>
           Memory!Room(Memory!First(Memory!Item)) < Memory!Effective(Memory!Item)
    BY <1>9 DEF E
  <2>2. SumFunctionOnSet(parts, Memory!Tiers) \in {0, Memory!Effective(Memory!Item)}
    BY <1>10 DEF E
  <2>3. Memory!Atomic(Memory!Item) /\ Memory!Placing /\ Memory!Place(parts)
    BY <1>1
  <2> HIDE DEF i, first, fitting
  <2> QED BY <1>7, <1>8, <2>1, <2>2, <2>3, PlaceKeeps
<1> QED BY <1>11

(* The parts of an item that is split, tier after tier. *)
LEMMA SplitFills ==
    ASSUME MemoryInv, Memory!PlaceSplit,
           NEW E, E = Memory!Effective(Memory!Item),
           NEW parts, parts = Memory!SplitParts(Memory!Item)
    PROVE  /\ parts \in [Memory!Tiers -> Nat]
           /\ \A t \in Memory!Tiers : parts[t] <= Memory!Room(t)
           /\ parts[1] < E => Memory!Room(1) < E
           /\ \/ SumFunctionOnSet(parts, Memory!Tiers) = E
              \/ \A t \in Memory!Tiers : parts[t] = Memory!Room(t)
<1> DEFINE T == Memory!Tiers  N == TierCount
           room == [t \in T |-> Memory!Room(t)]
           R(m) == SumFunctionOnSet(room, 1..m)
           P(m) == SumFunctionOnSet(parts, 1..m)
<1>1. /\ E \in Nat /\ N \in Nat \ {0} /\ T = 1..N /\ IsFiniteSet(T)
      /\ \A t \in T : room[t] = Memory!Room(t) /\ room[t] \in Nat
  BY ItemBytes, RoomsAreNumbers, MemoryConstants DEF Memory!PlaceSplit
<1>2. Memory!First(Memory!Item) = 1 /\ Memory!Eligible(Memory!Item) = T
  BY DEF Memory!PlaceSplit, Memory!Atomic, Memory!First, Memory!Eligible, Memory!Tiers
<1> HIDE DEF room, T
<1>3. \A m \in 0..N : IsFiniteSet(1..m) /\ 1..m \in SUBSET T /\ R(m) \in Nat
  <2> TAKE m \in 0..N
  <2>1. IsFiniteSet(1..m)
    BY <1>1, FS_Interval
  <2>2. 1..m \in SUBSET T
    BY <1>1
  <2>3. \A t \in 1..m : room[t] \in Nat
    BY <1>1, <2>2
  <2> QED BY <2>1, <2>2, <2>3, SumNat
<1>4. ASSUME NEW t \in T
      PROVE  Memory!MapThenSumSet(Memory!Room, {u \in T : u < t}) = R(t - 1)
  <2>1. {u \in T : u < t} = 1..(t - 1) /\ t - 1 \in 0..N
    BY <1>1
  <2>2. 1..(t - 1) \in SUBSET Memory!Tiers
    BY <1>3, <2>1 DEF T
  <2>3. \A u \in 1..(t - 1) : room[u] = Memory!Room(u) /\ room[u] \in Int
    BY <1>1, <2>2 DEF T
  <2>4. Memory!MapThenSumSet(Memory!Room, 1..(t - 1)) = R(t - 1)
    BY <2>2, <2>3, RoomSum
  <2> QED BY <2>1, <2>4
<1> HIDE DEF R
<1>5. parts = [t \in T |-> Memory!Larger(0, Memory!Lesser(Memory!Room(t), E - R(t - 1)))]
  <2>1. parts = [t \in T |-> IF t \in T THEN Memory!Larger(0, Memory!Lesser(Memory!Room(t),
                   E - Memory!MapThenSumSet(Memory!Room, {u \in T : u < t}))) ELSE 0]
    BY <1>2 DEF Memory!SplitParts, T
  <2> QED BY <1>4, <2>1
<1>6. \A t \in T : /\ t \in Nat /\ t - 1 \in 0..N /\ R(t - 1) \in Nat
                    /\ parts[t] = IF E - R(t - 1) < 0 THEN 0
                                  ELSE IF room[t] <= E - R(t - 1) THEN room[t] ELSE E - R(t - 1)
  <2> TAKE t \in T
  <2>1. t \in Nat /\ t - 1 \in 0..N
    BY <1>1
  <2>2. R(t - 1) \in Nat
    BY <1>3, <2>1
  <2>3. parts[t] = Memory!Larger(0, Memory!Lesser(room[t], E - R(t - 1)))
    BY <1>1, <1>5
  <2>4. room[t] \in Nat
    BY <1>1
  <2> QED BY <1>1, <2>1, <2>2, <2>3, <2>4 DEF Memory!Larger, Memory!Lesser
<1>7. \A t \in T : parts[t] \in Nat /\ parts[t] <= room[t]
  <2> TAKE t \in T
  <2>1. R(t - 1) \in Nat /\ room[t] \in Nat
    BY <1>1, <1>6
  <2> DEFINE r == R(t - 1)
  <2>2. parts[t] = IF E - r < 0 THEN 0 ELSE IF room[t] <= E - r THEN room[t] ELSE E - r
    BY <1>6
  <2> HIDE DEF r
  <2> QED BY <1>1, <2>1, <2>2 DEF r
<1>8. parts \in [T -> Nat]
  BY <1>5, <1>7
<1>9. R(0) = 0 /\ P(0) = 0
  <2>1. 1..0 = {} /\ IsFiniteSet({})
    BY FS_EmptySet
  <2>2. SumFunctionOnSet(room, {}) = 0 /\ SumFunctionOnSet(parts, {}) = 0
    BY <2>1, SumUnfold
  <2> QED BY <2>1, <2>2 DEF R
<1>10. ASSUME NEW m \in 0..(N - 1)
       PROVE  /\ m + 1 \in T /\ P(m) \in Nat
              /\ R(m + 1) = R(m) + room[m + 1] /\ P(m + 1) = P(m) + parts[m + 1]
  <2>1. m \in Nat /\ m + 1 \in T /\ \A i \in 1..m : i \in T
    BY <1>1
  <2>2. room[m + 1] \in Nat /\ parts[m + 1] \in Nat
        /\ \A i \in 1..m : room[i] \in Nat /\ parts[i] \in Nat
    BY <1>1, <1>7, <2>1
  <2>3. SumFunctionOnSet(room, 1..m + 1) = SumFunctionOnSet(room, 1..m) + room[m + 1]
    BY <2>1, <2>2, SumLonger
  <2>4. SumFunctionOnSet(parts, 1..m + 1) = SumFunctionOnSet(parts, 1..m) + parts[m + 1]
        /\ SumFunctionOnSet(parts, 1..m) \in Nat
    BY <2>1, <2>2, SumLonger
  <2> QED BY <2>1, <2>3, <2>4 DEF R
<1> DEFINE Good(m) == P(m) = IF R(m) <= E THEN R(m) ELSE E
           Bad == {m \in Nat : m <= N /\ ~Good(m)}
<1> HIDE DEF P
<1>11. Good(0)
  BY <1>1, <1>9
<1>12. ASSUME NEW m \in 0..(N - 1), Good(m) PROVE Good(m + 1)
  <2> DEFINE t == m + 1  a == room[t]  b == parts[t]  r == R(m)  p == P(m)
  <2>1. t \in T /\ t - 1 = m /\ p \in Nat /\ R(t) = r + a /\ P(t) = p + b
    BY <1>1, <1>10
  <2>2. a \in Nat /\ r \in Nat
    BY <1>1, <1>6, <2>1
  <2>3. b = IF E - r < 0 THEN 0 ELSE IF a <= E - r THEN a ELSE E - r
    BY <1>6, <2>1
  <2>4. p = IF r <= E THEN r ELSE E
    BY <1>12
  <2> HIDE DEF a, b, r, p
  <2>5. P(t) = IF R(t) <= E THEN R(t) ELSE E
    BY <1>1, <2>1, <2>2, <2>3, <2>4
  <2> QED BY <2>5
<1>13. \A m \in Nat : m <= N => Good(m)
  <2> HIDE DEF Good
  <2> SUFFICES ASSUME Bad # {} PROVE FALSE
    OBVIOUS
  <2>1. PICK m \in Bad : \A l \in Bad : ~(<<l, m>> \in OpToRel(<, Nat))
    BY WFMin, NatLessThanWellFounded, Zenon
  <2>2. \A l \in Bad : ~(l < m)
    BY <2>1, Zenon DEF OpToRel
  <2>3. m # 0 /\ m \in Nat /\ m <= N
    BY <1>11
  <2>4. m - 1 \in 0..(N - 1) /\ m - 1 \notin Bad
    BY <1>1, <2>2, <2>3
  <2>5. Good(m - 1)
    BY <1>1, <2>4
  <2>6. Good((m - 1) + 1)
    BY <1>12, <2>4, <2>5
  <2> QED BY <2>3, <2>6
<1>14. P(N) = SumFunctionOnSet(parts, T) /\ P(N) = IF R(N) <= E THEN R(N) ELSE E
  BY <1>1, <1>13 DEF P
<1>16. ASSUME ~(R(N) >= E) PROVE \A t \in T : parts[t] = room[t]
  <2> SUFFICES ASSUME NEW t \in T PROVE parts[t] = room[t]
    OBVIOUS
  <2>1. /\ t \in 0..N /\ t - 1 \in 0..(N - 1) /\ (t - 1) + 1 = t
    BY <1>1
  <2>2. R(t) = R(t - 1) + room[t]
    BY <1>10, <2>1
  <2>3. R(t) <= R(N)
    <3>1. 1..t \in SUBSET T /\ \A u \in T : room[u] \in Nat
      BY <1>1, <1>3, <2>1
    <3>2. SumFunctionOnSet(room, 1..t) <= SumFunctionOnSet(room, T)
      BY <1>1, <3>1, SumWithin
    <3> QED BY <1>1, <3>2 DEF R
  <2>4. R(t) \in Nat /\ R(t - 1) \in Nat /\ R(N) \in Nat /\ room[t] \in Nat
    BY <1>1, <1>3, <1>6, <2>1
  <2> DEFINE r == R(t - 1)  a == room[t]
  <2>5. parts[t] = IF E - r < 0 THEN 0 ELSE IF a <= E - r THEN a ELSE E - r
    BY <1>6
  <2>6. r + a < E
    BY <1>1, <1>16, <2>2, <2>3, <2>4
  <2>7. r \in Nat /\ a \in Nat
    BY <2>4
  <2> HIDE DEF r, a
  <2>8. parts[t] = a
    BY <1>1, <2>5, <2>6, <2>7
  <2> QED BY <2>8 DEF a
<1>17. parts[1] < E => Memory!Room(1) < E
  <2>1. 1 \in T /\ 1 - 1 = 0 /\ room[1] \in Nat /\ room[1] = Memory!Room(1)
    BY <1>1
  <2>2. parts[1] = IF E - 0 < 0 THEN 0 ELSE IF room[1] <= E - 0 THEN room[1] ELSE E - 0
    BY <1>6, <1>9, <2>1
  <2> QED BY <1>1, <2>1, <2>2
<1>18. \/ SumFunctionOnSet(parts, T) = E
       \/ \A t \in T : parts[t] = Memory!Room(t)
  <2>1. CASE R(N) >= E
    <3>1. P(N) = E
      BY <1>1, <1>3, <1>14, <2>1
    <3> QED BY <1>14, <3>1
  <2>2. CASE ~(R(N) >= E)
    BY <1>1, <1>16, <2>2
  <2> QED BY <2>1, <2>2
<1> QED BY <1>1, <1>7, <1>8, <1>17, <1>18 DEF T

(* What is split takes of each tier in turn what it has left. *)
LEMMA PlaceSplitKeeps == ASSUME MemoryInv, Memory!PlaceSplit PROVE MemoryInv'
<1> DEFINE i == Memory!Item  E == Memory!Effective(i)  parts == Memory!SplitParts(i)
<1>1. Memory!Placing /\ ~Memory!Atomic(i) /\ Memory!Place(parts)
  BY DEF Memory!PlaceSplit
<1>2. Memory!First(i) = 1 /\ Memory!Eligible(i) = Memory!Tiers
  BY <1>1 DEF Memory!Atomic, Memory!First, Memory!Eligible, Memory!Tiers
<1>3. /\ parts \in [Memory!Tiers -> Nat]
      /\ \A t \in Memory!Tiers : parts[t] <= Memory!Room(t)
      /\ parts[1] < E => Memory!Room(1) < E
      /\ \/ SumFunctionOnSet(parts, Memory!Tiers) = E
         \/ \A t \in Memory!Tiers : parts[t] = Memory!Room(t)
  BY SplitFills
<1> HIDE DEF parts
<1>4. parts[Memory!First(i)] < E => Memory!Room(Memory!First(i)) < E
  BY <1>2, <1>3
<1>5. SumFunctionOnSet(parts, Memory!Tiers) = E
      \/ \A t \in Memory!Eligible(i) : parts[t] = Memory!Room(t)
  BY <1>2, <1>3
<1> QED BY <1>1, <1>3, <1>4, <1>5, PlaceKeeps

(* What the invariant says of a plan is what the properties say. *)
LEMMA MemoryHolds ==
    ASSUME MemoryInv
    PROVE  Memory!WithinCapacity /\ Memory!DisplacedByPriority /\ Memory!PlacedWhole
<1>1. Memory!WithinCapacity
  BY MemoryConstants DEF MemoryInv, Memory!WithinCapacity
<1> DEFINE n == Len(x5)
<1>2. /\ DOMAIN x5 = 1..n /\ n \in Nat
      /\ \A k \in 1..n : x5[k] \in Placed /\ Accounted(x1, x2, x5, k)
  BY ElementOfSeq DEF MemoryInv
<1>3. \A k \in 1..n : \A t \in Memory!Tiers : x5[k].parts[t] \in Nat
  BY <1>2 DEF Placed
<1> HIDE DEF n
<1>4. ASSUME NEW k \in 1..(n + 1), NEW t \in Memory!Tiers
      PROVE  Memory!PartsBefore(k, t) = Taken(x5, k, t)
  <2>1. k \in Nat \ {0} /\ \A j \in 1..(k - 1) : j \in 1..n
    BY <1>2
  <2>2. \A j \in 1..(k - 1) : x5[j].parts[t] \in Int
    BY <1>3, <2>1
  <2> QED BY <2>1, <2>2, BeforeSum
<1>5. ASSUME NEW k \in 1..n
      PROVE  /\ k \in 1..(n + 1) /\ k + 1 \in 1..(n + 1)
             /\ Memory!First(x1[k]) \in Memory!Tiers
             /\ Memory!Eligible(x1[k]) \subseteq Memory!Tiers
             /\ Memory!Effective(x1[k]) =
                  (IF x1[k].category = "weight" THEN x1[k].bytes * x2 ELSE x1[k].bytes)
             /\ Memory!MapThenSumSet(LAMBDA t : x5[k].parts[t], Memory!Tiers)
                  = SumFunctionOnSet(x5[k].parts, Memory!Tiers)
  <2>1. \A t \in Memory!Tiers : x5[k].parts[t] \in Int
    BY <1>3
  <2>2. Memory!MapThenSumSet(LAMBDA t : x5[k].parts[t], Memory!Tiers)
          = SumFunctionOnSet(x5[k].parts, Memory!Tiers)
    BY <2>1, HeldSum
  <2> QED BY <1>2, <2>2, MemoryConstants DEF Memory!Effective
<1>6. Memory!DisplacedByPriority
  <2> SUFFICES ASSUME NEW k \in 1..n, x5[k].spill > 0
               PROVE  Memory!PartsBefore(k, Memory!First(x1[k]))
                        + TierReserve[Memory!First(x1[k])] + Memory!Effective(x1[k])
                        > TierCapacity[Memory!First(x1[k])]
    BY <1>2 DEF Memory!DisplacedByPriority
  <2> QED BY <1>2, <1>4, <1>5 DEF Accounted
<1>7. Memory!PlacedWhole
  <2> SUFFICES ASSUME NEW k \in 1..n
               PROVE  LET p == x5[k]
                          held == Memory!MapThenSumSet(LAMBDA t : p.parts[t], Memory!Tiers)
                      IN  IF Memory!Atomic(x1[k]) THEN held \in {0, Memory!Effective(x1[k])}
                          ELSE held = Memory!Effective(x1[k])
                               \/ \A t \in Memory!Eligible(x1[k]) :
                                     Memory!PartsBefore(k + 1, t) + TierReserve[t] = TierCapacity[t]
    BY <1>2 DEF Memory!PlacedWhole
  <2> QED BY <1>2, <1>4, <1>5 DEF Accounted
<1> QED BY <1>1, <1>6, <1>7
-----------------------------------------------------------------------------
(* KvCache: x1 config, x2 tiers, x3 plan, x4 cache, x5 pos, x6 result,     *)
(* x7 status.                                                              *)

(* The tiers of a configuration: memory outside the chip is always there.  *)
TiersOf(c) ==
    (IF c.sram > 0 THEN <<Cache!Tier("sram", c.sram, CacheSramBw)>> ELSE <<>>)
        \o (IF c.onchip > 0 THEN <<Cache!Tier("on_chip_3d_dram", c.onchip, c.onchip_bw)>> ELSE <<>>)
        \o <<Cache!Tier(Cache!ExternalName(c.type), c.capacity, c.bw)>>

(* The cache is read at the bandwidth of some tier of the plan, or of the  *)
(* memory outside.                                                         *)
Connected == \E i \in 1..Len(x2) : x4.bw = x2[i].bw /\ (x2[i].name \in x3 \/ i = Len(x2))

CacheInv ==
    /\ x1 \in CacheConfigs
    /\ x7 \in {"build", "model", "configure", "ready", "ZeroDivisionError"}
    /\ x5 \in 0..CacheTokens /\ (x7 # "ready" => x5 = 0)
    /\ x7 \in {"model", "configure", "ready"} => x2 = TiersOf(x1)
    /\ x7 \in {"configure", "ready"} => x4.bw \in Nat \ {0} /\ Connected
    /\ x7 = "configure" => x4 = [bw |-> x4.bw, per_token |-> 0, window |-> 0, max_tokens |-> 0]
    /\ x7 = "ready" => /\ x4.per_token \in Nat \ {0} /\ x4.window \in Nat
                       /\ x4.window * x4.per_token <= x1.kv_sram
    /\ x7 = "ZeroDivisionError" => x1.bits < 8
    /\ x5 = 0 => x6 = [misses |-> 0, cycles |-> 0, estimate |-> 0]
    /\ x5 > 0 => /\ x6.misses = Cache!Access(x5).misses /\ x6.cycles = Cache!Access(x5).cycles
                 /\ x5 <= x4.window => x6.estimate = CacheHit * 10

(* What the parameters are. *)
LEMMA CacheConstants ==
    /\ \A c \in CacheConfigs :
          /\ c.onchip_bw \in Nat \ {0} /\ c.bw \in Nat \ {0} /\ c.random \in Nat \ {0}
          /\ c.sram \in Nat /\ c.onchip \in Nat /\ c.penalty \in Nat /\ c.bits \in Nat
          /\ c.kv_sram \in Nat /\ c.region \in Nat
    /\ CacheTokenValues \subseteq Nat \ {0} /\ CacheSramBw \in Nat \ {0}
    /\ CacheHit \in Nat /\ CacheTokens \in Nat
BY HardwareAssumption DEF HardwareAssumption, Cache!CacheAssumption

(* A sequence of one, two or three tiers with names of their own, of which *)
(* the last is the only one outside the chip.                              *)
WellNamed(ts) ==
    /\ Len(ts) \in 1..3
    /\ \A i, j \in 1..Len(ts) : ts[i].name = ts[j].name => i = j
    /\ \A i \in 1..Len(ts) : ts[i].name \in Cache!External <=> i = Len(ts)
    /\ \A i \in 1..Len(ts) : ts[i].bw \in Nat \ {0}

(* The tiers of a configuration are. *)
LEMMA TiersAreNamed ==
    ASSUME NEW c \in CacheConfigs
    PROVE  WellNamed(TiersOf(c)) /\ TiersOf(c)[Len(TiersOf(c))].bw = c.bw
<1> DEFINE s == Cache!Tier("sram", c.sram, CacheSramBw)
           o == Cache!Tier("on_chip_3d_dram", c.onchip, c.onchip_bw)
           e == Cache!Tier(Cache!ExternalName(c.type), c.capacity, c.bw)
           ts == TiersOf(c)
<1>1. /\ s.name = "sram" /\ o.name = "on_chip_3d_dram" /\ e.name \in Cache!External
      /\ s.bw \in Nat \ {0} /\ o.bw \in Nat \ {0} /\ e.bw \in Nat \ {0} /\ e.bw = c.bw
  BY CacheConstants DEF Cache!Tier, Cache!External, Cache!ExternalName
<1>2. "sram" \notin Cache!External /\ "on_chip_3d_dram" \notin Cache!External
  BY DEF Cache!External
<1>3. ts = (IF c.sram > 0 THEN <<s>> ELSE <<>>) \o (IF c.onchip > 0 THEN <<o>> ELSE <<>>) \o <<e>>
  BY DEF TiersOf
<1> HIDE DEF s, o, e, ts
<1>4. \/ Len(ts) = 1 /\ ts[1] = e
      \/ Len(ts) = 2 /\ ts[1] \in {s, o} /\ ts[2] = e
      \/ Len(ts) = 3 /\ ts[1] = s /\ ts[2] = o /\ ts[3] = e
  <2> DEFINE X == {s, o, e}
             p == IF c.sram > 0 THEN <<s>> ELSE <<>>
             q == IF c.onchip > 0 THEN <<o>> ELSE <<>>
  <2>1. /\ p \in Seq(X) /\ (Len(p) = 0 \/ (Len(p) = 1 /\ p[1] = s))
        /\ q \in Seq(X) /\ (Len(q) = 0 \/ (Len(q) = 1 /\ q[1] = o))
        /\ <<e>> \in Seq(X) /\ Len(<<e>>) = 1 /\ <<e>>[1] = e
    <3>1. s \in X /\ o \in X /\ e \in X
      OBVIOUS
    <3>2. \A z \in X : <<z>> \in Seq(X) /\ Len(<<z>>) = 1 /\ <<z>>[1] = z
      OBVIOUS
    <3>3. <<>> \in Seq(X) /\ Len(<<>>) = 0
      OBVIOUS
    <3> HIDE DEF X
    <3>4. p = <<s>> \/ p = <<>>
      OBVIOUS
    <3>5. q = <<o>> \/ q = <<>>
      OBVIOUS
    <3> HIDE DEF p, q
    <3> QED BY <3>1, <3>2, <3>3, <3>4, <3>5
  <2> DEFINE u == <<e>>
  <2>2. ts = (p \o q) \o u
    BY <1>3
  <2> HIDE DEF X, p, q, u
  <2>3. /\ p \o q \in Seq(X) /\ Len(p \o q) = Len(p) + Len(q)
        /\ \A i \in 1..(Len(p) + Len(q)) :
              (p \o q)[i] = IF i <= Len(p) THEN p[i] ELSE q[i - Len(p)]
    BY <2>1, ConcatProperties
  <2> DEFINE a == p \o q
  <2>4. \/ Len(a) = 0
        \/ Len(a) = 1 /\ a[1] \in {s, o}
        \/ Len(a) = 2 /\ a[1] = s /\ a[2] = o
    BY <2>1, <2>3
  <2>5. a \in Seq(X) /\ u \in Seq(X) /\ Len(u) = 1 /\ u[1] = e
    BY <2>1, <2>3 DEF u
  <2> HIDE DEF a
  <2>6. /\ Len(a \o u) = Len(a) + Len(u)
        /\ \A i \in 1..(Len(a) + Len(u)) : (a \o u)[i] = IF i <= Len(a) THEN a[i] ELSE u[i - Len(a)]
    BY <2>5, ConcatProperties
  <2> QED BY <2>2, <2>4, <2>5, <2>6 DEF a
<1>5. WellNamed(ts) /\ ts[Len(ts)].bw = c.bw
  <2>1. CASE Len(ts) = 1
    <3>1. ts[1] = e /\ \A i \in 1..Len(ts) : i = 1
      BY <1>4, <2>1
    <3> QED BY <1>1, <2>1, <3>1 DEF WellNamed
  <2>2. CASE Len(ts) = 2
    <3>1. ts[1] \in {s, o} /\ ts[2] = e /\ \A i \in 1..Len(ts) : i \in {1, 2}
      BY <1>4, <2>2
    <3> QED BY <1>1, <1>2, <2>2, <3>1 DEF WellNamed
  <2>3. CASE Len(ts) = 3
    <3>1. ts[1] = s /\ ts[2] = o /\ ts[3] = e /\ \A i \in 1..Len(ts) : i \in {1, 2, 3}
      BY <1>4, <2>3
    <3> QED BY <1>1, <1>2, <2>3, <3>1 DEF WellNamed
  <2> QED BY <1>4, <2>1, <2>2, <2>3
<1> QED BY <1>5 DEF ts

(* So many of one kind and then the others.                                *)
TwoKinds(n, k, c, h, w) == SumFunctionOnSet(w, 0..(n - 1)) = k * c + (n - k) * h

(* The sum of values of two kinds, so many of the one and then the others. *)
LEMMA SumOfTwo ==
    ASSUME NEW n \in Nat, NEW k \in Nat, k <= n, NEW c \in Nat, NEW h \in Nat,
           NEW w, \A j \in 0..(n - 1) : w[j] = IF j < k THEN c ELSE h
    PROVE  TwoKinds(n, k, c, h, w)
<1> DEFINE F(m) == SumFunctionOnSet(w, 0..(m - 1))
           V(m) == IF m <= k THEN m * c ELSE k * c + (m - k) * h
           Good(m) == F(m) = V(m)
           Bad == {m \in Nat : m <= n /\ ~Good(m)}
<1>1. Good(0)
  <2>1. 0..(0 - 1) = {} /\ IsFiniteSet({})
    BY FS_EmptySet
  <2>2. SumFunctionOnSet(w, {}) = 0
    BY <2>1, SumUnfold
  <2>3. 0 * c = 0
    OBVIOUS
  <2> QED BY <2>1, <2>2, <2>3
<1>2. ASSUME NEW m \in 0..(n - 1), Good(m) PROVE Good(m + 1)
  <2>1. m \in Nat /\ m \notin 0..(m - 1) /\ 0..((m + 1) - 1) = 0..(m - 1) \cup {m}
    OBVIOUS
  <2>2. IsFiniteSet(0..(m - 1))
    BY <2>1, FS_Interval
  <2>3. w[m] = (IF m < k THEN c ELSE h) /\ w[m] \in Int
    OBVIOUS
  <2>4. \A j \in 0..(m - 1) : w[j] \in Int
    <3> TAKE j \in 0..(m - 1)
    <3>1. j \in 0..(n - 1)
      BY <2>1
    <3> QED BY <3>1
  <2>5. F(m + 1) = F(m) + w[m]
    <3> DEFINE S == 0..(m - 1)
    <3>1. IsFiniteSet(S) /\ m \notin S /\ 0..((m + 1) - 1) = S \cup {m}
      BY <2>1, <2>2
    <3>2. \A j \in S : w[j] \in Int
      BY <2>4
    <3> HIDE DEF S
    <3>3. SumFunctionOnSet(w, S \cup {m}) = SumFunctionOnSet(w, S) + w[m]
      BY <2>3, <3>1, <3>2, SumAdd
    <3> QED BY <3>1, <3>3 DEF S
  <2>6. F(m) = V(m)
    BY <1>2
  <2>7. V(m + 1) = V(m) + w[m]
    <3>1. \A a \in Nat, d \in Nat : (a + 1) * d = a * d + d /\ a * d \in Nat
      OBVIOUS
    <3>2. CASE m < k
      <4>1. V(m) = m * c /\ V(m + 1) = (m + 1) * c /\ w[m] = c
        BY <2>1, <2>3, <3>2
      <4> QED BY <2>1, <3>1, <4>1
    <3>3. CASE m = k
      <4>1. /\ V(m) = k * c /\ V(m + 1) = k * c + ((m + 1) - k) * h /\ w[m] = h
            /\ (m + 1) - k = 1 /\ 1 * h = h
        BY <2>1, <2>3, <3>3
      <4> QED BY <4>1
    <3>4. CASE m > k
      <4> DEFINE a == m - k
      <4>1. /\ V(m) = k * c + a * h /\ V(m + 1) = k * c + (a + 1) * h /\ w[m] = h /\ a \in Nat
        <5>1. (m + 1) - k = a + 1 /\ a \in Nat /\ ~(m <= k) /\ ~(m + 1 <= k) /\ ~(m < k)
          BY <2>1, <3>4
        <5> QED BY <2>3, <5>1
      <4> HIDE DEF a, V
      <4>2. (a + 1) * h = a * h + h /\ a * h \in Nat /\ k * c \in Nat
        BY <3>1, <4>1
      <4> QED BY <4>1, <4>2
    <3> HIDE DEF V
    <3> QED BY <2>1, <3>2, <3>3, <3>4
  <2> HIDE DEF F, V
  <2> QED BY <2>5, <2>6, <2>7
<1>3. \A m \in Nat : m <= n => Good(m)
  <2> HIDE DEF Good
  <2> SUFFICES ASSUME Bad # {} PROVE FALSE
    OBVIOUS
  <2>1. PICK m \in Bad : \A l \in Bad : ~(<<l, m>> \in OpToRel(<, Nat))
    BY WFMin, NatLessThanWellFounded, Zenon
  <2>2. \A l \in Bad : ~(l < m)
    BY <2>1, Zenon DEF OpToRel
  <2>3. m # 0 /\ m \in Nat /\ m <= n
    BY <1>1
  <2>4. m - 1 \in 0..(n - 1) /\ m - 1 \notin Bad
    BY <2>2, <2>3
  <2>5. Good(m - 1)
    BY <2>4
  <2>6. Good((m - 1) + 1)
    BY <1>2, <2>4, <2>5
  <2> QED BY <2>3, <2>6
<1>4. F(n) = V(n)
  BY <1>3
<1>5. V(n) = k * c + (n - k) * h
  <2>1. CASE n > k
    BY <2>1
  <2>2. CASE n = k
    <3>1. n - k = 0 /\ 0 * h = 0 /\ k * c \in Nat
      BY <2>2
    <3> QED BY <2>2, <3>1
  <2> QED BY <2>1, <2>2
<1> QED BY <1>4, <1>5 DEF TwoKinds

(* At the start there are no tiers and no cache. *)
LEMMA CacheStarts == ASSUME Cache!Init PROVE CacheInv
<1>1. /\ x1 \in CacheConfigs /\ x5 = 0 /\ x7 = "build"
      /\ x6 = [misses |-> 0, cycles |-> 0, estimate |-> 0]
  BY DEF Cache!Init
<1>2. 0 \in 0..CacheTokens
  BY CacheConstants
<1>3. x5 \in 0..CacheTokens /\ ~(x5 > 0)
  BY <1>1, <1>2
<1> QED BY <1>1, <1>3 DEF CacheInv

(* The hierarchy is built. *)
LEMMA BuildKeeps == ASSUME CacheInv, Cache!Build PROVE CacheInv'
<1>1. /\ x7 = "build" /\ x7' = "model" /\ x1' = x1 /\ x4' = x4 /\ x5' = x5 /\ x6' = x6
      /\ x2' = TiersOf(x1)
  BY DEF Cache!Build, TiersOf
<1>2. x1 \in CacheConfigs /\ x5 = 0 /\ 0 \in 0..CacheTokens
      /\ x6 = [misses |-> 0, cycles |-> 0, estimate |-> 0]
  BY <1>1, CacheConstants DEF CacheInv
<1> QED BY <1>1, <1>2 DEF CacheInv

(* The cache is connected to the fastest tier of the plan. *)
LEMMA ModelKeeps == ASSUME CacheInv, Cache!Model PROVE CacheInv'
<1> DEFINE f == Cache!FastestAllocated  I == {i \in 1..Len(x2) : x2[i].name \in x3}
           bw == IF f = 0 THEN x1.bw ELSE x2[f].bw
<1>1. /\ x7 = "model" /\ x7' = "configure"
      /\ x1' = x1 /\ x2' = x2 /\ x3' = x3 /\ x5' = x5 /\ x6' = x6
      /\ x4' = [bw |-> bw, per_token |-> 0, window |-> 0, max_tokens |-> 0]
  BY DEF Cache!Model
<1>2. x1 \in CacheConfigs /\ x5 = 0 /\ 0 \in 0..CacheTokens /\ x2 = TiersOf(x1)
      /\ x6 = [misses |-> 0, cycles |-> 0, estimate |-> 0]
  BY <1>1, CacheConstants DEF CacheInv
<1>3. WellNamed(x2) /\ x2[Len(x2)].bw = x1.bw
  BY <1>2, TiersAreNamed
<1>4. f = IF I # {} THEN Cache!Min(I) ELSE 0
  BY DEF Cache!FastestAllocated, Cache!SelectInSeq
<1>5. I # {} => Cache!Min(I) \in I
  <2>1. I \subseteq Nat
    BY <1>3 DEF WellNamed
  <2> HIDE DEF I
  <2>2. I # {} => Channels!Min(I) \in I
    BY <2>1, LeastOfNumbers
  <2> QED BY <2>2 DEF Cache!Min, Channels!Min
<1> HIDE DEF f, I
<1>6. bw \in Nat \ {0} /\ \E i \in 1..Len(x2) : bw = x2[i].bw /\ (x2[i].name \in x3 \/ i = Len(x2))
  <2>1. CASE I # {}
    <3>1. f \in 1..Len(x2) /\ x2[f].name \in x3 /\ f # 0
      BY <1>3, <1>4, <1>5, <2>1 DEF I, WellNamed
    <3> QED BY <1>3, <3>1 DEF WellNamed
  <2>2. CASE I = {}
    <3>1. bw = x1.bw /\ Len(x2) \in 1..Len(x2)
      BY <1>3, <1>4, <2>2 DEF WellNamed
    <3> QED BY <1>3, <3>1 DEF WellNamed
  <2> QED BY <2>1, <2>2
<1> HIDE DEF bw
<1>7. x4'.bw = bw
  BY <1>1
<1>8. Connected'
  BY <1>1, <1>6, <1>7 DEF Connected
<1> QED BY <1>1, <1>2, <1>6, <1>7, <1>8 DEF CacheInv

(* A part times what it is a part of. *)
LEMMA PartWithin ==
    ASSUME NEW a \in Nat, NEW d \in Nat \ {0}
    PROVE  a \div d \in Nat /\ (a \div d) * d <= a
OBVIOUS

(* The cache is given a window of whole tokens, unless they have no bytes. *)
LEMMA ConfigureKeeps ==
    ASSUME CacheInv, NEW values \in CacheTokenValues, NEW layers \in CacheLayers,
           Cache!Configure(values, layers)
    PROVE  CacheInv'
<1> DEFINE per == values * (x1.bits \div 8)
<1>1. /\ x7 = "configure" /\ x1' = x1 /\ x2' = x2 /\ x3' = x3 /\ x5' = x5 /\ x6' = x6
      /\ \/ per = 0 /\ x7' = "ZeroDivisionError" /\ x4' = x4
         \/ per # 0 /\ x7' = "ready"
            /\ x4' = [x4 EXCEPT !.per_token = per, !.window = x1.kv_sram \div per,
                         !.max_tokens = Cache!Lesser(x1.region \div (per * layers), CacheContext)]
  BY DEF Cache!Configure
<1>2. /\ x1 \in CacheConfigs /\ x5 = 0 /\ 0 \in 0..CacheTokens /\ x2 = TiersOf(x1)
      /\ x6 = [misses |-> 0, cycles |-> 0, estimate |-> 0]
      /\ x4.bw \in Nat \ {0} /\ Connected
      /\ x4 = [bw |-> x4.bw, per_token |-> 0, window |-> 0, max_tokens |-> 0]
  BY <1>1, CacheConstants DEF CacheInv
<1>3. /\ x1.bits \in Nat /\ x1.kv_sram \in Nat /\ values \in Nat \ {0}
      /\ x1.bits \div 8 \in Nat
  BY <1>2, CacheConstants
<1>4. per \in Nat /\ (per = 0 => x1.bits < 8)
  <2> DEFINE b == x1.bits \div 8
  <2>1. b \in Nat /\ (b = 0 => x1.bits < 8)
    BY <1>3
  <2> HIDE DEF b
  <2>2. values * b \in Nat /\ (values * b = 0 => b = 0)
    BY <1>3, <2>1
  <2> QED BY <2>1, <2>2 DEF b
<1> HIDE DEF per
<1>5. CASE per = 0
  <2>1. x7' = "ZeroDivisionError" /\ x4' = x4
    BY <1>1, <1>5
  <2> QED BY <1>1, <1>2, <1>4, <1>5, <2>1 DEF CacheInv
<1>6. CASE per # 0
  <2> DEFINE w == x1.kv_sram \div per
             m == Cache!Lesser(x1.region \div (per * layers), CacheContext)
  <2>1. w \in Nat /\ w * per <= x1.kv_sram
    BY <1>3, <1>4, <1>6, PartWithin
  <2> HIDE DEF w, m
  <2>2. x7' = "ready" /\ x4' = [x4 EXCEPT !.per_token = per, !.window = w, !.max_tokens = m]
    BY <1>1, <1>6 DEF w, m
  <2>3. x4'.bw = x4.bw /\ x4'.per_token = per /\ x4'.window = w
    BY <1>2, <2>2
  <2>4. Connected'
    BY <1>1, <1>2, <2>3 DEF Connected
  <2> QED BY <1>1, <1>2, <1>4, <1>6, <2>1, <2>2, <2>3, <2>4 DEF CacheInv
<1> QED BY <1>5, <1>6

(* What an access costs: numbers. *)
LEMMA AccessCosts ==
    ASSUME CacheInv, x7 = "ready", NEW n \in Nat
    PROVE  /\ Cache!MissCost \in Nat /\ Cache!HitsOf(n) \in 0..n
           /\ Cache!HitsOf(n) = IF x4.window <= n THEN x4.window ELSE n
           /\ Cache!Access(n).misses = n - Cache!HitsOf(n)
           /\ Cache!Access(n).cycles =
                Cache!HitsOf(n) * CacheHit + (n - Cache!HitsOf(n)) * Cache!MissCost
<1>1. /\ x4.per_token \in Nat /\ x4.bw \in Nat \ {0} /\ x4.window \in Nat
      /\ x1.random \in Nat \ {0} /\ x1.penalty \in Nat
  BY CacheConstants DEF CacheInv
<1>2. Cache!MissCost \in Nat
  <2> DEFINE d == x4.bw * x1.random  a == x4.per_token * 100
  <2>1. d \in Nat \ {0} /\ a \in Nat
    BY <1>1
  <2> HIDE DEF d, a
  <2>2. a + d - 1 \in Nat
    BY <2>1
  <2>3. (a + d - 1) \div d \in Nat
    BY <2>1, <2>2, PartWithin
  <2> QED BY <1>1, <2>3 DEF Cache!MissCost, Cache!CeilDiv, a, d
<1>3. /\ Cache!HitsOf(n) = (IF x4.window <= n THEN x4.window ELSE n)
      /\ Cache!HitsOf(n) \in 0..n
  BY <1>1 DEF Cache!HitsOf, Cache!Lesser
<1>4. Cache!Larger(0, n - Cache!HitsOf(n)) = n - Cache!HitsOf(n)
  <2> DEFINE h == Cache!HitsOf(n)
  <2> HIDE DEF h
  <2>1. h \in 0..n
    BY <1>3 DEF h
  <2>2. Cache!Larger(0, n - h) = n - h
    BY <2>1 DEF Cache!Larger
  <2> QED BY <2>2 DEF h
<1> QED BY <1>2, <1>3, <1>4 DEF Cache!Access

(* A token more is decoded. *)
LEMMA DecodeKeeps == ASSUME CacheInv, Cache!Decode PROVE CacheInv'
<1> DEFINE n == x5 + 1  access == Cache!Access(n)
<1>1. /\ x7 = "ready" /\ x7' = "ready" /\ x5 < CacheTokens /\ x5' = n
      /\ x1' = x1 /\ x2' = x2 /\ x3' = x3 /\ x4' = x4
      /\ x6'.misses = access.misses /\ x6'.cycles = access.cycles
  <2>1. /\ x7 = "ready" /\ x7' = x7 /\ x5 < CacheTokens /\ x5' = n
        /\ x1' = x1 /\ x2' = x2 /\ x3' = x3 /\ x4' = x4
    BY DEF Cache!Decode
  <2>2. x6'.misses = access.misses /\ x6'.cycles = access.cycles
    BY DEF Cache!Decode
  <2> QED BY <2>1, <2>2
<1>2. /\ x1 \in CacheConfigs /\ x5 \in Nat /\ n \in 1..CacheTokens /\ x2 = TiersOf(x1)
      /\ x4.bw \in Nat \ {0} /\ Connected
      /\ x4.per_token \in Nat \ {0} /\ x4.window \in Nat
      /\ x4.window * x4.per_token <= x1.kv_sram
  <2>1. CacheTokens \in Nat /\ x5 \in 0..CacheTokens
    BY CacheConstants DEF CacheInv
  <2> QED BY <1>1, <2>1 DEF CacheInv
<1>3. /\ access.misses = n - Cache!HitsOf(n)
      /\ Cache!HitsOf(n) = IF x4.window <= n THEN x4.window ELSE n
  <2>1. n \in Nat
    BY <1>2
  <2> HIDE DEF n
  <2> QED BY <1>1, <2>1, AccessCosts
<1>4. n <= x4.window => x6'.estimate = CacheHit * 10
  <2> SUFFICES ASSUME n <= x4.window PROVE x6'.estimate = CacheHit * 10
    OBVIOUS
  <2>1. Cache!HitsOf(n) = n /\ n \in Nat
    BY <1>2, <1>3
  <2>2. access.misses = 0
    BY <1>3, <2>1
  <2> DEFINE m == access.misses  l == access.cycles
  <2>3. x6' = [misses |-> m, cycles |-> l,
               estimate |-> IF (x5 + 1 - m) * 100 >= 85 * (x5 + 1) THEN CacheHit * 10
                            ELSE (l * m) \div ((x5 + 1) * 10)]
    BY DEF Cache!Decode
  <2> HIDE DEF m, l
  <2>4. m = 0 /\ x5 \in Nat
    BY <1>2, <2>2 DEF m
  <2>5. (x5 + 1 - m) * 100 >= 85 * (x5 + 1)
    BY <2>4
  <2>6. x6'.estimate = IF (x5 + 1 - m) * 100 >= 85 * (x5 + 1) THEN CacheHit * 10
                       ELSE (l * m) \div ((x5 + 1) * 10)
    BY <2>3
  <2> QED BY <2>5, <2>6
<1>5. Cache!Access(x5)' = access
  BY <1>1 DEF Cache!Access, Cache!HitsOf, Cache!MissCost
<1> HIDE DEF access, n
<1>7. Connected'
  BY <1>1, <1>2 DEF Connected
<1>8. x5' \in 0..CacheTokens /\ x5' > 0 /\ x5' # 0
  BY <1>1, <1>2
<1> QED BY <1>1, <1>2, <1>4, <1>5, <1>7, <1>8 DEF CacheInv

(* The sum of what tokens cost one by one, when the window slides. *)
LEMMA SlidingSum ==
    ASSUME x5 \in Nat, x4.window \in Nat, CacheHit \in Nat, Cache!MissCost \in Nat, NEW w,
           \A j \in 0..(x5 - 1) :
              w[j] = IF j >= x5 - x4.window THEN CacheHit ELSE Cache!MissCost
    PROVE  Cache!MapThenSumSet(
              LAMBDA j : IF j >= x5 - x4.window THEN CacheHit ELSE Cache!MissCost, 0..(x5 - 1))
             = SumFunctionOnSet(w, 0..(x5 - 1))
<1> DEFINE Cost(j) == IF j >= x5 - x4.window THEN CacheHit ELSE Cache!MissCost
<1> DEFINE S == 0..(x5 - 1)
           Op(g) == g = [s \in SUBSET S |->
                           IF s = {} THEN 0
                           ELSE Cost(Pick(s)) + g[s \ {Pick(s)}]]
<1>1. Cache!MapThenSumSet(
        LAMBDA j : IF j >= x5 - x4.window THEN CacheHit ELSE Cache!MissCost, S)
          = (CHOOSE g : Op(g))[S]
  BY DEF Cache!MapThenSumSet, Cache!MapThenFoldSet, Pick
<1>2. \A s \in SUBSET S : s # {} => Cost(Pick(s)) = w[Pick(s)]
  <2> TAKE s \in SUBSET S
  <2> HAVE s # {}
  <2>1. Pick(s) \in S
    BY DEF Pick
  <2> QED BY <2>1
<1>3. ASSUME NEW g PROVE Op(g) <=> IsSum(g, w, S)
  BY <1>2 DEF IsSum
<1>4. IsFiniteSet(S) /\ \A j \in S : w[j] \in Int
  <2>1. \A j \in S : w[j] \in {CacheHit, Cache!MissCost}
    OBVIOUS
  <2>2. IsFiniteSet(S)
    BY FS_Interval
  <2> QED BY <2>1, <2>2
<1> HIDE DEF S
<1>5. \E g : Op(g)
  BY <1>3, <1>4, SomeFunction
<1> HIDE DEF Op
<1>6. Op(CHOOSE g : Op(g))
  BY <1>5
<1>7. IsSum(CHOOSE g : Op(g), w, S)
  BY <1>3, <1>6
<1>8. SumFunctionOnSet(w, S) = (CHOOSE g : Op(g))[S]
  BY <1>4, <1>7, SumByFunction
<1> QED BY <1>1, <1>8 DEF S

(* What the invariant says of the cache is what the properties say. *)
LEMMA CacheHolds ==
    ASSUME CacheInv
    PROVE  /\ Cache!TypeOK /\ Cache!OneTierPerName
           /\ Cache!CostOfSlidingWindow /\ Cache!FailsBelowAByte
<1>1. Cache!TypeOK
  <2>1. x6.misses \in 0..x5
    <3>1. CASE x5 = 0
      <4>1. x6.misses = 0
        BY <3>1 DEF CacheInv
      <4> QED BY <3>1, <4>1
    <3>2. CASE x5 # 0
      <4>1. x5 \in Nat /\ x5 > 0 /\ x7 = "ready" /\ x6.misses = Cache!Access(x5).misses
        BY <3>2, CacheConstants DEF CacheInv
      <4>2. Cache!HitsOf(x5) \in 0..x5 /\ Cache!Access(x5).misses = x5 - Cache!HitsOf(x5)
        BY <4>1, AccessCosts
      <4> QED BY <4>1, <4>2
    <3> QED BY <3>1, <3>2
  <2> QED BY <2>1 DEF CacheInv, Cache!TypeOK
<1>2. Cache!OneTierPerName
  <2> SUFFICES ASSUME x7 \in {"configure", "ready"}
               PROVE  /\ \A i, j \in 1..Len(x2) : x2[i].name = x2[j].name => i = j
                      /\ {i \in 1..Len(x2) : x2[i].name \in Cache!External} = {Len(x2)}
                      /\ Connected
    BY DEF Cache!OneTierPerName, Connected
  <2>1. WellNamed(x2) /\ Connected
    BY TiersAreNamed DEF CacheInv
  <2>2. /\ Len(x2) \in 1..Len(x2)
        /\ \A i \in 1..Len(x2) : x2[i].name \in Cache!External <=> i = Len(x2)
    BY <2>1 DEF WellNamed
  <2>3. {i \in 1..Len(x2) : x2[i].name \in Cache!External} = {Len(x2)}
    BY <2>2
  <2> QED BY <2>1, <2>3 DEF WellNamed
<1>3. Cache!CostOfSlidingWindow
  <2> SUFFICES ASSUME x7 = "ready" PROVE Cache!CostOfSlidingWindow
    BY DEF Cache!CostOfSlidingWindow
  <2> DEFINE h == CacheHit  c == Cache!MissCost  a == x5 - x4.window
             w == [j \in 0..(x5 - 1) |-> IF j >= a THEN h ELSE c]  k == x5 - Cache!HitsOf(x5)
  <2>1. x5 \in Nat /\ x4.window \in Nat /\ h \in Nat
    BY CacheConstants DEF CacheInv
  <2>2. /\ c \in Nat /\ Cache!HitsOf(x5) \in 0..x5
        /\ Cache!HitsOf(x5) = IF x4.window <= x5 THEN x4.window ELSE x5
        /\ Cache!Access(x5).misses = k
        /\ Cache!Access(x5).cycles = Cache!HitsOf(x5) * h + k * c
    BY <2>1, AccessCosts
  <2> HIDE DEF h, c
  <2>3. k \in Nat /\ k <= x5 /\ x5 - k = Cache!HitsOf(x5) /\ a \in Int
    BY <2>1, <2>2
  <2>4. \A j \in 0..(x5 - 1) : j >= a <=> ~(j < k)
    BY <2>1, <2>2
  <2>5. \A j \in 0..(x5 - 1) : w[j] = IF j < k THEN c ELSE h
    BY <2>4
  <2>6. \A j \in 0..(x5 - 1) : w[j] = IF j >= a THEN h ELSE c
    OBVIOUS
  <2>7. SumFunctionOnSet(w, 0..(x5 - 1)) = k * c + (x5 - k) * h
    <3>1. x5 \in Nat /\ k \in Nat /\ k <= x5 /\ c \in Nat /\ h \in Nat
      BY <2>1, <2>2, <2>3
    <3> HIDE DEF w, k
    <3>2. TwoKinds(x5, k, c, h, w)
      BY <3>1, <2>5, SumOfTwo
    <3> QED BY <3>2 DEF TwoKinds
  <2>8. Cache!MapThenSumSet(
          LAMBDA j : IF j >= x5 - x4.window THEN CacheHit ELSE Cache!MissCost, 0..(x5 - 1))
          = SumFunctionOnSet(w, 0..(x5 - 1))
    <3>1. \A j \in 0..(x5 - 1) :
             w[j] = IF j >= x5 - x4.window THEN CacheHit ELSE Cache!MissCost
      BY <2>6 DEF h, c
    <3>2. CacheHit \in Nat /\ Cache!MissCost \in Nat
      BY <2>1, <2>2 DEF h, c
    <3> HIDE DEF w
    <3> QED BY <2>1, <3>1, <3>2, SlidingSum
  <2>9. x6.cycles = k * c + (x5 - k) * h
    <3>1. CASE x5 = 0
      <4>1. x6.cycles = 0
        BY <3>1 DEF CacheInv
      <4>2. k = 0 /\ x5 - k = 0 /\ 0 * c = 0 /\ 0 * h = 0
        BY <2>1, <2>2, <2>3, <3>1
      <4> HIDE DEF k
      <4> QED BY <4>1, <4>2
    <3>2. CASE x5 # 0
      <4>1. x6.cycles = Cache!Access(x5).cycles
        BY <2>1, <3>2 DEF CacheInv
      <4> DEFINE hits == Cache!HitsOf(x5)
      <4>2. x6.cycles = hits * h + k * c /\ x5 - k = hits /\ hits \in Nat
        BY <2>2, <2>3, <4>1
      <4> HIDE DEF k, hits
      <4>3. hits * h \in Nat /\ k * c \in Nat
        BY <2>1, <2>2, <2>3, <4>2
      <4> QED BY <4>2, <4>3
    <3> QED BY <3>1, <3>2
  <2>10. x6.cycles = Cache!MapThenSumSet(
           LAMBDA j : IF j >= x5 - x4.window THEN CacheHit ELSE Cache!MissCost, 0..(x5 - 1))
    BY <2>7, <2>8, <2>9 DEF h, c
  <2>11. x4.window * x4.per_token <= x1.kv_sram
    BY DEF CacheInv
  <2>12. x5 > 0 /\ x5 <= x4.window => x6.misses = 0 /\ x6.estimate = CacheHit * 10
    <3> SUFFICES ASSUME x5 > 0, x5 <= x4.window
                 PROVE  x6.misses = 0 /\ x6.estimate = CacheHit * 10
      OBVIOUS
    <3>1. x6.misses = k /\ x6.estimate = CacheHit * 10
      BY <2>2 DEF CacheInv
    <3>2. k = 0
      BY <2>1, <2>2
    <3> QED BY <3>1, <3>2
  <2>13. Cache!SwitchCost * x4.bw * x1.random <= x1.kv_sram * 100
    <3> DEFINE d == x4.bw * x1.random  b == x1.kv_sram * 30  q == b \div d
    <3>1. x4.bw \in Nat /\ x1.random \in Nat /\ d \in Nat \ {0} /\ x1.kv_sram \in Nat /\ b \in Nat
      BY CacheConstants DEF CacheInv
    <3>2. q \in Nat /\ q * d <= b
      <4> HIDE DEF d, b
      <4> QED BY <3>1, PartWithin
    <3>3. Cache!SwitchCost = q
      BY DEF Cache!SwitchCost
    <3> HIDE DEF q
    <3>4. q * x4.bw * x1.random = q * d
      BY <3>1, <3>2
    <3>5. b <= x1.kv_sram * 100
      BY <3>1
    <3> DEFINE e == q * d  f == x1.kv_sram * 100
    <3>6. e \in Nat /\ f \in Nat
      BY <3>1, <3>2
    <3> HIDE DEF b, e, f
    <3>7. e <= f
      BY <3>1, <3>2, <3>5, <3>6 DEF e, f
    <3> QED BY <3>3, <3>4, <3>7 DEF e, f
  <2> QED BY <2>10, <2>11, <2>12, <2>13 DEF Cache!CostOfSlidingWindow
<1>4. Cache!FailsBelowAByte
  BY DEF CacheInv, Cache!FailsBelowAByte
<1> QED BY <1>1, <1>2, <1>3, <1>4

-----------------------------------------------------------------------------
(* The plan of the residency model accounts for every byte: no tier holds  *)
(* more than its capacity less its reserve, an item in one piece is whole  *)
(* or left out, one that is split is left out in part only when every tier *)
(* it may use is full, and what leaves its fastest tier was displaced by   *)
(* items of its own or a higher priority.  The cache on top is connected   *)
(* to a tier of the plan, and tokens cost what a sliding window makes them *)
(* cost.                                                                   *)
THEOREM EveryByteIsPlaced == Spec => []PlacedWhole
<1> DEFINE Inv == (part = "memory" => MemoryInv) /\ (part = "kv" => CacheInv)
<1>1. Init => Inv
  BY MemoryStarts, CacheStarts DEF Init
<1>2. Inv /\ [Next]_state => Inv'
  <2> SUFFICES ASSUME Inv, [Next]_state PROVE Inv'
    OBVIOUS
  <2>1. CASE Next
    <3>1. /\ part' = part
          /\ part = "memory" => Memory!Next
          /\ part = "kv" => Cache!Next
      BY <2>1 DEF Next
    <3>2. ASSUME part = "memory" PROVE MemoryInv'
      <4>1. CASE Memory!PlaceAtomic
        BY <3>2, <4>1, PlaceAtomicKeeps
      <4>2. CASE Memory!PlaceSplit
        BY <3>2, <4>2, PlaceSplitKeeps
      <4>3. CASE Memory!Finish
        <5>1. x1' = x1 /\ x2' = x2 /\ x4' = x4 /\ x5' = x5
          BY <4>3 DEF Memory!Finish
        <5> QED BY <3>2, <5>1 DEF MemoryInv
      <4> QED BY <3>1, <3>2, <4>1, <4>2, <4>3 DEF Memory!Next
    <3>3. ASSUME part = "kv" PROVE CacheInv'
      BY <3>1, <3>3, BuildKeeps, ModelKeeps, ConfigureKeeps, DecodeKeeps DEF Cache!Next
    <3> QED BY <3>1, <3>2, <3>3
  <2>2. CASE UNCHANGED state
    <3>1. /\ x1' = x1 /\ x2' = x2 /\ x3' = x3 /\ x4' = x4 /\ x5' = x5 /\ x6' = x6
          /\ x7' = x7 /\ part' = part
      BY <2>2 DEF state
    <3>2. MemoryInv => MemoryInv'
      BY <3>1 DEF MemoryInv
    <3>3. CacheInv => CacheInv'
      <4>1. Cache!Access(x5)' = Cache!Access(x5)
        BY <3>1 DEF Cache!Access, Cache!HitsOf, Cache!MissCost
      <4> QED BY <3>1, <4>1 DEF CacheInv, Connected
    <3> QED BY <3>1, <3>2, <3>3
  <2> QED BY <2>1, <2>2
<1>3. Inv => PlacedWhole
  BY MemoryHolds, CacheHolds DEF PlacedWhole
<1> QED BY <1>1, <1>2, <1>3, PTL DEF Spec

=============================================================================
