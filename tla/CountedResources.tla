------------------------- MODULE CountedResources --------------------------
(***************************************************************************)
(* The counted resources of sim/scheduler/resources.py under any sequence  *)
(* of calls: a CapacityResource that may grant less than it was asked for  *)
(* and a BoundedResource that grants all or nothing.                       *)
(***************************************************************************)
EXTENDS Integers, FiniteSets, Functions

CONSTANTS Members,   \* member ids
          Capacity,  \* units of each resource
          Units      \* units a call may ask for

ResourceAssumption == Capacity \in Nat /\ Units \subseteq Nat \ {0}

VARIABLES allocated, \* CapacityResource._allocated
          holders    \* BoundedResource._holders

vars == <<allocated, holders>>

Sum(f)       == SumFunctionOnSet(f, DOMAIN f)
Without(f,m) == [x \in DOMAIN f \ {m} |-> f[x]]
With(f,m,v)  == [x \in DOMAIN f \cup {m} |-> IF x = m THEN v ELSE f[x]]
Held(f, m)   == IF m \in DOMAIN f THEN f[m] ELSE 0
Smaller(a,b) == IF a < b THEN a ELSE b

Init == allocated = [m \in {} |-> 0] /\ holders = [m \in {} |-> 0]

Grant(units) == Smaller(units, Capacity - Sum(allocated))

(* CapacityResource.allocate. *)
Allocate(m, units) ==
  /\ Capacity > Sum(allocated)
  /\ allocated' = With(allocated, m, Held(allocated, m) + Grant(units))
  /\ UNCHANGED holders

(* What release leaves to a member; giving up nothing that one does not     *)
(* hold raises KeyError and is no step.                                    *)
Released(f, m, units) ==
  IF Held(f, m) <= units THEN Without(f, m) ELSE With(f, m, f[m] - units)

Release(m, units) ==
  /\ m \in DOMAIN allocated
  /\ allocated' = Released(allocated, m, units)
  /\ UNCHANGED holders

ReleaseAll ==
  /\ allocated' = [m \in {} |-> 0]
  /\ UNCHANGED holders

(* BoundedResource.acquire and release. *)
Acquire(m, units) ==
  /\ Capacity - Sum(holders) >= units
  /\ holders' = With(holders, m, Held(holders, m) + units)
  /\ UNCHANGED allocated

ReleaseBounded(m, units) ==
  /\ m \in DOMAIN holders
  /\ holders' = Released(holders, m, units)
  /\ UNCHANGED allocated

Next ==
  \/ \E m \in Members, u \in Units :
       Allocate(m, u) \/ Release(m, u) \/ Acquire(m, u) \/ ReleaseBounded(m, u)
  \/ ReleaseAll

Spec == Init /\ [][Next]_vars
----------------------------------------------------------------------------
TypeOK ==
  \A f \in {allocated, holders} : DOMAIN f \subseteq Members /\ \A m \in DOMAIN f : f[m] \in Int

(* No sequence of partial grants and releases makes a resource hand out    *)
(* more than its capacity, or leaves a member with nothing in the table.   *)
NeverOversold ==
  \A f \in {allocated, holders} : Sum(f) <= Capacity /\ \A m \in DOMAIN f : f[m] > 0

============================================================================
