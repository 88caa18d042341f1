----------------------------- MODULE Residency -----------------------------
(***************************************************************************)
(* The memory access plan: tensors and queue buffers are placed one after  *)
(* the other into the tiers of the memory hierarchy, weights and caches in *)
(* one piece, the others split.  Sizes are in units of the alignment.      *)
(***************************************************************************)
EXTENDS Integers, Sequences, FiniteSetsExt

CONSTANTS
    NumTiers,  \* tiers, the fastest first
    Capacity,  \* tier -> bytes
    Reserve,   \* tier -> reserved bytes
    OnChip,    \* the tier that is on-chip 3D DRAM, 0 if there is none
    Items,     \* the categories and sizes there may be
    MaxItems,
    Models     \* the numbers of resident models

Tiers == 1..NumTiers

ResidencyAssumption ==
    /\ NumTiers \in Nat \ {0} /\ OnChip \in 0..NumTiers
    /\ Capacity \in [Tiers -> Nat] /\ Reserve \in [Tiers -> Nat]
    /\ \A t \in Tiers : Reserve[t] <= Capacity[t]
    /\ \A i \in Items : i.bytes \in Nat
    /\ Models \subseteq Nat \ {0} /\ MaxItems \in Nat

VARIABLES
    items,       \* what is to be placed, in the order of the sort
    models,      \* resident_models
    allow_spill,
    allocations, \* tier -> bytes taken
    placements,  \* of the items so far
    status       \* "place", "plan", "CoverageError"

vars == <<items, models, allow_spill, allocations, placements, status>>

-----------------------------------------------------------------------------
Priority(category) ==
    CASE category = "weight" -> 0 [] category = "kv" -> 1
      [] category = "activation" -> 2 [] OTHER -> 3

\* by category, and the larger first; queue buffers come after all tensors
Sorted(s) == \A i, j \in DOMAIN s : i < j =>
    \/ Priority(s[i].category) < Priority(s[j].category)
    \/ s[i].category = s[j].category /\ (s[i].category = "queue" \/ s[i].bytes >= s[j].bytes)

Init ==
    /\ items \in {s \in UNION {[1..n -> Items] : n \in 0..MaxItems} : Sorted(s)}
    /\ models \in Models /\ allow_spill \in BOOLEAN
    /\ allocations = [t \in Tiers |-> 0]
    /\ placements = <<>>
    /\ status = "place"

Item == items[Len(placements) + 1]
Atomic(i) == i.category \in {"weight", "kv"}
Effective(i) == IF i.category = "weight" THEN i.bytes * models ELSE i.bytes

\* Weights pass over the tiers above the on-chip memory.
First(i) == IF i.category = "weight" /\ OnChip # 0 THEN OnChip ELSE 1
Eligible(i) == First(i)..NumTiers

\* What a tier has left.
Room(t) == Capacity[t] - allocations[t] - Reserve[t]

Larger(a, b) == IF a >= b THEN a ELSE b
Lesser(a, b) == IF a <= b THEN a ELSE b

\* all of it in the fastest tier that can hold all
AtomicParts(i) ==
    LET fitting == {t \in Eligible(i) : Room(t) >= Effective(i)} IN
    [t \in Tiers |-> IF fitting # {} /\ t = Min(fitting) THEN Effective(i) ELSE 0]

\* Faulty: only the fastest tier with room takes any of it.
SplitPartsOnce(i) ==
    LET free == {t \in Eligible(i) : Room(t) > 0} IN
    [t \in Tiers |-> IF free # {} /\ t = Min(free) THEN Lesser(Room(t), Effective(i)) ELSE 0]

\* as much as there is room for, tier after tier
SplitParts(i) ==
    LET before(t) == MapThenSumSet(Room, {u \in Eligible(i) : u < t}) IN
    [t \in Tiers |-> IF t \in Eligible(i)
                     THEN Larger(0, Lesser(Room(t), Effective(i) - before(t))) ELSE 0]

\* A placement: the bytes in each tier, those that count as resident, and the
\* tiers the others are read from and written to.
Placement(i, parts) ==
    LET used == {t \in Tiers : parts[t] > 0}
        destination == IF used # {} THEN Min(used)
                       ELSE IF Atomic(i) /\ Effective(i) = 0 THEN First(i) ELSE NumTiers
        resident == IF First(i) \in used THEN parts[First(i)] ELSE 0
        others == used \ {destination}
    IN  [parts |-> parts,
         resident |-> resident,
         spill |-> Effective(i) - resident,
         destination |-> destination,
         spill_tier |-> IF resident > 0 /\ others # {} THEN Min(others) ELSE NumTiers]

Place(parts) ==
    /\ allocations' = [t \in Tiers |-> allocations[t] + parts[t]]
    /\ placements' = Append(placements, Placement(Item, parts))
    /\ UNCHANGED <<items, models, allow_spill, status>>

Placing == status = "place" /\ Len(placements) < Len(items)

PlaceAtomic == Placing /\ Atomic(Item) /\ Place(AtomicParts(Item))
PlaceSplit == Placing /\ ~Atomic(Item) /\ Place(SplitParts(Item))

\* Without spilling, a byte outside its first tier is an error.
Finish ==
    /\ status = "place" /\ Len(placements) = Len(items)
    /\ status' = IF ~allow_spill /\ \E k \in DOMAIN placements : placements[k].spill > 0
                 THEN "CoverageError" ELSE "plan"
    /\ UNCHANGED <<items, models, allow_spill, allocations, placements>>

Next == PlaceAtomic \/ PlaceSplit \/ Finish

Spec == Init /\ [][Next]_vars

-----------------------------------------------------------------------------
\* No tier holds more than its capacity less its reserve, however the items were
\* split, replicated, and passed on from tier to tier.
WithinCapacity ==
    \A t \in Tiers : 0 <= allocations[t] /\ allocations[t] + Reserve[t] <= Capacity[t]

PartsBefore(k, t) ==
    MapThenSumSet(LAMBDA j : placements[j].parts[t], 1..(k - 1))

\* An item leaves its fastest tier only for want of room: what the items before it,
\* of its own or a higher priority, have taken there leaves less than it needs.
DisplacedByPriority ==
    \A k \in DOMAIN placements : placements[k].spill > 0 =>
        LET t == First(items[k]) IN
        PartsBefore(k, t) + Reserve[t] + Effective(items[k]) > Capacity[t]

\* The plan accounts for every byte: what a tier holds is what items have in it, an
\* item in one piece is in one tier or none, and an item that is split is left out
\* in part only when every tier it may use is full.
PlacedWhole ==
    \A k \in DOMAIN placements :
        LET p == placements[k]
            held == MapThenSumSet(LAMBDA t : p.parts[t], Tiers)
        IN  IF Atomic(items[k]) THEN held \in {0, Effective(items[k])}
            ELSE held = Effective(items[k])
                 \/ \A t \in Eligible(items[k]) : PartsBefore(k + 1, t) + Reserve[t] = Capacity[t]

=============================================================================
