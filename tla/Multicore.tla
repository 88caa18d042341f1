----------------------------- MODULE Multicore -----------------------------
(***************************************************************************)
(* MultiCoreTimeline.simulate_pipeline (sim/engine/multicore.py): layers   *)
(* are dealt to the cores in turn, a core hands its activation to the next *)
(* over a FIFO and is blocked while it does.  One layer is one step.       *)
(***************************************************************************)
EXTENDS Integers, SequencesExt

CONSTANTS NumCores,
          WorkChoices,    \* duration of a layer
          FifoTime,       \* duration of an activation transfer
          MaxLayers

MulticoreAssumption ==
  NumCores \in Nat \ {0} /\ WorkChoices \subseteq Nat /\ FifoTime \in Nat /\ MaxLayers \in Nat

VARIABLES work,       \* duration of every layer
          layer,      \* layer_idx
          progress,   \* core_progress
          now,        \* kernel.now_ps
          starts,     \* history: when each layer started
          arrivals    \* history: when each layer's activation had arrived

vars == <<work, layer, progress, now, starts, arrivals>>

Latest(p)  == Max({p[c] : c \in DOMAIN p})
Larger(a, b) == IF a > b THEN a ELSE b
Core(l)    == l % NumCores

Init ==
  /\ work \in UNION {[1..n -> WorkChoices] : n \in 1..MaxLayers}
  /\ layer = 0 /\ now = 0
  /\ progress = [c \in 0..NumCores - 1 |-> 0]
  /\ starts = <<>> /\ arrivals = <<0>>

(* Faulty: the clock is not advanced past a finished layer. *)
StartOnOwnCore(l) == progress[Core(l)]

Start(l) == Larger(progress[Core(l)], now)

(* Another core waits for this activation. *)
HandsOver(l) == Core(l + 1) # Core(l) /\ l < Len(work) - 1

RunLayer ==
  /\ layer < Len(work)
  /\ LET c    == Core(layer)
         end  == Start(layer) + work[layer + 1]
         free == IF HandsOver(layer) THEN end + FifoTime ELSE end
     IN /\ progress' = [progress EXCEPT ![c] = free]
        /\ starts' = Append(starts, Start(layer))
        /\ arrivals' = Append(arrivals, free)
        /\ now' = Latest(progress')
  /\ layer' = layer + 1 /\ UNCHANGED work

Next == RunLayer
Spec == Init /\ [][Next]_vars
----------------------------------------------------------------------------
TypeOK == layer \in 0..Len(work) /\ now = Latest(progress)

(* A layer starts only when the activation of the layer before has reached *)
(* its core, whichever core that is.                                       *)
ActivationHasArrived == \A i \in DOMAIN starts : starts[i] >= arrivals[i]

(* Pipelined or not, the cores never work at the same time: the span of a  *)
(* token is the serial sum of its layers and transfers.                    *)
Cost(l) == work[l] + IF HandsOver(l - 1) THEN FifoTime ELSE 0
Serial[l \in 0..Len(work)] == IF l = 0 THEN 0 ELSE Serial[l - 1] + Cost(l)
SpanIsSerial == now = Serial[layer]
============================================================================
