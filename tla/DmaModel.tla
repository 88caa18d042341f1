------------------------------ MODULE DmaModel -----------------------------
(***************************************************************************)
(* The channel queues of the bandwidth model (sim/models/dma.py): requests *)
(* are mapped to channels by type, queued in arrival or in priority order, *)
(* and costed per channel.  estimate_weight_load queues a request of its   *)
(* own, costs the queues and takes a request off again.                    *)
(***************************************************************************)
EXTENDS Integers, SequencesExt

CONSTANTS NumChannels, Sizes, Blocks,
          Burst, Overhead, FifoDepth, BytesPerCycle,  \* burst_size, descriptor_overhead, fifo_depth, eff_bw_weight
          MaxRequests                                 \* bound: enqueue calls

DmaAssumption ==
  /\ NumChannels \in Nat \ {0} /\ Sizes \subseteq Nat /\ Blocks \subseteq Nat
  /\ Burst \in Nat \ {0} /\ BytesPerCycle \in Nat \ {0}
  /\ Overhead \in Nat /\ FifoDepth \in Nat /\ MaxRequests \in Nat

VARIABLES arbitration, \* "round_robin" or "fixed_priority"
          queues,      \* channel_queues
          estimate,    \* the last result of estimate_weight_load
          arrivals     \* history: requests so far

vars == <<arbitration, queues, estimate, arrivals>>

(* allocate_channel and _REQUEST_TYPE_PRIORITY: both are a table over types. *)
Types    == {"weight_load", "kv_access", "output_store"}
Index    == [weight_load |-> 0, kv_access |-> 1, output_store |-> 2]
Channel(type)  == Index[type] % NumChannels
Priority(type) == 2 - Index[type]
CeilDiv(a, b)  == (a + b - 1) \div b
Request(type, size, blocks) == [type |-> type, size |-> size, blocks |-> blocks, arrival |-> arrivals]

(* Faulty: a request goes before its equals. *)
InsertedBefore(q, r) ==
  LET first == SelectInSeq(q, LAMBDA e : Priority(r.type) >= Priority(e.type))
  IN IF first = 0 THEN Append(q, r) ELSE InsertAt(q, first, r)

(* enqueue under fixed_priority: before the first request of lower priority. *)
Inserted(q, r) ==
  LET first == SelectInSeq(q, LAMBDA e : Priority(r.type) > Priority(e.type))
  IN IF first = 0 THEN Append(q, r) ELSE InsertAt(q, first, r)

Enqueued(qs, r) ==
  [qs EXCEPT ![Channel(r.type)] =
     IF arbitration = "fixed_priority" THEN Inserted(@, r) ELSE Append(@, r)]

(* estimate_transfer of a sequential access. *)
Transfer(size) ==
  IF size <= 0 THEN 0 ELSE Overhead + CeilDiv(size, BytesPerCycle) + CeilDiv(size, Burst)

(* estimate_channel_cycles with linked lists and prefetch. *)
LinkFetch(blocks) == IF blocks > 1 THEN blocks ELSE 1
RequestCycles(r) == Transfer(r.size) + r.blocks * Overhead + LinkFetch(r.blocks)
ChannelCycles(q) ==
  LET bytes == SumFunctionOnSet([i \in DOMAIN q |-> q[i].size], DOMAIN q)
      fifo  == FifoDepth * Burst
  IN SumFunctionOnSet([i \in DOMAIN q |-> RequestCycles(q[i])], DOMAIN q)
       + IF bytes > fifo THEN CeilDiv(bytes - fifo, Burst) ELSE 0

(* estimate_total_cycles: the busiest channel. *)
TotalCycles(qs) == Max({ChannelCycles(qs[c]) : c \in DOMAIN qs})

Init ==
  /\ arbitration \in {"round_robin", "fixed_priority"}
  /\ queues = [c \in 0..NumChannels - 1 |-> <<>>]
  /\ estimate = 0 /\ arrivals = 0

Enqueue ==
  /\ arrivals < MaxRequests /\ arrivals' = arrivals + 1
  /\ \E t \in Types, s \in Sizes, b \in Blocks : queues' = Enqueued(queues, Request(t, s, b))
  /\ UNCHANGED <<arbitration, estimate>>

WithoutLast(q) == Front(q)

EstimateWeightLoad ==
  \E s \in Sizes :
    LET with == Enqueued(queues, Request("weight_load", s, 1))
    IN /\ estimate' = TotalCycles(with)
       /\ queues' = [with EXCEPT ![Channel("weight_load")] = WithoutLast(@)]
       /\ UNCHANGED <<arbitration, arrivals>>

Next == Enqueue \/ EstimateWeightLoad
Spec == Init /\ [][Next]_vars
----------------------------------------------------------------------------
TypeOK ==
  /\ estimate \in Nat
  /\ \A c \in DOMAIN queues : \A i \in DOMAIN queues[c] : queues[c][i].type \in Types

(* Under fixed priority no request is queued behind one of lower priority, *)
(* and requests of one type on one channel keep the order of their calls.  *)
ServedInOrder ==
  \A c \in DOMAIN queues : \A i, j \in DOMAIN queues[c] :
    i < j =>
      LET a == queues[c][i]
          b == queues[c][j]
      IN /\ arbitration = "fixed_priority" => Priority(a.type) >= Priority(b.type)
         /\ a.type = b.type => a.arrival <= b.arrival

(* An estimate with what is already queued is never below the cost of the  *)
(* queue it joins, and costing the queues in call order changes none.      *)
NeutralStep ==
  arrivals' = arrivals /\ arbitration = "round_robin" =>
    queues' = queues /\ (estimate' # estimate => estimate' >= TotalCycles(queues))
EstimateIsNeutral == [][NeutralStep]_vars

(* dma.py:120 "then dequeues so callers see an unchanged queue state". *)
TracelessStep == arrivals' = arrivals => queues' = queues
EstimateLeavesNoTrace == [][TracelessStep]_vars
============================================================================
