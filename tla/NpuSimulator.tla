---------------------------- MODULE NpuSimulator ----------------------------
(***************************************************************************)
(* The system simulator walks over a trace of matrix products and lays     *)
(* each one, with the transfers, special functions and cache accesses that *)
(* belong to it, on the timeline of one core; a breakdown per layer is     *)
(* kept beside.  The timeline counts picoseconds, the simulator cycles.    *)
(***************************************************************************)
EXTENDS Integers, Sequences, SequencesExt

CONSTANTS
    Traces,       \* the traces simulated: sequences of Gemms
    GemmCost,     \* op -> cycles in all, of computing, of weight transfer
    PairCost,     \* the same for a merged gate and up projection
    NocCost, SfuCost, VectorCost,  \* op -> cycles
    KvAccess, KvSwitch,            \* cycles
    PsPerMega,    \* picoseconds in 10^6 / MHz cycles (10^6)
    Frequency,    \* MHz
    RefreshOneIn  \* the refresh overhead is one cycle in so many

\* Rounding to picoseconds loses less than a cycle over the events of one product.
SimulatorAssumption ==
    LET Ops == DOMAIN GemmCost
        Cost == [total : Nat, compute : Nat, dma : Nat]
    IN  /\ \A t \in Traces : Len(t) \in Nat /\ \A i \in 1..Len(t) : t[i].op \in Ops
        /\ GemmCost \in [Ops -> Cost] /\ PairCost \in Cost
        /\ NocCost \in [Ops -> Nat] /\ SfuCost \in [Ops -> Nat] /\ VectorCost \in [Ops -> Nat]
        /\ KvAccess \in Nat /\ KvSwitch \in Nat /\ RefreshOneIn \in Nat \ {0}
        /\ Frequency \in Nat \ {0} /\ PsPerMega \in Nat /\ 6 * (Frequency - 1) < PsPerMega

VARIABLES
    trace, mode, weightCache,  \* what is simulated
    turn,      \* products of the trace already simulated
    time,      \* the timeline: now and busy, its clock and the end of the last product
    events,    \* the events laid on it
    layers,    \* layer -> breakdown
    status     \* "run", "done"

vars == <<trace, mode, weightCache, turn, time, events, layers, status>>

-----------------------------------------------------------------------------
(* The timeline.                                                           *)

CeilDiv(a, b) == (a + b - 1) \div b

ToPs(cycles) == CeilDiv(cycles * PsPerMega, Frequency)
ToCycles(ps) == (ps * Frequency) \div PsPerMega

Parallel == {"dma", "noc"}

\* one call of add_mxu, add_sfu, ...: an event that starts now and moves the clock
AddEvent(tl, module, cycles, gemms) ==
    LET end == tl.now + ToPs(cycles) IN
    [now |-> end,
     busy |-> IF module = "mxu" /\ end > tl.busy THEN end ELSE tl.busy,
     events |-> Append(tl.events,
                   [module |-> module, gemms |-> gemms,
                    start |-> ToCycles(tl.now), end |-> ToCycles(end),
                    overlapped |-> module \in Parallel /\ ToPs(cycles) <= tl.busy - tl.now])]

\* Faulty: the clock stays where the transfer ended.
NotRestored(tl, cycle) == tl

\* the clock set back to a cycle by the simulator
RestoreTo(tl, cycle) == [tl EXCEPT !.now = ToPs(cycle)]

Timeline == [now |-> time.now, busy |-> time.busy, events |-> events]

-----------------------------------------------------------------------------
(* One product with what belongs to it.                                    *)

NoBreakdown == [mxu |-> 0, sfu |-> 0, vector |-> 0, kv |-> 0,
                effective |-> 0, hidden |-> 0, noc |-> 0, total |-> 0]
BreakdownOf(layer) == IF layer \in DOMAIN layers THEN layers[layer] ELSE NoBreakdown

\* the first product of a layer swaps the cache window in, in decoding
Switch(layer) == IF mode = "decode" /\ layer \notin DOMAIN layers THEN KvSwitch ELSE 0

Effective(cost) == IF cost.dma > cost.compute THEN cost.dma - cost.compute ELSE 0
Hidden(cost) == IF cost.dma < cost.compute THEN cost.dma ELSE cost.compute

\* the events of a product: transfers start when it ends, and the clock is set back
AfterGemm(cost, noc, gemms, layer) ==
    LET switched == IF Switch(layer) > 0
                    THEN AddEvent(Timeline, "kv", Switch(layer), {}) ELSE Timeline
        computed == AddEvent(switched, "mxu", cost.total, gemms)
        end == ToCycles(computed.now)
        loaded == RestoreTo(AddEvent(computed, "dma", cost.dma, {}), end)
    IN  RestoreTo(AddEvent(loaded, "noc", noc, {}), end)

\* special functions, vector work and the cache access after it
AfterRest(tl, sfu, vector) ==
    LET special == IF sfu > 0 THEN AddEvent(tl, "sfu", sfu, {}) ELSE tl
        added == IF vector > 0 THEN AddEvent(special, "vector", vector, {}) ELSE special
    IN  AddEvent(added, "kv", KvAccess, {})

Charged(layer, cost, noc, sfu, vector) ==
    LET b == BreakdownOf(layer) IN
    [b EXCEPT !.mxu = @ + cost.total, !.sfu = @ + sfu, !.vector = @ + vector,
              !.kv = @ + Switch(layer) + KvAccess,
              !.effective = @ + Effective(cost), !.hidden = @ + Hidden(cost),
              !.noc = @ + noc]

Lay(tl, layer, breakdown) ==
    /\ time' = [now |-> tl.now, busy |-> tl.busy]
    /\ events' = tl.events
    /\ layers' = [l \in DOMAIN layers \cup {layer} |->
                     IF l = layer THEN breakdown ELSE layers[l]]
    /\ UNCHANGED <<trace, mode, weightCache, status>>

-----------------------------------------------------------------------------
Init ==
    /\ trace \in Traces /\ mode \in {"decode", "prefill"}
    /\ weightCache \in BOOLEAN /\ (mode = "prefill" => ~weightCache)
    /\ turn = 0 /\ time = [now |-> 0, busy |-> 0] /\ events = <<>>
    /\ layers = <<>> /\ status = "run"

Simulating == status = "run" /\ turn < Len(trace)
Now == trace[turn + 1]

\* a gate projection followed by the up projection of the same operands and layer
Merges ==
    /\ weightCache /\ Now.op = "FFN_gate" /\ turn + 1 < Len(trace)
    /\ LET next == trace[turn + 2] IN
       next.op = "FFN_up" /\ next.shape = Now.shape /\ next.layer = Now.layer

\* Both at once; the total of the layer is not brought up to date.
MergedPair ==
    /\ Simulating /\ Merges
    /\ Lay(AfterRest(AfterGemm(PairCost, NocCost["FFN_gate"], {turn + 1, turn + 2}, Now.layer),
                     0, 0),
           Now.layer,
           Charged(Now.layer, PairCost, NocCost["FFN_gate"], 0, 0))
    /\ turn' = turn + 2

\* One product; prefilling does no vector work.
SingleGemm ==
    /\ Simulating /\ ~Merges
    /\ LET cost == GemmCost[Now.op]  noc == NocCost[Now.op]  sfu == SfuCost[Now.op]
           vector == IF mode = "decode" THEN VectorCost[Now.op] ELSE 0
           b == Charged(Now.layer, cost, noc, sfu, vector)
       IN  Lay(AfterRest(AfterGemm(cost, noc, {turn + 1}, Now.layer), sfu, vector), Now.layer,
               [b EXCEPT !.total = b.mxu + b.sfu + b.vector + b.kv + b.effective])
    /\ turn' = turn + 1

\* Refresh is charged on the whole.
Refresh ==
    /\ status = "run" /\ turn = Len(trace)
    /\ LET tl == AddEvent(Timeline, "kv", ToCycles(time.now) \div RefreshOneIn, {}) IN
       /\ time' = [now |-> tl.now, busy |-> tl.busy]
       /\ events' = tl.events
    /\ status' = "done"
    /\ UNCHANGED <<trace, mode, weightCache, turn, layers>>

Next == MergedPair \/ SingleGemm \/ Refresh

Spec == Init /\ [][Next]_vars

-----------------------------------------------------------------------------
Serial == {i \in DOMAIN events : events[i].module \notin Parallel}
Products == {i \in DOMAIN events : events[i].module = "mxu"}

\* Between products the clock shows the sum of what the layers were charged for
\* matrix, special function, vector and cache work: neither the transfers laid in
\* parallel by add_dma_parallel and add_noc nor the rounding to picoseconds moves it.
ClockIsSerialWork ==
    status = "run" =>
        ToCycles(time.now) =
            SumFunctionOnSet([l \in DOMAIN layers |-> layers[l].mxu + layers[l].sfu
                                                        + layers[l].vector + layers[l].kv],
                             DOMAIN layers)

\* Events of the serial units follow one another without overlap or gap, although the
\* simulator sets the clock back after every transfer.
SerialEventsFollow ==
    \A i, j \in Serial :
        i < j /\ Serial \cap (i + 1)..(j - 1) = {} => events[i].end = events[j].start

\* Every product of the trace is computed once, in the order of the trace, whether or
\* not gate and up projections are merged.
EachGemmOnce ==
    /\ UNION {events[i].gemms : i \in Products} = 1..turn
    /\ \A i, j \in Products : i < j => \A g \in events[i].gemms, h \in events[j].gemms : g < h

=============================================================================
