------------------------------ MODULE Engines ------------------------------
(***************************************************************************)
(* The eight matrix engines (sim/engine): an engine is created once, its   *)
(* bandwidth fixed by the memory access plan, and asked for estimates.     *)
(* Cycle counts that are floats in the code are exact fractions here: a    *)
(* number of ticks, and the ticks that make a cycle (its rate).            *)
(***************************************************************************)
EXTENDS Integers, FiniteSetsExt

CONSTANTS
    H, W,                      \* array_height, array_width
    OpsPerMac,
    WeightBits, ActBits,
    RawBw, DramBw, OnChipBw,   \* bw_raw and the two values of eff_bw_weight, bytes per cycle
    KvBw, Penalty,             \* eff_bw_kv, random_latency_penalty_cycles
    WBuf, KvBuf,               \* shares of the SRAM in bytes
    SubK, SubM, SubN, SubCycles, Descriptor,    \* tensor core sub-tile
    FragM, FragK, FragN, FragCycles, Startup,   \* WMMA fragment
    ScaleNum, ScaleDen,        \* gmma.pipeline_scale
    SoftmaxOverhead,
    Ms, Ks, Ns                 \* sizes of the matrices

VARIABLES engine,     \* engine_type
          resident,   \* all the weights are in a tier of their own, none is spilled
          call,       \* the last call
          result      \* and its EngineResult

vars == <<engine, resident, call, result>>

EngineIds == {"systolic", "os_systolic", "block", "tensor_core",
              "wmma", "gmma", "input_stationary", "fsa"}

-----------------------------------------------------------------------------
CeilDiv(a, b) == (a + b - 1) \div b
Larger(a, b)  == IF a > b THEN a ELSE b
Peak          == H * W * OpsPerMac

(* Bytes per cycle of sequential transfers. *)
EffBw == IF resident THEN OnChipBw ELSE DramBw

(* _dram_eff_for_bytes is Gain / Loss; nothing is transferred while the    *)
(* weights fit the buffer.                                                 *)
Cached(w)       == w > 0 /\ w <= WBuf
Gain(w, buffer) == 33 * w + 190 * buffer
Loss(w, buffer) == 60 * w + 200 * buffer
Rate(w)         == EffBw * (IF w <= WBuf THEN 1 ELSE Gain(w, WBuf))


(* Ticks at rate Rate(w) of a sequential transfer and of w bytes of weights. *)
Sequential(bytes, w) == bytes * (Rate(w) \div EffBw)
WeightTicks(w)       == IF w <= WBuf THEN 0 ELSE w * Loss(w, WBuf)

Weights(k, n)      == (k * n * WeightBits) \div 8
Activations(m, k)  == (m * k * ActBits) \div 8
TileWeights        == CeilDiv(H * W * WeightBits, 8)
TileActivations(m) == CeilDiv(m * H * ActBits, 8)

Result(compute, dma, total, macs, raw) ==
    [compute |-> compute, dma |-> dma, total |-> total,
     ideal |-> CeilDiv(macs, Peak), macs |-> macs, raw |-> raw]

(* Double buffering: the first tile is loaded, then computed; each other   *)
(* one takes the longer of the two.                                        *)
Pipelined(tiles, cycles, ticks, rate) ==
    (ticks + cycles * rate + (tiles - 1) * Larger(cycles * rate, ticks)) \div rate

(* An engine of tiles reports as DMA what computing does not explain; a    *)
(* byte is a tick, EffBw of them a cycle.                                  *)
TileResult(tiles, cycles, bytes, macs, raw) ==
    LET total == Pipelined(tiles, cycles, bytes, EffBw)
    IN  Result(cycles * tiles, total - cycles * tiles, total, macs, CeilDiv(raw, EffBw))

Raw(m, k, n) == Weights(k, n) + Activations(m, k)

(* Rows of the last of the tiles of `size' that m rows are cut into. *)
LastRows(m, size) == m - (CeilDiv(m, size) - 1) * size

Tiles(k, n) == CeilDiv(k, H) * CeilDiv(n, W)

-----------------------------------------------------------------------------
(* Faulty: the drain of all but the last tile of rows is left out. *)
LastTileOnly(m) == H + W + LastRows(m, H)

PerKTileCompute(m) ==
    (CeilDiv(m, H) - 1) * (2 * H + W) + H + W + LastRows(m, H)

Systolic(m, k, n) ==
    TileResult(Tiles(k, n), PerKTileCompute(m), TileWeights + TileActivations(m),
               m * k * n, Raw(m, k, n))

SystolicPair(m, k, n) ==
    LET bytes   == 2 * TileWeights + TileActivations(m)
        compute == 2 * (m + W) + 1
        nTiles  == CeilDiv(n, W)
        perK    == (H + W) * EffBw + bytes + compute * EffBw
                     + (nTiles - 1) * Larger(bytes, compute * EffBw) + (m + H) * EffBw
        total   == (CeilDiv(k, H) * perK) \div EffBw
    IN  Result(compute * Tiles(k, n), total - compute * Tiles(k, n), total,
               2 * m * k * n, CeilDiv(2 * Raw(m, k, n), EffBw))

-----------------------------------------------------------------------------
(* BROADCAST_SYNC_CYCLES and _accumulate_cycles. *)
Broadcast == 2 + Min({3, (WeightBits + ActBits) \div 8 + 1})

OutputStationary(m, k, n) ==
    LET compute == ((CeilDiv(m, H) - 1) * (H + Broadcast) + LastRows(m, H) + Broadcast)
                     * Tiles(k, n)
        floor   == CeilDiv(Raw(m, k, n), RawBw)
        macs    == m * k * n
    IN  Result(compute, compute, Max({compute, CeilDiv(macs, Peak), floor}), macs, floor)

OutputStationaryPair(m, k, n) ==
    LET w       == (2 * k * n * WeightBits) \div 8
        dma     == (WeightTicks(w) + Sequential(Activations(m, k), w)) \div Rate(w)
        compute == 2 * (H + Broadcast) * Tiles(k, n)
    IN  Result(compute, dma, Larger(compute, dma), 2 * m * k * n, dma)

(* The rows pass one after the other and share a load of the weights. *)
Block(m, k, n) ==
    LET w       == Weights(k, n)
        dma     == CeilDiv(m, H) * WeightTicks(w) + m * Sequential(Activations(1, k), w)
        compute == m * (H + Broadcast) * Tiles(k, n)
    IN  Result(compute, dma \div Rate(w), Larger(compute, dma \div Rate(w)),
               m * k * n, CeilDiv(Raw(m, k, n), EffBw))

BlockPair(m, k, n) ==
    LET dma     == Tiles(k, n) * (CeilDiv(m, H) * 2 * TileWeights + m * TileActivations(1))
        compute == m * 2 * Broadcast * Tiles(k, n)
    IN  Result(compute, dma \div EffBw, Larger(compute, dma \div EffBw),
               2 * m * k * n, CeilDiv(2 * Raw(m, k, n), EffBw))

-----------------------------------------------------------------------------
Scaled(m) == Max({1, CeilDiv((H + m + W) * ScaleNum, ScaleDen)})

Gmma(m, k, n) ==
    LET w       == Weights(k, n)
        dma     == CeilDiv(WeightTicks(w) + Sequential(Activations(m, k), w), Rate(w))
        compute == Scaled(m) * Tiles(k, n)
        floor   == CeilDiv(Raw(m, k, n), RawBw)
        macs    == m * k * n
    IN  Result(compute, dma, Max({compute, CeilDiv(macs, Peak), floor, dma}), macs, floor)

GmmaPair(m, k, n) ==
    LET bytes   == 2 * TileWeights + TileActivations(m)
        dma     == CeilDiv(Tiles(k, n) * bytes, EffBw)
        floor   == CeilDiv(2 * Raw(m, k, n), RawBw)
        macs    == 2 * m * k * n
        total   == Pipelined(Tiles(k, n), 2 * Scaled(m), bytes, EffBw)
    IN  Result(2 * Scaled(m) * Tiles(k, n), dma,
               Max({total, CeilDiv(macs, Peak), floor, dma}), macs, floor)

-----------------------------------------------------------------------------
(* Sub-tiles go to the cores in waves; `count' is 2 for a pair.  A wave    *)
(* but the last is charged whole sub-tiles, the last what is left of them. *)
NumTcs == (H * W) \div (SubM * SubN)

Extent(index, size, sub) == IF index = CeilDiv(size, sub) - 1 THEN LastRows(size, sub) ELSE sub

SubTileBytes(i, m, k, n, count) ==
    LET subN == CeilDiv(n, SubN)
        subK == CeilDiv(k, SubK)
        kEff == Extent((i \div subN) % subK, k, SubK)
    IN  count * CeilDiv(kEff * Extent(i % subN, n, SubN) * WeightBits, 8)
          + CeilDiv(Extent(i \div (subN * subK), m, SubM) * kEff * ActBits, 8)

TensorCore(m, k, n, count) ==
    LET invocations == CeilDiv(k, SubK) * CeilDiv(m, SubM) * CeilDiv(n, SubN)
        waves   == CeilDiv(invocations, NumTcs)
        first   == NumTcs * (waves - 1)
        compute == count * SubCycles * EffBw
        full    == NumTcs * (count * CeilDiv(SubK * SubN * WeightBits, 8)
                               + CeilDiv(SubM * SubK * ActBits, 8) + Descriptor * EffBw)
        last    == MapThenSumSet(LAMBDA i : SubTileBytes(i, m, k, n, count) + Descriptor * EffBw,
                                 first..invocations - 1)
        steady  == Larger(compute, full)
        total   == CASE waves = 1 -> last + compute
                     [] waves > 1 /\ invocations = NumTcs * waves ->
                            full + compute + (waves - 1) * steady
                     [] OTHER -> full + compute + (waves - 2) * steady + Larger(compute, last)
        cycles  == waves * count * SubCycles
    IN  Result(cycles, total \div EffBw - cycles, total \div EffBw,
               count * m * k * n, CeilDiv(count * Raw(m, k, n), EffBw))

-----------------------------------------------------------------------------
FragmentsPerTile(m, k, n) ==
    (CeilDiv(m, FragM) * CeilDiv(k, FragK) * CeilDiv(n, FragN))
        \div (CeilDiv(m, H) * Tiles(k, n))

Wmma(m, k, n, count) ==
    LET fragments == FragmentsPerTile(m, k, n)
    IN  TileResult(CeilDiv(m, H) * Tiles(k, n), count * fragments * FragCycles,
                   fragments * Startup * EffBw + count * TileWeights + TileActivations(m),
                   count * m * k * n, Raw(m, k, n))

(* A tile spans the whole reduction, whatever its depth. *)
InputStationary(m, k, n, count) ==
    TileResult(CeilDiv(m, H) * CeilDiv(n, W), count * (CeilDiv(k, H) + H + W),
               count * CeilDiv(k * Min({n, W}) * WeightBits, 8) + CeilDiv(H * k * ActBits, 8),
               count * m * k * n, count * Raw(m, k, n))

-----------------------------------------------------------------------------
(* The whole transfer is divided by the efficiency of the weights', or by  *)
(* a hundredth when they are cached.                                       *)
Fsa(m, k, n) ==
    LET w       == Weights(k, n)
        act     == Activations(m, k)
        compute == Tiles(k, n) * CeilDiv(m, H) * (H + m + W)
        ticks   == CASE w = 0     -> act
                     [] Cached(w) -> act * 100
                     [] OTHER     -> (w + act) * Loss(w, WBuf)
        dma     == Larger(ticks \div Rate(w), compute \div 20)
    IN  Result(compute, dma, Larger(compute, dma), m * k * n, CeilDiv(Raw(m, k, n), RawBw))

FsaPair(m, k, n) ==
    LET r == Fsa(m, k, n)
    IN  [compute |-> 2 * r.compute, dma |-> 2 * r.dma, total |-> 2 * r.total,
         ideal |-> 2 * r.ideal, macs |-> 2 * r.macs, raw |-> r.raw]

(* q queries over kv keys in heads of width d. *)
Attention(q, kv, d, heads, kvHeads) ==
    LET compute == (CeilDiv(q, H) * CeilDiv(kv, W) * (H + SoftmaxOverhead)
                      + CeilDiv(q, H) * CeilDiv(d, W) * (H + 3)) * kvHeads
        kvBytes == kvHeads * kv * d * (ActBits \div 8) * 2
        qBytes  == heads * q * d * (ActBits \div 8)
        rate    == KvBw * Gain(kvBytes, KvBuf)
        dma     == (EffBw * (kvBytes * Loss(kvBytes, KvBuf) + Penalty * rate) + qBytes * rate)
                     \div (rate * EffBw)
    IN  Result(compute, dma, Larger(compute, dma), 2 * kvHeads * q * kv * d,
               CeilDiv(kvBytes + qBytes, EffBw))

-----------------------------------------------------------------------------
Estimate(e, m, k, n) ==
    CASE e = "systolic"         -> Systolic(m, k, n)
      [] e = "os_systolic"      -> OutputStationary(m, k, n)
      [] e = "block"            -> Block(m, k, n)
      [] e = "tensor_core"      -> TensorCore(m, k, n, 1)
      [] e = "wmma"             -> Wmma(m, k, n, 1)
      [] e = "gmma"             -> Gmma(m, k, n)
      [] e = "input_stationary" -> InputStationary(m, k, n, 1)
      [] e = "fsa"              -> Fsa(m, k, n)

EstimatePair(e, m, k, n) ==
    CASE e = "systolic"         -> SystolicPair(m, k, n)
      [] e = "os_systolic"      -> OutputStationaryPair(m, k, n)
      [] e = "block"            -> BlockPair(m, k, n)
      [] e = "tensor_core"      -> TensorCore(m, k, n, 2)
      [] e = "wmma"             -> Wmma(m, k, n, 2)
      [] e = "gmma"             -> GmmaPair(m, k, n)
      [] e = "input_stationary" -> InputStationary(m, k, n, 2)
      [] e = "fsa"              -> FsaPair(m, k, n)

None == [kind |-> "none"]

(* create_engine: the plan decides once where the weights come from. *)
Init ==
    /\ engine \in EngineIds /\ resident \in BOOLEAN
    /\ call = None /\ result = None

(* EngineResult validates itself. *)
Answer(c, r) ==
    /\ call' = c
    /\ result' = IF r.macs <= 0 \/ r.dma < 0 THEN None ELSE r
    /\ UNCHANGED <<engine, resident>>

Call(kind, m, k, n) == [kind |-> kind, m |-> m, k |-> k, n |-> n]

EstimateOne ==
    \E m \in Ms, k \in Ks, n \in Ns :
        Answer(Call("estimate", m, k, n), Estimate(engine, m, k, n))

EstimateTwo ==
    \E m \in Ms, k \in Ks, n \in Ns :
        Answer(Call("pair", m, k, n), EstimatePair(engine, m, k, n))

EstimateAttention ==
    /\ engine = "fsa"
    /\ \E m \in Ms, k \in Ks, n \in Ns, kvHeads \in {1, 2} :
           Answer(Call("attention", m, k, n), Attention(m, k, n, 2, kvHeads))

(* Matrices without elements are refused. *)
Refuse ==
    \E kind \in {"estimate", "pair"}, k \in Ks, n \in Ns :
        call' = Call(kind, 0, k, n) /\ result' = None /\ UNCHANGED <<engine, resident>>

Next == EstimateOne \/ EstimateTwo \/ EstimateAttention \/ Refuse

Spec == Init /\ [][Next]_vars
-----------------------------------------------------------------------------
(* Every matrix with elements gets an estimate: no engine computes a count *)
(* its own result type refuses (mac_engine.py:51).                         *)
Answered == call # None /\ call.m > 0 => result # None

(* An estimate never beats the peak rate of the array, whatever the tiling *)
(* and the last partial tile come to.  Three estimates leave the depth of  *)
(* a dimension out of their cost and are not held to it.                   *)
LeavesOutADimension ==
    \/ engine = "input_stationary" \/ call.kind = "attention"
    \/ engine = "os_systolic" /\ call.kind = "pair"
ComputeFloor == result # None /\ ~LeavesOutADimension => result.total >= result.ideal

(* Nor the bandwidth: what an engine has to load crosses the memory        *)
(* interface once, at the faster of the bandwidths it counts with.  Two    *)
(* engines take weights that fit the buffer to be in it already and charge *)
(* nothing for them, so that their estimates may be below the raw_dma      *)
(* cycles they report beside them; the activations are left.               *)
TakenAsCached(k, n) == engine \in {"block", "fsa"} /\ Weights(k, n) <= WBuf
MustLoad(m, k, n) == Activations(m, k) + (IF TakenAsCached(k, n) THEN 0 ELSE Weights(k, n))
DmaFloor ==
    result # None /\ call.kind = "estimate" =>
        result.total >= MustLoad(call.m, call.k, call.n) \div Larger(EffBw, RawBw)

(* A product of one more row is never cheaper, across the boundaries of    *)
(* the tiles.                                                              *)
MoreRowsCostMore ==
    result # None /\ call.kind = "estimate"
        => Estimate(engine, call.m + 1, call.k, call.n).total >= result.total
=============================================================================
