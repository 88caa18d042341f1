--------------------------- MODULE MCInstructions ---------------------------
(***************************************************************************)
(* Model-checking instances of the instruction path: what turns a trace    *)
(* into instructions, encodes, expands, executes and times them.  The      *)
(* components do not share state; `part' says which of them a behaviour is *)
(* of, and x1 to x8 hold its variables, in the order of its tuple vars.    *)
(***************************************************************************)
EXTENDS Integers, Sequences, SequencesExt, TLC

VARIABLES part, x1, x2, x3, x4, x5, x6, x7, x8

state == <<part, x1, x2, x3, x4, x5, x6, x7, x8>>

-----------------------------------------------------------------------------
(* The executor: three instructions over two operand areas, converted      *)
(* operands in the upper half of the buffer.  A norm may be over nothing;  *)
(* what a reduction or a pool of four elements leaves is one element.      *)
CONSTANT ExecutorOps

ExecutorLens ==
    [op \in ExecutorOps |->
        CASE op = "RMSNORM" -> {0, 1, 4}
          [] op \in {"MMUL", "VADD"} -> {1, 4}
          [] OTHER -> {4}]

Executor == INSTANCE GoldenExecutor WITH
    OpCodes <- ExecutorOps, Addrs <- {0, 8}, Lens <- ExecutorLens, MaxProgram <- 3,
    SramSize <- 56, ScratchBase <- 24, Align <- 4,
    program <- x1, turn <- x2, expanded <- x3, scratch <- x4,
    pc <- x5, sram <- x6, consumed <- x7, status <- x8

(* Sizes below, at and above what one descriptor may move. *)
CONSTANTS Totals, Chunks, SramBases, DramBases, MaxSize, SramField, LoadSram, DramSize

Descriptors == INSTANCE DmaDescriptors WITH
    SramSize <- LoadSram,
    request <- x1, remaining <- x2, chain <- x3, done <- x4,
    sram <- x5, dram <- x6, status <- x7

(* Operands at, below and above the widths of the fields.                  *)
Words == INSTANCE Isa WITH
    Samples <- {0, 6, 1365, 4103, 65535},
    instr <- x1, words <- x2, decoded <- x3

(* Products that fill one tile, two tiles in part, and an odd number of    *)
(* weights; extreme values.                                                *)
Matrix == INSTANCE GoldenMXU WITH
    Shapes <- {<<1, 1, 3>>, <<3, 2, 1>>, <<2, 1, 3>>, <<1, 3, 1>>, <<1, 5, 1>>},
    Activations <- {-128, 127}, Weights <- {-8, 7}, Scales <- {1, 3}, Groups <- {2},
    Height <- 2, Width <- 2, AccHalf <- 32768,
    shape <- x1, weights <- x2, packed <- x3, acts <- x4,
    blocks <- x5, tiles <- x6, result <- x7

(* Up to three products of two layers, two of which may merge.             *)
CONSTANTS SimulatedTraces, GemmCost, PairCost, NocCost, SfuCost, VectorCost,
          KvAccess, KvSwitch, PsPerMega, Frequency, RefreshOneIn

Products ==
    [op : {"Q_proj", "O_proj", "FFN_gate", "FFN_up", "FFN_down"}, shape : {1}, layer : {0, 1}]
        \cup [op : {"FFN_up"}, shape : {2}, layer : {0, 1}]
Cost(total, compute, dma) == [total |-> total, compute |-> compute, dma |-> dma]
MCSimulatedTraces == UNION {[1..n -> Products] : n \in 1..3}
MCGemmCost == [op \in {"FFN_gate", "FFN_up", "FFN_down"} |-> Cost(5, 4, 6)]
                @@ "Q_proj" :> Cost(4, 2, 3) @@ "O_proj" :> Cost(3, 3, 1)
MCPairCost == Cost(7, 6, 8)
MCNocCost == [op \in DOMAIN MCGemmCost |-> 2]
MCVectorCost == [op \in DOMAIN MCGemmCost |-> IF op \in {"O_proj", "FFN_down"} THEN 1 ELSE 0]
MCSfuCost == [op \in DOMAIN MCGemmCost |-> 3 * MCVectorCost[op]]

Simulator == INSTANCE NpuSimulator WITH
    Traces <- SimulatedTraces,
    trace <- x1, mode <- x2, weightCache <- x3, turn <- x4,
    time <- x5, events <- x6, layers <- x7, status <- x8

(* Traces of operations of two layers, which may alternate. *)
CONSTANT CompiledTraces
MCCompiledTraces ==
    UNION {[1..n -> [m : {1}, k : {2}, n : {3}, layer : {0, 1},
                     name : {"O_proj", "FFN_down", "FFN_up"}]] : n \in 0..4}

Compilation == INSTANCE Compiler WITH
    Traces <- CompiledTraces,
    trace <- x1, preloaded <- x2, program <- x3, prevLayer <- x4, done <- x5

(* What the components suppose of their constants. *)
ASSUME InstructionAssumptions ==
    /\ Executor!ExecutorAssumption /\ Descriptors!DescriptorAssumption
    /\ Words!IsaAssumption /\ Matrix!MxuAssumption /\ Simulator!SimulatorAssumption
    /\ Compilation!CompilerAssumption

-----------------------------------------------------------------------------
(* A component leaves the variables it does not need at 0. *)
Unused8 == x8 = 0
Unused6 == x6 = 0 /\ x7 = 0 /\ Unused8
Unused4 == x4 = 0 /\ x5 = 0 /\ Unused6

Init ==
    \/ part = "executor"    /\ Executor!Init
    \/ part = "descriptors" /\ Descriptors!Init /\ Unused8
    \/ part = "words"       /\ Words!Init       /\ Unused4
    \/ part = "matrix"      /\ Matrix!Init      /\ Unused8
    \/ part = "simulator"   /\ Simulator!Init
    \/ part = "compilation" /\ Compilation!Init /\ Unused6

Next ==
    /\ UNCHANGED part
    /\ \/ part = "executor"    /\ Executor!Next
       \/ part = "descriptors" /\ Descriptors!Next /\ UNCHANGED x8
       \/ part = "words"       /\ Words!Next       /\ UNCHANGED <<x4, x5, x6, x7, x8>>
       \/ part = "matrix"      /\ Matrix!Next      /\ UNCHANGED x8
       \/ part = "simulator"   /\ Simulator!Next
       \/ part = "compilation" /\ Compilation!Next /\ UNCHANGED <<x6, x7, x8>>

Spec == Init /\ [][Next]_state

-----------------------------------------------------------------------------
(* GoldenExecutor: with the conversions that _insert_dtype_converters puts *)
(* in, each chained operand is the result of the instruction before, but   *)
(* for operands of reductions and converted results of pools, which never  *)
(* are; what is converted overwrites neither the program's data nor        *)
(* another operand.                                                        *)
ReadsPredecessor ==
    part = "executor" => Executor!TypeOK /\ Executor!ConversionsApart /\ Executor!ReadsPredecessor

(* DmaDescriptors: a chain of build_weight_load_chain, executed word by    *)
(* word, moves the bytes asked for and no others, and has a last           *)
(* descriptor, where the executor's loop ends.                             *)
MovesExactlyTheRequest ==
    part = "descriptors" => Descriptors!ChainHasLast /\ Descriptors!MovesExactlyTheRequest

(* Isa: decode returns what encode was given, cut to its fields.           *)
(* GoldenMXU: the tiled product of unpacked weights is the product.        *)
ComputesItsReference ==
    /\ part = "words" => Words!DecodesToTruncation
    /\ part = "matrix" => Matrix!TiledIsProduct

(* NpuSimulator: the clock shows the serial work charged to the layers;    *)
(* the events of the serial units meet without overlap or gap; merging     *)
(* gate and up computes each product once, in order.                       *)
ClockIsSerialWork ==
    part = "simulator" =>
        Simulator!ClockIsSerialWork /\ Simulator!SerialEventsFollow /\ Simulator!EachGemmOnce

(* Compiler: a barrier lies between the work of two layers, and one KV     *)
(* entry is loaded for each entry into a layer.                            *)
BarrierBetweenLayers ==
    part = "compilation" =>
        Compilation!TypeOK /\ Compilation!EntersLayerOnce /\ Compilation!BarrierBetweenLayers
=============================================================================
