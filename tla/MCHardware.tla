----------------------------- MODULE MCHardware -----------------------------
(***************************************************************************)
(* Model-checking instances of the hardware models with state: placement   *)
(* in the memory hierarchy, transfers, shared resources and the pipeline   *)
(* of several cores.  The components do not share state; `part' says which *)
(* of them a behaviour is of, and x1 to x10 hold its variables, in the     *)
(* order of its tuple vars.                                                *)
(***************************************************************************)
EXTENDS Integers, Sequences, TLC

CONSTANTS  \* of the tiers, channels, shared resources, cores and the cache, to be chosen
    TierCount, TierCapacity, TierReserve, TierOnChip, Tensors, MaxTensors, ModelCounts,
    ChannelCount, DmaSizes, DmaBlocks, DmaBurst, DmaOverhead, DmaFifoDepth, DmaBytesPerCycle,
    DmaRequests,
    UnitMembers, UnitCapacity, UnitCounts,
    ServerMembers, ServerBandwidth, ServerBytes, ServerPriorities, ServerTime,
    CoreCount, CoreWork, CoreTransfer, CoreLayers,
    CacheConfigs, CacheTokenValues, CacheLayers, CacheContext, CacheSramBw, CacheHit, CacheTokens

VARIABLES part, x1, x2, x3, x4, x5, x6, x7, x8, x9, x10

state == <<part, x1, x2, x3, x4, x5, x6, x7, x8, x9, x10>>

-----------------------------------------------------------------------------
(* Three tiers, the middle one on-chip memory; up to four tensors that fit *)
(* one tier, two, or none.                                                 *)
MCTierCapacity == <<4, 5, 9>>
MCTierReserve == <<1, 1, 2>>
MCTensors == [category : {"weight", "kv", "activation", "queue"}, bytes : {0, 2, 3, 6}]

Memory == INSTANCE Residency WITH
    NumTiers <- TierCount, Capacity <- TierCapacity, Reserve <- TierReserve,
    OnChip <- TierOnChip, Items <- Tensors, MaxItems <- MaxTensors, Models <- ModelCounts,
    items <- x1, models <- x2, allow_spill <- x3,
    allocations <- x4, placements <- x5, status <- x6

(* Two channels for three types of request; a request below and one above  *)
(* the depth of the FIFO.                                                  *)
Channels == INSTANCE DmaModel WITH
    NumChannels <- ChannelCount, Sizes <- DmaSizes, Blocks <- DmaBlocks, Burst <- DmaBurst,
    Overhead <- DmaOverhead, FifoDepth <- DmaFifoDepth, BytesPerCycle <- DmaBytesPerCycle,
    MaxRequests <- DmaRequests,
    arbitration <- x1, queues <- x2, estimate <- x3, arrivals <- x4

(* Payloads of two dwords, requests of none, one and a half and two of     *)
(* them, inside, across the end of and outside both memories.              *)
Pcie == INSTANCE PcieDma WITH
    HostBytes <- [i \in 1..9 |-> i],
    NpuBytes <- <<[i \in 1..4 |-> 10 + i], [i \in 1..3 |-> 20 + i]>>, Base <- <<16, 32>>,
    Dw <- 2, MaxPayload <- 4, Tags <- {0, 1},
    HostAddrs <- {1, 6}, NpuAddrs <- {15, 18, 32}, Lengths <- {0, 3, 6}, MaxRequests <- 2,
    host <- x1, npu <- x2, free <- x3, cplError <- x4, axiError <- x5,
    status <- x6, irq <- x7, op <- x8, before <- x9, requests <- x10

Units == INSTANCE CountedResources WITH
    Members <- UnitMembers, Capacity <- UnitCapacity, Units <- UnitCounts,
    allocated <- x1, holders <- x2

Server == INSTANCE ByteServer WITH
    Members <- ServerMembers, Bandwidth <- ServerBandwidth, Bytes <- ServerBytes,
    Priorities <- ServerPriorities, MaxTime <- ServerTime,
    server <- x1, mode <- x2, at <- x3, now <- x4

(* Layers without work, and more layers than cores. *)
Cores == INSTANCE Multicore WITH
    NumCores <- CoreCount, WorkChoices <- CoreWork, FifoTime <- CoreTransfer,
    MaxLayers <- CoreLayers,
    work <- x1, layer <- x2, progress <- x3, now <- x4, starts <- x5, arrivals <- x6

(* An array of four by four with wide weights, so that many estimates are  *)
(* bound by the memory; sizes below, at and above the side of the array,   *)
(* weights that fit the buffer and that do not.                            *)
Array == INSTANCE Engines WITH
    H <- 4, W <- 4, OpsPerMac <- 2, WeightBits <- 16, ActBits <- 8,
    RawBw <- 3, DramBw <- 2, OnChipBw <- 5, KvBw <- 1, Penalty <- 2, WBuf <- 64, KvBuf <- 20,
    SubK <- 4, SubM <- 2, SubN <- 2, SubCycles <- 7, Descriptor <- 1,
    FragM <- 2, FragK <- 2, FragN <- 2, FragCycles <- 20, Startup <- 2,
    ScaleNum <- 1, ScaleDen <- 20, SoftmaxOverhead <- 2,
    Ms <- {1, 4, 5, 8, 9}, Ks <- {3, 4, 7, 16}, Ns <- {1, 4, 6},
    engine <- x1, resident <- x2, call <- x3, result <- x4

(* With and without SRAM and on-chip memory, elements of half a byte to    *)
(* two; windows of no token, of some and of all.                           *)
MCCacheConfigs ==
    [sram : {0, 4}, onchip : {0, 8}, onchip_bw : {3, 20}, type : {"LPDDR5", "HBM2"},
     capacity : {32}, bw : {5}, random : {50, 100}, penalty : {0, 4},
     bits : {4, 8, 16}, kv_sram : {3, 12}, region : {40}]

Cache == INSTANCE KvCache WITH
    Configs <- CacheConfigs, TokenValues <- CacheTokenValues, Layers <- CacheLayers,
    MaxContext <- CacheContext, SramBw <- CacheSramBw, Hit <- CacheHit, MaxTokens <- CacheTokens,
    config <- x1, tiers <- x2, plan <- x3, cache <- x4, pos <- x5, result <- x6, status <- x7

(* What the components suppose of their constants. *)
ASSUME HardwareAssumption ==
    /\ Memory!ResidencyAssumption /\ Channels!DmaAssumption /\ Units!ResourceAssumption
    /\ Server!ServerAssumption /\ Cores!MulticoreAssumption /\ Cache!CacheAssumption

-----------------------------------------------------------------------------
(* A component leaves the variables it does not need at 0. *)
Unused8 == x8 = 0 /\ x9 = 0 /\ x10 = 0
Unused7 == x7 = 0 /\ Unused8
Unused5 == x5 = 0 /\ x6 = 0 /\ Unused7
Unused3 == x3 = 0 /\ x4 = 0 /\ Unused5

Init ==
    \/ part = "memory"   /\ Memory!Init   /\ Unused7
    \/ part = "channels" /\ Channels!Init /\ Unused5
    \/ part = "pcie"     /\ Pcie!Init
    \/ part = "units"    /\ Units!Init    /\ Unused3
    \/ part = "server"   /\ Server!Init   /\ Unused5
    \/ part = "cores"    /\ Cores!Init    /\ Unused7
    \/ part = "array"    /\ Array!Init    /\ Unused5
    \/ part = "kv"       /\ Cache!Init    /\ Unused8

Next ==
    /\ UNCHANGED part
    /\ \/ part = "memory"   /\ Memory!Next   /\ UNCHANGED <<x7, x8, x9, x10>>
       \/ part = "channels" /\ Channels!Next /\ UNCHANGED <<x5, x6, x7, x8, x9, x10>>
       \/ part = "pcie"     /\ Pcie!Next
       \/ part = "units"    /\ Units!Next    /\ UNCHANGED <<x3, x4, x5, x6, x7, x8, x9, x10>>
       \/ part = "server"   /\ Server!Next   /\ UNCHANGED <<x5, x6, x7, x8, x9, x10>>
       \/ part = "cores"    /\ Cores!Next    /\ UNCHANGED <<x7, x8, x9, x10>>
       \/ part = "array"    /\ Array!Next    /\ UNCHANGED <<x5, x6, x7, x8, x9, x10>>
       \/ part = "kv"       /\ Cache!Next    /\ UNCHANGED <<x8, x9, x10>>

(* A transfer that was started goes on. *)
Spec == Init /\ [][Next]_state /\ WF_state(part = "pcie" /\ Pcie!Transfer /\ UNCHANGED part)

-----------------------------------------------------------------------------
(* Residency: no tier holds more than its capacity less its reserve, the   *)
(* plan accounts for every byte, and what leaves its fastest tier was      *)
(* displaced by priority (residency.py, the placement loop).  KvCache:     *)
(* what the plan placed is found by the name of its tier, and tokens cost  *)
(* what a window that slides over them makes them cost.                    *)
PlacedWhole ==
    /\ part = "memory" => /\ Memory!WithinCapacity /\ Memory!DisplacedByPriority
                          /\ Memory!PlacedWhole
    /\ part = "kv" => /\ Cache!TypeOK /\ Cache!OneTierPerName
                      /\ Cache!CostOfSlidingWindow /\ Cache!FailsBelowAByte

(* DmaModel: requests are served by priority, then in order; an estimate   *)
(* in call order leaves the queues as they were.                           *)
ServedInOrder ==
    /\ [](part = "channels" => Channels!TypeOK /\ Channels!ServedInOrder)
    /\ [][part = "channels" => Channels!NeutralStep]_state

(* DmaModel, violated: an estimate leaves the queues as they were          *)
(* (dma.py, estimate_weight_load).                                         *)
EstimateLeavesNoTrace == [][part = "channels" => Channels!TracelessStep]_state

(* PcieDma: a transfer writes its range and its padding only; a descriptor *)
(* reported with an error has moved nothing, a read reported without has   *)
(* moved its bytes, and a write those of its TLPs that end in host memory, *)
(* the others being skipped without a report; and every request comes to   *)
(* an end.                                                                 *)
ReportsTheTransfer ==
    /\ [](part = "pcie" => Pcie!TypeOK /\ Pcie!StaysInItsRange)
    /\ [][part = "pcie" => Pcie!ReportingStep]_state
    /\ (part = "pcie" /\ Pcie!Serving) ~> (part = "pcie" /\ ~Pcie!Serving)

(* CountedResources: units in use never exceed the capacity.               *)
(* ByteServer: the promised completion times fit the bandwidth; a newcomer *)
(* does not delay members of higher priority.                              *)
SharesWhatThereIs ==
    /\ [](part = "units" => Units!NeverOversold)
    /\ [](part = "server" => Server!TypeOK /\ Server!PromisesFitBandwidth)
    /\ [][part = "server" => Server!NewcomerStep]_state

(* Multicore: a layer starts after its activation has arrived, and the     *)
(* span is the serial sum of layers and transfers.                         *)
ActivationHasArrived ==
    part = "cores" => Cores!TypeOK /\ Cores!SpanIsSerial /\ Cores!ActivationHasArrived

=============================================================================
