--------------------------- MODULE DmaDescriptors ---------------------------
(***************************************************************************)
(* Descriptor chains: a weight transfer is cut into descriptors of bounded *)
(* fields, the descriptors are encoded into words of memory, and the       *)
(* executor decodes and performs them one by one until one says it is the  *)
(* last.                                                                   *)
(***************************************************************************)
EXTENDS Integers, Sequences, FiniteSets

CONSTANTS
    Totals,     \* transfer sizes in bytes
    Chunks,     \* chunk sizes asked for
    SramBases, DramBases,
    MaxSize,    \* the largest transfer of one descriptor (4096), encoded as 0
    SramField,  \* the addresses the descriptor's buffer address can name (2^16)
    SramSize,   \* bytes of the buffer
    DramSize    \* bytes of the memory

DescriptorAssumption ==
    /\ Totals \subseteq Nat /\ Chunks \subseteq Nat \ {0}
    /\ SramBases \subseteq Nat /\ DramBases \subseteq Nat
    /\ MaxSize \in Nat \ {0} /\ SramField \in Nat
    /\ SramSize \in Nat /\ DramSize \in Nat

VARIABLES
    request,    \* the transfer: total, chunk, sram and dram base, direction
    remaining,  \* bytes no descriptor covers yet
    chain,      \* the encoded descriptors
    done,       \* descriptors already performed
    sram, dram, \* contents; initially each byte is known by its address
    status      \* "build", "run", "done", "raised", "runaway"

vars == <<request, remaining, chain, done, sram, dram, status>>

-----------------------------------------------------------------------------
Requests == [total : Totals, chunk : Chunks, sram : SramBases, dram : DramBases,
             op : {"DMA_LDD", "DMA_STD"}]

Lesser(a, b) == IF a <= b THEN a ELSE b

\* what __post_init__ accepts
Valid(d) == d.size \in 0..MaxSize /\ d.sram \in 0..(SramField - 1)

\* the word of a descriptor, and the descriptor of a word
Encode(d) == [d EXCEPT !.size = IF @ = MaxSize THEN 0 ELSE @, !.sram = @ % SramField]

\* Faulty: a size field of zero is taken at its word.
EncodedSize(d) == d.size

ActualSize(d) == IF d.size = 0 THEN MaxSize ELSE d.size

Init ==
    /\ request \in Requests
    /\ remaining = request.total
    /\ chain = <<>> /\ done = 0
    /\ sram = [b \in 0..(SramSize - 1) |-> <<"sram", b>>]
    /\ dram = [b \in 0..(DramSize - 1) |-> <<"dram", b>>]
    /\ status = "build"

\* the descriptor of the next turn of the loop in build_weight_load_chain
NextDescriptor ==
    LET offset == request.total - remaining IN
    [dram |-> request.dram + offset, sram |-> request.sram + offset,
     size |-> Lesser(request.chunk, remaining), last |-> remaining <= request.chunk]

AddDescriptor ==
    /\ status = "build" /\ remaining > 0 /\ Valid(NextDescriptor)
    /\ chain' = Append(chain, Encode(NextDescriptor))
    /\ remaining' = remaining - NextDescriptor.size
    /\ UNCHANGED <<request, done, sram, dram, status>>

RefuseDescriptor ==
    /\ status = "build" /\ remaining > 0 /\ ~Valid(NextDescriptor)
    /\ status' = "raised"
    /\ UNCHANGED <<request, remaining, chain, done, sram, dram>>

ChainBuilt ==
    /\ status = "build" /\ remaining = 0
    /\ status' = "run"
    /\ UNCHANGED <<request, remaining, chain, done, sram, dram>>

-----------------------------------------------------------------------------
\* past the written descriptors the memory holds zeros: a word that is not last
Running == status = "run" /\ done < Len(chain)
Now == chain[done + 1]

\* bytes of the memory that a transfer reaches; slices stop at its end
Reached(d) == {k \in 0..(ActualSize(d) - 1) : d.dram + k < DramSize}
InSram(d, n) == d.sram + n <= SramSize

AfterDescriptor ==
    /\ done' = done + 1
    /\ status' = IF Now.last THEN "done" ELSE "run"
    /\ UNCHANGED <<request, remaining, chain>>

LoadFits == InSram(Now, Cardinality(Reached(Now)))
\* a slice takes as many bytes as it has, or a single byte
StoreFits ==
    /\ InSram(Now, ActualSize(Now))
    /\ Cardinality(Reached(Now)) = ActualSize(Now) \/ ActualSize(Now) = 1

\* execute_load
Load ==
    /\ Running /\ request.op = "DMA_LDD" /\ LoadFits
    /\ sram' = [b \in DOMAIN sram |-> IF b - Now.sram \in Reached(Now)
                                      THEN dram[Now.dram + b - Now.sram] ELSE sram[b]]
    /\ UNCHANGED dram
    /\ AfterDescriptor

\* execute_store
Store ==
    /\ Running /\ request.op = "DMA_STD" /\ StoreFits
    /\ dram' = [b \in DOMAIN dram |-> IF b - Now.dram \in Reached(Now)
                                      THEN sram[Now.sram + b - Now.dram] ELSE dram[b]]
    /\ UNCHANGED sram
    /\ AfterDescriptor

OverflowRaises ==
    /\ Running
    /\ IF request.op = "DMA_LDD" THEN ~LoadFits ELSE ~StoreFits
    /\ status' = "raised"
    /\ UNCHANGED <<request, remaining, chain, done, sram, dram>>

\* No descriptor said it was the last: the loop goes on for ever.
RunsAway ==
    /\ status = "run" /\ done = Len(chain)
    /\ status' = "runaway"
    /\ UNCHANGED <<request, remaining, chain, done, sram, dram>>

Next == AddDescriptor \/ RefuseDescriptor \/ ChainBuilt \/ Load \/ Store
           \/ OverflowRaises \/ RunsAway

Spec == Init /\ [][Next]_vars /\ WF_vars(Next)

-----------------------------------------------------------------------------
\* A performed chain built by build_weight_load_chain, of a transfer inside the
\* memory, has moved the bytes that were asked for and no others, whatever the chunk
\* size, also when a descriptor's size is the one the field encodes as zero.
MovesExactlyTheRequest ==
    status = "done" /\ request.dram + request.total <= DramSize =>
        LET InBlock(b, base) == b - base \in 0..(request.total - 1) IN
        /\ \A b \in DOMAIN sram : sram[b] =
              IF request.op = "DMA_LDD" /\ InBlock(b, request.sram)
              THEN <<"dram", request.dram + b - request.sram>> ELSE <<"sram", b>>
        /\ \A b \in DOMAIN dram : dram[b] =
              IF request.op = "DMA_STD" /\ InBlock(b, request.dram)
              THEN <<"sram", request.sram + b - request.dram>> ELSE <<"dram", b>>

\* The loop over a chain of a transfer that is not empty finds a last descriptor:
\* step never reads words that are no descriptors.
ChainHasLast == status = "runaway" => request.total = 0

\* Executing a chain comes to an end.
Asked == request.total > 0
Ended == status \in {"done", "raised"}
ChainEnds == Asked ~> Ended

=============================================================================
