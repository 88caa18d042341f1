------------------------- MODULE InstructionProofs -------------------------
(***************************************************************************)
(* The invariants that the run of the instruction path checks, for every   *)
(* value of the constants given to its components.  A behaviour keeps to   *)
(* one component; x1 to x8 are that component's variables, in the order of *)
(* its tuple vars.                                                         *)
(***************************************************************************)
EXTENDS MCInstructions, Sums, SequenceTheorems, FiniteSetTheorems, WellFoundedInduction, TLAPS

-----------------------------------------------------------------------------
(* DmaDescriptors: x1 request, x2 remaining, x3 chain, x4 done, x5 sram,   *)
(* x6 dram, x7 status.                                                     *)

\* the bytes of the transfer that the first n descriptors cover
Covered(request, chain, n) ==
    IF n = 0 THEN 0 ELSE chain[n].dram - request.dram + Descriptors!ActualSize(chain[n])

Descriptor == [dram : Nat, sram : Nat, size : 0..MaxSize, last : BOOLEAN]

ChainTypes ==
    /\ x1 \in Descriptors!Requests
    /\ x2 \in 0..x1.total
    /\ x3 \in Seq(Descriptor)
    /\ x4 \in 0..Len(x3)
    /\ x7 = "build" => x4 = 0
    /\ x7 \in {"run", "done", "runaway"} => x2 = 0

\* each descriptor goes on where the one before ended, the chain covers what
\* does not remain, and a descriptor is the last if it reaches the end
ChainCovers ==
    /\ \A i \in 1..Len(x3) :
          /\ x3[i].dram = x1.dram + Covered(x1, x3, i - 1)
          /\ x3[i].sram = x1.sram + Covered(x1, x3, i - 1)
          /\ x3[i].last <=> Covered(x1, x3, i) = x1.total
          /\ Covered(x1, x3, i - 1) \in 0..x1.total /\ Covered(x1, x3, i) \in 0..x1.total
          /\ Covered(x1, x3, i - 1) < Covered(x1, x3, i)
    /\ Covered(x1, x3, Len(x3)) = x1.total - x2

\* what the descriptors performed so far have moved
Contents ==
    x1.dram + x1.total <= DramSize =>
        /\ x5 = [b \in 0..(LoadSram - 1) |->
                    IF x1.op = "DMA_LDD" /\ b - x1.sram \in 0..(Covered(x1, x3, x4) - 1)
                    THEN <<"dram", x1.dram + b - x1.sram>> ELSE <<"sram", b>>]
        /\ x6 = [b \in 0..(DramSize - 1) |->
                    IF x1.op = "DMA_STD" /\ b - x1.dram \in 0..(Covered(x1, x3, x4) - 1)
                    THEN <<"sram", x1.sram + b - x1.dram>> ELSE <<"dram", b>>]

\* the loop has gone on past no descriptor that is the last
StopsAtLast ==
    /\ x7 \in {"run", "runaway"} /\ x4 > 0 => ~x3[x4].last
    /\ x7 = "done" => x4 > 0 /\ x3[x4].last
    /\ x7 = "runaway" => x4 = Len(x3)

ChainInv == ChainTypes /\ ChainCovers /\ Contents /\ StopsAtLast

(* The fields of a request are numbers. *)
LEMMA RequestTypes ==
    x1 \in Descriptors!Requests =>
        /\ x1.total \in Nat /\ x1.dram \in Nat /\ x1.sram \in Nat
        /\ x1.chunk \in Nat \ {0} /\ x1.op \in {"DMA_LDD", "DMA_STD"}
<1>1. /\ Totals \subseteq Nat /\ Chunks \subseteq Nat \ {0}
      /\ SramBases \subseteq Nat /\ DramBases \subseteq Nat
  BY InstructionAssumptions DEF InstructionAssumptions, Descriptors!DescriptorAssumption
<1>2. x1 \in Descriptors!Requests =>
        /\ x1.total \in Totals /\ x1.dram \in DramBases /\ x1.sram \in SramBases
        /\ x1.chunk \in Chunks /\ x1.op \in {"DMA_LDD", "DMA_STD"}
  BY DEF Descriptors!Requests
<1> QED BY <1>1, <1>2

(* The invariant holds before the first descriptor is built. *)
LEMMA ChainStarts == Descriptors!Init => ChainInv
<1> SUFFICES ASSUME Descriptors!Init PROVE ChainInv
  OBVIOUS
<1> USE InstructionAssumptions DEF InstructionAssumptions, Descriptors!DescriptorAssumption
<1>1. x1.total \in Nat /\ x1.dram \in Nat /\ x1.sram \in Nat
  BY RequestTypes DEF Descriptors!Init
<1>2. Covered(x1, x3, 0) = 0
  BY DEF Covered
<1>3. ChainTypes
  BY <1>1 DEF ChainTypes, Descriptors!Init
<1>4. ChainCovers
  BY <1>1, <1>2 DEF ChainCovers, Descriptors!Init
<1>5. Contents
  <2>1. /\ x4 = 0
        /\ x5 = [b \in 0..(LoadSram - 1) |-> <<"sram", b>>]
        /\ x6 = [b \in 0..(DramSize - 1) |-> <<"dram", b>>]
    BY DEF Descriptors!Init
  <2>2. Covered(x1, x3, x4) = 0
    BY <1>2, <2>1
  <2>3. \A n : n \notin 0..(Covered(x1, x3, x4) - 1)
    BY <2>2
  <2> QED BY <2>1, <2>3 DEF Contents
<1>6. StopsAtLast
  BY DEF StopsAtLast, Descriptors!Init
<1> QED BY <1>3, <1>4, <1>5, <1>6 DEF ChainInv

(* A valid descriptor is encoded and decoded without loss: the size that   *)
(* is encoded as zero is the largest (to_words, _decode_descriptor).       *)
LEMMA EncodedFaithfully ==
    ASSUME NEW d \in [dram : Nat, sram : Nat, size : Nat \ {0}, last : BOOLEAN],
           Descriptors!Valid(d)
    PROVE  /\ Descriptors!Encode(d) \in Descriptor
           /\ Descriptors!Encode(d).dram = d.dram
           /\ Descriptors!Encode(d).sram = d.sram
           /\ Descriptors!Encode(d).last = d.last
           /\ Descriptors!ActualSize(Descriptors!Encode(d)) = d.size
<1> USE InstructionAssumptions DEF InstructionAssumptions, Descriptors!DescriptorAssumption
<1>1. d.sram % SramField = d.sram
  BY DEF Descriptors!Valid
<1>2. Descriptors!Encode(d) =
         [d EXCEPT !.size = IF d.size = MaxSize THEN 0 ELSE d.size, !.sram = d.sram]
  BY <1>1 DEF Descriptors!Encode
<1>3. d.size \in 1..MaxSize /\ d.sram \in Nat /\ d.dram \in Nat /\ d.last \in BOOLEAN
  BY DEF Descriptors!Valid
<1>4. Descriptors!Encode(d) =
         [dram |-> d.dram, sram |-> d.sram,
          size |-> IF d.size = MaxSize THEN 0 ELSE d.size, last |-> d.last]
  BY <1>2
<1>5. (IF d.size = MaxSize THEN 0 ELSE d.size) \in 0..MaxSize
  BY <1>3
<1>6. Descriptors!Encode(d) \in Descriptor
  BY <1>3, <1>4, <1>5 DEF Descriptor
<1>7. Descriptors!ActualSize(Descriptors!Encode(d)) = d.size
  BY <1>3, <1>4 DEF Descriptors!ActualSize
<1> QED BY <1>4, <1>6, <1>7

(* A descriptor more: what the others cover stays. *)
LEMMA AddKeepsChain == ChainInv /\ Descriptors!AddDescriptor => ChainInv'
<1> SUFFICES ASSUME ChainInv, Descriptors!AddDescriptor PROVE ChainInv'
  OBVIOUS
<1> USE InstructionAssumptions DEF InstructionAssumptions, Descriptors!DescriptorAssumption
<1> DEFINE d == Descriptors!NextDescriptor
           e == Descriptors!Encode(d)
           n == Len(x3)
<1>0. /\ x1 \in Descriptors!Requests /\ x1.total \in Nat /\ x1.dram \in Nat /\ x1.sram \in Nat
      /\ x1.chunk \in Nat \ {0} /\ x2 \in 0..x1.total /\ x2 > 0
      /\ x3 \in Seq(Descriptor) /\ n \in Nat /\ x4 = 0 /\ x7 = "build"
  BY RequestTypes DEF ChainInv, ChainTypes, Descriptors!AddDescriptor
<1>1. /\ x3' = Append(x3, e) /\ x2' = x2 - d.size /\ Descriptors!Valid(d)
      /\ x1' = x1 /\ x4' = x4 /\ x5' = x5 /\ x6' = x6 /\ x7' = x7
  BY DEF Descriptors!AddDescriptor
<1>2. /\ d \in [dram : Nat, sram : Nat, size : Nat \ {0}, last : BOOLEAN]
      /\ d.dram = x1.dram + (x1.total - x2) /\ d.sram = x1.sram + (x1.total - x2)
      /\ d.size \in 1..x2 /\ (d.last <=> d.size = x2)
  <2>1. d = [dram |-> x1.dram + (x1.total - x2), sram |-> x1.sram + (x1.total - x2),
             size |-> Descriptors!Lesser(x1.chunk, x2), last |-> x2 <= x1.chunk]
    BY DEF Descriptors!NextDescriptor
  <2>2. /\ Descriptors!Lesser(x1.chunk, x2) \in 1..x2
        /\ x2 <= x1.chunk <=> Descriptors!Lesser(x1.chunk, x2) = x2
    BY <1>0 DEF Descriptors!Lesser
  <2>3. x1.total - x2 \in Nat
    BY <1>0
  <2> HIDE DEF d
  <2> DEFINE size == Descriptors!Lesser(x1.chunk, x2)
               offset == x1.total - x2
  <2>5. d = [dram |-> x1.dram + offset, sram |-> x1.sram + offset,
             size |-> size, last |-> x2 <= x1.chunk]
    BY <2>1
  <2>6. offset \in Nat /\ size \in 1..x2 /\ (x2 <= x1.chunk <=> size = x2)
    BY <2>2, <2>3
  <2> HIDE DEF size, offset
  <2>7. x1.dram + offset \in Nat /\ x1.sram + offset \in Nat /\ size \in Nat \ {0}
    BY <1>0, <2>6
  <2>8. /\ d \in [dram : Nat, sram : Nat, size : Nat \ {0}, last : BOOLEAN]
        /\ d.dram = x1.dram + offset /\ d.sram = x1.sram + offset
        /\ d.size = size /\ d.last = (x2 <= x1.chunk)
    BY <2>5, <2>7
  <2> QED BY <2>6, <2>8 DEF offset
<1> HIDE DEF d
<1>3. /\ e \in Descriptor /\ e.dram = d.dram /\ e.sram = d.sram /\ e.last = d.last
      /\ Descriptors!ActualSize(e) = d.size
  BY <1>1, <1>2, EncodedFaithfully
<1> HIDE DEF e
<1>4. /\ x3' \in Seq(Descriptor) /\ Len(x3') = n + 1 /\ x3'[n + 1] = e
      /\ \A i \in 1..n : x3'[i] = x3[i]
  BY <1>0, <1>1, <1>3
<1>5. \A i \in 0..n : Covered(x1', x3', i) = Covered(x1, x3, i)
  BY <1>0, <1>1, <1>4 DEF Covered, Descriptors!ActualSize
<1>6. Covered(x1, x3, n) = x1.total - x2
  BY DEF ChainInv, ChainCovers
<1>7. Covered(x1', x3', n + 1) = x1.total - x2 + d.size
  <2>1. Covered(x1', x3', n + 1) = e.dram - x1.dram + Descriptors!ActualSize(e)
    BY <1>0, <1>1, <1>4 DEF Covered, Descriptors!ActualSize
  <2> QED BY <2>1, <1>0, <1>2, <1>3
<1> HIDE DEF n
<1>8. ChainTypes'
  <2> HIDE InstructionAssumptions
      DEF InstructionAssumptions, Descriptors!DescriptorAssumption
  <2>1. x1' = x1 /\ x2' = x2 - d.size /\ x4' = 0 /\ x7' = "build"
    BY <1>0, <1>1
  <2>2. x2 \in 0..x1.total /\ x1.total \in Nat /\ d.size \in 1..x2
    BY <1>0, <1>2
  <2>3. x2' \in 0..x1'.total
    BY <2>1, <2>2
  <2>4. x1' \in Descriptors!Requests
    BY <1>0, <2>1
  <2>5. x3' \in Seq(Descriptor) /\ x4' \in 0..Len(x3')
    BY <1>0, <1>4, <2>1
  <2> QED BY <2>1, <2>3, <2>4, <2>5 DEF ChainTypes
<1>9. ChainCovers'
  <2>1. ASSUME NEW i \in 1..(n + 1)
        PROVE  /\ x3'[i].dram = x1.dram + Covered(x1', x3', i - 1)
               /\ x3'[i].sram = x1.sram + Covered(x1', x3', i - 1)
               /\ x3'[i].last <=> Covered(x1', x3', i) = x1.total
               /\ Covered(x1', x3', i - 1) \in 0..x1.total /\ Covered(x1', x3', i) \in 0..x1.total
               /\ Covered(x1', x3', i - 1) < Covered(x1', x3', i)
    <3>1. CASE i \in 1..n
      <4>1. i - 1 \in 0..n /\ i \in 0..n
        BY <3>1, <1>0
      <4>2. /\ Covered(x1', x3', i - 1) = Covered(x1, x3, i - 1)
            /\ Covered(x1', x3', i) = Covered(x1, x3, i) /\ x3'[i] = x3[i]
        BY <4>1, <3>1, <1>4, <1>5
      <4> QED BY <4>2, <3>1 DEF ChainInv, ChainCovers, n
    <3>2. CASE i = n + 1
      <4>1. i - 1 = n /\ n \in 0..n
        BY <3>2, <1>0
      <4>2. /\ Covered(x1', x3', i - 1) = x1.total - x2
            /\ Covered(x1', x3', i) = x1.total - x2 + d.size /\ x3'[i] = e
        BY <4>1, <3>2, <1>4, <1>5, <1>6, <1>7
      <4>3. e.last <=> x1.total - x2 + d.size = x1.total
        BY <1>0, <1>2, <1>3
      <4>4. e.dram = x1.dram + (x1.total - x2) /\ e.sram = x1.sram + (x1.total - x2)
        BY <1>2, <1>3
      <4>5. /\ x1.total - x2 \in 0..x1.total /\ x1.total - x2 + d.size \in 0..x1.total
            /\ x1.total - x2 < x1.total - x2 + d.size
        <5>1. d.size \in Nat /\ d.size >= 1 /\ d.size <= x2 /\ x2 \in Nat /\ x2 <= x1.total
          BY <1>0, <1>2
        <5> QED BY <5>1, <1>0
      <4> QED BY <4>2, <4>3, <4>4, <4>5
    <3> QED BY <3>1, <3>2, <1>0
  <2>2. Covered(x1', x3', n + 1) = x1.total - x2'
    BY <1>0, <1>1, <1>2, <1>7
  <2> QED BY <2>1, <2>2, <1>1, <1>4 DEF ChainCovers
<1>10. Contents'
  <2>1. Covered(x1', x3', 0) = Covered(x1, x3, 0)
    BY DEF Covered
  <2> QED BY <2>1, <1>0, <1>1 DEF ChainInv, Contents
<1>11. StopsAtLast'
  BY <1>0, <1>1 DEF StopsAtLast
<1> QED BY <1>8, <1>9, <1>10, <1>11 DEF ChainInv

(* Steps that leave the chain, what is done and the memories alone. *)
LEMMA StatusKeepsChain ==
    ASSUME ChainInv,
           UNCHANGED <<x1, x2, x3, x4, x5, x6>>,
           \/ Descriptors!RefuseDescriptor \/ Descriptors!ChainBuilt
           \/ Descriptors!OverflowRaises \/ Descriptors!RunsAway
    PROVE  ChainInv'
<1>1. \A i : Covered(x1', x3', i) = Covered(x1, x3, i)
  BY DEF Covered, Descriptors!ActualSize
<1>2. ChainTypes'
  BY DEF ChainInv, ChainTypes, Descriptors!RefuseDescriptor, Descriptors!ChainBuilt,
         Descriptors!OverflowRaises, Descriptors!RunsAway, Descriptors!Running
<1>3. ChainCovers'
  BY <1>1 DEF ChainInv, ChainCovers
<1>4. Contents'
  BY <1>1 DEF ChainInv, Contents
<1>5. StopsAtLast'
  BY DEF ChainInv, ChainTypes, StopsAtLast, Descriptors!RefuseDescriptor, Descriptors!ChainBuilt,
         Descriptors!OverflowRaises, Descriptors!RunsAway, Descriptors!Running
<1> QED BY <1>2, <1>3, <1>4, <1>5 DEF ChainInv

(* What the descriptor that is performed covers. *)
LEMMA NextPiece ==
    ASSUME ChainInv, Descriptors!Running
    PROVE  LET from == Covered(x1, x3, x4)
               upto == Covered(x1, x3, x4 + 1)
               now == Descriptors!Now IN
           /\ x1.total \in Nat /\ x1.dram \in Nat /\ x1.sram \in Nat
           /\ x4 \in Nat /\ x4 + 1 \in 1..Len(x3)
           /\ from \in 0..x1.total /\ upto \in 0..x1.total /\ from < upto
           /\ now.dram = x1.dram + from /\ now.sram = x1.sram + from
           /\ Descriptors!ActualSize(now) = upto - from
           /\ now.last <=> upto = x1.total
<1> USE InstructionAssumptions DEF InstructionAssumptions, Descriptors!DescriptorAssumption
<1>1. /\ x1.total \in Nat /\ x1.dram \in Nat /\ x1.sram \in Nat
      /\ x4 \in Nat /\ x4 + 1 \in 1..Len(x3) /\ x3 \in Seq(Descriptor)
  BY RequestTypes DEF ChainInv, ChainTypes, Descriptors!Running
<1>2. /\ x3[x4 + 1].dram = x1.dram + Covered(x1, x3, x4)
      /\ x3[x4 + 1].sram = x1.sram + Covered(x1, x3, x4)
      /\ x3[x4 + 1].last <=> Covered(x1, x3, x4 + 1) = x1.total
      /\ Covered(x1, x3, x4) \in 0..x1.total /\ Covered(x1, x3, x4 + 1) \in 0..x1.total
      /\ Covered(x1, x3, x4) < Covered(x1, x3, x4 + 1)
  <2>1. (x4 + 1) - 1 = x4
    BY <1>1
  <2> QED BY <1>1, <2>1 DEF ChainInv, ChainCovers
<1>3. Descriptors!ActualSize(x3[x4 + 1]) \in Nat
  <2>1. x3[x4 + 1] \in Descriptor
    BY <1>1
  <2> QED BY <2>1 DEF Descriptor, Descriptors!ActualSize
<1>4. Covered(x1, x3, x4 + 1) = x3[x4 + 1].dram - x1.dram + Descriptors!ActualSize(x3[x4 + 1])
  BY <1>1 DEF Covered
<1> QED BY <1>1, <1>2, <1>3, <1>4 DEF Descriptors!Now

(* A step of the executor keeps what the chain is. *)
LEMMA PerformKeepsChain ==
    ASSUME ChainInv, Descriptors!Running, Descriptors!AfterDescriptor
    PROVE  /\ ChainTypes' /\ ChainCovers' /\ StopsAtLast'
           /\ x1' = x1 /\ Covered(x1', x3', x4') = Covered(x1, x3, x4 + 1)
<1>1. x1' = x1 /\ x2' = x2 /\ x3' = x3 /\ x4' = x4 + 1
  BY DEF Descriptors!AfterDescriptor
<1>2. \A i : (IF i = 0 THEN 0 ELSE x3'[i].dram - x1'.dram + Descriptors!ActualSize(x3'[i]))
                = Covered(x1, x3, i)
  BY <1>1 DEF Covered
<1>3. x4 \in Nat /\ x4 + 1 \in 1..Len(x3)
  BY NextPiece
<1>4. ChainTypes'
  BY <1>1, <1>3 DEF ChainInv, ChainTypes, Descriptors!Running, Descriptors!AfterDescriptor
<1>5. ChainCovers'
  BY <1>1 DEF ChainInv, ChainCovers, Covered, Descriptors!ActualSize
<1>6. StopsAtLast'
  BY <1>1, <1>3 DEF StopsAtLast, Descriptors!AfterDescriptor, Descriptors!Now
<1>7. Covered(x1', x3', x4') = Covered(x1, x3, x4 + 1)
  BY <1>1 DEF Covered, Descriptors!ActualSize
<1> QED BY <1>1, <1>4, <1>5, <1>6, <1>7

(* A piece of a transfer that lies inside the memory is reached in full. *)
LEMMA ReachesAll ==
    ASSUME ChainInv, Descriptors!Running, x1.dram + x1.total <= DramSize
    PROVE  Descriptors!Reached(Descriptors!Now) =
             0..(Covered(x1, x3, x4 + 1) - Covered(x1, x3, x4) - 1)
<1> USE InstructionAssumptions DEF InstructionAssumptions, Descriptors!DescriptorAssumption
<1> DEFINE from == Covered(x1, x3, x4)  upto == Covered(x1, x3, x4 + 1)  now == Descriptors!Now
           size == Descriptors!ActualSize(now)
<1>1. /\ x1.total \in Nat /\ x1.dram \in Nat
      /\ from \in 0..x1.total /\ upto \in 0..x1.total /\ from < upto
      /\ now.dram = x1.dram + from /\ size = upto - from
  BY NextPiece
<1>2. Descriptors!Reached(now) = {k \in 0..(size - 1) : now.dram + k < DramSize}
  BY DEF Descriptors!Reached
<1> HIDE DEF from, upto, now, size
<1>3. \A k \in 0..(size - 1) : now.dram + k < DramSize
  BY <1>1
<1>4. Descriptors!Reached(now) = 0..(size - 1)
  BY <1>2, <1>3
<1> QED BY <1>4, <1>1 DEF from, upto, now

(* A load extends the part of the buffer that holds the request. *)
LEMMA LoadKeepsChain == ChainInv /\ Descriptors!Load => ChainInv'
<1> SUFFICES ASSUME ChainInv, Descriptors!Load PROVE ChainInv'
  OBVIOUS
<1> USE InstructionAssumptions DEF InstructionAssumptions, Descriptors!DescriptorAssumption
<1> DEFINE from == Covered(x1, x3, x4)  upto == Covered(x1, x3, x4 + 1)  now == Descriptors!Now
<1>1. Descriptors!Running /\ Descriptors!AfterDescriptor /\ x1.op = "DMA_LDD" /\ x6' = x6
  BY DEF Descriptors!Load
<1>2. /\ ChainTypes' /\ ChainCovers' /\ StopsAtLast' /\ x1' = x1 /\ Covered(x1', x3', x4') = upto
  BY <1>1, PerformKeepsChain
<1>3. /\ x1.total \in Nat /\ x1.dram \in Nat /\ x1.sram \in Nat
      /\ from \in 0..x1.total /\ upto \in 0..x1.total /\ from < upto
      /\ now.dram = x1.dram + from /\ now.sram = x1.sram + from
  BY <1>1, NextPiece
<1>4. Contents'
  <2> SUFFICES ASSUME x1.dram + x1.total <= DramSize
               PROVE  /\ x5' = [b \in 0..(LoadSram - 1) |->
                                   IF b - x1.sram \in 0..(upto - 1)
                                   THEN <<"dram", x1.dram + b - x1.sram>> ELSE <<"sram", b>>]
                      /\ x6' = [b \in 0..(DramSize - 1) |-> <<"dram", b>>]
    BY <1>1, <1>2 DEF Contents
  <2>1. /\ x5 = [b \in 0..(LoadSram - 1) |->
                    IF b - x1.sram \in 0..(from - 1)
                    THEN <<"dram", x1.dram + b - x1.sram>> ELSE <<"sram", b>>]
        /\ x6 = [b \in 0..(DramSize - 1) |-> <<"dram", b>>]
    BY <1>1 DEF ChainInv, Contents
  <2>2. Descriptors!Reached(now) = 0..(upto - from - 1)
    BY <1>1, ReachesAll
  <2>3. x5' = [b \in DOMAIN x5 |-> IF b - now.sram \in 0..(upto - from - 1)
                                    THEN x6[now.dram + b - now.sram] ELSE x5[b]]
    BY <2>2 DEF Descriptors!Load
  <2> HIDE DEF from, upto, now
  <2>4. ASSUME NEW b \in 0..(LoadSram - 1)
        PROVE  (IF b - now.sram \in 0..(upto - from - 1)
                THEN x6[now.dram + b - now.sram] ELSE x5[b])
               = (IF b - x1.sram \in 0..(upto - 1)
                  THEN <<"dram", x1.dram + b - x1.sram>> ELSE <<"sram", b>>)
    <3>1. CASE b - now.sram \in 0..(upto - from - 1)
      <4>1. /\ b - x1.sram \in 0..(upto - 1)
            /\ now.dram + b - now.sram = x1.dram + b - x1.sram
            /\ now.dram + b - now.sram \in 0..(DramSize - 1)
        BY <3>1, <1>3
      <4> QED BY <3>1, <4>1, <2>1
    <3>2. CASE b - now.sram \notin 0..(upto - from - 1)
      <4>1. b - x1.sram \in 0..(upto - 1) <=> b - x1.sram \in 0..(from - 1)
        BY <3>2, <1>3
      <4> QED BY <3>2, <4>1, <2>1
    <3> QED BY <3>1, <3>2
  <2> QED BY <1>1, <2>1, <2>3, <2>4
<1> QED BY <1>2, <1>4 DEF ChainInv

(* A store extends the part of the memory that holds the request. *)
LEMMA StoreKeepsChain == ChainInv /\ Descriptors!Store => ChainInv'
<1> SUFFICES ASSUME ChainInv, Descriptors!Store PROVE ChainInv'
  OBVIOUS
<1> USE InstructionAssumptions DEF InstructionAssumptions, Descriptors!DescriptorAssumption
<1> DEFINE from == Covered(x1, x3, x4)  upto == Covered(x1, x3, x4 + 1)  now == Descriptors!Now
<1>1. /\ Descriptors!Running /\ Descriptors!AfterDescriptor /\ x1.op = "DMA_STD" /\ x5' = x5
      /\ Descriptors!InSram(now, Descriptors!ActualSize(now))
  BY DEF Descriptors!Store, Descriptors!StoreFits
<1>2. /\ ChainTypes' /\ ChainCovers' /\ StopsAtLast' /\ x1' = x1 /\ Covered(x1', x3', x4') = upto
  BY <1>1, PerformKeepsChain
<1>3. /\ x1.total \in Nat /\ x1.dram \in Nat /\ x1.sram \in Nat
      /\ from \in 0..x1.total /\ upto \in 0..x1.total /\ from < upto
      /\ now.dram = x1.dram + from /\ now.sram = x1.sram + from
      /\ Descriptors!ActualSize(now) = upto - from
  BY <1>1, NextPiece
<1>4. now.sram + (upto - from) <= LoadSram
  BY <1>1, <1>3 DEF Descriptors!InSram
<1>5. Contents'
  <2> SUFFICES ASSUME x1.dram + x1.total <= DramSize
               PROVE  /\ x5' = [b \in 0..(LoadSram - 1) |-> <<"sram", b>>]
                      /\ x6' = [b \in 0..(DramSize - 1) |->
                                   IF b - x1.dram \in 0..(upto - 1)
                                   THEN <<"sram", x1.sram + b - x1.dram>> ELSE <<"dram", b>>]
    BY <1>1, <1>2 DEF Contents
  <2>1. /\ x5 = [b \in 0..(LoadSram - 1) |-> <<"sram", b>>]
        /\ x6 = [b \in 0..(DramSize - 1) |->
                    IF b - x1.dram \in 0..(from - 1)
                    THEN <<"sram", x1.sram + b - x1.dram>> ELSE <<"dram", b>>]
    BY <1>1 DEF ChainInv, Contents
  <2>2. Descriptors!Reached(now) = 0..(upto - from - 1)
    BY <1>1, ReachesAll
  <2>3. x6' = [b \in DOMAIN x6 |-> IF b - now.dram \in 0..(upto - from - 1)
                                    THEN x5[now.sram + b - now.dram] ELSE x6[b]]
    BY <2>2 DEF Descriptors!Store
  <2> HIDE DEF from, upto, now
  <2>4. ASSUME NEW b \in 0..(DramSize - 1)
        PROVE  (IF b - now.dram \in 0..(upto - from - 1)
                THEN x5[now.sram + b - now.dram] ELSE x6[b])
               = (IF b - x1.dram \in 0..(upto - 1)
                  THEN <<"sram", x1.sram + b - x1.dram>> ELSE <<"dram", b>>)
    <3>1. CASE b - now.dram \in 0..(upto - from - 1)
      <4>1. /\ b - x1.dram \in 0..(upto - 1)
            /\ now.sram + b - now.dram = x1.sram + b - x1.dram
            /\ now.sram + b - now.dram \in 0..(LoadSram - 1)
        BY <3>1, <1>3, <1>4
      <4> QED BY <3>1, <4>1, <2>1
    <3>2. CASE b - now.dram \notin 0..(upto - from - 1)
      <4>1. b - x1.dram \in 0..(upto - 1) <=> b - x1.dram \in 0..(from - 1)
        BY <3>2, <1>3
      <4> QED BY <3>2, <4>1, <2>1
    <3> QED BY <3>1, <3>2
  <2> QED BY <1>1, <2>1, <2>3, <2>4
<1> QED BY <1>2, <1>5 DEF ChainInv

(* The invariant gives both properties. *)
LEMMA ChainProperties ==
    ChainInv => Descriptors!ChainHasLast /\ Descriptors!MovesExactlyTheRequest
<1> SUFFICES ASSUME ChainInv
             PROVE  Descriptors!ChainHasLast /\ Descriptors!MovesExactlyTheRequest
  OBVIOUS
<1> USE InstructionAssumptions DEF InstructionAssumptions, Descriptors!DescriptorAssumption
<1>1. /\ x1.total \in Nat /\ x1.dram \in Nat /\ x1.sram \in Nat
      /\ x4 \in 0..Len(x3) /\ Len(x3) \in Nat
  BY RequestTypes DEF ChainInv, ChainTypes
<1>2. x4 > 0 => (x3[x4].last <=> Covered(x1, x3, x4) = x1.total)
  BY <1>1 DEF ChainInv, ChainCovers
<1>3. Descriptors!ChainHasLast
  <2> SUFFICES ASSUME x7 = "runaway" PROVE x1.total = 0
    BY DEF Descriptors!ChainHasLast
  <2>1. Covered(x1, x3, x4) = x1.total
    BY <1>1 DEF ChainInv, ChainTypes, ChainCovers, StopsAtLast
  <2> QED BY <1>1, <1>2, <2>1 DEF ChainInv, StopsAtLast, Covered
<1>4. Descriptors!MovesExactlyTheRequest
  <2> SUFFICES ASSUME x7 = "done", x1.dram + x1.total <= DramSize
               PROVE  LET InBlock(b, base) == b - base \in 0..(x1.total - 1) IN
                      /\ \A b \in DOMAIN x5 : x5[b] =
                            IF x1.op = "DMA_LDD" /\ InBlock(b, x1.sram)
                            THEN <<"dram", x1.dram + b - x1.sram>> ELSE <<"sram", b>>
                      /\ \A b \in DOMAIN x6 : x6[b] =
                            IF x1.op = "DMA_STD" /\ InBlock(b, x1.dram)
                            THEN <<"sram", x1.sram + b - x1.dram>> ELSE <<"dram", b>>
    BY DEF Descriptors!MovesExactlyTheRequest
  <2>1. Covered(x1, x3, x4) = x1.total
    BY <1>2 DEF ChainInv, StopsAtLast
  <2> QED BY <2>1 DEF ChainInv, Contents
<1> QED BY <1>3, <1>4

(* A chain of build_weight_load_chain, whatever the size of the transfer,  *)
(* the chunk and the addresses, performed word by word by execute_load or  *)
(* execute_store, moves the bytes asked for and no others, and has a last  *)
(* descriptor.                                                             *)
THEOREM ChainsMoveTheRequest == Spec => []MovesExactlyTheRequest
<1> DEFINE Inv == part = "descriptors" => ChainInv
<1>1. Init => Inv
  BY ChainStarts DEF Init
<1>2. Inv /\ [Next]_state => Inv'
  <2> SUFFICES ASSUME Inv, [Next]_state, part' = "descriptors" PROVE ChainInv'
    OBVIOUS
  <2>1. part = "descriptors" /\ ChainInv
    BY DEF Next, state
  <2>2. CASE UNCHANGED state
    <3>1. \A i : Covered(x1', x3', i) = Covered(x1, x3, i)
      BY <2>2 DEF state, Covered, Descriptors!ActualSize
    <3> QED BY <2>1, <2>2, <3>1 DEF state, ChainInv, ChainTypes, ChainCovers, Contents, StopsAtLast
  <2>3. CASE Next
    <3>1. Descriptors!Next
      BY <2>1, <2>3 DEF Next
    <3>2. CASE Descriptors!AddDescriptor
      BY <2>1, <3>2, AddKeepsChain
    <3>3. CASE Descriptors!RefuseDescriptor
      BY <2>1, <3>3, StatusKeepsChain DEF Descriptors!RefuseDescriptor
    <3>4. CASE Descriptors!ChainBuilt
      BY <2>1, <3>4, StatusKeepsChain DEF Descriptors!ChainBuilt
    <3>5. CASE Descriptors!Load
      BY <2>1, <3>5, LoadKeepsChain
    <3>6. CASE Descriptors!Store
      BY <2>1, <3>6, StoreKeepsChain
    <3>7. CASE Descriptors!OverflowRaises
      BY <2>1, <3>7, StatusKeepsChain DEF Descriptors!OverflowRaises
    <3>8. CASE Descriptors!RunsAway
      BY <2>1, <3>8, StatusKeepsChain DEF Descriptors!RunsAway
    <3> QED BY <3>1, <3>2, <3>3, <3>4, <3>5, <3>6, <3>7, <3>8 DEF Descriptors!Next
  <2> QED BY <2>2, <2>3
<1>3. Inv => MovesExactlyTheRequest
  BY ChainProperties DEF MovesExactlyTheRequest
<1> QED BY <1>1, <1>2, <1>3, PTL DEF Spec

-----------------------------------------------------------------------------
(* Compiler: x1 trace, x2 preloaded, x3 program, x4 prevLayer, x5 done.    *)

Ops == {"BARRIER", "DMA_LD", "KV_LOAD", "MMUL", "SOFTMAX", "LAYERNORM", "ROPE", "GELU",
        "KV_STORE", "NOP"}
Instructions == [op : Ops, layer : Int, from : Nat, to : Nat, size : Nat]

\* a barrier lies between two instructions of a program
Fenced(p, i, j) == \E b \in i..j : p[b].op = "BARRIER"

\* since the last barrier before i one KV entry was loaded, for the layer
EnteredOnce(p, i, layer) ==
    \E j \in 1..i :
        /\ p[j].op = "KV_LOAD" /\ p[j].layer = layer /\ ~Fenced(p, j, i)
        /\ \A k \in 1..i : p[k].op = "KV_LOAD" /\ k # j => Fenced(p, k, i)
NotEntered(p, i) == \A k \in 1..i : p[k].op = "KV_LOAD" => Fenced(p, k, i)

\* A program so far: the layer at its end (-1 for none, or behind a barrier),
\* and whether that layer's KV entry is loaded.
WellFormed(p, layer, entered) ==
    /\ p \in Seq(Instructions)
    /\ layer = -1 \/ layer \in Nat
    /\ \A i \in 1..Len(p) - 1 :
          p[i].layer >= 0 /\ p[i + 1].layer >= 0 => p[i].layer = p[i + 1].layer
    /\ \A i \in 1..Len(p) :
          p[i].op \in {"MMUL", "KV_STORE"} => EnteredOnce(p, i, p[i].layer)
    /\ Len(p) > 0 => p[Len(p)].layer = layer
    /\ IF entered THEN layer \in Nat /\ EnteredOnce(p, Len(p), layer)
       ELSE NotEntered(p, Len(p))

(* Nothing is in the way of the first instruction. *)
LEMMA EmptyIsWellFormed == WellFormed(<<>>, -1, FALSE)
BY DEF WellFormed, NotEntered

(* What was said of a program's beginning holds when it is longer. *)
LEMMA LongerKeeps ==
    ASSUME NEW p \in Seq(Instructions), NEW s \in Seq(Instructions)
    PROVE  LET q == p \o s IN
           /\ q \in Seq(Instructions) /\ Len(q) = Len(p) + Len(s)
           /\ \A i \in 1..Len(p) : q[i] = p[i]
           /\ \A i \in 1..Len(s) : q[Len(p) + i] = s[i]
           /\ \A i \in 1..Len(p) : \A layer : EnteredOnce(p, i, layer) => EnteredOnce(q, i, layer)
<1> DEFINE q == p \o s
<1>1. /\ q \in Seq(Instructions) /\ Len(q) = Len(p) + Len(s)
      /\ \A i \in 1..Len(p) + Len(s) : q[i] = IF i <= Len(p) THEN p[i] ELSE s[i - Len(p)]
  BY ConcatProperties
<1>2. Len(p) \in Nat /\ Len(s) \in Nat
  OBVIOUS
<1> HIDE DEF q
<1>3. \A i \in 1..Len(p) : q[i] = p[i]
  BY <1>1, <1>2
<1>4. \A i \in 1..Len(s) : q[Len(p) + i] = s[i]
  <2> SUFFICES ASSUME NEW i \in 1..Len(s) PROVE q[Len(p) + i] = s[i]
    OBVIOUS
  <2>1. /\ Len(p) + i \in 1..Len(p) + Len(s) /\ ~(Len(p) + i <= Len(p))
        /\ (Len(p) + i) - Len(p) = i
    BY <1>2
  <2> QED BY <1>1, <2>1
<1>5. ASSUME NEW i \in 1..Len(p), NEW layer, EnteredOnce(p, i, layer)
      PROVE  EnteredOnce(q, i, layer)
  <2>1. \A k \in 1..i : q[k] = p[k] /\ (Fenced(q, k, i) <=> Fenced(p, k, i))
    BY <1>2, <1>3 DEF Fenced
  <2> QED BY <1>5, <2>1 DEF EnteredOnce
<1> QED BY <1>1, <1>3, <1>4, <1>5 DEF q

(* The same of one instruction more. *)
LEMMA LongerByOne ==
    ASSUME NEW p \in Seq(Instructions), NEW e \in Instructions
    PROVE  LET q == p \o <<e>> IN
           /\ q \in Seq(Instructions) /\ Len(q) = Len(p) + 1 /\ Len(p) \in Nat
           /\ \A i \in 1..Len(p) : q[i] = p[i]
           /\ q[Len(p) + 1] = e
           /\ \A i \in 1..Len(p) : \A layer : EnteredOnce(p, i, layer) => EnteredOnce(q, i, layer)
<1> DEFINE s == <<e>>
<1>1. s \in Seq(Instructions) /\ Len(s) = 1 /\ s[1] = e /\ Len(p) \in Nat
  OBVIOUS
<1> HIDE DEF s
<1>2. LET q == p \o s IN
      /\ q \in Seq(Instructions) /\ Len(q) = Len(p) + Len(s)
      /\ \A i \in 1..Len(p) : q[i] = p[i]
      /\ \A i \in 1..Len(s) : q[Len(p) + i] = s[i]
      /\ \A i \in 1..Len(p) : \A layer : EnteredOnce(p, i, layer) => EnteredOnce(q, i, layer)
  BY <1>1, LongerKeeps
<1>3. LET q == p \o s IN
      /\ q \in Seq(Instructions) /\ Len(q) = Len(p) + 1 /\ Len(p) \in Nat
      /\ \A i \in 1..Len(p) : q[i] = p[i]
      /\ q[Len(p) + 1] = e
      /\ \A i \in 1..Len(p) : \A layer : EnteredOnce(p, i, layer) => EnteredOnce(q, i, layer)
  BY <1>1, <1>2
<1> QED BY <1>3 DEF s

(* Instructions of one layer, none a barrier or a KV entry, continue a     *)
(* program of that layer or behind a barrier; products and stores only in  *)
(* a layer that was entered.                                               *)
LEMMA ContinueLayer ==
    ASSUME NEW p, NEW layer, NEW entered \in BOOLEAN, WellFormed(p, layer, entered),
           NEW l \in Nat, layer \in {-1, l},
           NEW s \in Seq(Instructions), Len(s) > 0,
           \A i \in 1..Len(s) :
               /\ s[i].layer = l /\ s[i].op \notin {"BARRIER", "KV_LOAD"}
               /\ s[i].op \in {"MMUL", "KV_STORE"} => entered
    PROVE  WellFormed(p \o s, l, entered)
<1> DEFINE q == p \o s  n == Len(p)
<1>1. /\ q \in Seq(Instructions) /\ Len(q) = n + Len(s)
      /\ \A i \in 1..n : q[i] = p[i]
      /\ \A i \in 1..Len(s) : q[n + i] = s[i]
      /\ \A i \in 1..n : \A x : EnteredOnce(p, i, x) => EnteredOnce(q, i, x)
  BY LongerKeeps DEF WellFormed
<1>2. n \in Nat /\ Len(s) \in Nat /\ Len(s) > 0 /\ p \in Seq(Instructions)
  BY DEF WellFormed
<1> HIDE DEF q, n
<1>3. \A i \in (n + 1)..(n + Len(s)) :
         /\ q[i].layer = l /\ q[i].op \notin {"BARRIER", "KV_LOAD"}
         /\ q[i].op \in {"MMUL", "KV_STORE"} => entered
  <2> SUFFICES ASSUME NEW i \in (n + 1)..(n + Len(s))
               PROVE  /\ q[i].layer = l /\ q[i].op \notin {"BARRIER", "KV_LOAD"}
                      /\ q[i].op \in {"MMUL", "KV_STORE"} => entered
    OBVIOUS
  <2>1. i - n \in 1..Len(s) /\ n + (i - n) = i
    BY <1>2
  <2> QED BY <1>1, <2>1
<1>4. \A i \in n..(n + Len(s)) : \A k \in 1..n : Fenced(q, k, i) <=> Fenced(p, k, n)
  BY <1>1, <1>2, <1>3 DEF Fenced
<1>5. \A i \in n..(n + Len(s)) : entered => EnteredOnce(q, i, l)
  <2> SUFFICES ASSUME NEW i \in n..(n + Len(s)), entered PROVE EnteredOnce(q, i, l)
    OBVIOUS
  <2>1. layer = l /\ EnteredOnce(p, n, l)
    BY DEF WellFormed, n
  <2>2. PICK j \in 1..n :
           /\ p[j].op = "KV_LOAD" /\ p[j].layer = l /\ ~Fenced(p, j, n)
           /\ \A k \in 1..n : p[k].op = "KV_LOAD" /\ k # j => Fenced(p, k, n)
    BY <2>1 DEF EnteredOnce
  <2>3. q[j].op = "KV_LOAD" /\ q[j].layer = l /\ ~Fenced(q, j, i) /\ j \in 1..i
    <3>1. q[j] = p[j]
      BY <1>1, <2>2
    <3>2. ~Fenced(q, j, i)
      BY <1>4, <2>2
    <3>3. j \in 1..i
      BY <1>2, <2>2
    <3> QED BY <2>2, <3>1, <3>2, <3>3
  <2>4. \A k \in 1..i : q[k].op = "KV_LOAD" /\ k # j => Fenced(q, k, i)
    <3> SUFFICES ASSUME NEW k \in 1..i, q[k].op = "KV_LOAD", k # j PROVE Fenced(q, k, i)
      OBVIOUS
    <3>1. k \in 1..n
      BY <1>2, <1>3
    <3> QED BY <1>1, <1>4, <2>2, <3>1
  <2> QED BY <2>3, <2>4 DEF EnteredOnce
<1>6. ~entered => NotEntered(q, n + Len(s))
  <2> SUFFICES ASSUME ~entered, NEW k \in 1..(n + Len(s)), q[k].op = "KV_LOAD"
               PROVE  Fenced(q, k, n + Len(s))
    BY DEF NotEntered
  <2>1. k \in 1..n /\ n + Len(s) \in n..(n + Len(s))
    BY <1>2, <1>3
  <2>2. Fenced(p, k, n)
    BY <1>1, <2>1 DEF WellFormed, NotEntered, n
  <2> QED BY <1>4, <2>1, <2>2
<1>7. \A i \in 1..Len(q) - 1 :
         q[i].layer >= 0 /\ q[i + 1].layer >= 0 => q[i].layer = q[i + 1].layer
  <2> SUFFICES ASSUME NEW i \in 1..Len(q) - 1, q[i].layer >= 0, q[i + 1].layer >= 0
               PROVE  q[i].layer = q[i + 1].layer
    OBVIOUS
  <2>1. CASE i < n
    <3>1. i \in 1..n - 1 /\ q[i] = p[i] /\ q[i + 1] = p[i + 1]
      BY <1>1, <1>2, <2>1
    <3> QED BY <3>1 DEF WellFormed, n
  <2>2. CASE i = n
    <3>1. n > 0 /\ q[n] = p[n] /\ p[n].layer = layer /\ q[n + 1].layer = l
      BY <1>1, <1>2, <1>3, <2>2 DEF WellFormed, n
    <3> QED BY <3>1, <2>2
  <2>3. CASE i > n
    <3>1. i \in (n + 1)..(n + Len(s)) /\ i + 1 \in (n + 1)..(n + Len(s))
      BY <1>1, <1>2, <2>3
    <3> QED BY <1>3, <3>1
  <2> QED BY <1>2, <2>1, <2>2, <2>3
<1>8. \A i \in 1..Len(q) :
         q[i].op \in {"MMUL", "KV_STORE"} => EnteredOnce(q, i, q[i].layer)
  <2> SUFFICES ASSUME NEW i \in 1..Len(q), q[i].op \in {"MMUL", "KV_STORE"}
               PROVE  EnteredOnce(q, i, q[i].layer)
    OBVIOUS
  <2>1. CASE i \in 1..n
    BY <1>1, <2>1 DEF WellFormed, n
  <2>2. CASE i \in (n + 1)..(n + Len(s))
    BY <1>2, <1>3, <1>5, <2>2
  <2> QED BY <1>1, <1>2, <2>1, <2>2
<1>9. Len(q) > 0 /\ q[Len(q)].layer = l
  BY <1>1, <1>2, <1>3
<1>10. IF entered THEN l \in Nat /\ EnteredOnce(q, Len(q), l) ELSE NotEntered(q, Len(q))
  BY <1>1, <1>2, <1>5, <1>6
<1> QED BY <1>1, <1>7, <1>8, <1>9, <1>10 DEF WellFormed, q

(* The KV entry of a layer makes it entered. *)
LEMMA LoadEntry ==
    ASSUME NEW p, NEW layer, WellFormed(p, layer, FALSE),
           NEW l \in Nat, layer \in {-1, l},
           NEW e \in Instructions, e.op = "KV_LOAD", e.layer = l
    PROVE  WellFormed(p \o <<e>>, l, TRUE)
<1> DEFINE q == p \o <<e>>  n == Len(p)
<1>1. /\ q \in Seq(Instructions) /\ Len(q) = n + 1 /\ n \in Nat
      /\ \A i \in 1..n : q[i] = p[i]
      /\ q[n + 1] = e
      /\ \A i \in 1..n : \A x : EnteredOnce(p, i, x) => EnteredOnce(q, i, x)
  <2>1. p \in Seq(Instructions)
    BY DEF WellFormed
  <2> QED BY <2>1, LongerByOne
<1> HIDE DEF q, n
<1>2. \A k \in 1..n : Fenced(q, k, n + 1) <=> Fenced(p, k, n)
  BY <1>1 DEF Fenced
<1>3. EnteredOnce(q, n + 1, l)
  <2>1. n + 1 \in 1..(n + 1) /\ ~Fenced(q, n + 1, n + 1)
    BY <1>1 DEF Fenced
  <2>2. \A k \in 1..(n + 1) : q[k].op = "KV_LOAD" /\ k # n + 1 => Fenced(q, k, n + 1)
    <3> SUFFICES ASSUME NEW k \in 1..(n + 1), q[k].op = "KV_LOAD", k # n + 1
                 PROVE  Fenced(q, k, n + 1)
      OBVIOUS
    <3>1. k \in 1..n
      BY <1>1
    <3> QED BY <1>1, <1>2, <3>1 DEF WellFormed, NotEntered, n
  <2> QED BY <1>1, <2>1, <2>2 DEF EnteredOnce
<1>4. \A i \in 1..Len(q) - 1 :
         q[i].layer >= 0 /\ q[i + 1].layer >= 0 => q[i].layer = q[i + 1].layer
  <2> SUFFICES ASSUME NEW i \in 1..n, q[i].layer >= 0, q[i + 1].layer >= 0
               PROVE  q[i].layer = q[i + 1].layer
    BY <1>1
  <2>1. CASE i < n
    <3>1. i \in 1..n - 1 /\ q[i] = p[i] /\ q[i + 1] = p[i + 1]
      BY <1>1, <2>1
    <3> QED BY <3>1 DEF WellFormed, n
  <2>2. CASE i = n
    BY <1>1, <2>2 DEF WellFormed, n
  <2> QED BY <1>1, <2>1, <2>2
<1>5. \A i \in 1..Len(q) :
         q[i].op \in {"MMUL", "KV_STORE"} => EnteredOnce(q, i, q[i].layer)
  <2> SUFFICES ASSUME NEW i \in 1..Len(q), q[i].op \in {"MMUL", "KV_STORE"}
               PROVE  EnteredOnce(q, i, q[i].layer)
    OBVIOUS
  <2>1. i \in 1..n
    BY <1>1
  <2> QED BY <1>1, <2>1 DEF WellFormed, n
<1> QED BY <1>1, <1>3, <1>4, <1>5 DEF WellFormed, q

(* Behind a barrier or the end of the program no layer goes on. *)
LEMMA EndLayer ==
    ASSUME NEW p, NEW layer, NEW entered \in BOOLEAN, WellFormed(p, layer, entered),
           NEW e \in Instructions, e.layer = -1,
           e.op = "BARRIER" \/ (e.op = "NOP" /\ ~entered)
    PROVE  WellFormed(p \o <<e>>, -1, FALSE)
<1> DEFINE q == p \o <<e>>  n == Len(p)
<1>1. /\ q \in Seq(Instructions) /\ Len(q) = n + 1 /\ n \in Nat
      /\ \A i \in 1..n : q[i] = p[i]
      /\ q[n + 1] = e
      /\ \A i \in 1..n : \A x : EnteredOnce(p, i, x) => EnteredOnce(q, i, x)
  <2>1. p \in Seq(Instructions)
    BY DEF WellFormed
  <2> QED BY <2>1, LongerByOne
<1> HIDE DEF q, n
<1>2. NotEntered(q, n + 1)
  <2>1. CASE e.op = "BARRIER"
    BY <1>1, <2>1 DEF NotEntered, Fenced
  <2>2. CASE e.op = "NOP" /\ ~entered
    BY <1>1, <2>2 DEF WellFormed, NotEntered, Fenced, n
  <2> QED BY <2>1, <2>2
<1>3. \A i \in 1..Len(q) - 1 :
         q[i].layer >= 0 /\ q[i + 1].layer >= 0 => q[i].layer = q[i + 1].layer
  <2> SUFFICES ASSUME NEW i \in 1..n, q[i].layer >= 0, q[i + 1].layer >= 0
               PROVE  q[i].layer = q[i + 1].layer
    BY <1>1
  <2>1. i # n
    BY <1>1
  <2>2. i \in 1..n - 1 /\ q[i] = p[i] /\ q[i + 1] = p[i + 1]
    BY <1>1, <2>1
  <2> QED BY <2>2 DEF WellFormed, n
<1>4. \A i \in 1..Len(q) :
         q[i].op \in {"MMUL", "KV_STORE"} => EnteredOnce(q, i, q[i].layer)
  <2> SUFFICES ASSUME NEW i \in 1..Len(q), q[i].op \in {"MMUL", "KV_STORE"}
               PROVE  EnteredOnce(q, i, q[i].layer)
    OBVIOUS
  <2>1. i \in 1..n
    BY <1>1
  <2> QED BY <1>1, <2>1 DEF WellFormed, n
<1> QED BY <1>1, <1>2, <1>3, <1>4 DEF WellFormed, q

(* The instructions of one operation, of its layer and no barrier.         *)
LEMMA OperationIsPlain ==
    ASSUME NEW g \in Compilation!Gemm
    PROVE  LET s == Compilation!Operation(g) IN
           /\ s \in Seq(Instructions) /\ Len(s) > 0
           /\ \A i \in 1..Len(s) :
                 s[i].layer = g.layer /\ s[i].op \notin {"BARRIER", "KV_LOAD"}
<1> DEFINE Plain == {i \in Instructions : i.layer = g.layer /\ i.op \notin {"BARRIER", "KV_LOAD"}}
           head == <<Compilation!Instr("MMUL", g.layer, Compilation!NextIn("wbuf"),
                                       Compilation!Alloc("output"), g.n),
                     Compilation!Instr("DMA_LD", g.layer, Compilation!Alloc("input_next"),
                                       Compilation!NextIn("ibuf"), g.m * g.k)>>
           middle == Compilation!Boundary(g)
           store == <<Compilation!Instr("KV_STORE", g.layer, 0, 0, 0)>>
<1>1. g.layer \in Nat /\ g.n \in Nat /\ g.m * g.k \in Nat
  BY DEF Compilation!Gemm
<1>2. ASSUME NEW op \in Ops \ {"BARRIER", "KV_LOAD"}, NEW from \in Nat, NEW to \in Nat,
             NEW size \in Nat
      PROVE  Compilation!Instr(op, g.layer, from, to, size) \in Plain
  BY <1>1 DEF Compilation!Instr, Instructions
<1>3. /\ Compilation!NextIn("wbuf") \in Nat /\ Compilation!NextIn("ibuf") \in Nat
      /\ Compilation!Alloc("output") \in Nat /\ Compilation!Alloc("input_next") \in Nat
  BY DEF Compilation!NextIn, Compilation!Alloc, Compilation!Region
<1>4. {"MMUL", "DMA_LD", "SOFTMAX", "LAYERNORM", "ROPE", "GELU", "KV_STORE"}
        \subseteq Ops \ {"BARRIER", "KV_LOAD"}
  BY DEF Ops
<1> HIDE DEF Plain
<1>5. head \in Seq(Plain) /\ Len(head) = 2
  BY <1>1, <1>2, <1>3, <1>4
<1>6. \A op \in {"SOFTMAX", "LAYERNORM", "ROPE", "GELU"} : \A len \in Nat :
         Compilation!Special(op, g, len) \in Plain
  BY <1>2, <1>3, <1>4 DEF Compilation!Special
<1>7. middle \in Seq(Plain)
  BY <1>6 DEF Compilation!Boundary
<1>8. store \in Seq(Plain)
  BY <1>2, <1>4
<1>9. Compilation!Operation(g) = head \o middle \o store
  BY DEF Compilation!Operation
<1> HIDE DEF head, middle, store
<1>10. /\ head \o middle \in Seq(Plain) /\ Len(head \o middle) = Len(head) + Len(middle)
  BY <1>5, <1>7, ConcatProperties
<1> DEFINE start == head \o middle
<1> HIDE DEF start
<1>11. start \o store \in Seq(Plain) /\ Len(start \o store) = Len(start) + Len(store)
  BY <1>8, <1>10, ConcatProperties DEF start
<1>12. Len(start) >= 2 /\ Len(start) \in Nat /\ Len(store) \in Nat
  BY <1>5, <1>7, <1>8, <1>10, LenProperties DEF start
<1> DEFINE s == start \o store
<1> HIDE DEF s
<1>13. s \in Seq(Plain) /\ Len(s) > 0
  BY <1>11, <1>12 DEF s
<1>14. \A i \in 1..Len(s) : s[i] \in Plain
  BY <1>13, ElementOfSeq
<1>15. s \in Seq(Instructions)
  BY <1>13, SeqMonotonic DEF Plain
<1>16. s = Compilation!Operation(g)
  BY <1>9 DEF s, start
<1> QED BY <1>13, <1>14, <1>15, <1>16 DEF Plain

\* the program is well formed, and until Finish it ends with the layer of the
\* operation before, entered
CompilerInv ==
    /\ x1 \in Seq(Compilation!Gemm) /\ x2 \in BOOLEAN /\ x5 \in BOOLEAN
    /\ x4 = -1 \/ x4 \in Nat
    /\ IF x5 \/ x4 = -1 THEN WellFormed(x3, -1, FALSE) ELSE WellFormed(x3, x4, TRUE)
    /\ x5 => x1 = <<>>

(* A new layer: behind a barrier, with its KV entry. *)
LEMMA EntersLayer ==
    ASSUME CompilerInv, ~x5, NEW g \in Compilation!Gemm, g.layer # x4
    PROVE  WellFormed(x3 \o Compilation!EnterLayer(g), g.layer, TRUE)
<1> DEFINE fence == IF x4 >= 0 THEN <<Compilation!Barrier>> ELSE <<>>
           dma == Compilation!Instr("DMA_LD", g.layer, Compilation!Alloc("weight"),
                                    Compilation!NextIn("wbuf"), g.k * g.n)
           load == IF x2 THEN <<>> ELSE <<dma>>
           entry == Compilation!Instr("KV_LOAD", g.layer, 0, 0, 0)
<1>1. g.layer \in Nat /\ g.k * g.n \in Nat
  BY DEF Compilation!Gemm
<1>2. /\ x3 \in Seq(Instructions)
      /\ IF x4 = -1 THEN WellFormed(x3, -1, FALSE) ELSE WellFormed(x3, x4, TRUE)
  BY DEF CompilerInv, WellFormed
<1>3. Compilation!Barrier \in Instructions /\ Compilation!Barrier.op = "BARRIER"
        /\ Compilation!Barrier.layer = -1
  BY DEF Compilation!Barrier, Compilation!Instr, Instructions, Ops
<1>4. dma \in Instructions /\ dma.op = "DMA_LD" /\ dma.layer = g.layer
  <2>1. Compilation!NextIn("wbuf") \in Nat /\ Compilation!Alloc("weight") \in Nat
    BY DEF Compilation!NextIn, Compilation!Alloc, Compilation!Region
  <2> QED BY <1>1, <2>1 DEF Compilation!Instr, Instructions, Ops
<1>5. entry \in Instructions /\ entry.op = "KV_LOAD" /\ entry.layer = g.layer
  BY <1>1 DEF Compilation!Instr, Instructions, Ops
<1>6. x3 \o Compilation!EnterLayer(g) = x3 \o ((fence \o load) \o <<entry>>)
  BY DEF Compilation!EnterLayer
<1> HIDE DEF dma, entry
<1>7. fence \in Seq(Instructions) /\ load \in Seq(Instructions) /\ <<entry>> \in Seq(Instructions)
  BY <1>3, <1>4, <1>5
<1>8. WellFormed(x3 \o fence, -1, FALSE)
  <2>1. CASE x4 >= 0
    <3> DEFINE b == Compilation!Barrier
    <3>1. WellFormed(x3, x4, TRUE) /\ fence = <<b>>
      <4>1. x4 # -1
        BY <2>1 DEF CompilerInv
      <4>2. WellFormed(x3, x4, TRUE)
        BY <1>2, <4>1
      <4>3. fence = <<b>>
        BY <2>1, Zenon
      <4> QED BY <4>2, <4>3
    <3>2. b \in Instructions /\ b.op = "BARRIER" /\ b.layer = -1
      BY <1>3
    <3> HIDE DEF b, fence
    <3> QED BY <3>1, <3>2, EndLayer
  <2>2. CASE x4 = -1
    <3>1. WellFormed(x3, -1, FALSE)
      BY <1>2, <2>2
    <3>2. ~(x4 >= 0)
      BY <2>2
    <3>3. fence = <<>>
      BY <3>2, Zenon
    <3>4. x3 \o fence = x3
      BY <1>2, <3>3, ConcatEmptySeq
    <3> QED BY <3>1, <3>4
  <2>3. x4 >= 0 \/ x4 = -1
    BY DEF CompilerInv
  <2> HIDE DEF fence
  <2> QED BY <2>1, <2>2, <2>3
<1>9. \E layer \in {-1, g.layer} : WellFormed((x3 \o fence) \o load, layer, FALSE)
  <2>1. x3 \o fence \in Seq(Instructions)
    BY <1>8 DEF WellFormed
  <2>2. CASE x2
    <3>1. (x3 \o fence) \o load = x3 \o fence
      BY <2>1, <2>2, ConcatEmptySeq
    <3> QED BY <1>8, <3>1
  <2>3. CASE ~x2
    <3> HIDE DEF fence
    <3> DEFINE s == <<dma>>
    <3>1. /\ s \in Seq(Instructions) /\ Len(s) > 0
          /\ \A i \in 1..Len(s) :
               /\ s[i].layer = g.layer /\ s[i].op \notin {"BARRIER", "KV_LOAD"}
               /\ s[i].op \in {"MMUL", "KV_STORE"} => FALSE
      BY <1>4
    <3> HIDE DEF s
    <3>2. WellFormed((x3 \o fence) \o s, g.layer, FALSE)
      BY <1>1, <1>8, <3>1, ContinueLayer
    <3> QED BY <2>3, <3>2 DEF s
  <2> QED BY <2>2, <2>3
<1> HIDE DEF fence, load
<1>10. WellFormed(((x3 \o fence) \o load) \o <<entry>>, g.layer, TRUE)
  BY <1>1, <1>5, <1>9, LoadEntry
<1>11. ((x3 \o fence) \o load) \o <<entry>> = x3 \o ((fence \o load) \o <<entry>>)
  <2> DEFINE e == <<entry>>
  <2> HIDE DEF e
  <2>1. (x3 \o fence) \o load = x3 \o (fence \o load)
    <3>1. x3 \in Seq(Instructions) /\ fence \in Seq(Instructions) /\ load \in Seq(Instructions)
      BY <1>2, <1>7
    <3> QED BY <3>1, ConcatAssociative
  <2> DEFINE both == fence \o load
  <2>2. both \in Seq(Instructions) /\ e \in Seq(Instructions)
    BY <1>7, ConcatProperties DEF e
  <2> HIDE DEF both
  <2>3. (x3 \o both) \o e = x3 \o (both \o e)
    BY <1>2, <2>2, ConcatAssociative
  <2> QED BY <2>1, <2>3 DEF e, both
<1> QED BY <1>6, <1>10, <1>11

(* One entry of the trace keeps the program well formed. *)
LEMMA CompileKeeps == CompilerInv /\ Compilation!CompileEntry => CompilerInv'
<1> SUFFICES ASSUME CompilerInv, Compilation!CompileEntry PROVE CompilerInv'
  OBVIOUS
<1> DEFINE g == Head(x1)
           entered == x3 \o (IF g.layer # x4 THEN Compilation!EnterLayer(g) ELSE <<>>)
<1>1. /\ x3' = entered \o Compilation!Operation(g) /\ x4' = g.layer
      /\ x1' = Tail(x1) /\ x2' = x2 /\ x5' = x5 /\ x1 # <<>>
  BY DEF Compilation!CompileEntry, Compilation!LayerAfter
<1>2. g \in Compilation!Gemm /\ x1' \in Seq(Compilation!Gemm)
  BY <1>1, HeadTailProperties DEF CompilerInv
<1>3. g.layer \in Nat
  BY <1>2 DEF Compilation!Gemm
<1>4. CASE x5
  BY <1>1, <1>4 DEF CompilerInv
<1>5. CASE ~x5
  <2>1. WellFormed(entered, g.layer, TRUE)
    <3>1. CASE g.layer # x4
      BY <1>2, <1>5, <3>1, EntersLayer
    <3>2. CASE g.layer = x4
      <4>1. x3 \in Seq(Instructions) /\ WellFormed(x3, g.layer, TRUE)
        BY <1>3, <1>5, <3>2 DEF CompilerInv, WellFormed
      <4>2. entered = x3
        BY <3>2, <4>1, ConcatEmptySeq
      <4> QED BY <4>1, <4>2
    <3> QED BY <3>1, <3>2
  <2> DEFINE s == Compilation!Operation(g)
  <2>2. /\ s \in Seq(Instructions) /\ Len(s) > 0
        /\ \A i \in 1..Len(s) :
              s[i].layer = g.layer /\ s[i].op \notin {"BARRIER", "KV_LOAD"}
    BY <1>2, OperationIsPlain
  <2> HIDE DEF s, entered, g
  <2>3. WellFormed(entered \o s, g.layer, TRUE)
    BY <1>3, <2>1, <2>2, ContinueLayer
  <2>4. x3' = entered \o s
    BY <1>1 DEF s
  <2>5. WellFormed(x3', x4', TRUE)
    BY <1>1, <2>3, <2>4
  <2>6. x4' \in Nat /\ ~x5' /\ x4' # -1
    BY <1>1, <1>3, <1>5
  <2> QED BY <1>1, <1>2, <2>5, <2>6 DEF CompilerInv
<1> QED BY <1>4, <1>5 DEF CompilerInv

(* The end of the program. *)
LEMMA FinishKeeps == CompilerInv /\ Compilation!Finish => CompilerInv'
<1> SUFFICES ASSUME CompilerInv, Compilation!Finish PROVE CompilerInv'
  OBVIOUS
<1> DEFINE b == Compilation!Barrier  nop == Compilation!Instr("NOP", -1, 0, 0, 0)
<1>1. /\ x3' = x3 \o <<b, nop>> /\ x5' = TRUE /\ ~x5
      /\ x1' = x1 /\ x2' = x2 /\ x4' = x4 /\ x1 = <<>>
  BY DEF Compilation!Finish
<1>2. /\ b \in Instructions /\ b.op = "BARRIER" /\ b.layer = -1
      /\ nop \in Instructions /\ nop.op = "NOP" /\ nop.layer = -1
  BY DEF Compilation!Barrier, Compilation!Instr, Instructions, Ops
<1> HIDE DEF b, nop
<1>3. /\ x3 \in Seq(Instructions)
      /\ IF x4 = -1 THEN WellFormed(x3, -1, FALSE) ELSE WellFormed(x3, x4, TRUE)
  BY <1>1 DEF CompilerInv, WellFormed
<1>4. WellFormed(x3 \o <<b>>, -1, FALSE)
  <2>1. CASE x4 = -1
    <3>1. WellFormed(x3, -1, FALSE)
      BY <1>3, <2>1
    <3> QED BY <1>2, <3>1, EndLayer
  <2>2. CASE x4 # -1
    <3>1. WellFormed(x3, x4, TRUE)
      BY <1>3, <2>2
    <3> QED BY <1>2, <3>1, EndLayer
  <2> QED BY <2>1, <2>2
<1>5. WellFormed((x3 \o <<b>>) \o <<nop>>, -1, FALSE)
  BY <1>2, <1>4, EndLayer
<1>6. (x3 \o <<b>>) \o <<nop>> = x3 \o <<b, nop>>
  <2> DEFINE u == <<b>>  v == <<nop>>  w == <<b, nop>>
  <2>1. u \in Seq(Instructions) /\ v \in Seq(Instructions)
    BY <1>2
  <2>2. u \o v = w
    <3>1. /\ u \o v \in Seq(Instructions) /\ Len(u \o v) = 2
          /\ (u \o v)[1] = b /\ (u \o v)[2] = nop
      BY <1>2, LongerByOne
    <3>2. w \in Seq(Instructions) /\ Len(w) = 2 /\ w[1] = b /\ w[2] = nop
      BY <1>2
    <3> HIDE DEF u, v, w
    <3> QED BY <3>1, <3>2, SeqEqual
  <2> HIDE DEF u, v, w
  <2>3. (x3 \o u) \o v = x3 \o (u \o v)
    BY <1>3, <2>1, ConcatAssociative
  <2> QED BY <2>2, <2>3 DEF u, v, w
<1>7. WellFormed(x3', -1, FALSE)
  BY <1>1, <1>5, <1>6
<1> HIDE DEF b, nop
<1> QED BY <1>1, <1>7 DEF CompilerInv

(* What the module says of the last barrier, in the words of the lemmas. *)
LEMMA EntryBehindBarrier ==
    ASSUME NEW p \in Seq(Instructions), NEW i \in 1..Len(p), NEW layer,
           EnteredOnce(p, i, layer)
    PROVE  LET start == Compilation!Max({0} \cup {j \in 1..i : p[j].op = "BARRIER"})
               loads == {j \in start + 1..i : p[j].op = "KV_LOAD"}
           IN  Compilation!Cardinality(loads) = 1 /\ \A j \in loads : p[j].layer = layer
<1> DEFINE S == {0} \cup {j \in 1..i : p[j].op = "BARRIER"}
           start == Compilation!Max(S)
           loads == {j \in start + 1..i : p[j].op = "KV_LOAD"}
<1>1. i \in Nat /\ S \subseteq 0..i /\ 0 \in S
  OBVIOUS
<1>2. PICK m \in S : \A y \in S : m >= y
  <2> HIDE DEF S
  <2>1. \A n \in Nat : (\E x \in S : x >= n) \/ (\A x \in S : x < n)
    BY <1>1
  <2> DEFINE Up == {n \in Nat : \A x \in S : x <= n}
  <2>2. i \in Up
    BY <1>1
  <2>3. PICK m \in Up : \A k \in Up : ~ (<<k, m>> \in OpToRel(<, Nat))
    BY <2>2, WFMin, NatLessThanWellFounded, Zenon
  <2>4. \A k \in Up : ~(k < m)
    BY <2>3, Zenon DEF OpToRel
  <2>5. m \in S
    <3> SUFFICES ASSUME m \notin S PROVE FALSE
      OBVIOUS
    <3>1. m > 0 /\ m \in Nat
      BY <1>1
    <3>2. \A x \in S : x <= m - 1
      BY <1>1, <3>1
    <3> QED BY <2>4, <3>1, <3>2
  <2> QED BY <1>1, <2>5
<1>3. start = m
  <2> HIDE DEF S
  <2>1. \A x \in S : (\A y \in S : x >= y) => x = m
    BY <1>1, <1>2
  <2>2. start = CHOOSE x \in S : \A y \in S : x >= y
    BY DEF Compilation!Max
  <2> QED BY <1>2, <2>1, <2>2
<1>4. PICK j \in 1..i :
        /\ p[j].op = "KV_LOAD" /\ p[j].layer = layer /\ ~Fenced(p, j, i)
        /\ \A k \in 1..i : p[k].op = "KV_LOAD" /\ k # j => Fenced(p, k, i)
  BY DEF EnteredOnce
<1>5. \A k \in 1..i : Fenced(p, k, i) <=> k <= m
  <2> SUFFICES ASSUME NEW k \in 1..i PROVE Fenced(p, k, i) <=> k <= m
    OBVIOUS
  <2>1. Fenced(p, k, i) => k <= m
    BY <1>1, <1>2 DEF Fenced
  <2>2. k <= m => m \in k..i /\ p[m].op = "BARRIER"
    BY <1>1, <1>2
  <2> QED BY <2>1, <2>2 DEF Fenced
<1>6. m \in 0..i
  BY <1>1, <1>2
<1> HIDE DEF start, S
<1>7. loads = {j}
  BY <1>3, <1>4, <1>5, <1>6
<1>8. Compilation!Cardinality({j}) = 1
  BY FS_Singleton DEF Compilation!Cardinality, Cardinality
<1> QED BY <1>4, <1>7, <1>8 DEF start, S

(* Whatever the trace, revisited layers included: between the work of two  *)
(* layers there is a barrier, and behind the last barrier the layer of     *)
(* each product and store was entered once (compile_decode).               *)
THEOREM LayersAreFenced == Spec => []BarrierBetweenLayers
<1> DEFINE Inv == part = "compilation" => CompilerInv
<1>1. Init => Inv
  <2> SUFFICES ASSUME Compilation!Init PROVE CompilerInv
    BY DEF Init
  <2>1. x1 \in Seq(Compilation!Gemm)
    BY InstructionAssumptions
       DEF InstructionAssumptions, Compilation!CompilerAssumption, Compilation!Init
  <2> QED BY <2>1, EmptyIsWellFormed DEF Compilation!Init, CompilerInv
<1>2. Inv /\ [Next]_state => Inv'
  <2> SUFFICES ASSUME Inv, [Next]_state, part' = "compilation" PROVE CompilerInv'
    OBVIOUS
  <2>1. part = "compilation" /\ CompilerInv
    BY DEF Next, state
  <2>2. CASE UNCHANGED state
    BY <2>1, <2>2 DEF state, CompilerInv
  <2>3. CASE Next
    <3>1. Compilation!Next
      BY <2>1, <2>3 DEF Next
    <3> QED BY <2>1, <3>1, CompileKeeps, FinishKeeps DEF Compilation!Next
  <2> QED BY <2>2, <2>3
<1>3. Inv => BarrierBetweenLayers
  <2> SUFFICES ASSUME CompilerInv
               PROVE  /\ Compilation!TypeOK /\ Compilation!EntersLayerOnce
                      /\ Compilation!BarrierBetweenLayers
    BY DEF BarrierBetweenLayers
  <2>1. PICK layer, entered : WellFormed(x3, layer, entered)
    BY DEF CompilerInv
  <2>2. x3 \in Seq(Instructions) /\ DOMAIN x3 = 1..Len(x3)
    BY <2>1 DEF WellFormed
  <2>3. Compilation!TypeOK
    <3>1. \A i \in 1..Len(x3) : x3[i] \in Instructions
      BY <2>2
    <3> QED BY <2>2, <3>1 DEF Compilation!TypeOK, CompilerInv, Instructions, Ops
  <2>4. Compilation!BarrierBetweenLayers
    BY <2>1 DEF WellFormed, Compilation!BarrierBetweenLayers
  <2>5. Compilation!EntersLayerOnce
    <3> SUFFICES ASSUME NEW i \in DOMAIN x3, x3[i].op \in {"MMUL", "KV_STORE"}
                 PROVE  LET start == Compilation!Max({0} \cup {j \in 1..i : x3[j].op = "BARRIER"})
                            loads == {j \in start + 1..i : x3[j].op = "KV_LOAD"}
                        IN  /\ Compilation!Cardinality(loads) = 1
                            /\ \A j \in loads : x3[j].layer = x3[i].layer
      BY DEF Compilation!EntersLayerOnce
    <3>1. EnteredOnce(x3, i, x3[i].layer)
      BY <2>1, <2>2 DEF WellFormed
    <3> QED BY <2>2, <3>1, EntryBehindBarrier
  <2> QED BY <2>3, <2>4, <2>5
<1> QED BY <1>1, <1>2, <1>3, PTL DEF Spec

-----------------------------------------------------------------------------
(* NpuSimulator: x1 trace, x2 mode, x3 weightCache, x4 turn, x5 time,      *)
(* x6 events, x7 layers, x8 status.                                        *)

Loss == Frequency - 1

\* a clock that is c cycles, and k times rounded up to a picosecond
Shows(now, c, k) ==
    /\ now \in Nat /\ c \in Nat /\ k \in 0..6
    /\ now * Frequency >= c * PsPerMega
    /\ now * Frequency <= c * PsPerMega + k * Loss

(* What the proofs use of the clock's constants. *)
LEMMA ClockConstants ==
    /\ Frequency \in Nat \ {0} /\ PsPerMega \in Nat \ {0}
    /\ Loss \in Nat /\ 6 * Loss < PsPerMega
BY InstructionAssumptions DEF InstructionAssumptions, Simulator!SimulatorAssumption, Loss

(* A number of cycles is rounded up to picoseconds once. *)
LEMMA CyclesToPs ==
    ASSUME NEW c \in Nat
    PROVE  /\ Simulator!ToPs(c) \in Nat
           /\ Simulator!ToPs(c) * Frequency >= c * PsPerMega
           /\ Simulator!ToPs(c) * Frequency <= c * PsPerMega + Loss
<1> DEFINE a == c * PsPerMega  q == (a + Frequency - 1) \div Frequency
<1>1. a \in Nat
  BY ClockConstants
<1>2. Simulator!ToPs(c) = q
  BY DEF Simulator!ToPs, Simulator!CeilDiv
<1> HIDE DEF a
<1>3. q \in Nat /\ q * Frequency >= a /\ q * Frequency <= a + Loss
  <2>1. ASSUME NEW x \in Nat, NEW f \in Nat \ {0}
        PROVE  LET d == x \div f IN d \in Nat /\ d * f <= x /\ x < d * f + f
    OBVIOUS
  <2> DEFINE x == a + Frequency - 1
  <2>2. x \in Nat /\ x = a + Loss
    BY <1>1, ClockConstants DEF Loss
  <2> HIDE DEF x
  <2>3. LET d == x \div Frequency IN d \in Nat /\ d * Frequency <= x /\ x < d * Frequency + Frequency
    BY <2>1, <2>2, ClockConstants
  <2> DEFINE d == x \div Frequency  df == d * Frequency
  <2>4. d \in Nat /\ df \in Nat /\ df <= x /\ x < df + Frequency
    BY <2>3, ClockConstants
  <2> HIDE DEF d, df
  <2>5. df >= a /\ df <= a + Loss
    BY <1>1, <2>2, <2>4, ClockConstants DEF Loss
  <2> QED BY <2>4, <2>5 DEF d, df, x
<1> QED BY <1>2, <1>3 DEF a

(* A clock that was set shows what it was set to. *)
LEMMA SetShows ==
    ASSUME NEW c \in Nat
    PROVE  Shows(Simulator!ToPs(c), c, 1)
BY CyclesToPs, ClockConstants DEF Shows

(* Cycles passed are cycles shown. *)
LEMMA LaterShows ==
    ASSUME NEW now, NEW c, NEW k, Shows(now, c, k), k < 6, NEW d \in Nat
    PROVE  Shows(now + Simulator!ToPs(d), c + d, k + 1)
<1> DEFINE t == Simulator!ToPs(d)
<1>1. /\ now \in Nat /\ c \in Nat /\ k \in 0..5
      /\ now * Frequency >= c * PsPerMega /\ now * Frequency <= c * PsPerMega + k * Loss
  BY DEF Shows
<1>2. /\ t \in Nat /\ t * Frequency >= d * PsPerMega /\ t * Frequency <= d * PsPerMega + Loss
  BY CyclesToPs
<1> HIDE DEF t
<1> DEFINE nf == now * Frequency  tf == t * Frequency  cp == c * PsPerMega  dp == d * PsPerMega
           kl == k * Loss
<1>3. /\ (now + t) * Frequency = nf + tf /\ (c + d) * PsPerMega = cp + dp
      /\ (k + 1) * Loss = kl + Loss
      /\ nf \in Int /\ tf \in Int /\ cp \in Int /\ dp \in Int /\ kl \in Int
  BY <1>1, <1>2, ClockConstants
<1> HIDE DEF nf, tf, cp, dp, kl
<1>4. nf + tf >= cp + dp /\ nf + tf <= cp + dp + (kl + Loss)
  BY <1>1, <1>2, <1>3, ClockConstants DEF nf, tf, cp, dp, kl
<1> QED BY <1>1, <1>2, <1>3, <1>4 DEF Shows, t

(* The simulator reads off the cycles, whatever was lost by rounding. *)
LEMMA ReadOff ==
    ASSUME NEW now, NEW c, NEW k, Shows(now, c, k)
    PROVE  Simulator!ToCycles(now) = c
<1>1. /\ now \in Nat /\ c \in Nat /\ k \in 0..6
      /\ now * Frequency >= c * PsPerMega /\ now * Frequency <= c * PsPerMega + k * Loss
  BY DEF Shows
<1> DEFINE x == now * Frequency
<1>2. x \in Nat /\ x >= c * PsPerMega /\ x < c * PsPerMega + PsPerMega
  <2>1. k * Loss <= 6 * Loss
    BY <1>1, ClockConstants
  <2> DEFINE kl == k * Loss  cp == c * PsPerMega
  <2>2. kl \in Int /\ cp \in Int /\ x \in Nat
    BY <1>1, ClockConstants
  <2>3. x >= cp /\ x <= cp + kl /\ kl < PsPerMega
    BY <1>1, <2>1, <2>2, ClockConstants
  <2> HIDE DEF kl, x, cp
  <2>4. x < cp + PsPerMega
    BY <2>2, <2>3, ClockConstants
  <2> QED BY <2>2, <2>3, <2>4 DEF cp
<1> HIDE DEF x
<1>3. ASSUME NEW p \in Nat \ {0}, x >= c * p, x < c * p + p
      PROVE  x \div p = c
  BY <1>1, <1>2, <1>3
<1> QED BY <1>2, <1>3, ClockConstants DEF Simulator!ToCycles, x

(* What a clock shows is a cycle. *)
LEMMA ReadsNat ==
    ASSUME NEW now \in Nat
    PROVE  Simulator!ToCycles(now) \in Nat
<1> DEFINE x == now * Frequency
<1>1. x \in Nat
  BY ClockConstants
<1> HIDE DEF x
<1>2. ASSUME NEW p \in Nat \ {0} PROVE x \div p \in Nat
  BY <1>1
<1> QED BY <1>2, ClockConstants DEF Simulator!ToCycles, x

\* the events of a timeline, and those of the serial units and of products
Units == {"mxu", "sfu", "vector", "kv", "dma", "noc"}
Events == [module : Units, gemms : SUBSET Nat, start : Nat, end : Nat, overlapped : BOOLEAN]
Timelines == [now : Nat, busy : Nat, events : Seq(Events)]
SerialIn(es) == {i \in 1..Len(es) : es[i].module \notin {"dma", "noc"}}
ProductsIn(es) == {i \in 1..Len(es) : es[i].module = "mxu"}

\* serial events meet, and the last of them ends at cycle c
Follow(es) ==
    \A i, j \in SerialIn(es) :
        i < j /\ SerialIn(es) \cap (i + 1)..(j - 1) = {} => es[i].end = es[j].start
EndAt(es, c) ==
    \A i \in SerialIn(es) : SerialIn(es) \cap (i + 1)..Len(es) = {} => es[i].end = c

\* the first n products of the trace are computed, in their order
Computed(es, n) ==
    /\ UNION {es[i].gemms : i \in ProductsIn(es)} = 1..n
    /\ \A i, j \in ProductsIn(es) : i < j => \A g \in es[i].gemms, h \in es[j].gemms : g < h

\* a timeline that is c cycles, after k roundings, with n products computed
Laid(tl, c, k, n) ==
    /\ tl \in Timelines
    /\ Shows(tl.now, c, k)
    /\ Follow(tl.events) /\ EndAt(tl.events, c) /\ Computed(tl.events, n)

(* An event more, of a serial unit or of one that runs beside them. *)
LEMMA EventFollows ==
    ASSUME NEW es \in Seq(Events), NEW e \in Events, NEW c \in Nat, Follow(es), EndAt(es, c)
    PROVE  LET fs == Append(es, e) IN
           /\ fs \in Seq(Events)
           /\ e.module \in {"dma", "noc"} => Follow(fs) /\ EndAt(fs, c)
           /\ e.module \notin {"dma", "noc"} /\ e.start = c => Follow(fs) /\ EndAt(fs, e.end)
<1> DEFINE fs == Append(es, e)  n == Len(es)
<1>1. /\ fs \in Seq(Events) /\ Len(fs) = n + 1 /\ n \in Nat /\ fs[n + 1] = e
      /\ \A i \in 1..n : fs[i] = es[i]
  OBVIOUS
<1> HIDE DEF fs
<1>2. CASE e.module \in {"dma", "noc"}
  <2>1. SerialIn(fs) = SerialIn(es)
    BY <1>1, <1>2 DEF SerialIn
  <2>2. SerialIn(es) \subseteq 1..n
    BY DEF SerialIn
  <2>3. Follow(fs)
    BY <1>1, <2>1, <2>2 DEF Follow
  <2>4. EndAt(fs, c)
    <3> SUFFICES ASSUME NEW i \in SerialIn(es), SerialIn(es) \cap (i + 1)..(n + 1) = {}
                 PROVE  es[i].end = c
      BY <1>1, <2>1, <2>2 DEF EndAt
    <3>1. SerialIn(es) \cap (i + 1)..n = {}
      BY <1>1, <2>2
    <3> QED BY <3>1 DEF EndAt
  <2> QED BY <1>1, <1>2, <2>3, <2>4 DEF fs
<1>3. CASE e.module \notin {"dma", "noc"}
  <2>1. SerialIn(fs) = SerialIn(es) \cup {n + 1} /\ SerialIn(es) \subseteq 1..n
    BY <1>1, <1>3 DEF SerialIn
  <2>2. ASSUME e.start = c PROVE Follow(fs)
    <3> SUFFICES ASSUME NEW i \in SerialIn(fs), NEW j \in SerialIn(fs), i < j,
                        SerialIn(fs) \cap (i + 1)..(j - 1) = {}
                 PROVE  fs[i].end = fs[j].start
      BY DEF Follow
    <3>1. i \in SerialIn(es)
      BY <1>1, <2>1
    <3>2. CASE j \in SerialIn(es)
      <4>1. SerialIn(es) \cap (i + 1)..(j - 1) = {}
        BY <2>1
      <4>2. es[i].end = es[j].start
        BY <3>1, <3>2, <4>1 DEF Follow
      <4> QED BY <1>1, <2>1, <3>1, <3>2, <4>2
    <3>3. CASE j = n + 1
      <4>1. SerialIn(es) \cap (i + 1)..n = {}
        BY <1>1, <2>1, <3>3
      <4>2. es[i].end = c
        BY <3>1, <4>1 DEF EndAt
      <4> QED BY <1>1, <2>1, <2>2, <3>1, <3>3, <4>2
    <3> QED BY <2>1, <3>2, <3>3
  <2>3. EndAt(fs, e.end)
    <3> SUFFICES ASSUME NEW i \in SerialIn(fs), SerialIn(fs) \cap (i + 1)..(n + 1) = {}
                 PROVE  fs[i].end = e.end
      BY <1>1 DEF EndAt
    <3>1. i = n + 1
      BY <1>1, <2>1
    <3> QED BY <1>1, <3>1
  <2> QED BY <1>1, <1>3, <2>2, <2>3 DEF fs
<1> QED BY <1>2, <1>3

(* An event more, of the next products or of none. *)
LEMMA EventComputes ==
    ASSUME NEW es \in Seq(Events), NEW e \in Events, NEW n \in Nat, Computed(es, n)
    PROVE  LET fs == Append(es, e) IN
           /\ e.module # "mxu" => Computed(fs, n)
           /\ \A m \in Nat : e.module = "mxu" /\ m >= n /\ e.gemms = (n + 1)..m => Computed(fs, m)
<1> DEFINE fs == Append(es, e)  l == Len(es)
<1>1. /\ fs \in Seq(Events) /\ Len(fs) = l + 1 /\ l \in Nat /\ fs[l + 1] = e
      /\ \A i \in 1..l : fs[i] = es[i]
  OBVIOUS
<1> HIDE DEF fs
<1>2. ProductsIn(es) \subseteq 1..l
  BY DEF ProductsIn
<1>3. ASSUME e.module # "mxu" PROVE Computed(fs, n)
  <2>1. ProductsIn(fs) = ProductsIn(es)
    BY <1>1, <1>3 DEF ProductsIn
  <2>2. \A i \in ProductsIn(es) : fs[i] = es[i]
    BY <1>1, <1>2
  <2>3. {fs[i].gemms : i \in ProductsIn(fs)} = {es[i].gemms : i \in ProductsIn(es)}
    BY <2>1, <2>2
  <2>4. UNION {fs[i].gemms : i \in ProductsIn(fs)} = 1..n
    BY <2>3 DEF Computed
  <2> QED BY <2>1, <2>2, <2>4 DEF Computed
<1>4. ASSUME NEW m \in Nat, e.module = "mxu", m >= n, e.gemms = (n + 1)..m
      PROVE  Computed(fs, m)
  <2>1. ProductsIn(fs) = ProductsIn(es) \cup {l + 1}
    BY <1>1, <1>4 DEF ProductsIn
  <2>2. \A i \in ProductsIn(es) : fs[i] = es[i] /\ i < l + 1
    BY <1>1, <1>2
  <2>3. UNION {es[i].gemms : i \in ProductsIn(es)} = 1..n
    BY DEF Computed
  <2>4. \A i \in ProductsIn(es) : es[i].gemms \subseteq 1..n
    BY <2>3
  <2>5. UNION {fs[i].gemms : i \in ProductsIn(fs)} = 1..m
    <3> DEFINE F == {fs[i].gemms : i \in ProductsIn(fs)}
               E == {es[i].gemms : i \in ProductsIn(es)}
    <3>1. F = E \cup {(n + 1)..m}
      BY <1>1, <1>4, <2>1, <2>2
    <3>2. UNION F = (UNION E) \cup (n + 1)..m
      <4> HIDE DEF F, E
      <4> QED BY <3>1
    <3>3. (1..n) \cup (n + 1)..m = 1..m
      BY <1>4
    <3> QED BY <2>3, <3>2, <3>3
  <2>6. ASSUME NEW i \in ProductsIn(fs), NEW j \in ProductsIn(fs), i < j,
               NEW g \in fs[i].gemms, NEW h \in fs[j].gemms
        PROVE  g < h
    <3>1. i \in ProductsIn(es)
      BY <1>1, <1>2, <2>1, <2>6
    <3>2. CASE j \in ProductsIn(es)
      BY <2>2, <2>6, <3>1, <3>2 DEF Computed
    <3>3. CASE j = l + 1
      <4>1. g \in 1..n /\ h \in (n + 1)..m
        BY <1>1, <1>4, <2>2, <2>4, <2>6, <3>1, <3>3
      <4> QED BY <4>1
    <3> QED BY <2>1, <3>2, <3>3
  <2> QED BY <2>5, <2>6 DEF Computed
<1> QED BY <1>3, <1>4 DEF fs

(* add_mxu, add_sfu, add_vector, add_kv: the clock moves by the cycles of  *)
(* the event, which starts where the last serial one ended.                *)
LEMMA AddSerial ==
    ASSUME NEW tl, NEW c, NEW k, NEW n \in Nat, Laid(tl, c, k, n), k < 6,
           NEW unit \in {"mxu", "sfu", "vector", "kv"}, NEW d \in Nat,
           NEW m \in Nat, NEW gemms \in SUBSET Nat,
           \/ unit # "mxu" /\ m = n
           \/ unit = "mxu" /\ m >= n /\ gemms = (n + 1)..m
    PROVE  Laid(Simulator!AddEvent(tl, unit, d, gemms), c + d, k + 1, m)
<1> DEFINE end == tl.now + Simulator!ToPs(d)
           e == [module |-> unit, gemms |-> gemms,
                 start |-> Simulator!ToCycles(tl.now), end |-> Simulator!ToCycles(end),
                 overlapped |-> unit \in {"dma", "noc"}
                                   /\ Simulator!ToPs(d) <= tl.busy - tl.now]
           tm == Simulator!AddEvent(tl, unit, d, gemms)
           busy == IF unit = "mxu" /\ end > tl.busy THEN end ELSE tl.busy
<1>1. /\ tl.now \in Nat /\ tl.busy \in Nat /\ tl.events \in Seq(Events)
      /\ Shows(tl.now, c, k) /\ c \in Nat /\ k \in 0..5
      /\ Follow(tl.events) /\ EndAt(tl.events, c) /\ Computed(tl.events, n)
  BY DEF Laid, Timelines, Shows
<1>2. Shows(end, c + d, k + 1) /\ end \in Nat
  <2>1. Shows(end, c + d, k + 1)
    BY <1>1, LaterShows
  <2> QED BY <2>1 DEF Shows
<1>3. Simulator!ToCycles(tl.now) = c /\ Simulator!ToCycles(end) = c + d
  BY <1>1, <1>2, ReadOff
<1>4. tm = [now |-> end, busy |-> busy, events |-> Append(tl.events, e)]
  BY DEF Simulator!AddEvent, Simulator!Parallel
<1> DEFINE late == unit \in {"dma", "noc"} /\ Simulator!ToPs(d) <= tl.busy - tl.now
<1>5. late \in BOOLEAN /\ busy \in Nat
  BY <1>1, <1>2
<1> HIDE DEF tm, busy, end, late
<1>6. e = [module |-> unit, gemms |-> gemms, start |-> c, end |-> c + d, overlapped |-> late]
  BY <1>3 DEF late
<1> HIDE DEF e
<1>7. e \in Events /\ e.module = unit /\ e.start = c /\ e.end = c + d /\ e.gemms = gemms
  BY <1>1, <1>5, <1>6 DEF Events, Units
<1> DEFINE es == tl.events  fs == Append(tl.events, e)
<1>8. fs \in Seq(Events) /\ Follow(fs) /\ EndAt(fs, c + d)
  <2>1. unit \notin {"dma", "noc"}
    OBVIOUS
  <2> QED BY <1>1, <1>7, <2>1, EventFollows
<1>9. Computed(fs, m)
  BY <1>1, <1>7, EventComputes
<1> HIDE DEF fs
<1>10. /\ tm.now = end /\ tm.events = fs /\ tm \in Timelines
  BY <1>2, <1>4, <1>5, <1>8 DEF Timelines, fs
<1> QED BY <1>2, <1>8, <1>9, <1>10 DEF Laid, tm

(* add_dma_parallel and add_noc, with the clock set back to the cycle it   *)
(* showed.                                                                 *)
LEMMA AddParallel ==
    ASSUME NEW tl, NEW c, NEW k, NEW n \in Nat, Laid(tl, c, k, n),
           NEW unit \in {"dma", "noc"}, NEW d \in Nat
    PROVE  Laid(Simulator!RestoreTo(Simulator!AddEvent(tl, unit, d, {}), c), c, 1, n)
<1> DEFINE end == tl.now + Simulator!ToPs(d)
           e == [module |-> unit, gemms |-> {},
                 start |-> Simulator!ToCycles(tl.now), end |-> Simulator!ToCycles(end),
                 overlapped |-> unit \in {"dma", "noc"}
                                   /\ Simulator!ToPs(d) <= tl.busy - tl.now]
           tm == Simulator!AddEvent(tl, unit, d, {})
<1>1. /\ tl.now \in Nat /\ tl.busy \in Nat /\ tl.events \in Seq(Events)
      /\ Shows(tl.now, c, k) /\ c \in Nat /\ k \in 0..6
      /\ Follow(tl.events) /\ EndAt(tl.events, c) /\ Computed(tl.events, n)
  BY DEF Laid, Timelines, Shows
<1>2. end \in Nat
  <2> DEFINE ps == Simulator!ToPs(d)
  <2>1. ps \in Nat
    BY CyclesToPs
  <2> HIDE DEF ps
  <2>2. tl.now + ps \in Nat
    BY <1>1, <2>1
  <2> QED BY <2>2 DEF ps
<1>3. Simulator!ToCycles(tl.now) = c /\ Simulator!ToCycles(end) \in Nat
  BY <1>1, <1>2, ReadOff, ReadsNat
<1> DEFINE at == Simulator!ToCycles(end)
<1>4. tm = [now |-> end, busy |-> tl.busy, events |-> Append(tl.events, e)]
  BY DEF Simulator!AddEvent, Simulator!Parallel
<1> DEFINE late == unit \in {"dma", "noc"} /\ Simulator!ToPs(d) <= tl.busy - tl.now
<1>5. late \in BOOLEAN
  BY <1>1
<1> HIDE DEF tm, end, late, at
<1>6. e = [module |-> unit, gemms |-> {}, start |-> c, end |-> at, overlapped |-> late]
  BY <1>3 DEF late, at
<1> HIDE DEF e
<1>7. e \in Events /\ e.module = unit
  BY <1>1, <1>3, <1>5, <1>6 DEF Events, Units, at
<1> DEFINE fs == Append(tl.events, e)
<1>8. fs \in Seq(Events) /\ Follow(fs) /\ EndAt(fs, c)
  BY <1>1, <1>7, EventFollows
<1>9. Computed(fs, n)
  <2>1. unit # "mxu"
    OBVIOUS
  <2> QED BY <1>1, <1>7, <2>1, EventComputes
<1> HIDE DEF fs
<1> DEFINE ps == Simulator!ToPs(c)
<1>10. ps \in Nat /\ Shows(ps, c, 1)
  BY <1>1, CyclesToPs, SetShows
<1> HIDE DEF ps
<1>11. Simulator!RestoreTo(tm, c) = [now |-> ps, busy |-> tl.busy, events |-> fs]
  <2>1. Simulator!RestoreTo(tm, c) = [tm EXCEPT !.now = ps]
    BY DEF Simulator!RestoreTo, ps
  <2>2. tm = [now |-> end, busy |-> tl.busy, events |-> fs]
    BY <1>4 DEF fs
  <2> QED BY <2>1, <2>2
<1> DEFINE tn == Simulator!RestoreTo(tm, c)
<1> HIDE DEF tn
<1>12. tn.now = ps /\ tn.events = fs /\ tn \in Timelines
  BY <1>1, <1>8, <1>10, <1>11 DEF Timelines, tn
<1>13. Laid(tn, c, 1, n)
  BY <1>8, <1>9, <1>10, <1>12 DEF Laid
<1> QED BY <1>13 DEF tn, tm

(* More roundings may be allowed for than there were. *)
LEMMA MoreRoundings ==
    ASSUME NEW tl, NEW c, NEW k, NEW n, Laid(tl, c, k, n), NEW j \in k..6
    PROVE  Laid(tl, c, j, n)
<1>1. Shows(tl.now, c, k)
  BY DEF Laid
<1>2. k * Loss <= j * Loss /\ k * Loss \in Int /\ j * Loss \in Int
  <2>1. k \in 0..6 /\ j \in 0..6 /\ k <= j
    BY <1>1 DEF Shows
  <2> QED BY <2>1, ClockConstants
<1>3. Shows(tl.now, c, j)
  <2> DEFINE kl == k * Loss  jl == j * Loss  cp == c * PsPerMega  nf == tl.now * Frequency
  <2>1. /\ tl.now \in Nat /\ c \in Nat /\ j \in 0..6 /\ nf >= cp /\ nf <= cp + kl
        /\ kl <= jl /\ kl \in Int /\ jl \in Int /\ cp \in Int /\ nf \in Int
    BY <1>1, <1>2, ClockConstants DEF Shows
  <2> HIDE DEF kl, jl, cp, nf
  <2>2. nf <= cp + jl
    BY <2>1
  <2> QED BY <2>1, <2>2 DEF Shows, jl, cp, nf
<1> QED BY <1>3 DEF Laid

Costs == [total : Nat, compute : Nat, dma : Nat]

(* A product, with the cache switched before it and its transfers set      *)
(* beside what follows.                                                    *)
LEMMA GemmLaid ==
    ASSUME NEW c, NEW n \in Nat, Laid(Simulator!Timeline, c, 4, n),
           NEW layer, NEW cost \in Costs, NEW noc \in Nat,
           NEW m \in Nat, m >= n, NEW gemms, gemms = (n + 1)..m
    PROVE  Laid(Simulator!AfterGemm(cost, noc, gemms, layer),
                c + Simulator!Switch(layer) + cost.total, 1, m)
<1> DEFINE tl == Simulator!Timeline
           switch == Simulator!Switch(layer)
           switched == IF switch > 0 THEN Simulator!AddEvent(tl, "kv", switch, {}) ELSE tl
           computed == Simulator!AddEvent(switched, "mxu", cost.total, gemms)
           end == Simulator!ToCycles(computed.now)
           loaded == Simulator!RestoreTo(Simulator!AddEvent(computed, "dma", cost.dma, {}), end)
           last == Simulator!RestoreTo(Simulator!AddEvent(loaded, "noc", noc, {}), end)
           C == c + switch + cost.total
<1>1. Simulator!AfterGemm(cost, noc, gemms, layer) = last
  BY DEF Simulator!AfterGemm
<1>2. switch \in Nat /\ cost.total \in Nat /\ cost.dma \in Nat /\ c \in Nat
  <2>1. KvSwitch \in Nat
    BY InstructionAssumptions DEF InstructionAssumptions, Simulator!SimulatorAssumption
  <2> QED BY <2>1 DEF Simulator!Switch, Costs, Laid, Shows
<1> HIDE DEF switch, tl
<1>3. Laid(switched, c + switch, 5, n)
  <2>1. CASE switch > 0
    <3> DEFINE next == Simulator!AddEvent(tl, "kv", switch, {})
    <3>1. Laid(next, c + switch, 4 + 1, n)
      BY <1>2, AddSerial DEF tl
    <3> HIDE DEF next
    <3> QED BY <2>1, <3>1 DEF next
  <2>2. CASE ~(switch > 0)
    <3>1. c + switch = c /\ switched = tl
      BY <1>2, <2>2
    <3>2. Laid(tl, c, 5, n)
      BY MoreRoundings DEF tl
    <3> QED BY <3>1, <3>2
  <2> QED BY <2>1, <2>2
<1> HIDE DEF switched
<1>4. Laid(computed, C, 6, m)
  <2>1. gemms \in SUBSET Nat
    OBVIOUS
  <2> DEFINE d == cost.total  c5 == c + switch
  <2>2. Laid(switched, c5, 5, n) /\ d \in Nat
    BY <1>2, <1>3
  <2> HIDE DEF d, c5
  <2>3. Laid(Simulator!AddEvent(switched, "mxu", d, gemms), c5 + d, 5 + 1, m)
    BY <2>1, <2>2, AddSerial
  <2>4. 5 + 1 = 6
    OBVIOUS
  <2> QED BY <2>3, <2>4 DEF d, c5
<1> HIDE DEF computed
<1>5. end = C
  BY <1>4, ReadOff DEF Laid
<1> HIDE DEF end, C
<1>6. \A t, j : \A d \in Nat : \A unit \in {"dma", "noc"} : Laid(t, C, j, m) =>
        Laid(Simulator!RestoreTo(Simulator!AddEvent(t, unit, d, {}), C), C, 1, m)
  BY AddParallel
<1>7. Laid(loaded, C, 1, m)
  BY <1>2, <1>4, <1>5, <1>6
<1> HIDE DEF loaded
<1>8. Laid(last, C, 1, m)
  BY <1>5, <1>6, <1>7
<1> QED BY <1>1, <1>8 DEF C, switch

(* The special functions, vector work and cache access of a product. *)
LEMMA RestLaid ==
    ASSUME NEW tl, NEW c, NEW n \in Nat, Laid(tl, c, 1, n), NEW sfu \in Nat, NEW vector \in Nat
    PROVE  Laid(Simulator!AfterRest(tl, sfu, vector), c + sfu + vector + KvAccess, 4, n)
<1> DEFINE special == IF sfu > 0 THEN Simulator!AddEvent(tl, "sfu", sfu, {}) ELSE tl
           added == IF vector > 0 THEN Simulator!AddEvent(special, "vector", vector, {})
                                  ELSE special
           last == Simulator!AddEvent(added, "kv", KvAccess, {})
<1>1. Simulator!AfterRest(tl, sfu, vector) = last
  BY DEF Simulator!AfterRest
<1>2. c \in Nat /\ KvAccess \in Nat
  BY InstructionAssumptions
  DEF InstructionAssumptions, Simulator!SimulatorAssumption, Laid, Shows
<1>3. Laid(special, c + sfu, 2, n)
  <2>1. CASE sfu > 0
    <3>1. Laid(Simulator!AddEvent(tl, "sfu", sfu, {}), c + sfu, 1 + 1, n)
      BY AddSerial
    <3> QED BY <2>1, <3>1
  <2>2. CASE ~(sfu > 0)
    <3>1. c + sfu = c /\ special = tl
      BY <1>2, <2>2
    <3>2. Laid(tl, c, 2, n)
      BY MoreRoundings
    <3> QED BY <3>1, <3>2
  <2> QED BY <2>1, <2>2
<1> HIDE DEF special
<1>4. Laid(added, c + sfu + vector, 3, n)
  <2> DEFINE cs == c + sfu
  <2>0. cs \in Nat /\ Laid(special, cs, 2, n)
    BY <1>2, <1>3
  <2> HIDE DEF cs
  <2>1. CASE vector > 0
    <3>1. Laid(Simulator!AddEvent(special, "vector", vector, {}), cs + vector, 2 + 1, n)
      BY <2>0, AddSerial
    <3> QED BY <2>1, <3>1 DEF cs
  <2>2. CASE ~(vector > 0)
    <3>1. cs + vector = cs /\ added = special
      BY <2>0, <2>2
    <3>2. Laid(special, cs, 3, n)
      BY <2>0, MoreRoundings
    <3> QED BY <3>1, <3>2 DEF cs
  <2> QED BY <2>1, <2>2
<1> HIDE DEF added
<1> DEFINE cv == c + sfu + vector
<1>5. Laid(added, cv, 3, n)
  BY <1>4
<1> HIDE DEF cv
<1>6. Laid(last, cv + KvAccess, 3 + 1, n)
  BY <1>2, <1>5, AddSerial
<1> QED BY <1>1, <1>6 DEF cv

\* the breakdowns of the layers, and the serial work they were charged for
Breakdowns == [mxu : Nat, sfu : Nat, vector : Nat, kv : Nat,
               effective : Nat, hidden : Nat, noc : Nat, total : Nat]
WorkOf(b) == b.mxu + b.sfu + b.vector + b.kv
Work(ls) ==
    SumFunctionOnSet([l \in DOMAIN ls |-> ls[l].mxu + ls[l].sfu + ls[l].vector + ls[l].kv],
                     DOMAIN ls)
\* breakdown b put in for a layer, and the work of the one it replaces
Placed(ls, layer, b) == [l \in DOMAIN ls \cup {layer} |-> IF l = layer THEN b ELSE ls[l]]
Before(ls, layer) == IF layer \in DOMAIN ls THEN WorkOf(ls[layer]) ELSE 0
Kept(ls) == IsFiniteSet(DOMAIN ls) /\ \A l \in DOMAIN ls : ls[l] \in Breakdowns

(* The sums of the breakdown, one by one. *)
LEMMA BreakdownFields ==
    ASSUME NEW b \in Breakdowns
    PROVE  /\ b.mxu \in Nat /\ b.sfu \in Nat /\ b.vector \in Nat /\ b.kv \in Nat
           /\ b.effective \in Nat /\ b.hidden \in Nat /\ b.noc \in Nat /\ b.total \in Nat
           /\ WorkOf(b) \in Nat
BY DEF Breakdowns, WorkOf

(* The clock's sum is the sum that Sums is about. *)
LEMMA SameSum ==
    ASSUME NEW f, NEW S
    PROVE  Simulator!SumFunctionOnSet(f, S) = SumFunctionOnSet(f, S)
BY DEF Simulator!SumFunctionOnSet, Simulator!FoldFunctionOnSet, Simulator!MapThenFoldSet,
       SumFunctionOnSet, FoldFunctionOnSet, MapThenFoldSet

(* A breakdown put in place of another changes the work by the difference. *)
LEMMA LayWork ==
    ASSUME NEW ls, Kept(ls), NEW layer, NEW b \in Breakdowns,
           NEW ms, ms = Placed(ls, layer, b)
    PROVE  /\ Kept(ms) /\ Work(ls) \in Nat
           /\ Work(ms) + Before(ls, layer) = Work(ls) + WorkOf(b)
<1> DEFINE D == DOMAIN ls
           E == D \cup {layer}
           w == [l \in DOMAIN ls |-> ls[l].mxu + ls[l].sfu + ls[l].vector + ls[l].kv]
           v == [l \in DOMAIN ms |-> ms[l].mxu + ms[l].sfu + ms[l].vector + ms[l].kv]
<1>1. DOMAIN ms = E /\ IsFiniteSet(D) /\ IsFiniteSet(E)
  BY FS_AddElement DEF Kept, Placed
<1>2. /\ ms[layer] = b /\ \A l \in D : l # layer => ms[l] = ls[l]
      /\ \A l \in D : ls[l] \in Breakdowns
      /\ \A l \in E : ms[l] \in Breakdowns
  BY DEF Kept, Placed
<1>3. \A l \in D : w[l] = WorkOf(ls[l]) /\ w[l] \in Nat
  BY <1>2, BreakdownFields DEF WorkOf
<1>4. \A l \in E : v[l] = WorkOf(ms[l]) /\ v[l] \in Nat
  BY <1>1, <1>2, BreakdownFields DEF WorkOf
<1>5. Work(ls) = SumFunctionOnSet(w, D) /\ Work(ms) = SumFunctionOnSet(v, E)
  BY <1>1 DEF Work
<1> DEFINE R == D \ {layer}
<1>6. E \ {layer} = R /\ R \subseteq D /\ IsFiniteSet(R) /\ layer \in E
  BY <1>1, FS_Subset
<1>7. \A l \in R : w[l] \in Int /\ v[l] = w[l]
  BY <1>2, <1>3, <1>4
<1> HIDE DEF w, v
<1>8. SumFunctionOnSet(v, E) = v[layer] + SumFunctionOnSet(v, R)
  <2>1. \A l \in E : v[l] \in Int
    BY <1>4
  <2>2. SumFunctionOnSet(v, E) = v[layer] + SumFunctionOnSet(v, E \ {layer})
    BY <1>1, <1>6, <2>1, SumRemove
  <2> QED BY <1>6, <2>2
<1>9. SumFunctionOnSet(v, R) = SumFunctionOnSet(w, R)
  BY <1>6, <1>7, SumSame
<1>10. SumFunctionOnSet(w, R) \in Nat /\ SumFunctionOnSet(w, D) \in Nat
  <2>1. \A l \in R : w[l] \in Nat
    BY <1>3
  <2> QED BY <1>1, <1>3, <1>6, <2>1, SumNat
<1>11. SumFunctionOnSet(w, D) = SumFunctionOnSet(w, R)
                                 + (IF layer \in D THEN WorkOf(ls[layer]) ELSE 0)
  <2>1. CASE layer \in D
    <3>1. \A l \in D : w[l] \in Int
      BY <1>3
    <3>2. SumFunctionOnSet(w, D) = w[layer] + SumFunctionOnSet(w, D \ {layer})
      BY <1>1, <2>1, <3>1, SumRemove
    <3>3. w[layer] = WorkOf(ls[layer]) /\ w[layer] \in Nat
      BY <1>3, <2>1
    <3> HIDE DEF D
    <3> QED BY <1>10, <2>1, <3>2, <3>3
  <2>2. CASE layer \notin D
    <3>1. R = D
      BY <2>2
    <3> QED BY <1>10, <2>2, <3>1
  <2> QED BY <2>1, <2>2
<1>12. Kept(ms)
  BY <1>1, <1>2 DEF Kept
<1> DEFINE old == IF layer \in D THEN WorkOf(ls[layer]) ELSE 0
<1>13. old \in Nat /\ WorkOf(b) \in Nat /\ v[layer] = WorkOf(b)
  BY <1>2, <1>4, BreakdownFields
<1> DEFINE sv == SumFunctionOnSet(v, R)  sw == SumFunctionOnSet(w, R)
<1>14. Work(ms) = WorkOf(b) + sw /\ Work(ls) = sw + old /\ sw \in Nat
  BY <1>5, <1>8, <1>9, <1>10, <1>11, <1>13
<1> HIDE DEF old, sw
<1>15. Work(ms) + old = Work(ls) + WorkOf(b) /\ Work(ls) \in Nat
  BY <1>13, <1>14
<1> QED BY <1>12, <1>15 DEF old, Before

(* What a product is charged is what it moves the clock by. *)
LEMMA ChargedWork ==
    ASSUME Kept(x7), NEW layer, NEW cost \in Costs, NEW noc \in Nat, NEW sfu \in Nat,
           NEW vector \in Nat
    PROVE  LET b == Simulator!Charged(layer, cost, noc, sfu, vector) IN
           /\ b \in Breakdowns
           /\ WorkOf(b) = Before(x7, layer) + Simulator!Switch(layer) + cost.total
                            + sfu + vector + KvAccess
<1> DEFINE o == Simulator!BreakdownOf(layer)
           b == Simulator!Charged(layer, cost, noc, sfu, vector)
           switch == Simulator!Switch(layer)
           eff == Simulator!Effective(cost)
           hid == Simulator!Hidden(cost)
<1>1. /\ o \in Breakdowns
      /\ WorkOf(o) = Before(x7, layer)
  BY DEF Before, Kept, Simulator!BreakdownOf, Simulator!NoBreakdown, Breakdowns, WorkOf
<1>2. cost.total \in Nat /\ cost.compute \in Nat /\ cost.dma \in Nat
  BY DEF Costs
<1>3. switch \in Nat /\ KvAccess \in Nat
  BY InstructionAssumptions
  DEF InstructionAssumptions, Simulator!SimulatorAssumption, Simulator!Switch
<1>4. eff \in Nat /\ hid \in Nat
  BY <1>2 DEF Simulator!Effective, Simulator!Hidden
<1>5. b = [o EXCEPT !.mxu = @ + cost.total, !.sfu = @ + sfu, !.vector = @ + vector,
                    !.kv = @ + switch + KvAccess,
                    !.effective = @ + eff, !.hidden = @ + hid, !.noc = @ + noc]
  BY DEF Simulator!Charged
<1> HIDE DEF b, o, switch, eff, hid
<1>6. b = [mxu |-> o.mxu + cost.total, sfu |-> o.sfu + sfu, vector |-> o.vector + vector,
           kv |-> o.kv + switch + KvAccess, effective |-> o.effective + eff,
           hidden |-> o.hidden + hid, noc |-> o.noc + noc, total |-> o.total]
  BY <1>1, <1>5 DEF Breakdowns
<1>7. b \in Breakdowns
  <2>1. /\ o.mxu + cost.total \in Nat /\ o.sfu + sfu \in Nat /\ o.vector + vector \in Nat
        /\ o.kv + switch + KvAccess \in Nat /\ o.effective + eff \in Nat
        /\ o.hidden + hid \in Nat /\ o.noc + noc \in Nat /\ o.total \in Nat
    BY <1>1, <1>2, <1>3, <1>4, BreakdownFields
  <2> QED BY <1>6, <2>1 DEF Breakdowns
<1>8. WorkOf(b) = WorkOf(o) + switch + cost.total + sfu + vector + KvAccess
  <2>1. /\ b.mxu = o.mxu + cost.total /\ b.sfu = o.sfu + sfu /\ b.vector = o.vector + vector
        /\ b.kv = o.kv + switch + KvAccess
    BY <1>6
  <2>2. o.mxu \in Nat /\ o.sfu \in Nat /\ o.vector \in Nat /\ o.kv \in Nat
    BY <1>1, BreakdownFields
  <2> QED BY <1>2, <1>3, <2>1, <2>2 DEF WorkOf
<1> QED BY <1>1, <1>7, <1>8 DEF b, switch

\* while simulating, the clock is the work of the layers and four roundings
SimulatorInv ==
    /\ x1 \in SimulatedTraces /\ Len(x1) \in Nat /\ x4 \in 0..Len(x1)
    /\ Kept(x7)
    /\ Simulator!Timeline \in Timelines
    /\ Follow(x6) /\ Computed(x6, x4)
    /\ x8 = "run" => Laid(Simulator!Timeline, Work(x7), 4, x4)

(* Nothing is laid and the clock stands at 0. *)
LEMMA SimulatorStarts ==
    ASSUME Simulator!Init
    PROVE  SimulatorInv
<1>1. /\ x1 \in SimulatedTraces /\ x4 = 0 /\ x5 = [now |-> 0, busy |-> 0]
      /\ x6 = <<>> /\ x7 = <<>> /\ x8 = "run"
  BY DEF Simulator!Init
<1>2. Len(x1) \in Nat
  BY <1>1, InstructionAssumptions DEF InstructionAssumptions, Simulator!SimulatorAssumption
<1>3. DOMAIN x7 = {} /\ Kept(x7)
  BY <1>1, FS_EmptySet DEF Kept
<1>4. Work(x7) = 0
  <2> DEFINE w == [l \in DOMAIN x7 |-> x7[l].mxu + x7[l].sfu + x7[l].vector + x7[l].kv]
  <2>1. SumFunctionOnSet(w, {}) = 0
    <3> HIDE DEF w
    <3> QED BY SumUnfold, FS_EmptySet
  <2> QED BY <1>3, <2>1 DEF Work
<1> DEFINE tl == Simulator!Timeline
<1>5. tl.now = 0 /\ tl.events = <<>> /\ tl \in Timelines
  BY <1>1 DEF Simulator!Timeline, Timelines
<1>6. Shows(0, 0, 4)
  BY ClockConstants DEF Shows
<1>7. Follow(<<>>) /\ EndAt(<<>>, 0) /\ Computed(<<>>, 0)
  BY DEF Follow, EndAt, Computed, SerialIn, ProductsIn
<1> QED BY <1>1, <1>2, <1>3, <1>4, <1>5, <1>6, <1>7 DEF SimulatorInv, Laid

(* What _simulate_gemm does, whichever products it computes at once.       *)
LEMMA LayKeeps ==
    ASSUME SimulatorInv, x8 = "run", x8' = "run", x1' = x1,
           NEW layer, NEW cost \in Costs, NEW noc \in Nat, NEW sfu \in Nat, NEW vector \in Nat,
           NEW m \in Nat, m >= x4, m <= Len(x1), x4' = m, NEW gemms, gemms = (x4 + 1)..m,
           NEW b \in Breakdowns,
           WorkOf(b) = WorkOf(Simulator!Charged(layer, cost, noc, sfu, vector)),
           Simulator!Lay(Simulator!AfterRest(Simulator!AfterGemm(cost, noc, gemms, layer),
                                             sfu, vector),
                         layer, b)
    PROVE  SimulatorInv'
<1> DEFINE tl == Simulator!AfterGemm(cost, noc, gemms, layer)
           tm == Simulator!AfterRest(tl, sfu, vector)
           switch == Simulator!Switch(layer)
           c == Work(x7)
<1>1. /\ Laid(Simulator!Timeline, c, 4, x4) /\ Kept(x7) /\ x4 \in Nat /\ Len(x1) \in Nat
      /\ x1 \in SimulatedTraces
  BY DEF SimulatorInv
<1>2. /\ Laid(tl, c + switch + cost.total, 1, m)
  <2> HIDE DEF c
  <2> QED BY <1>1, GemmLaid
<1>3. Laid(tm, (c + switch + cost.total) + sfu + vector + KvAccess, 4, m)
  <2> DEFINE d == c + switch + cost.total
  <2>1. Laid(tl, d, 1, m)
    BY <1>2
  <2> HIDE DEF d, tl
  <2>2. Laid(tm, d + sfu + vector + KvAccess, 4, m)
    BY <2>1, RestLaid
  <2> QED BY <2>2 DEF d
<1> HIDE DEF tm, tl
<1>4. /\ x5' = [now |-> tm.now, busy |-> tm.busy] /\ x6' = tm.events
      /\ x7' = Placed(x7, layer, b)
  BY DEF Simulator!Lay, tm, tl, Placed
<1>5. /\ Kept(x7') /\ c \in Nat
      /\ Work(x7') + Before(x7, layer) = c + WorkOf(b)
  BY <1>1, <1>4, LayWork
<1> DEFINE old == Before(x7, layer)
<1>6. WorkOf(b) = old + switch + cost.total + sfu + vector + KvAccess
  BY <1>1, ChargedWork
<1>7. /\ old \in Nat /\ switch \in Nat /\ cost.total \in Nat /\ KvAccess \in Nat
      /\ WorkOf(b) \in Nat
  <2>1. layer \in DOMAIN x7 => x7[layer] \in Breakdowns
    BY <1>1 DEF Kept
  <2> QED BY <2>1, BreakdownFields, InstructionAssumptions
  DEF Before, InstructionAssumptions, Simulator!SimulatorAssumption, Simulator!Switch, Costs
<1>8. Work(x7') \in Nat
  <2>1. \A l \in DOMAIN x7' : x7'[l] \in Breakdowns
    BY <1>5 DEF Kept
  <2> DEFINE ls == x7'
             w == [l \in DOMAIN ls |-> ls[l].mxu + ls[l].sfu + ls[l].vector + ls[l].kv]
  <2>2. \A l \in DOMAIN ls : w[l] \in Nat
    <3> TAKE l \in DOMAIN ls
    <3>1. ls[l].mxu \in Nat /\ ls[l].sfu \in Nat /\ ls[l].vector \in Nat /\ ls[l].kv \in Nat
      BY <2>1, BreakdownFields
    <3>2. w[l] = ls[l].mxu + ls[l].sfu + ls[l].vector + ls[l].kv
      OBVIOUS
    <3> HIDE DEF w, ls
    <3> QED BY <3>1, <3>2
  <2>3. IsFiniteSet(DOMAIN ls)
    BY <1>5 DEF Kept
  <2>4. SumFunctionOnSet(w, DOMAIN ls) \in Nat
    <3> HIDE DEF w, ls
    <3> QED BY <2>2, <2>3, SumNat
  <2>5. Work(ls) = SumFunctionOnSet(w, DOMAIN ls)
    BY DEF Work
  <2> QED BY <2>4, <2>5
<1> DEFINE after == Work(x7')  charged == WorkOf(b)  t == cost.total
<1>9. after + old = c + charged
  BY <1>5
<1>10. charged = old + switch + t + sfu + vector + KvAccess
  BY <1>6
<1> HIDE DEF old, switch, c, after, charged, t
<1>11. after = (c + switch + t) + sfu + vector + KvAccess
  <2>1. /\ after \in Nat /\ c \in Nat /\ old \in Nat /\ switch \in Nat /\ t \in Nat
        /\ charged \in Nat /\ KvAccess \in Nat
    BY <1>5, <1>7, <1>8 DEF after, charged, t
  <2> QED BY <1>9, <1>10, <2>1
<1>12. tm \in Timelines /\ Follow(tm.events) /\ Computed(tm.events, m)
  BY <1>3 DEF Laid
<1>13. Simulator!Timeline' = tm
  BY <1>4, <1>12 DEF Simulator!Timeline, Timelines
<1>14. Laid(Simulator!Timeline', Work(x7'), 4, m)
  BY <1>3, <1>11, <1>13 DEF after, t
<1> QED BY <1>1, <1>4, <1>5, <1>12, <1>13, <1>14 DEF SimulatorInv

(* Either simulates one product or merges two. *)
LEMMA SimulateKeeps ==
    ASSUME SimulatorInv, Simulator!SingleGemm \/ Simulator!MergedPair
    PROVE  SimulatorInv'
<1> DEFINE op == x1[x4 + 1].op  layer == x1[x4 + 1].layer
<1>1. /\ x8 = "run" /\ x4 < Len(x1) /\ x8' = "run" /\ x1' = x1 /\ x1 \in SimulatedTraces
      /\ x4 \in Nat /\ Len(x1) \in Nat /\ Kept(x7)
  <2>1. x1 \in SimulatedTraces /\ x4 \in 0..Len(x1) /\ Len(x1) \in Nat /\ Kept(x7)
    BY DEF SimulatorInv
  <2>2. x8 = "run" /\ x4 < Len(x1)
    BY DEF Simulator!SingleGemm, Simulator!MergedPair, Simulator!Simulating
  <2>3. x8' = x8 /\ x1' = x1
    BY DEF Simulator!SingleGemm, Simulator!MergedPair, Simulator!Lay
  <2> QED BY <2>1, <2>2, <2>3
<1>2. op \in DOMAIN GemmCost
  <2>1. x4 + 1 \in 1..Len(x1)
    BY <1>1
  <2>2. \A t \in SimulatedTraces : \A i \in 1..Len(t) : t[i].op \in DOMAIN GemmCost
    BY InstructionAssumptions DEF InstructionAssumptions, Simulator!SimulatorAssumption
  <2> QED BY <1>1, <2>1, <2>2
<1>3. /\ GemmCost[op] \in Costs /\ PairCost \in Costs /\ NocCost[op] \in Nat
      /\ SfuCost[op] \in Nat /\ VectorCost[op] \in Nat
  BY <1>2, InstructionAssumptions
  DEF InstructionAssumptions, Simulator!SimulatorAssumption, Costs
<1>4. CASE Simulator!SingleGemm
  <2> DEFINE cost == GemmCost[op]  noc == NocCost[op]  sfu == SfuCost[op]
             vector == IF x2 = "decode" THEN VectorCost[op] ELSE 0
             b == Simulator!Charged(layer, cost, noc, sfu, vector)
             bb == [b EXCEPT !.total = b.mxu + b.sfu + b.vector + b.kv + b.effective]
             tl == Simulator!AfterRest(Simulator!AfterGemm(cost, noc, {x4 + 1}, layer),
                                       sfu, vector)
  <2>1. Simulator!Lay(tl, layer, bb) /\ x4' = x4 + 1
    BY <1>4 DEF Simulator!SingleGemm, Simulator!Now
  <2>2. cost \in Costs /\ noc \in Nat /\ sfu \in Nat /\ vector \in Nat
    BY <1>3
  <2> HIDE DEF cost, noc, sfu, vector
  <2>3. b \in Breakdowns
    BY <1>1, <2>2, ChargedWork
  <2> DEFINE gemms == {x4 + 1}  m == x4 + 1
  <2>4. /\ gemms = (x4 + 1)..m /\ m \in Nat /\ m >= x4 /\ m <= Len(x1) /\ x4' = m
    BY <1>1, <2>1
  <2>5. bb \in Breakdowns /\ WorkOf(bb) = WorkOf(b)
    <3> HIDE DEF b
    <3> DEFINE t == b.mxu + b.sfu + b.vector + b.kv + b.effective
    <3>1. t \in Nat /\ bb = [b EXCEPT !.total = t]
      BY <2>3, BreakdownFields
    <3> HIDE DEF t, bb
    <3> QED BY <2>3, <3>1 DEF Breakdowns, WorkOf
  <2>6. Simulator!Lay(Simulator!AfterRest(Simulator!AfterGemm(cost, noc, gemms, layer),
                                          sfu, vector), layer, bb)
    BY <2>1
  <2> HIDE DEF bb, tl, gemms, m
  <2>7. WorkOf(bb) = WorkOf(Simulator!Charged(layer, cost, noc, sfu, vector))
    BY <2>5 DEF b
  <2> HIDE DEF b, layer
  <2> QED BY <1>1, <2>2, <2>4, <2>5, <2>6, <2>7, LayKeeps
<1>5. CASE Simulator!MergedPair
  <2> DEFINE cost == PairCost  noc == NocCost[op]
             b == Simulator!Charged(layer, cost, noc, 0, 0)
             gemms == {x4 + 1, x4 + 2}  m == x4 + 2
  <2>1. /\ Simulator!Lay(Simulator!AfterRest(Simulator!AfterGemm(cost, noc, gemms, layer), 0, 0),
                         layer, b)
        /\ x4' = x4 + 2 /\ x4 + 1 < Len(x1)
    BY <1>5 DEF Simulator!MergedPair, Simulator!Merges, Simulator!Now
  <2>2. cost \in Costs /\ noc \in Nat
    BY <1>3
  <2> HIDE DEF cost, noc
  <2>3. b \in Breakdowns
    BY <1>1, <2>2, ChargedWork
  <2>4. /\ gemms = (x4 + 1)..m /\ m \in Nat /\ m >= x4 /\ m <= Len(x1) /\ x4' = m
    BY <1>1, <2>1
  <2>5. WorkOf(b) = WorkOf(Simulator!Charged(layer, cost, noc, 0, 0))
    OBVIOUS
  <2> HIDE DEF b, gemms, m, layer
  <2> QED BY <1>1, <2>1, <2>2, <2>3, <2>4, <2>5, LayKeeps
<1> QED BY <1>4, <1>5

(* The refresh is one more serial event, and the last. *)
LEMMA RefreshKeeps ==
    ASSUME SimulatorInv, Simulator!Refresh
    PROVE  SimulatorInv'
<1> DEFINE tl == Simulator!Timeline
           d == Simulator!ToCycles(x5.now) \div RefreshOneIn
           tm == Simulator!AddEvent(tl, "kv", d, {})
<1>1. /\ Laid(tl, Work(x7), 4, x4) /\ x4 \in Nat /\ x8' = "done"
      /\ x5' = [now |-> tm.now, busy |-> tm.busy] /\ x6' = tm.events
      /\ x1' = x1 /\ x4' = x4 /\ x7' = x7
  BY DEF SimulatorInv, Simulator!Refresh
<1>2. d \in Nat
  <2> DEFINE x == Simulator!ToCycles(x5.now)
  <2>1. x5.now = tl.now
    BY DEF Simulator!Timeline
  <2>2. x \in Nat
    BY <1>1, <2>1, ReadsNat DEF Laid, Shows
  <2>3. RefreshOneIn \in Nat \ {0}
    BY InstructionAssumptions DEF InstructionAssumptions, Simulator!SimulatorAssumption
  <2> HIDE DEF x
  <2> QED BY <2>2, <2>3 DEF x
<1> HIDE DEF d
<1> DEFINE c == Work(x7)
<1>3. Laid(tm, c + d, 4 + 1, x4)
  <2> HIDE DEF c, tl
  <2>1. Laid(tl, c, 4, x4)
    BY <1>1 DEF c
  <2> QED BY <1>1, <1>2, <2>1, AddSerial
<1> HIDE DEF tm
<1>4. tm \in Timelines /\ Follow(tm.events) /\ Computed(tm.events, x4)
  BY <1>3 DEF Laid
<1>5. Simulator!Timeline' = tm
  BY <1>1, <1>4 DEF Simulator!Timeline, Timelines
<1> QED BY <1>1, <1>4, <1>5 DEF SimulatorInv

(* The clock stands where the serial work of the layers put it, whatever   *)
(* transfers were laid beside it and whatever was rounded; serial events   *)
(* meet; every product is computed once, in order, merged or not.          *)
THEOREM ClockKeepsTheWork == Spec => []ClockIsSerialWork
<1> DEFINE Inv == part = "simulator" => SimulatorInv
<1>1. Init => Inv
  BY SimulatorStarts DEF Init
<1>2. Inv /\ [Next]_state => Inv'
  <2> SUFFICES ASSUME Inv, [Next]_state, part' = "simulator" PROVE SimulatorInv'
    OBVIOUS
  <2>1. part = "simulator" /\ SimulatorInv
    BY DEF Next, state
  <2>2. CASE UNCHANGED state
    BY <2>1, <2>2 DEF state, SimulatorInv, Simulator!Timeline
  <2>3. CASE Next
    <3>1. Simulator!Next
      BY <2>1, <2>3 DEF Next
    <3> QED BY <2>1, <3>1, SimulateKeeps, RefreshKeeps DEF Simulator!Next
  <2> QED BY <2>2, <2>3
<1>3. Inv => ClockIsSerialWork
  <2> SUFFICES ASSUME SimulatorInv
               PROVE  /\ Simulator!ClockIsSerialWork /\ Simulator!SerialEventsFollow
                      /\ Simulator!EachGemmOnce
    BY DEF ClockIsSerialWork
  <2>1. Follow(x6) /\ Computed(x6, x4) /\ x6 \in Seq(Events) /\ DOMAIN x6 = 1..Len(x6)
    BY DEF SimulatorInv, Timelines, Simulator!Timeline
  <2>2. Simulator!Serial = SerialIn(x6) /\ Simulator!Products = ProductsIn(x6)
    BY <2>1 DEF Simulator!Serial, Simulator!Products, Simulator!Parallel, SerialIn, ProductsIn
  <2>3. Simulator!SerialEventsFollow
    BY <2>1, <2>2 DEF Simulator!SerialEventsFollow, Follow
  <2>4. Simulator!EachGemmOnce
    BY <2>1, <2>2 DEF Simulator!EachGemmOnce, Computed
  <2>5. Simulator!ClockIsSerialWork
    <3>1. ASSUME x8 = "run" PROVE Simulator!ToCycles(x5.now) = Work(x7)
      <4>1. Shows(x5.now, Work(x7), 4)
        BY <3>1 DEF SimulatorInv, Laid, Simulator!Timeline
      <4> QED BY <4>1, ReadOff
    <3> QED BY <3>1, SameSum DEF Simulator!ClockIsSerialWork, Work
  <2> QED BY <2>3, <2>4, <2>5
<1> QED BY <1>1, <1>2, <1>3, PTL DEF Spec

=============================================================================
