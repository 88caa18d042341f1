-------------------------------- MODULE Isa --------------------------------
(***************************************************************************)
(* Instruction words: an instruction with its operands is encoded into one *)
(* or two words and decoded again.  A word is the set of its bits that are *)
(* one, so that `or' is union and a field that reaches into another shows. *)
(***************************************************************************)
EXTENDS Integers, Sequences, FiniteSetsExt

CONSTANT Samples   \* operand values tried

IsaAssumption == Samples \subseteq Nat

VARIABLES instr, words, decoded

vars == <<instr, words, decoded>>

-----------------------------------------------------------------------------
Pools == {"MAXPOOL", "AVGPOOL"}
OpCode == <<"MMUL", "SOFTMAX", "LAYERNORM", "GELU", "RELU", "ROPE", "SILU", "MAXPOOL",
            "AVGPOOL", "DMA_LD", "DMA_ST", "KV_LOAD", "KV_STORE", "BARRIER", "NOP",
            "VADD", "VMUL", "VRED_MAX", "VRED_SUM", "VCONV", "VRESID", "DMA_LDD",
            "DMA_STD", "RMSNORM", "VCONV_F16_I32">>
Number(op) == (CHOOSE i \in DOMAIN OpCode : OpCode[i] = op) - 1

\* a field of a word: operand, first bit, width, and the low bits left out
Field(name, at, width) == [name |-> name, at |-> at, width |-> width, drop |-> 0]
Page(name, at, width) == [Field(name, at, width) EXCEPT !.drop = 4]

\* the fields encode fills, by word
EncodedFields(op) ==
    CASE op = "MMUL" -> <<{Field("wa", 17, 10), Field("ia", 7, 10), Field("N", 0, 7)},
                          {Field("oa", 16, 16)}>>
      [] op \in {"DMA_LD", "DMA_ST"} ->
            <<{Page("dram", 15, 12), Page("sram", 7, 8), Field("size", 0, 7)}>>
      [] op \in Pools -> <<{Field("sa", 15, 12), Field("da", 3, 12),
                            Field("H", 1, 2), Field("W", 0, 1)}>>
      [] op \in {"KV_LOAD", "KV_STORE"} -> <<{Field("token_id", 0, 12)}>>
      [] op \in {"BARRIER", "NOP"} -> <<{}>>
      [] op = "RMSNORM" ->
            <<{Field("sa", 15, 12), Field("da", 3, 12), Field("elements", 0, 3)}>>
      [] OTHER -> <<{Field("sa", 15, 12), Field("da", 3, 12), Field("len", 0, 3)}>>

\* the fields decode reads
DecodedFields(op) ==
    CASE op = "MMUL" -> <<{Field("wa", 17, 10), Field("ia", 7, 10), Field("N", 0, 7)},
                          {Field("oa", 16, 16)}>>
      [] op \in {"DMA_LD", "DMA_ST"} ->
            <<{Page("dram", 15, 12), Page("sram", 7, 8), Field("size", 0, 7)}>>
      [] op \in {"KV_LOAD", "KV_STORE"} -> <<{Field("token_id", 0, 12)}>>
      [] op \in Pools -> <<{Field("sa", 15, 12), Field("da", 3, 12),
                            Field("H", 1, 2), Field("W", 0, 1)}>>
      [] op \in {"BARRIER", "NOP"} -> <<{}>>
      [] op = "RMSNORM" ->
            <<{Field("sa", 15, 12), Field("da", 3, 12), Field("elements", 0, 3)}>>
      [] OTHER -> <<{Field("sa", 15, 12), Field("da", 3, 12), Field("len", 0, 3)}>>

\* pooling sizes come back one larger than they went in
Bias(op, name) == IF op \in Pools /\ name \in {"H", "W"} THEN 1 ELSE 0

Operands(op) == {f.name : f \in UNION {EncodedFields(op)[i] : i \in DOMAIN EncodedFields(op)}}

-----------------------------------------------------------------------------
OpcodeField == Field("opcode", 27, 5)

\* the bits of the field that a value sets
Put(f, value) ==
    {f.at + k : k \in {k \in 0..(f.width - 1) : (value \div 2^(f.drop + k)) % 2 = 1}}
\* the value of the field in a word
Take(f, word) ==
    MapThenSumSet(LAMBDA k : 2^(f.drop + k), {k \in 0..(f.width - 1) : f.at + k \in word})

Encode(op, operands) ==
    [i \in DOMAIN EncodedFields(op) |->
        UNION {Put(f, operands[f.name]) : f \in EncodedFields(op)[i]}
            \cup IF i = 1 THEN Put(OpcodeField, Number(op)) ELSE {}]

Decode(ws) ==
    LET op == OpCode[Take(OpcodeField, ws[1]) + 1]
        of(name, i) == CHOOSE f \in DecodedFields(op)[i] : f.name = name
        word(name) == CHOOSE i \in DOMAIN DecodedFields(op) :
                          \E f \in DecodedFields(op)[i] : f.name = name
    IN  [op |-> op,
         operands |-> [name \in {f.name : f \in UNION {DecodedFields(op)[i] :
                                                         i \in DOMAIN DecodedFields(op)}} |->
                          Take(of(name, word(name)), ws[word(name)]) + Bias(op, name)]]

-----------------------------------------------------------------------------
None == [op |-> "none"]

Init ==
    /\ \E i \in DOMAIN OpCode : \E operands \in [Operands(OpCode[i]) -> Samples] :
          instr = [op |-> OpCode[i], operands |-> operands]
    /\ words = <<>> /\ decoded = None

EncodeInstruction ==
    /\ words = <<>>
    /\ words' = Encode(instr.op, instr.operands)
    /\ UNCHANGED <<instr, decoded>>

DecodeWords ==
    /\ words # <<>> /\ decoded = None
    /\ decoded' = Decode(words)
    /\ UNCHANGED <<instr, words>>

Next == EncodeInstruction \/ DecodeWords

Spec == Init /\ [][Next]_vars

-----------------------------------------------------------------------------
\* What the decoder makes of an encoded instruction is the instruction cut to the
\* widths of its fields: no operand, however large, disturbs the opcode or another
\* operand, no field is read elsewhere than it was written, and every operand that
\* fits its field comes back.
DecodesToTruncation ==
    decoded # None =>
        /\ decoded.op = instr.op
        /\ DOMAIN decoded.operands = DOMAIN instr.operands
        /\ \A i \in DOMAIN EncodedFields(instr.op) : \A f \in EncodedFields(instr.op)[i] :
              decoded.operands[f.name] - Bias(instr.op, f.name) =
                 ((instr.operands[f.name] \div 2^f.drop) % 2^f.width) * 2^f.drop

=============================================================================
