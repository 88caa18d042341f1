--------------------------- MODULE GoldenExecutor ---------------------------
(***************************************************************************)
(* The golden executor: an instruction program is first expanded with the  *)
(* conversions its data types need, then executed on the unified buffer.   *)
(* A byte of the buffer is known by the instruction whose result it holds, *)
(* the type it was written with and its place in that result; what the     *)
(* functional units compute is left out.                                   *)
(***************************************************************************)
EXTENDS Integers, Sequences, FiniteSets

CONSTANTS
    OpCodes,      \* the opcodes programs are made of
    Addrs,        \* the buffer addresses programs use
    Lens,         \* opcode -> the element counts programs give it
    MaxProgram,   \* the longest program
    SramSize,     \* SRAM_SIZE
    ScratchBase,  \* where converted operands are put
    Align         \* the alignment of a converted operand

ExecutorAssumption ==
    /\ Addrs \subseteq Nat /\ \A op \in OpCodes : Lens[op] \subseteq Nat
    /\ MaxProgram \in Nat /\ Align \in Nat \ {0}
    /\ SramSize \in Nat /\ ScratchBase \in 0..SramSize

VARIABLES
    program,   \* the program given to run_op_chain
    turn,      \* instructions of it already expanded
    expanded,  \* the expanded program
    scratch,   \* the next free scratch address
    pc,        \* items of the expanded program already executed
    sram,      \* the unified buffer
    consumed,  \* instruction -> whose result it read as its chained operand
    status     \* "expand", "run", "raised"

vars == <<program, turn, expanded, scratch, pc, sram, consumed, status>>

-----------------------------------------------------------------------------
(* Data types.  A rotary embedding is left out.                            *)

Pools == {"MAXPOOL", "AVGPOOL"}
Sfu == {"SOFTMAX", "LAYERNORM", "GELU", "RELU", "SILU", "RMSNORM"} \cup Pools
Pairwise == {"VADD", "VMUL"}
Vector == Pairwise \cup {"VRESID"}
Reduction == {"VRED_MAX", "VRED_SUM"}

Width(dtype) == CASE dtype = "int8" -> 1 [] dtype = "fp16" -> 2 [] OTHER -> 4

\* the types an operation is listed with; "none" for an opcode not listed
InputDtype(op) ==
    CASE op = "MMUL" -> "int8"
      [] op \in Sfu \cup {"VCONV_F16_I32"} -> "fp16"
      [] op \in Vector \cup Reduction \cup {"VCONV"} -> "int32"
      [] OTHER -> "none"
OutputDtype(op) ==
    CASE op \in Sfu \cup Reduction \cup {"VCONV"} -> "fp16"
      [] op \in Vector \cup {"MMUL", "VCONV_F16_I32"} -> "int32"
      [] OTHER -> "none"

\* the type the operation reads its chained operand with
ReadDtype(op) == IF op \in Reduction THEN "fp16" ELSE InputDtype(op)

\* the elements it writes
Results(instr) ==
    CASE instr.op \in Reduction -> 1
      [] instr.op \in Pools -> instr.len \div 4
      [] OTHER -> instr.len

\* the elements the expansion believes it writes: a pool has a height and a width
\* but no "len"; of a reduction the elements it reads are counted
ElementCount(instr) == IF instr.op \in Pools THEN 0 ELSE instr.len

\* an address 0 counts as no destination, but for the matrix product's oa
HasDst(instr) == instr.op = "MMUL" \/ instr.dst # 0

Aligned(bytes) == ((bytes + Align - 1) \div Align) * Align

-----------------------------------------------------------------------------
(* The buffer.                                                             *)

Nobody == 0
Blank == [of |-> Nobody, dtype |-> "none", at |-> 0]

\* whose result the n elements of the type at the address are, Nobody when they
\* are not the leading elements of one result
ResultAt(addr, n, dtype) ==
    LET owner == sram[addr].of IN
    IF n > 0 /\ \A k \in 0..(n * Width(dtype) - 1) :
                   sram[addr + k] = [of |-> owner, dtype |-> dtype, at |-> k]
    THEN owner ELSE Nobody

\* whose result's element k the type's k-th element at the address is
ElementAt(addr, k, dtype) ==
    LET owner == sram[addr + k * Width(dtype)].of IN
    IF \A i \in 0..(Width(dtype) - 1) :
          LET at == k * Width(dtype) + i
          IN  sram[addr + at] = [of |-> owner, dtype |-> dtype, at |-> at]
    THEN owner ELSE Nobody

\* n elements are written, the k-th of them the result of owners[k]
WriteElements(addr, n, dtype, owners) ==
    sram' = [b \in DOMAIN sram |->
                IF b \in addr..(addr + n * Width(dtype) - 1)
                THEN [of |-> owners[(b - addr) \div Width(dtype)], dtype |-> dtype, at |-> b - addr]
                ELSE sram[b]]

Write(addr, n, dtype, owner) == WriteElements(addr, n, dtype, [k \in 0..(n - 1) |-> owner])

Fits(addr, n, dtype) == addr + n * Width(dtype) <= SramSize

-----------------------------------------------------------------------------
Instruction ==
    UNION {[op : {op}, src : Addrs, dst : Addrs, len : Lens[op]] : op \in OpCodes}

Init ==
    /\ program \in UNION {[1..n -> Instruction] : n \in 1..MaxProgram}
    /\ turn = 0 /\ expanded = <<>> /\ scratch = ScratchBase
    /\ pc = 0
    /\ sram = [b \in 0..(SramSize - 1) |-> Blank]
    /\ consumed = <<>>
    /\ status = "expand"

Expands ==
    /\ status = "expand" /\ turn < Len(program)
    /\ turn' = turn + 1
    /\ UNCHANGED <<program, pc, sram, consumed>>

Current == program[turn + 1]
Previous == program[turn]
Mismatch ==
    /\ turn > 0
    /\ OutputDtype(Previous.op) # "none" /\ InputDtype(Current.op) # "none"
    /\ OutputDtype(Previous.op) # InputDtype(Current.op)

\* item of the expanded program that stands for an instruction of the program
Item(instr, i) == [op |-> instr.op, src |-> instr.src, dst |-> instr.dst,
                   len |-> instr.len, of |-> i]
Conversion(op, from, to) ==
    [op |-> op, src |-> from, dst |-> to, len |-> ElementCount(Previous), of |-> Nobody]

\* Faulty: the item is counted for the instruction behind it.
RedirectedPast(addr) == Item([Current EXCEPT !.src = addr], turn + 2)

Redirected(addr) == Item([Current EXCEPT !.src = addr], turn + 1)

\* The first instruction, an unlisted opcode, or equal types.
Keep ==
    /\ Expands /\ ~Mismatch
    /\ expanded' = Append(expanded, Item(Current, turn + 1))
    /\ UNCHANGED <<scratch, status>>

\* One conversion between 32-bit integers and half floats.
Convert(op, from, to) ==
    /\ Expands /\ Mismatch /\ HasDst(Previous)
    /\ OutputDtype(Previous.op) = from /\ InputDtype(Current.op) = to
    /\ expanded' = expanded \o <<Conversion(op, Previous.dst, scratch),
                                 Redirected(scratch)>>
    /\ scratch' = scratch + Aligned(ElementCount(Previous) * Width(to))
    /\ UNCHANGED status

\* Half floats become bytes by way of 32-bit integers.
ConvertToInt8 ==
    /\ Expands /\ Mismatch /\ HasDst(Previous)
    /\ OutputDtype(Previous.op) = "fp16" /\ InputDtype(Current.op) = "int8"
    /\ LET bytes == scratch + Aligned(ElementCount(Previous) * 4) IN
       /\ expanded' = expanded \o <<Conversion("VCONV_F16_I32", Previous.dst, scratch),
                                    Conversion("int8_clip", scratch, bytes),
                                    Redirected(bytes)>>
       /\ scratch' = bytes + Aligned(ElementCount(Previous))
    /\ UNCHANGED status

\* There is no conversion from 32-bit integers to bytes, nor from nowhere.
Refuse ==
    /\ status = "expand" /\ turn < Len(program) /\ Mismatch
    /\ \/ ~HasDst(Previous)
       \/ OutputDtype(Previous.op) = "int32" /\ InputDtype(Current.op) = "int8"
    /\ status' = "raised"
    /\ UNCHANGED <<program, turn, expanded, scratch, pc, sram, consumed>>

Expand ==
    \/ Keep
    \/ Convert("VCONV", "int32", "fp16")
    \/ Convert("VCONV_F16_I32", "fp16", "int32")
    \/ ConvertToInt8
    \/ Refuse

StartRun ==
    /\ status = "expand" /\ turn = Len(program)
    /\ status' = "run"
    /\ UNCHANGED <<program, turn, expanded, scratch, pc, sram, consumed>>

-----------------------------------------------------------------------------
Running == status = "run" /\ pc < Len(expanded)
Now == expanded[pc + 1]

\* the types an item of the expanded program moves
Reads(item) == IF item.op = "int8_clip" THEN "int32" ELSE ReadDtype(item.op)
Writes(item) == IF item.op = "int8_clip" THEN "int8" ELSE OutputDtype(item.op)

\* a pairwise operation reads its second operand behind its first
InBounds(item) ==
    /\ Fits(item.src, IF item.op \in Pairwise THEN 2 * item.len ELSE item.len, Reads(item))
    /\ Fits(item.dst, Results(item), Writes(item))
    /\ item.op \in {"RMSNORM", "VRED_MAX"} => item.len > 0

\* A conversion carries each element it reads into another type.
StepConversion ==
    /\ Running /\ Now.of = Nobody /\ InBounds(Now)
    /\ WriteElements(Now.dst, Now.len, Writes(Now),
                     [k \in 0..(Now.len - 1) |-> ElementAt(Now.src, k, Reads(Now))])
    /\ pc' = pc + 1
    /\ UNCHANGED <<program, turn, expanded, scratch, consumed, status>>

\* An instruction with operands and a result.
StepCompute ==
    /\ Running /\ Now.of # Nobody /\ Writes(Now) # "none" /\ InBounds(Now)
    /\ consumed' = Append(consumed, ResultAt(Now.src, Now.len, Reads(Now)))
    /\ Write(Now.dst, Results(Now), Writes(Now), Now.of)
    /\ pc' = pc + 1
    /\ UNCHANGED <<program, turn, expanded, scratch, status>>

\* A load from memory fills the bytes with data of no instruction; barriers and
\* cache instructions leave the buffer alone.
StepOther ==
    /\ Running /\ Now.of # Nobody /\ Writes(Now) = "none"
    /\ IF Now.op = "DMA_LD"
       THEN /\ Fits(Now.dst, Now.len, "int8")
            /\ Write(Now.dst, Now.len, "int8", Nobody)
       ELSE UNCHANGED sram
    /\ consumed' = Append(consumed, Nobody)
    /\ pc' = pc + 1
    /\ UNCHANGED <<program, turn, expanded, scratch, status>>

\* An access past the end of the buffer, or a norm or a maximum over nothing.
StepRaises ==
    /\ Running
    /\ IF Writes(Now) # "none" THEN ~InBounds(Now)
       ELSE Now.op = "DMA_LD" /\ ~Fits(Now.dst, Now.len, "int8")
    /\ status' = "raised"
    /\ UNCHANGED <<program, turn, expanded, scratch, pc, sram, consumed>>

Next == Expand \/ StartRun \/ StepConversion \/ StepCompute \/ StepOther \/ StepRaises

Spec == Init /\ [][Next]_vars

-----------------------------------------------------------------------------
TypeOK ==
    /\ turn \in 0..Len(program) /\ pc \in 0..Len(expanded)
    /\ scratch \in Nat /\ scratch >= ScratchBase
    /\ \A i \in DOMAIN expanded : expanded[i].of \in 0..Len(program)
    /\ consumed \in Seq(0..Len(program)) /\ Len(consumed) <= Len(program)
    /\ status \in {"expand", "run", "raised"}

\* the program means the second of two adjacent instructions to consume the
\* result of the first, and asks for no more elements than it has
Chained(i) ==
    LET p == program[i - 1]  q == program[i] IN
    /\ OutputDtype(p.op) # "none" /\ InputDtype(q.op) # "none"
    /\ OutputDtype(p.op) # InputDtype(q.op) \/ q.src = p.dst
    /\ q.len \in 1..Results(p)

\* the two pairs for which the tables of the expansion are wrong: a reduction is listed
\* to take 32-bit integers but reads half floats, and of a pool's result, whose element
\* count is taken for 0, nothing is converted
Mislisted(p, q) ==
    \/ q.op \in Reduction
    \/ p.op \in Pools /\ OutputDtype(p.op) # InputDtype(q.op)

\* A chained instruction reads the result of the instruction before it, in the
\* type it computes with: whatever conversions were inserted by
\* _insert_dtype_converters, wherever the program keeps its operands and
\* whatever the other instructions overwrite, step finds the right bytes.  The
\* exceptions are the mislisted pairs, and there step never finds them.
ReadsPredecessor ==
    \A i \in 2..Len(consumed) :
        Chained(i) => (consumed[i] = i - 1 <=> ~Mislisted(program[i - 1], program[i]))

\* The conversions of run_op_chain disturb nothing: outside the scratch area, a
\* byte holds what the last instruction to write there put there, and no two
\* converted operands share a byte.
ConversionsApart ==
    LET Conv == {i \in DOMAIN expanded : expanded[i].of = Nobody}
        Bytes(i) == expanded[i].dst..(expanded[i].dst
                        + expanded[i].len * Width(Writes(expanded[i])) - 1)
    IN  /\ \A i, j \in Conv : i # j => Bytes(i) \cap Bytes(j) = {}
        /\ \A i \in Conv : Bytes(i) \subseteq ScratchBase..(scratch - 1)

=============================================================================
