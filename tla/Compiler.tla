------------------------------ MODULE Compiler -----------------------------
(***************************************************************************)
(* NPUCompiler.compile_decode (sim/engine/compiler.py): a GEMM trace is    *)
(* turned into an instruction stream.  One trace entry is one step, with   *)
(* all the instructions that it appends.  The buffer allocator returns the *)
(* base of a region whatever was allocated before.                         *)
(***************************************************************************)
EXTENDS Integers, SequencesExt

CONSTANTS Traces   \* traces: sequences of Gemms

Gemm == [m : Nat, k : Nat, n : Nat, layer : Nat, name : STRING]
CompilerAssumption == \A t \in Traces : t \in Seq(Gemm)

VARIABLES trace, preloaded, program, prevLayer, done

vars == <<trace, preloaded, program, prevLayer, done>>

(* AddressAllocator: alloc is always the scratch region, next the base.    *)
Region == [wbuf |-> 0, ibuf |-> 131072, ibuf2 |-> 196608, obuf |-> 262144, scratch |-> 393216]
Alloc(name)  == Region.scratch
NextIn(name) == Region[name]

Instr(op, layer, from, to, size) ==
  [op |-> op, layer |-> layer, from |-> from, to |-> to, size |-> size]
Barrier == Instr("BARRIER", -1, 0, 0, 0)

Init ==
  /\ trace \in Traces /\ preloaded \in BOOLEAN
  /\ program = <<>> /\ prevLayer = -1 /\ done = FALSE

(* Faulty: layers run into each other. *)
EnterLayerUnfenced(g) ==
  (IF preloaded THEN <<>>
   ELSE <<Instr("DMA_LD", g.layer, Alloc("weight"), NextIn("wbuf"), g.k * g.n)>>)
    \o <<Instr("KV_LOAD", g.layer, 0, 0, 0)>>

(* A new layer: a barrier, its first operation's weights, its KV entry.    *)
EnterLayer(g) ==
  (IF prevLayer >= 0 THEN <<Barrier>> ELSE <<>>)
    \o (IF preloaded THEN <<>>
        ELSE <<Instr("DMA_LD", g.layer, Alloc("weight"), NextIn("wbuf"), g.k * g.n)>>)
    \o <<Instr("KV_LOAD", g.layer, 0, 0, 0)>>

Special(op, g, len) == Instr(op, g.layer, Alloc("output"), Alloc("output"), len)

(* The special functions at the end of attention and of the FFN. *)
Boundary(g) ==
  CASE g.name = "O_proj"   -> <<Special("SOFTMAX", g, 2560), Special("LAYERNORM", g, 2560), Special("ROPE", g, 2560)>>
    [] g.name = "FFN_down" -> <<Special("GELU", g, 9728), Special("LAYERNORM", g, 2560)>>
    [] OTHER -> <<>>

Operation(g) ==
  <<Instr("MMUL", g.layer, NextIn("wbuf"), Alloc("output"), g.n),
    Instr("DMA_LD", g.layer, Alloc("input_next"), NextIn("ibuf"), g.m * g.k)>>
    \o Boundary(g) \o <<Instr("KV_STORE", g.layer, 0, 0, 0)>>

LayerAfter(g) == g.layer

CompileEntry ==
  /\ trace # <<>>
  /\ LET g == Head(trace)
     IN /\ program' = program \o (IF g.layer # prevLayer THEN EnterLayer(g) ELSE <<>>) \o Operation(g)
        /\ prevLayer' = LayerAfter(g)
  /\ trace' = Tail(trace) /\ UNCHANGED <<preloaded, done>>

Finish ==
  /\ trace = <<>> /\ ~done
  /\ program' = program \o <<Barrier, Instr("NOP", -1, 0, 0, 0)>>
  /\ done' = TRUE /\ UNCHANGED <<trace, preloaded, prevLayer>>

Next == CompileEntry \/ Finish
Spec == Init /\ [][Next]_vars
----------------------------------------------------------------------------
TypeOK ==
  /\ prevLayer >= -1
  /\ \A i \in DOMAIN program : program[i].op \in {"BARRIER", "DMA_LD", "KV_LOAD", "MMUL", "SOFTMAX",
                                 "LAYERNORM", "ROPE", "GELU", "KV_STORE", "NOP"}

(* Work of two layers never meets without a barrier between, even when a   *)
(* trace comes back to an earlier layer.                                   *)
BarrierBetweenLayers ==
  \A i \in 1..Len(program) - 1 :
    LET a == program[i]
        b == program[i + 1]
    IN a.layer >= 0 /\ b.layer >= 0 => a.layer = b.layer

(* Since the last barrier a layer has been entered exactly once: one KV    *)
(* entry loaded, and before any of its matrix products.                    *)
EntersLayerOnce ==
  \A i \in DOMAIN program :
    program[i].op \in {"MMUL", "KV_STORE"} =>
      LET start == Max({0} \cup {j \in 1..i : program[j].op = "BARRIER"})
          loads == {j \in start + 1..i : program[j].op = "KV_LOAD"}
      IN Cardinality(loads) = 1 /\ \A j \in loads : program[j].layer = program[i].layer
============================================================================
