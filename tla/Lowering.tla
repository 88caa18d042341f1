------------------------------ MODULE Lowering ------------------------------
(***************************************************************************)
(* The lowering of foreign models to workload graphs: tuple traces of      *)
(* language models and dictionary traces of vision models (sim/workloads/  *)
(* legacy_adapter.py), ONNX models (onnx_adapter.py), and the registry of  *)
(* operators that all of them consult (operators.py).  One entry or node   *)
(* is lowered per step.  A name is a pair of a text and a number, so that  *)
(* generated names may collide with given ones; a dimension is a symbol or *)
(* a size.                                                                 *)
(***************************************************************************)
EXTENDS Integers, Sequences, FiniteSets, SequencesExt

CONSTANT Sources   \* what may be lowered: [kind, entries, registry, bindings, batch_m,
                   \* images, inputs, initializers, shapes]

VARIABLES source, at, nodes, tensors, bindings, status

vars == <<source, at, nodes, tensors, bindings, status>>

NoName == <<"", 0>>
Input == <<"input", 0>>
-----------------------------------------------------------------------------
(* The registry: modelled operators, those that are free as part of others,*)
(* and those known not to be supported, which is also what unknown ones    *)
(* are.  A caller's registry may register any of them anew.                *)
Modelled == {"gemm", "pointwise_conv", "depthwise_conv", "softmax", "layernorm", "rms_norm", "gelu",
             "relu", "hard_swish", "hard_sigmoid", "global_avg_pool", "max_pool", "add", "mul",
             "matmul", "conv"}
FreeOrFused == {"reshape", "reduce_mean", "shape", "concat", "transpose"}
Unsupported == {"gather", "scatter", "instance_norm", "group_norm", "batch_norm", "upsample"}

Check(registry, op) ==
    CASE op \in DOMAIN registry -> registry[op]
      [] op \notin DOMAIN registry /\ op \in Modelled -> "modeled"
      [] op \notin DOMAIN registry /\ op \in FreeOrFused -> "free"
      [] OTHER -> "unsupported"
Default == <<>>

(* lookup: an unsupported operator raises. *)
Found(registry, op) == Check(registry, op) # "unsupported"

(* CV_TRACE_TYPE_MAP and ONNX_TO_WORKLOAD_OP; "" for what they lack. *)
OfVision(type) ==
    IF type \in {"pointwise_conv", "depthwise_conv", "gemm", "hard_swish", "hard_sigmoid", "relu",
                 "global_avg_pool", "add", "mul", "reshape", "shape", "concat", "reduce_mean"}
    THEN type ELSE ""
OnnxNames == [
    Conv |-> "conv", Gemm |-> "gemm", MatMul |-> "matmul", Relu |-> "relu", Add |-> "add", Mul |-> "mul",
    MaxPool |-> "max_pool", GlobalAveragePool |-> "global_avg_pool", ReduceMean |-> "reduce_mean",
    Softmax |-> "softmax", LayerNormalization |-> "layernorm", RMSNorm |-> "rms_norm", Gelu |-> "gelu",
    HardSwish |-> "hard_swish", HardSigmoid |-> "hard_sigmoid", Reshape |-> "reshape", Concat |-> "concat",
    Shape |-> "shape", Transpose |-> "transpose", Squeeze |-> "reshape", Unsqueeze |-> "reshape"]
OfOnnx(op) == IF op \in DOMAIN OnnxNames THEN OnnxNames[op] ELSE ""
-----------------------------------------------------------------------------
Size(n) == [symbol |-> "", size |-> n]
Tensor(id, shape, producer, readers) == [id |-> id, shape |-> shape, producer |-> producer, readers |-> readers]
Node(id, op, ins, outs, deps) == [id |-> id, op |-> op, ins |-> ins, outs |-> outs, deps |-> deps]

Entry == source.entries[at]
Raise(error) == status' = error /\ UNCHANGED <<source, at, nodes, tensors, bindings>>
Bind(d, n) == [k \in DOMAIN source.bindings \cup {d} |-> IF k = d THEN n ELSE source.bindings[k]]
Conflicts(d, n) == d \in DOMAIN source.bindings /\ source.bindings[d] # n

(* apply_legacy_batch_m: one is a decode of one sequence, two a prefill of *)
(* two tokens, nothing else is allowed; 0 for a flag that is not given.    *)
BatchAxis == IF source.batch_m = 1 THEN "active_sequences" ELSE "token_block"
BeginTuples ==
    /\ status = "begin" /\ source.kind = "llm"
    /\ IF source.batch_m = 0 THEN status' = "lower" /\ UNCHANGED <<source, at, nodes, tensors, bindings>>
       ELSE IF source.batch_m \notin {1, 2} \/ Conflicts(BatchAxis, source.batch_m) THEN Raise("ConfigError")
       ELSE /\ bindings' = Bind(BatchAxis, source.batch_m) /\ status' = "lower"
            /\ UNCHANGED <<source, at, nodes, tensors>>

(* lower_cv_dict_trace takes a number of images of its own. *)
BeginDicts ==
    /\ status = "begin" /\ source.kind = "cv"
    /\ IF source.images = 0 THEN status' = "lower" /\ UNCHANGED <<source, at, nodes, tensors, bindings>>
       ELSE IF Conflicts("image_count", source.images) THEN Raise("ConfigError")
       ELSE /\ bindings' = Bind("image_count", source.images) /\ status' = "lower"
            /\ UNCHANGED <<source, at, nodes, tensors>>

(* The last output so far; it is the input of the next node. *)
Previous == Last(nodes).outs[1]
ReadBy(ts, id, node) == [i \in 1..Len(ts) |-> IF ts[i].id = id THEN [ts[i] EXCEPT !.readers = @ \cup {node}] ELSE ts[i]]

(* Faulty: the weight goes instead of the placeholder. *)
WithoutWeight(ts) == RemoveAt(ts, Len(ts) - 1)

(* tensors.pop(-3) *)
WithoutPlaceholder(ts) == RemoveAt(ts, Len(ts) - 2)

(* One product: an activation, a weight and an output are made, then the   *)
(* activation of all but the first gives way to the output before.         *)
LowerTuple ==
    /\ status = "lower" /\ source.kind = "llm" /\ at <= Len(source.entries)
    /\ LET e == Entry
           id == <<e.op, at>>
           before == IF at = 1 THEN Input ELSE <<source.entries[at - 1].op, at - 1>>
           act == <<"t_act", at>>
           weight == <<"t_weight", at>>
           out == <<"t_out", at>>
           made == tensors \o <<Tensor(act, <<Size(e.m), Size(e.k)>>, before, {id}),
                                Tensor(weight, <<Size(e.k), Size(e.n)>>, Input, {id}),
                                Tensor(out, <<Size(e.m), Size(e.n)>>, id, {})>>
       IN /\ tensors' = IF at = 1 THEN made ELSE ReadBy(WithoutPlaceholder(made), Previous, id)
          /\ nodes' = Append(nodes, Node(id, "gemm", <<IF at = 1 THEN act ELSE Previous, weight>>, <<out>>,
                                         IF at = 1 THEN {} ELSE {before}))
    /\ at' = at + 1 /\ UNCHANGED <<source, bindings, status>>

(* An entry without a name is called after its type, but the node after it *)
(* depends on one called after "op".                                       *)
NameOf(e, default) == IF e.name = "" THEN default ELSE e.name
Weighted == {"pointwise_conv", "depthwise_conv", "conv", "gemm"}

LowerDict ==
    /\ status = "lower" /\ source.kind = "cv" /\ at <= Len(source.entries)
    /\ LET e == Entry
           op == OfVision(e.type)
           id == <<NameOf(e, e.type), at>>
           act == IF at = 1 THEN <<"t_input", 0>> ELSE Previous
           weight == <<"t_weight", at>>
           out == <<"t_out", at>>
           read == IF at = 1 THEN <<Tensor(act, <<Size(1), Size(3), Size(224), Size(224)>>, Input, {id})>>
                   ELSE ReadBy(tensors, act, id)
           weights == IF op \in Weighted THEN <<Tensor(weight, <<Size(1)>>, Input, {id})>> ELSE <<>>
       IN IF op = "" \/ ~Found(source.registry, op) THEN Raise("UnsupportedOperatorError")
          ELSE /\ tensors' = read \o weights \o <<Tensor(out, <<Size(1)>>, id, {})>>
               /\ nodes' = Append(nodes, Node(id, op, <<act>> \o (IF weights = <<>> THEN <<>> ELSE <<weight>>), <<out>>,
                                              IF at = 1 THEN {} ELSE {<<NameOf(source.entries[at - 1], "op"), at - 1>>}))
               /\ at' = at + 1 /\ UNCHANGED <<source, bindings, status>>
-----------------------------------------------------------------------------
(* _get_shape: a symbol is kept, a size that is not given is one; and so   *)
(* is a shape that is not known.                                           *)
ShapeOf(name) ==
    LET dims == IF name \in DOMAIN source.shapes THEN source.shapes[name] ELSE <<>>
    IN IF dims = <<>> THEN <<Size(1)>>
       ELSE [i \in 1..Len(dims) |-> IF dims[i].symbol = "" /\ dims[i].size = 0 THEN Size(1) ELSE dims[i]]

(* _ensure_tensor, of one name after the other. *)
Ensure(ts, names, producer) ==
    FoldLeft(LAMBDA acc, name :
                IF \E i \in 1..Len(acc) : acc[i].id = name THEN acc
                ELSE Append(acc, Tensor(name, ShapeOf(name), producer, {})), ts, names)

BeginOnnx ==
    /\ status = "begin" /\ source.kind = "onnx"
    /\ tensors' = Ensure(Ensure(<<>>, source.inputs, NoName), source.initializers, Input)
    /\ status' = "lower" /\ UNCHANGED <<source, at, nodes, bindings>>

Given(names) == SelectSeq(names, LAMBDA n : n # NoName)

(* A node is looked up in the default registry and in the caller's; one    *)
(* without a name is called after its operator and place.                  *)
LowerOnnx ==
    /\ status = "lower" /\ source.kind = "onnx" /\ at <= Len(source.entries)
    /\ LET e == Entry
           op == OfOnnx(e.type)
           id == IF e.name = NoName THEN <<e.type, at - 1>> ELSE e.name
       IN IF op = "" \/ ~Found(Default, op) \/ ~Found(source.registry, op)
          THEN Raise("UnsupportedOperatorError")
          ELSE /\ tensors' = Ensure(tensors, Given(e.ins) \o Given(e.outs), NoName)
               /\ nodes' = Append(nodes, Node(id, op, Given(e.ins), Given(e.outs), {}))
               /\ at' = at + 1 /\ UNCHANGED <<source, bindings, status>>

(* Producers and consumers of the tensors of an ONNX model, when all nodes *)
(* are there; the last of several producers counts.                        *)
Writers(id) == {i \in 1..Len(nodes) : id \in ToSet(nodes[i].outs)}
ReadersOf(id) == {nodes[i].id : i \in {j \in 1..Len(nodes) : id \in ToSet(nodes[j].ins)}}
Resolved ==
    [i \in 1..Len(tensors) |->
        LET t == tensors[i]
            writers == Writers(t.id)
        IN [t EXCEPT !.readers = ReadersOf(t.id),
                     !.producer = IF writers = {} THEN @ ELSE nodes[CHOOSE w \in writers : \A v \in writers : v <= w].id]]

(* What the schema checks of a graph: ids are unique, there is no cycle of *)
(* tensors and dependencies, and producers exist.                          *)
Before(ts, n) ==
    {m \in ToSet(nodes) : \/ m # n /\ m.id \in n.deps
                          \/ \E i \in 1..Len(ts) : ts[i].id \in ToSet(n.ins) /\ ts[i].producer = m.id}
Cyclic(ts) ==
    \E n \in ToSet(nodes) :
        LET above[k \in 0..Len(nodes)] == IF k = 0 THEN Before(ts, n)
                                          ELSE above[k - 1] \cup UNION {Before(ts, m) : m \in above[k - 1]}
        IN n \in above[Len(nodes)]
Valid(ts) ==
    /\ \A i, j \in 1..Len(nodes) : nodes[i].id = nodes[j].id => i = j
    /\ \A i, j \in 1..Len(ts) : ts[i].id = ts[j].id => i = j
    /\ ~Cyclic(ts)
    /\ \A n \in ToSet(nodes) : \A id \in ToSet(n.ins \o n.outs) : \E i \in 1..Len(ts) : ts[i].id = id
    /\ \A i \in 1..Len(ts) : ts[i].producer \in {NoName, Input} \cup {nodes[j].id : j \in 1..Len(nodes)}

Construct ==
    /\ status = "lower" /\ at > Len(source.entries)
    /\ tensors' = IF source.kind = "onnx" THEN Resolved ELSE tensors
    /\ status' = IF Valid(tensors') THEN "lowered" ELSE "ConfigError"
    /\ UNCHANGED <<source, at, nodes, bindings>>

Init ==
    /\ source \in Sources /\ at = 1 /\ nodes = <<>> /\ tensors = <<>>
    /\ bindings = source.bindings /\ status = "begin"

Next == BeginTuples \/ BeginDicts \/ BeginOnnx \/ LowerTuple \/ LowerDict \/ LowerOnnx \/ Construct

Spec == Init /\ [][Next]_vars
-----------------------------------------------------------------------------
(* Type correctness of where the lowering is and of what it made. *)
TypeOK ==
    /\ at \in 1..(Len(source.entries) + 1) /\ Len(nodes) = at - 1
    /\ status \in {"begin", "lower", "lowered", "ConfigError", "UnsupportedOperatorError"}

(* In a lowered graph nodes and tensors agree: a tensor names the nodes    *)
(* that read it and the one that writes it, everything a node names is     *)
(* there, and nothing that only a trace had as a placeholder is left over. *)
NodesAndTensorsAgree ==
    status = "lowered" =>
        /\ \A t \in ToSet(tensors) :
              /\ t.readers = {n.id : n \in {m \in ToSet(nodes) : t.id \in ToSet(m.ins)}}
              /\ \A n \in ToSet(nodes) : t.id \in ToSet(n.outs) <=> t.producer = n.id
              /\ source.kind # "onnx" => t.readers # {} \/ t.id = Previous
        /\ \A n \in ToSet(nodes) : ToSet(n.ins \o n.outs) \subseteq {t.id : t \in ToSet(tensors)}

(* A lowered trace is a chain in the order of the trace: each node reads   *)
(* what the one before wrote, and what it weighs is read by itself alone.  *)
(* A trace is always lowered, whatever it leaves unnamed.                  *)
TraceIsChain ==
    source.kind # "onnx" =>
        /\ \A i \in 2..Len(nodes) : nodes[i].ins[1] = nodes[i - 1].outs[1]
        /\ status = "lowered" => \A i \in 1..Len(nodes) : \A k \in 2..Len(nodes[i].ins) :
              \E t \in ToSet(tensors) : t.id = nodes[i].ins[k] /\ t.producer = Input /\ t.readers = {nodes[i].id}
        /\ source.kind = "llm" /\ status = "lowered" =>
              \A i \in 1..Len(nodes) : \E t \in ToSet(tensors), w \in ToSet(tensors) :
                  /\ t.id = nodes[i].outs[1] /\ t.shape = <<Size(source.entries[i].m), Size(source.entries[i].n)>>
                  /\ w.id = nodes[i].ins[2] /\ w.shape = <<Size(source.entries[i].k), Size(source.entries[i].n)>>
        /\ nodes # <<>> => status # "ConfigError"

(* Only operators that the registry supports are ever in a graph, and a    *)
(* model is refused for its operators only if it has one that is not       *)
(* ("fail-closed", operators.py).                                          *)
FailsClosed ==
    /\ \A n \in ToSet(nodes) : Check(source.registry, n.op) \in {"modeled", "free"}
    /\ status = "UnsupportedOperatorError" =>
          LET op == IF source.kind = "onnx" THEN OfOnnx(Entry.type) ELSE OfVision(Entry.type)
          IN op = "" \/ ~Found(source.registry, op)

(* A legacy flag binds its own dimension, never replaces a binding that    *)
(* was given, and leaves the others alone (apply_legacy_batch_m; "changing *)
(* one dimension must never implicitly substitute another").               *)
OneDimensionBound ==
    /\ \A d \in DOMAIN source.bindings : d \in DOMAIN bindings /\ bindings[d] = source.bindings[d]
    /\ Cardinality(DOMAIN bindings \ DOMAIN source.bindings) <= 1
    /\ status = "lowered" /\ source.kind = "llm" /\ source.batch_m = 1 =>
          bindings["active_sequences"] = 1
    /\ status = "lowered" /\ source.kind = "cv" /\ source.images > 0 =>
          bindings["image_count"] = source.images

(* The symbols of an ONNX model's shapes survive, and no dimension is zero *)
(* ("never silently converted to 0", onnx_adapter.py).                     *)
SymbolsSurvive ==
    status = "lowered" /\ source.kind = "onnx" =>
        \A t \in ToSet(tensors) :
            /\ \A i \in 1..Len(t.shape) : t.shape[i].symbol # "" \/ t.shape[i].size > 0
            /\ t.id \in DOMAIN source.shapes =>
                  \A i \in 1..Len(source.shapes[t.id]) :
                      source.shapes[t.id][i].symbol # "" => t.shape[i] = source.shapes[t.id][i]
=============================================================================
