--------------------------- MODULE CatalogLoader ---------------------------
(***************************************************************************)
(* The loading of the workload catalog (sim/workloads/catalog.py with      *)
(* sim/workloads/dimensions.py and sim/workloads/validate.py): the files   *)
(* of a directory are loaded one after the other, each is parsed, its      *)
(* graph built, its dimensions bound and the whole validated; the first    *)
(* error ends the load.  What was loaded is summed up in a manifest of the *)
(* values that the fixtures give to each dimension.                        *)
(***************************************************************************)
EXTENDS FiniteSets, WorkloadCatalog

CONSTANTS Directories,   \* lists of files: [name, version, source, dims, nested,
                         \* graph, builder, unsourced]
          NotAnInt       \* a dimension whose value is no integer

VARIABLES files, loaded, status, missing

vars == <<files, loaded, status, missing>>

(* _TRACE_BUILDERS, with the arguments of the shipped fixtures. *)
Shipped == {"llm-qwen25-3b", "cv-yolov8n", "cv-vit-b16", "smolvla-class", "pi0-class",
            "openvla-baseline", "openvla-oft", "openvla-fast", "helix-multirate",
            "physical-ai-multijob"}
Built == [b \in Shipped |->
    CASE b = "llm-qwen25-3b" -> Qwen(2048, 11008, 151936)
      [] b = "cv-yolov8n" -> Yolo(640, 80)
      [] b = "cv-vit-b16" -> Vit(224, 16, 3, 768, 3072, 1000)
      [] b = "smolvla-class" -> SmolVla(384, 768, 32, 8, 10)
      [] b = "pi0-class" -> Pi0(1152, 2048, 32, 50, 10)
      [] b = "openvla-baseline" -> OpenVla("baseline", 1024, 4096, 32, 25, 10)
      [] b = "openvla-oft" -> OpenVla("oft", 1024, 4096, 32, 25, 10)
      [] b = "openvla-fast" -> OpenVla("fast", 1024, 4096, 32, 25, 10)
      [] b = "helix-multirate" -> Helix(3584, 768, 256)
      [] b = "physical-ai-multijob" -> MultiJob]

(* The dimensions of DimensionBindings and the axes they bind. *)
Canonical == {"request_batch", "active_sequences", "token_block", "image_count",
              "action_horizon", "flow_steps", "resident_models", "inflight_jobs"}
AxisOf(d) == IF d = "request_batch" THEN "batch" ELSE d
Axes == {AxisOf(d) : d \in Canonical}

Edges(axis) ==
    CASE axis \in {"batch", "active_sequences"} -> {1, 2, 4, 8, 16}
      [] axis = "token_block" -> {16, 32, 64, 128, 256, 512, 1024}
      [] axis = "image_count" -> {1, 2, 3, 4}
      [] axis = "action_horizon" -> {8, 10, 25, 50}
      [] axis = "flow_steps" -> {4, 8, 10}
      [] axis = "resident_models" -> {4, 8}
      [] axis = "inflight_jobs" -> {4, 8, 16}

(* _parse_dimensions: keys that are no dimension become extras. *)
Extra(file) == [k \in (DOMAIN file.dims \ Canonical) \cup DOMAIN file.nested |->
                   IF k \in DOMAIN file.nested THEN file.nested[k] ELSE file.dims[k]]
Asked(file) == DOMAIN file.dims \cap Canonical

(* to_dict: the extras come last and replace an axis of the same name. *)
Bound(file) ==
    [a \in {AxisOf(d) : d \in Asked(file)} \cup DOMAIN Extra(file) |->
        IF a \in DOMAIN Extra(file) THEN Extra(file)[a]
        ELSE file.dims[CHOOSE d \in Asked(file) : AxisOf(d) = a]]

Graph(file) == IF file.graph # <<>> THEN file.graph ELSE Built[file.builder]

Symbols(graph) == UNION {n.lead[1] : n \in ToSet(graph)}

Modelled == {"input", "gemm", "conv", "add", "mul", "layernorm", "softmax", "gelu", "relu",
             "max_pool", "global_avg_pool", "concat", "reshape"}

(* The first thing load_fixture finds wrong; what DimensionBindings and    *)
(* validate_dimensions raise is no ConfigError and passes the handler.     *)
Problem(file) ==
    IF \/ file.name = "" \/ file.version # "1" \/ file.source = ""
       \/ \E d \in DOMAIN file.dims : file.dims[d] = NotAnInt
       \/ \E d \in DOMAIN file.nested : file.nested[d] = NotAnInt
    THEN "ConfigError"
    ELSE IF \/ \E d \in Asked(file) : file.dims[d] <= 0
            \/ DOMAIN file.nested \cap Canonical # {}
    THEN "ValueError"
    ELSE IF \/ (file.graph = <<>>) = (file.builder = "none")
            \/ file.graph = <<>> /\ file.builder \notin Shipped
            \/ file.unsourced
    THEN "ConfigError"
    ELSE IF ~(Symbols(Graph(file)) \subseteq DOMAIN Bound(file)) THEN "DimensionBindingError"
    ELSE IF \E n \in ToSet(Graph(file)) : n.op \notin Modelled THEN "ConfigError"
    ELSE "none"

Names == {file.name : file \in loaded}

Init ==
    /\ files \in Directories
    /\ loaded = {} /\ status = "loading" /\ missing = {}

Load ==
    /\ status = "loading" /\ files # <<>>
    /\ Problem(Head(files)) = "none" /\ Head(files).name \notin Names
    /\ loaded' = loaded \cup {Head(files)} /\ files' = Tail(files)
    /\ UNCHANGED <<status, missing>>

Abort ==
    /\ status = "loading" /\ files # <<>>
    /\ LET problem == Problem(Head(files))
       IN /\ problem # "none" \/ Head(files).name \in Names
          /\ status' = IF problem # "none" THEN problem ELSE "ConfigError"
    /\ loaded' = {} /\ UNCHANGED <<files, missing>>

(* build_coverage_manifest *)
BuildManifest ==
    /\ status = "loading" /\ files = <<>>
    /\ missing' = {e \in Axes \X UNION {Edges(a) : a \in Axes} :
                      /\ e[2] \in Edges(e[1])
                      /\ ~\E file \in loaded :
                            e[1] \in DOMAIN Bound(file) /\ Bound(file)[e[1]] = e[2]}
    /\ status' = "complete" /\ UNCHANGED <<files, loaded>>

Next == Load \/ Abort \/ BuildManifest

Spec == Init /\ [][Next]_vars
-----------------------------------------------------------------------------
TypeOK ==
    /\ status \in {"loading", "complete", "ConfigError", "ValueError", "DimensionBindingError"}
    /\ Cardinality(Names) = Cardinality(loaded)

(* A load gives every file of the directory or none: it ends in an error   *)
(* exactly if some file is wrong or two have one name.                     *)
AllOrNothing ==
    /\ status = "complete" => files = <<>>
    /\ status \notin {"loading", "complete"} =>
          /\ loaded = {} /\ missing = {}
          /\ \/ Problem(Head(files)) # "none"
             \/ \E dir \in Directories : \E i, j \in DOMAIN dir : i # j /\ dir[i].name = dir[j].name

(* A fixture that loaded has all its graph's symbols bound to positive     *)
(* numbers, each dimension to what the file says, whatever the others say, *)
(* but where an extra has the name of the axis.                            *)
DimensionsIndependent ==
    \A file \in loaded :
        /\ Symbols(Graph(file)) \subseteq DOMAIN Bound(file)
        /\ \A d \in Asked(file) :
              /\ AxisOf(d) \in DOMAIN Bound(file)
              /\ AxisOf(d) \notin DOMAIN Extra(file) => Bound(file)[AxisOf(d)] = file.dims[d] /\ file.dims[d] > 0

(* Every tensor is written once and before it is read, so the chain that   *)
(* the builders add contradicts no data edge.                              *)
WrittenBeforeRead(graph) ==
    /\ Cardinality(Ids(graph)) = Len(graph)
    /\ \A i \in DOMAIN graph : \A t \in ToSet(graph[i].ins) : \E j \in 1..(i - 1) : graph[j].id = t

(* What a node reads has the extents that it takes. *)
Agrees(graph, n) ==
    LET read == [i \in DOMAIN n.ins |-> CHOOSE m \in ToSet(graph) : m.id = n.ins[i]]
    IN CASE n.op \in {"add", "mul", "layernorm", "softmax", "gelu", "relu", "max_pool"} ->
              \A i \in DOMAIN read : read[i].lead = n.lead /\ read[i].width = n.width
         [] n.op = "gemm" -> read[1].lead = n.lead /\ read[1].width = n.weight[1]
         [] n.op = "conv" -> read[1].width = n.weight[1]
         [] n.op = "concat" ->
              /\ \A i \in DOMAIN read : read[i].lead = n.lead
              /\ n.width = FoldSeq(LAMBDA m, sum : m.width + sum, 0, read)
         [] n.op \in {"global_avg_pool", "reshape"} -> read[1].width = n.width
         [] OTHER -> TRUE

Layers(names) == {<<name, l>> : name \in names, l \in 0..(Depth - 1)}
One(names) == {<<name, 0>> : name \in names}

(* Where they do not, and what nobody reads although it is no result.      *)
KnownGaps(b) ==
    CASE b = "llm-qwen25-3b" -> One({"embed"})
      [] b = "cv-vit-b16" -> One({"patch_embed", "classifier", "ln1", "add1"}) \cup Layers({"attn", "v_mul"})
      [] b \in {"smolvla-class", "pi0-class"} -> One({"patch_embed"})
      [] b \in {"openvla-baseline", "openvla-oft", "openvla-fast"} -> One({"patch_embed", "fc1"})
      [] b = "helix-multirate" -> One({"patch_embed", "s1_fuse"})
      [] b = "physical-ai-multijob" -> One({"fusion"})
      [] b = "cv-yolov8n" -> {}
KnownUnread(b) ==
    CASE b = "smolvla-class" -> Layers({"q", "k"}) \cup {<<"vl_proj", Depth - 1>>}
      [] b = "openvla-fast" -> One({"visual_pool"})
      [] OTHER -> {}
Results(b) ==
    CASE b \in {"llm-qwen25-3b", "cv-vit-b16"} -> One({"classifier"})
      [] b = "cv-yolov8n" -> {"box2", "cls2"} \X {3, 4, 5}
      [] b = "helix-multirate" -> One({"action_head"})
      [] b = "physical-ai-multijob" -> One({"fusion"})
      [] OTHER -> {<<"fc2", 9>>}

(* Every graph that loaded runs in the order of its list; its extents      *)
(* agree and everything computed is used, but for the gaps listed above,   *)
(* which no validator looks for.                                           *)
GraphsAreWired ==
    \A file \in loaded : file.graph = <<>> =>
        LET graph == Built[file.builder]
        IN /\ WrittenBeforeRead(graph)
           /\ {n.id : n \in {m \in ToSet(graph) : ~Agrees(graph, m)}} = KnownGaps(file.builder)
           /\ {t \in Ids(graph) : Consumers(graph, t) = {}}
                = KnownUnread(file.builder) \cup Results(file.builder)
=============================================================================
