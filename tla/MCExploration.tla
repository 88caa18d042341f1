--------------------------- MODULE MCExploration ---------------------------
(***************************************************************************)
(* Model-checking instances of the exploration path: workload graphs are   *)
(* validated, design points generated and run, and what came out is stored *)
(* as a replay bundle.  The components do not share state; `part' says     *)
(* which of them a behaviour is of, and x1 to x8 hold its variables, in    *)
(* the order of its tuple vars.                                            *)
(***************************************************************************)
EXTENDS Integers, Sequences, FiniteSets, SequencesExt, TLC

CONSTANTS  \* of the run, the bundles and the graphs, to be chosen
    RunPoints, RunAxes, RunValueOf, RunOrder, RunObjectives, RunMaximized, RunThermalLimit,
    RunOutcomes, RunConfigs, BundleWriters, BundleShared, GraphNodes, GraphTensors, GraphsToCheck

VARIABLES part, x1, x2, x3, x4, x5, x6, x7, x8

state == <<part, x1, x2, x3, x4, x5, x6, x7, x8>>

-----------------------------------------------------------------------------
(* Seven axes like those of the catalog: three memories, each of which     *)
(* fixes other axes, a cache that needs two of them, a capacity that needs *)
(* one, a node that needs an engine, an engine too large for one wide      *)
(* memory, and a bandwidth pinned by the scenario to a value of its axis,  *)
(* or a combination excluded under every condition.  Some lists of them    *)
(* undo each other in the repair.                                          *)
AxisNames == <<"bandwidth", "cache", "capacity", "engine", "memory", "node", "width">>
AxisValues ==
    "bandwidth" :> <<1, 2>> @@ "cache" :> <<0, 1>> @@ "capacity" :> <<0, 5>>
        @@ "engine" :> <<10, 11>> @@ "memory" :> <<20, 21, 22>>
        @@ "node" :> <<7, 28>> @@ "width" :> <<0, 64, 1024>>
AxisDefaults ==
    "bandwidth" :> 2 @@ "cache" :> 0 @@ "capacity" :> 0 @@ "engine" :> 10
        @@ "memory" :> 20 @@ "node" :> 7 @@ "width" :> 64

Need(axis, allowed) == [axis |-> axis, allowed |-> allowed]
When(when, require, exclude) == [when |-> when, require |-> require, exclude |-> exclude]
Rules == <<
    When(<<Need("memory", <<20>>)>>, <<Need("width", <<64>>), Need("capacity", <<0>>)>>, {}),
    When(<<Need("capacity", <<5>>)>>, <<Need("memory", <<22>>)>>, {}),
    When(<<Need("memory", <<21>>)>>, <<Need("width", <<1024>>), Need("capacity", <<0>>)>>, {}),
    When(<<Need("memory", <<22>>)>>, <<Need("width", <<0>>), Need("capacity", <<5>>)>>, {}),
    When(<<Need("cache", <<1>>), Need("engine", <<10>>)>>,
         <<Need("bandwidth", <<2>>), Need("memory", <<20, 21>>)>>, {}),
    When(<<Need("engine", <<10, 11>>), Need("node", <<7>>)>>, <<>>,
         {<<Need("width", <<1024>>), Need("memory", <<20, 21>>)>>}),
    When(<<Need("node", <<28>>)>>, <<Need("engine", <<11>>)>>, {})>>
Pinned(b) == When(<<>>, <<Need("bandwidth", <<b>>)>>, {})
TooMuch == When(<<>>, <<>>, {<<Need("capacity", <<5>>), Need("bandwidth", <<2>>)>>})

Space == INSTANCE DesignSpace WITH
    AxisOrder <- AxisNames, Values <- AxisValues, Defaults <- AxisDefaults,
    Constraints <- {SelectSeq(Rules, LAMBDA r : r \in S) \o pin :
                       S \in SUBSET ToSet(Rules), pin \in {<<>>, <<Pinned(1)>>, <<TooMuch>>}},
    CrossAxes <- <<"node", "engine">>,
    mode <- x1, constraints <- x2, todo <- x3, points <- x4, exclusions <- x5

-----------------------------------------------------------------------------
(* Three points, two of which agree on an axis; an evaluation may raise,   *)
(* rest on entries of any level, in or out of range or unknown, miss a     *)
(* metric, or fail a hard gate.                                            *)
Entry(known, in_range, trust) == [known |-> known, in_range |-> in_range, trust |-> trust]
Good == Entry(TRUE, TRUE, 3)
Outcome(error, entries, power, drops, v, w) ==
    [error |-> error, entries |-> entries, cpu |-> FALSE, power |-> power, misses |-> 0,
     drops |-> drops, values |-> "hz" :> v @@ "area" :> w]
MCRunOutcomes == {
    Outcome("PPAError", {}, 0, 0, -1, -1),
    Outcome("none", {Good}, 5, 0, 1, 1),
    Outcome("none", {Good, Entry(TRUE, TRUE, 2)}, 5, 0, 2, 2),
    Outcome("none", {Good, Entry(TRUE, TRUE, 1)}, 5, 0, 2, 1),
    Outcome("none", {Entry(TRUE, FALSE, 0)}, 5, 0, -1, 1),
    Outcome("none", {Good, Entry(FALSE, TRUE, 3)}, 5, 0, 3, 2),
    Outcome("none", {Good}, 9, 0, 3, 1),
    Outcome("none", {Good}, 5, 1, 3, 2)}

Asked(mode, partial, quality, missing, dirty) ==
    [trust_mode |-> mode, allow_partial |-> partial, quality_gate_required |-> quality,
     missing |-> missing, dirty |-> dirty]

MCRunValueOf ==
    [p \in {"p1", "p2", "p3"} |-> IF p = "p1" THEN "x" :> 1 @@ "y" :> 1 ELSE "x" :> 2 @@ "y" :> 1]
MCRunOrder == <<"p1", "p2", "p3">>
MCRunConfigs ==
    {Asked(mode, partial, FALSE, FALSE, FALSE) :
        mode \in {"exploratory", "decision_grade", "decision-grade"}, partial \in BOOLEAN}
    \cup {Asked(mode, FALSE, FALSE, TRUE, FALSE) : mode \in {"exploratory", "decision-grade"}}
    \cup {Asked("decision-grade", FALSE, FALSE, FALSE, TRUE),
          Asked("decision_grade", FALSE, TRUE, FALSE, FALSE)}

Run == INSTANCE DseRunner WITH
    Points <- RunPoints, Axes <- RunAxes, ValueOf <- RunValueOf, Order <- RunOrder,
    Objectives <- RunObjectives, Maximized <- RunMaximized, ThermalLimit <- RunThermalLimit,
    Outcomes <- RunOutcomes, Configs <- RunConfigs,
    config <- x1, outcome <- x2, results <- x3, manifest <- x4,
    frontier <- x5, set_trust <- x6, artifact <- x7, status <- x8

(* Writers of one directory, checked for two that agree on the inputs. *)
Bundle == INSTANCE ReplayBundle WITH
    Writers <- BundleWriters, Shared <- BundleShared,
    concurrent <- x1, overwrite <- x2, files <- x3, step <- x4,
    at <- x5, sums <- x6, last <- x7

-----------------------------------------------------------------------------
(* Graphs of three nodes and two tensors: right, cyclic, with references   *)
(* that do not resolve, and with outputs that name no producer.            *)
MCGraphs ==
    {[inputs |-> "a" :> ia @@ "b" :> ib @@ "c" :> ic,
      outputs |-> "a" :> oa @@ "b" :> {} @@ "c" :> {},
      dependencies |-> "a" :> da @@ "b" :> db @@ "c" :> dc,
      producer |-> "t" :> pt @@ "u" :> pu,
      alias |-> "t" :> al @@ "u" :> "none"] :
        ia \in {{}, {"t"}, {"u"}}, ib \in SUBSET {"t", "u"}, ic \in {{}, {"u"}},
        oa \in {{}, {"t"}, {"v"}}, da \in {{}, {"c"}}, db \in {{}, {"z"}},
        dc \in {{}, {"b"}}, pt \in {"none", "input", "a", "z"}, pu \in {"a", "b"},
        al \in {"none", "t"}}

Graph == INSTANCE WorkloadGraph WITH
    Nodes <- GraphNodes, Tensors <- GraphTensors, Graphs <- GraphsToCheck,
    graph <- x1, phase <- x2, degree <- x3, queue <- x4, order <- x5

(* The shipped files, and one of them with something wrong or unusual.     *)
Fixture(name, dims, nested) ==
    [name |-> name, version |-> "1", source |-> "model_spec", dims |-> dims, nested |-> nested,
     graph |-> <<>>, builder |-> name, unsourced |-> FALSE]
ShippedFiles == <<
    Fixture("cv-vit-b16", "image_count" :> 2, <<>>),
    Fixture("cv-yolov8n", "image_count" :> 1 @@ "request_batch" :> 8, <<>>),
    Fixture("helix-multirate", "image_count" :> 4 @@ "request_batch" :> 8
        @@ "resident_models" :> 4 @@ "inflight_jobs" :> 8, <<>>),
    Fixture("llm-qwen25-3b", "request_batch" :> 1 @@ "active_sequences" :> 1
        @@ "token_block" :> 16 @@ "inflight_jobs" :> 4, "seq_len" :> 128),
    Fixture("openvla-baseline", "image_count" :> 1 @@ "request_batch" :> 16
        @@ "action_horizon" :> 25 @@ "flow_steps" :> 10, <<>>),
    Fixture("openvla-fast", "image_count" :> 2 @@ "request_batch" :> 4
        @@ "action_horizon" :> 25 @@ "flow_steps" :> 8, <<>>),
    Fixture("openvla-oft", "image_count" :> 1 @@ "request_batch" :> 2
        @@ "action_horizon" :> 50 @@ "flow_steps" :> 4, <<>>),
    Fixture("physical-ai-multijob", "image_count" :> 3 @@ "resident_models" :> 8
        @@ "inflight_jobs" :> 16, <<>>),
    Fixture("pi0-class", "image_count" :> 4 @@ "request_batch" :> 8
        @@ "action_horizon" :> 10 @@ "flow_steps" :> 8, <<>>),
    Fixture("smolvla-class", "image_count" :> 3 @@ "request_batch" :> 4
        @@ "action_horizon" :> 8 @@ "flow_steps" :> 4, <<>>)>>

Inline(op) == <<[op |-> "input", id |-> <<"in", 0>>, ins |-> <<>>, lead |-> <<{"image_count"}, 1>>,
                 width |-> 1, weight |-> <<>>],
                [op |-> op, id |-> <<"out", 0>>, ins |-> <<<<"in", 0>>>>, lead |-> <<{"image_count"}, 1>>,
                 width |-> 1, weight |-> <<>>]>>
Unusual(f) == {
    [f EXCEPT !.version = "2"], [f EXCEPT !.name = ""], [f EXCEPT !.name = "cv-vit-b16"],
    [f EXCEPT !.dims = <<>>], [f EXCEPT !.dims = f.dims @@ "batch" :> 3],
    [f EXCEPT !.dims["image_count"] = 0], [f EXCEPT !.dims["image_count"] = -9],
    [f EXCEPT !.nested = "flow_steps" :> 4], [f EXCEPT !.nested = "image_count" :> 4],
    [f EXCEPT !.builder = "none"], [f EXCEPT !.builder = "other"], [f EXCEPT !.unsourced = TRUE],
    [f EXCEPT !.graph = Inline("relu")], [f EXCEPT !.graph = Inline("relu"), !.builder = "none"],
    [f EXCEPT !.graph = Inline("upsample"), !.builder = "none"]}
Catalogs == {ShippedFiles} \cup
    UNION {{[ShippedFiles EXCEPT ![i] = f] : f \in Unusual(ShippedFiles[i])} : i \in {2, 3, 8}}

Catalog == INSTANCE CatalogLoader WITH
    Depth <- 3, Directories <- Catalogs, NotAnInt <- -9,
    files <- x1, loaded <- x2, status <- x3, missing <- x4

(* Sweeps of up to three configurations that differ in a memory, a cache,  *)
(* an engine or an array; a product costs its work over the array and its  *)
(* weights over the memory, and a merged pair reads its input once.        *)
Config(engine, dims, dram, l2, wc) ==
    [engine |-> engine, dims |-> dims, dram |-> dram, bits |-> 4, freq |-> 1000, l2 |-> l2, wc |-> wc]
Base == Config("systolic", <<64, 64>>, 512, 1024, FALSE)
SweepGrids == {
    <<>>, <<Base>>, <<Base, [Base EXCEPT !.l2 = 8192], [Base EXCEPT !.dram = 1024]>>,
    <<Base, [Base EXCEPT !.wc = TRUE], Config("gmma", <<64, 64>>, 512, 1024, TRUE)>>,
    <<[Base EXCEPT !.dims = <<128, 128>>], Base>>,
    <<Config("fsa", <<64, 64>>, 512, 2048, FALSE), [Base EXCEPT !.l2 = 4096], Base>>}
MatMul(c, m, k, n) == (m * k * n) \div c.dims[1] + (100 * k * n) \div c.dram + 2
MatMulPair(c, m, k, n) == (2 * m * k * n) \div c.dims[1] + (200 * k * n) \div c.dram + 2

SweepCalls ==
    {[replay |-> r, scenario |-> s, quick |-> q, cv |-> cv, model |-> model, batch |-> batch,
      partial |-> p, schema |-> schema, output |-> output] :
        r \in BOOLEAN, s \in BOOLEAN, q \in {FALSE}, cv \in {FALSE}, model \in {"", "large"},
        batch \in {0}, p \in BOOLEAN, schema \in {"v1", "v2"}, output \in {"none", "file"}}
    \cup {[replay |-> FALSE, scenario |-> s, quick |-> q, cv |-> cv, model |-> "", batch |-> batch,
           partial |-> TRUE, schema |-> schema, output |-> "directory"] :
        s \in BOOLEAN, q \in BOOLEAN, cv \in BOOLEAN, batch \in {0, 4}, schema \in {"v1", "v2"}}

Explorer == INSTANCE Sweep WITH
    Grids <- SweepGrids, Calls <- SweepCalls, Default <- "small",
    Specs <- "small" :> [hidden |-> 20, qkv |-> 20, kv |-> 8, mid |-> 40, cache |-> 500, layers |-> 2]
          @@ "large" :> [hidden |-> 30, qkv |-> 40, kv |-> 8, mid |-> 60, cache |-> 900, layers |-> 3],
    Gemm <- MatMul, GemmPair <- MatMulPair,
    Areas <- {70, 71, 160, 300}, MaxArea <- 200, ReasonableArea <- 150,
    Rates <- {0, 30}, Top <- 2, Clock <- 1000000,
    call <- x1, grid <- x2, at <- x3, results <- x4,
    filtered <- x5, failed <- x6, exit <- x7, saved <- x8

(* Scenarios like the shipped ones, with fields missing or out of range,   *)
(* with models whose names are misread, and memories of any speed.         *)
Searched(model, seq, ttft, rest, memory, constraints, required, excluded) ==
    [top |-> "model" :> model @@ "model_params_gb" :> 15 @@ "seq_len" :> seq @@ "ttft_ms_max" :> ttft @@ rest,
     memory |-> memory, constraints |-> constraints, required |-> required, excluded |-> excluded, vias |-> 5,
     benchmarks |-> {[process |-> 4, area |-> 8, tops |-> 35, tps |-> 0],
                     [process |-> 22, area |-> 100, tops |-> 20, tps |-> 119],
                     [process |-> 12, area |-> 80, tops |-> 16, tps |-> 21],
                     [process |-> 12, area |-> 0, tops |-> 16, tps |-> 0]}]
Ready == "tps_min" :> 20 @@ "process_nm" :> 12
Lpddr5(bw) == "type" :> "lpddr5" @@ "effective_bw_gbps" :> bw
OnChip == "type" :> "on_chip_3d_dram" @@ "bandwidth_gbps" :> 500 @@ "capacity_gb" :> 5
SearchScenarios ==
    {Searched("qwen2.5-3b", seq, ttft, Ready, Lpddr5(bw), "ttft_ms_max" :> ttft, {"dram_phy", "pcie"}, {"tsv"}) :
        seq \in {128, 1024}, ttft \in {1, 30, 200, 5000}, bw \in {43, 200, 410, 4000}}
    \cup {Searched(model, 1024, 200, rest, memory, constraints, {"pcie", "tsv"}, {"dram_phy"}) :
            model \in {"qwen2.5-7b", "llama-13b", "phi"}, rest \in {Ready, <<>>},
            memory \in {OnChip, <<>>, "type" :> "sram"},
            constraints \in {<<>>, "ttft_ms_max" :> 200}}
    \cup {[Searched("qwen2.5-3b", 128, 200, Ready, Lpddr5(43), <<>>, {}, {}) EXCEPT !.top = top, !.vias = 0] :
            top \in {<<>>, Ready @@ "seq_len" :> 128 @@ "ttft_ms_max" :> 200}}

Search == INSTANCE Requirements WITH
    Scenarios <- SearchScenarios, Unknown <- [unknown |-> TRUE],
    Configs <- {"bandwidth_gbps" :> bw @@ "capacity_gb" :> gb @@ "tsv_overhead_pct" :> 10 @@ node :
                   bw \in {0, 51}, gb \in {0, 5}, node \in {<<>>, "process_node" :> 7}},
    Bests <- {[process |-> 12, area |-> a, tops |-> 16, tps |-> t] : a \in {30, 80, 170}, t \in {0, 21}},
    Models <- "qwen2.5-3b" :> [three |-> TRUE, seven |-> FALSE, billions |-> 3]
           @@ "qwen2.5-7b" :> [three |-> FALSE, seven |-> TRUE, billions |-> 7]
           @@ "llama-13b" :> [three |-> TRUE, seven |-> FALSE, billions |-> 13]
           @@ "phi" :> [three |-> FALSE, seven |-> FALSE, billions |-> 3]
           @@ "" :> [three |-> FALSE, seven |-> FALSE, billions |-> 3],
    scenario <- x1, config <- x2, best <- x3, report <- x4, plan <- x5, verdict <- x6

(* Temporal scenarios: periodic and traced classes with queues and         *)
(* mailboxes of one or two units, warm-ups, and what must not be compiled. *)
Periodic(id, period, count, offset, work) ==
    [id |-> id, mode |-> "periodic", period |-> period, count |-> count, offset |-> offset, times |-> <<>>,
     work |-> work, deadline |-> -1, timeout |-> -1, policy |-> "fifo", stream |-> "", units |-> 1, room |-> 1, excluded |-> TRUE]
Traced(id, times, work) == [Periodic(id, 0, 0, 0, work) EXCEPT !.mode = "trace", !.times = times]
Temporal(classes, warmup, measurement, capacity, limit) ==
    [classes |-> classes, warmup |-> warmup, measurement |-> measurement, capacity |-> capacity,
     limit |-> limit, resources |-> <<>>, memory |-> 4, ref |-> ""]
Latest(c, stream) == [c EXCEPT !.policy = "mailbox", !.stream = stream]
TemporalScenarios ==
    {Temporal(<<Periodic("a", p, 4, o, 2)>>, w, m, 1, 9) : p \in {1, 2, 3}, o \in {0, 1}, w \in {0, 1, 4}, m \in {1, 3}}
    \cup {Temporal(<<[Traced("a", times, 2) EXCEPT !.deadline = d, !.units = 2],
                     [Latest(Periodic("b", 2, 3, 0, 1), s) EXCEPT !.excluded = FALSE]>>, w, 2, 2, l) :
            times \in {<<0, 0, 4>>, <<1, 2, 3>>}, d \in {0, 3}, s \in {"", "b"}, w \in {0, 1}, l \in {4, 9}}
    \cup {Temporal(<<Latest(Traced("a", <<0, 1, 1, 2>>, 2), "s"), Latest(Traced("b", <<0, 2>>, 1), "s"),
                     Periodic("c", 3, 2, 1, 1)>>, w, 2, c, 7) : w \in {0, 1}, c \in {1, 2}}
    \cup {[Temporal(<<Traced("a", times, 1)>>, 0, 2, 1, 5) EXCEPT !.resources = r, !.ref = ref] :
            times \in {<<>>, <<2, 1>>, <<0, 3>>}, r \in {<<>>, "dma" :> 0, "compute" :> 2}, ref \in {"", "vit", "none"}}
    \cup {Temporal(<<Traced("a", <<0>>, 1), Traced("a", <<1>>, 1)>>, 0, 1, 1, 5),
           Temporal(<<Traced("a", <<0, 5>>, 5), Periodic("b", 2, 3, 1, 1)>>, 0, 3, 2, 11),
           [Temporal(<<Traced("a", <<0, 1>>, 3), Periodic("b", 2, 2, 1, 1)>>, 0, 3, 1, 8)
               EXCEPT !.resources = "compute" :> 2]}

Measured == INSTANCE Metrics WITH
    Scenarios <- TemporalScenarios, Fixtures <- "vit" :> 9, None <- -1,
    scenario <- x1, compiled <- x2, now <- x3, jobs <- x4,
    started <- x5, busy <- x6, peak <- x7, metrics <- x8

(* Traces of up to three entries with legacy flags, bindings and registries*)
(* that agree or not, and small ONNX models: a convolution with weights,   *)
(* names left out that collide, a value used twice, and a cycle.           *)
NoTensor == <<"", 0>>
Foreign(kind, entries, registry, given, batch_m, images) ==
    [kind |-> kind, entries |-> entries, registry |-> registry, bindings |-> given, batch_m |-> batch_m,
     images |-> images, inputs |-> <<>>, initializers |-> <<>>, shapes |-> <<>>]
Product(op, m, k, n) == [op |-> op, m |-> m, k |-> k, n |-> n]
Layer(type, name) == [type |-> type, name |-> name]
OnnxNode(type, name, ins, outs) == [type |-> type, name |-> name, ins |-> ins, outs |-> outs]
Registries == {<<>>, "relu" :> "unsupported", "max_pool" :> "unsupported" @@ "upsample" :> "modeled"}
V(name) == <<name, 0>>
Dims(symbol, rest) == <<[symbol |-> symbol, size |-> 0], [symbol |-> "", size |-> rest]>>
OnnxModel(entries, registry) ==
    [Foreign("onnx", entries, registry, <<>>, 0, 0) EXCEPT
        !.inputs = <<V("x"), V("w")>>, !.initializers = <<V("w"), V("b")>>,
        !.shapes = V("x") :> Dims("batch", 3) @@ V("w") :> Dims("", 0) @@ V("y") :> Dims("batch", 0) @@ V("b") :> <<>>]
ForeignModels ==
    {Foreign("llm", trace, <<>>, given, batch_m, 0) :
        trace \in UNION {[1..n -> {Product("Q", 1, 2, 3), Product("down", 2, 3, 2)}] : n \in 0..3},
        given \in {<<>>, "active_sequences" :> 1, "active_sequences" :> 4, "token_block" :> 16},
        batch_m \in 0..3}
    \cup {Foreign("cv", trace, registry, given, 0, images) :
        trace \in UNION {[1..n -> {Layer("pointwise_conv", "a"), Layer("relu", ""), Layer("max_pool", "p")}] : n \in 0..3},
        registry \in Registries, given \in {<<>>, "image_count" :> 4}, images \in {0, 2, 4}}
    \cup {OnnxModel(<<OnnxNode("Conv", name, <<V("x"), V("w"), NoTensor>>, <<V("y")>>),
                      OnnxNode(type, second, <<V(read), V("b")>>, <<V("z"), NoTensor>>),
                      OnnxNode("Relu", NoTensor, <<V("z")>>, <<V(last)>>)>>, registry) :
            name \in {NoTensor, <<"Relu", 2>>}, second \in {NoTensor, <<"Conv", 0>>},
            type \in {"Add", "MaxPool", "Upsample"}, read \in {"x", "y", "v"}, last \in {"v", "w"},
            registry \in Registries}

Lowered == INSTANCE Lowering WITH
    Sources <- ForeignModels,
    source <- x1, at <- x2, nodes <- x3, tensors <- x4, bindings <- x5, status <- x6

(* What the runner supposes of its constants; a graph has finitely many    *)
(* nodes.                                                                  *)
ASSUME ExplorationAssumption == Run!RunnerAssumption /\ IsFiniteSet(GraphNodes)

-----------------------------------------------------------------------------
(* A component leaves the variables it does not need at 0. *)
Unused8 == x8 = 0
Unused7 == x7 = 0 /\ Unused8
Unused6 == x6 = 0 /\ Unused7
Unused5 == x5 = 0 /\ Unused6

Init ==
    \/ part = "space"  /\ Space!Init  /\ Unused6
    \/ part = "run"    /\ Run!Init
    \/ part = "bundle" /\ Bundle!Init /\ Unused8
    \/ part = "graph"  /\ Graph!Init  /\ Unused6
    \/ part = "catalog" /\ Catalog!Init /\ Unused5
    \/ part = "sweep"  /\ Explorer!Init
    \/ part = "search" /\ Search!Init /\ Unused7
    \/ part = "metrics" /\ Measured!Init
    \/ part = "lowering" /\ Lowered!Init /\ Unused7

Next ==
    /\ UNCHANGED part
    /\ \/ part = "space"  /\ Space!Next  /\ UNCHANGED <<x6, x7, x8>>
       \/ part = "run"    /\ Run!Next
       \/ part = "bundle" /\ Bundle!Next /\ UNCHANGED x8
       \/ part = "graph"  /\ Graph!Next  /\ UNCHANGED <<x6, x7, x8>>
       \/ part = "catalog" /\ Catalog!Next /\ UNCHANGED <<x5, x6, x7, x8>>
       \/ part = "sweep"  /\ Explorer!Next
       \/ part = "search" /\ Search!Next /\ UNCHANGED <<x7, x8>>
       \/ part = "metrics" /\ Measured!Next
       \/ part = "lowering" /\ Lowered!Next /\ UNCHANGED <<x7, x8>>

Spec == Init /\ [][Next]_state

-----------------------------------------------------------------------------
(* DesignSpace: repaired points are points of the full mode, none of them  *)
(* an excluded combination, and no axis value is lost silently, but where  *)
(* the repair gave up or ended in an excluded combination (space.py,       *)
(* _ci_all_axes_combinations, _repair and _check).                         *)
CiWithinFull == part = "space" => Space!NothingSilentlyMissing /\ Space!CiWithinFull

(* DseRunner: the frontier is that of the eligible points (pareto.py), a   *)
(* partial run offers nothing, and a decision_grade run offers calibrated  *)
(* points only.                                                            *)
FrontierSound ==
    part = "run" =>
        /\ Run!TypeOK
        /\ Run!PartialOffersNothing
        /\ Run!FrontierSound
        /\ Run!DecisionGradeCalibrated

(* CoverageManifest: the counts add up, whatever is reclassified, and the  *)
(* axis values shown are those of the points.                              *)
CoverageTrue == part = "run" => Run!ManifestBalanced /\ Run!CoverageTrue

(* DseRunner: a bundle of the command line verifies when replayed, and     *)
(* what the release gate publishes deserves it.                            *)
ArtifactHonest == part = "run" => Run!ReplayVerifies /\ Run!ArtifactHonest

(* ReplayBundle: an accepted bundle is of one run, and a writer that       *)
(* succeeded undisturbed left one that is accepted.                        *)
AcceptedIsOneRun == part = "bundle" => Bundle!SuccessReadable /\ Bundle!AcceptedIsOneRun

(* WorkloadGraph: accepted graphs are acyclic and consistent, rejected     *)
(* ones could not run, and nodes come after what they depend on.           *)
OrderIsTopological ==
    part = "graph" =>
        /\ Graph!TypeOK
        /\ Graph!AcceptedIsSound
        /\ Graph!RejectedForAReason
        /\ Graph!OrderIsTopological

(* CatalogLoader: a directory loads whole or not at all, dimensions do not *)
(* disturb each other, and the graphs are wired as their builders mean     *)
(* (catalog.py, load_all_fixtures and the build functions).  Lowering: the *)
(* graph of a foreign model has the order, the operators, the dimensions   *)
(* and the wiring of that model, or there is none (legacy_adapter.py,      *)
(* onnx_adapter.py).                                                       *)
GraphsAreWired ==
    /\ part = "catalog" =>
          /\ Catalog!TypeOK
          /\ Catalog!AllOrNothing
          /\ Catalog!DimensionsIndependent
          /\ Catalog!GraphsAreWired
    /\ part = "lowering" =>
          /\ Lowered!TypeOK
          /\ Lowered!NodesAndTensorsAgree
          /\ Lowered!TraceIsChain
          /\ Lowered!FailsClosed
          /\ Lowered!OneDimensionBound
          /\ Lowered!SymbolsSurvive

(* Sweep: counts, exit code and saved file of the explorer agree with what *)
(* was evaluated, and frontier, ranking and sensitivities are those of the *)
(* results (design_space_explorer.py, main and analyze_sensitivity).       *)
SweepAccounts ==
    part = "sweep" =>
        /\ Explorer!TypeOK
        /\ Explorer!SweepAccounts
        /\ Explorer!ExitHonest
        /\ Explorer!FrontierCovers
        /\ Explorer!BestIsLookedUp
        /\ Explorer!MoreIsNotSlower
        /\ Explorer!SensitivityOfTwo

(* Requirements: what a scenario lacks is asked for, the search is advised *)
(* consistently, and products are judged by one measure (dse_scenario.py,  *)
(* check_requirements, preflight and cross_validate).                      *)
SearchIsPrepared ==
    part = "search" =>
        /\ Search!ReadyIsGiven
        /\ Search!PlanIsSound
        /\ Search!ComponentsDecide
        /\ Search!JudgementIsFair

(* Metrics: the releases and the window a scenario is compiled to, the     *)
(* counters, percentiles and busy times computed over it, and that a run   *)
(* that lost or delayed what it measures is not stable (compile_scenario,  *)
(* MetricsCollector.compute).                                              *)
MetricsAddUp ==
    part = "metrics" =>
        /\ Measured!TypeOK
        /\ Measured!ReleasesArePlanned
        /\ Measured!WindowIsWhole
        /\ Measured!EveryJobCountedOnce
        /\ Measured!OverloadIsVisible
        /\ Measured!OfferedIsAsked
        /\ Measured!PercentilesAreRanked
        /\ Measured!BusyIsCoverage

(* DseRunner, violated: the trust mode of the command line does what the   *)
(* runner's does (design_space_explorer.py, --trust-mode).                 *)
CommandLineDecisionGrade == part = "run" => Run!CommandLineDecisionGrade
=============================================================================
