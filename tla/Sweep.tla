------------------------------- MODULE Sweep -------------------------------
(***************************************************************************)
(* The design-space explorer (sim/design_space_explorer.py).  Its command  *)
(* line replays a bundle, runs a scenario, or sweeps a grid of engines,    *)
(* arrays, memories and frequencies: every configuration is evaluated,     *)
(* large ones are filtered out, and frontier, ranking, sensitivities and   *)
(* counts of the rest are reported.  How long an engine takes for a matrix *)
(* product is a constant; an evaluation may raise and gives any area.      *)
(***************************************************************************)
EXTENDS Integers, FiniteSets, Sequences, SequencesExt, FiniteSetsExt

CONSTANTS Grids,         \* lists of configurations to sweep
          Calls,         \* command lines
          Specs,         \* model dimensions by alias
          Default,       \* _DEFAULT_LLM_SPEC
          Gemm(_, _, _, _), GemmPair(_, _, _, _),   \* cycles on a configuration for m, k, n
          Areas, MaxArea, ReasonableArea,
          Rates,         \* frames per second that the vision simulator finds
          Top,           \* how many results are shown
          Clock          \* tokens per second at one cycle per token

VARIABLES call, grid, at, results, filtered, failed, exit, saved

vars == <<call, grid, at, results, filtered, failed, exit, saved>>

Running == -1        \* no exit code yet
Nothing == [schema |-> "none"]

-----------------------------------------------------------------------------
(* generate_configs *)
Engines(quick) == {"systolic", "block", "gmma"}
                  \cup IF quick THEN {} ELSE {"os_systolic", "tensor_core", "wmma", "input_stationary", "fsa"}
Caching == {"systolic", "block", "gmma"}

(* Area of an array of h x w and the limit for its engine, per 128 x 128.  *)
TooLarge(e, h, w) ==
    LET above(mm2, limit) == h * w * mm2 > limit * 128 * 128
    IN CASE e \in {"block", "os_systolic"} -> above(32, 200)
         [] e = "systolic" -> above(8, 80)
         [] e \in {"tensor_core", "wmma"} -> above(37, 200)
         [] e = "gmma" -> above(40, 200)
         [] e = "input_stationary" -> above(24, 150)
         [] OTHER -> FALSE

(* Bandwidths in tenths of GB/s. *)
Dims(quick) == {<<64, 64>>, <<128, 128>>, <<128, 256>>, <<256, 256>>}
               \cup IF quick THEN {} ELSE {<<96, 96>>, <<128, 192>>, <<192, 256>>}
Drams(quick) == {512, 1024} \cup IF quick THEN {} ELSE {256, 2048, 4600, 8192}
Bits(quick) == {4} \cup IF quick THEN {} ELSE {2}
Freqs(quick) == {1000} \cup IF quick THEN {} ELSE {800, 1200}
L2Sizes(quick) == {2048} \cup IF quick THEN {} ELSE {1024, 4096, 6144, 8192}

Generated(quick) ==
    {c \in [engine : Engines(quick), dims : Dims(quick), dram : Drams(quick), bits : Bits(quick),
            freq : Freqs(quick), l2 : L2Sizes(quick), wc : BOOLEAN] :
        /\ ~TooLarge(c.engine, c.dims[1], c.dims[2])
        /\ c.wc => c.engine \in Caching /\ (c.engine = "systolic" \/ c.dram >= 512)}
-----------------------------------------------------------------------------
(* generate_trace_from_spec: the matrix products of a layer, [name, m, k, n]. *)
Product(name, m, k, n) == [name |-> name, m |-> m, k |-> k, n |-> n]
Trace(alias, m) ==
    LET s == Specs[alias]
    IN <<Product("Q_proj", m, s.hidden, s.qkv), Product("K_proj", m, s.hidden, s.kv),
         Product("V_proj", m, s.hidden, s.kv), Product("O_proj", m, s.qkv, s.hidden),
         Product("FFN_gate", m, s.hidden, s.mid), Product("FFN_up", m, s.hidden, s.mid),
         Product("FFN_down", m, s.mid, s.hidden)>>

Sfu(name) == CASE name = "O_proj" -> 33 [] name = "FFN_down" -> 8 [] OTHER -> 0

(* Whether the product at i is computed along with its successor. *)
Merged(c, ops, i) ==
    c.wc /\ i < Len(ops) /\ ops[i].name = "FFN_gate" /\ ops[i + 1].name = "FFN_up"

(* _simulate_ops *)
OpsCycles(c, ops) ==
    LET steps == {i \in DOMAIN ops : i = 1 \/ ~Merged(c, ops, i - 1)}
        cycles(i) == (IF Merged(c, ops, i) THEN GemmPair(c, ops[i].m, ops[i].k, ops[i].n)
                      ELSE Gemm(c, ops[i].m, ops[i].k, ops[i].n)) + Sfu(ops[i].name)
    IN MapThenSumSet(cycles, steps)

(* _compute_kv_cycles: the more of the cache (in kilobytes) fits in 40% of *)
(* L2, the nearer the efficiency is to its best; the part of the peak rate *)
(* that is lost is rounded to thousandths here.                            *)
KvCycles(c, m, kv) ==
    LET buffer == (c.l2 * 4) \div 10
        slower == ((60 * kv + 200 * buffer) * 1000) \div (33 * kv + 190 * buffer)
    IN IF m > 1 THEN 0 ELSE (kv * 10 * slower) \div c.dram

(* simulate_layer: the products of the default model, the cache of the one asked for. *)
DecodeCycles(c, alias) == OpsCycles(c, Trace(Default, 1)) + KvCycles(c, 1, Specs[alias].cache)

PrefillCycles(c, alias, m) == OpsCycles(c, Trace(alias, m))
-----------------------------------------------------------------------------
Model == IF call.model = "" THEN Default ELSE call.model
Batch == IF call.batch = 0 THEN 1 ELSE call.batch

(* evaluate_config: rates and times of a configuration of a given area. *)
Evaluations(c) ==
    IF call.cv
    THEN [config : {c}, area : Areas, tok : Rates, ttft : {0}]
    ELSE [config : {c}, area : Areas,
          tok : {Clock \div (DecodeCycles(c, Model) * Specs[Model].layers)},
          ttft : {PrefillCycles(c, Model, Batch) * Specs[Model].layers}]

(* The label of a result, as it is parsed again: L2 is not part of it. *)
Label(r) == [engine |-> r.config.engine, dims |-> r.config.dims, bits |-> r.config.bits,
             freq |-> r.config.freq, wc |-> r.config.wc, dram |-> r.config.dram]

Dominates(q, p) ==
    q.tok >= p.tok /\ q.area <= p.area /\ (q.tok > p.tok \/ q.area < p.area)

(* Faulty: a result only yields to those after it. *)
ParetoBackwards ==
    {i \in DOMAIN results : ~\E j \in DOMAIN results : j > i /\ Dominates(results[j], results[i])}

(* find_pareto: the positions of the frontier. *)
Pareto == {i \in DOMAIN results : ~\E j \in DOMAIN results : Dominates(results[j], results[i])}

Reasonable == {i \in DOMAIN results : results[i].area <= ReasonableArea}

(* The stable sort by rate. *)
Ahead(i, j) == results[i].tok > results[j].tok \/ (results[i].tok = results[j].tok /\ i < j)
TopResults == {i \in Reasonable : Cardinality({j \in Reasonable : Ahead(j, i)}) < Top}
Best == CHOOSE i \in Reasonable : \A j \in Reasonable \ {i} : Ahead(i, j)

(* main: the configuration that is taken for the best result's: the one at *)
(* the position of the first result with its label.                        *)
LookedUp == grid[Min({i \in DOMAIN results : Label(results[i]) = Label(results[Best])})]
-----------------------------------------------------------------------------
(* analyze_sensitivity: one parameter of the labels at a time.  The code   *)
(* reports nothing for fewer than ten results; the arithmetic below is the *)
(* same for any number.                                                    *)
Parameters == {"engine", "dims", "bits", "freq", "wc", "dram"}
ValuesOf(p) == {Label(results[i])[p] : i \in DOMAIN results}
Varying == {p \in Parameters : Cardinality(ValuesOf(p)) > 1}

Group(p, v) == {i \in DOMAIN results : Label(results[i])[p] = v}
Total(metric, S) == MapThenSumSet(LAMBDA i : results[i][metric], S)

(* Two groups whose means differ by less than 2% of the overall mean. *)
Near(metric, S, T) ==
    LET all == DOMAIN results
        apart == Total(metric, S) * Cardinality(T) - Total(metric, T) * Cardinality(S)
        gap == IF apart < 0 THEN -apart ELSE apart
    IN \/ gap = 0
       \/ gap * 100 * Cardinality(all) < 2 * Total(metric, all) * Cardinality(S) * Cardinality(T)

ZeroSensitivity ==
    {p \in Varying : \A v, w \in ValuesOf(p) : \A metric \in {"tok", "area"} :
        Near(metric, Group(p, v), Group(p, w))}

(* The value with the best mean rate per mean area, the first of equals. *)
Optimal(p) ==
    LET better(v, w) == Total("tok", Group(p, v)) * Total("area", Group(p, w))
                           > Total("tok", Group(p, w)) * Total("area", Group(p, v))
        best == {v \in ValuesOf(p) : ~\E w \in ValuesOf(p) : better(w, v)}
    IN Label(results[Min({i \in DOMAIN results : Label(results[i])[p] \in best})])[p]
-----------------------------------------------------------------------------
Init ==
    /\ call \in Calls /\ grid \in Grids /\ at = 1
    /\ results = <<>> /\ filtered = 0 /\ failed = 0
    /\ exit = Running /\ saved = Nothing

End(code, output) ==
    exit' = code /\ saved' = output /\ UNCHANGED <<call, grid, at, results, filtered, failed>>

(* main: options that exclude each other. *)
Contradictory ==
    LET tuned == call.model # "" \/ call.batch # 0
    IN \/ call.replay /\ (call.scenario \/ call.cv \/ tuned)
       \/ call.scenario /\ (call.quick \/ call.cv \/ tuned)
       \/ call.cv /\ tuned

RefuseOptions == exit = Running /\ at = 1 /\ Contradictory /\ End(2, Nothing)

(* _run_replay: the same points and the same digest, or any error.         *)
Replay ==
    /\ exit = Running /\ ~Contradictory /\ call.replay
    /\ \E verified \in BOOLEAN : End(IF verified THEN 0 ELSE 1, Nothing)

(* _run_scenario_dse: the schema is looked at after the run. *)
RunScenario ==
    /\ exit = Running /\ ~Contradictory /\ ~call.replay /\ call.scenario
    /\ \E raises \in BOOLEAN :
          IF raises \/ (call.output # "none" /\ call.schema # "v2") THEN End(1, Nothing)
          ELSE End(0, IF call.output = "none" THEN Nothing
                      ELSE [schema |-> IF call.output = "directory" THEN "bundle" ELSE "result set"])

Sweeping == exit = Running /\ ~Contradictory /\ ~call.replay /\ ~call.scenario

Evaluate ==
    /\ Sweeping /\ at <= Len(grid) /\ at' = at + 1
    /\ \E r \in Evaluations(grid[at]) :
          IF r.area <= MaxArea
          THEN results' = Append(results, r) /\ UNCHANGED filtered
          ELSE filtered' = filtered + 1 /\ UNCHANGED results
    /\ UNCHANGED <<call, grid, failed, exit, saved>>

EvaluateRaises ==
    /\ Sweeping /\ at <= Len(grid) /\ at' = at + 1
    /\ failed' = failed + 1
    /\ UNCHANGED <<call, grid, results, filtered, exit, saved>>

Abort ==
    /\ Sweeping /\ at > Len(grid)
    /\ grid = <<>> \/ (failed > 0 /\ ~call.partial) \/ results = <<>>
    /\ End(1, Nothing)

(* _build_v2_output *)
Partial == failed > 0 /\ call.partial
V2Output ==
    [schema |-> "v2", generated |-> Len(grid), evaluated |-> at - 1, failed |-> failed,
     filtered |-> filtered, complete |-> IF Partial THEN 0 ELSE Len(results),
     partial |-> IF Partial THEN Len(results) ELSE 0,
     trust |-> IF Partial THEN "non_authoritative" ELSE "exploratory"]

(* The frontier and the top results; of a vision model, each label once    *)
(* more than the frontier has it.                                          *)
V1Output ==
    [schema |-> "v1", generated |-> Len(grid), evaluated |-> at - 1, failed |-> failed,
     filtered |-> filtered, frontier |-> Pareto,
     shown |-> IF ~call.cv THEN TopResults
               ELSE {i \in TopResults : \A j \in Pareto : Label(results[i]) # Label(results[j])}]

Report ==
    /\ Sweeping /\ at > Len(grid)
    /\ grid # <<>> /\ (failed = 0 \/ call.partial) /\ results # <<>>
    /\ End(0, IF call.output = "none" THEN Nothing
              ELSE IF call.schema = "v2" THEN V2Output ELSE V1Output)

Next ==
    \/ RefuseOptions \/ Replay \/ RunScenario
    \/ Evaluate \/ EvaluateRaises \/ Abort \/ Report

Spec == Init /\ [][Next]_vars
-----------------------------------------------------------------------------
TypeOK ==
    /\ exit \in {Running, 0, 1, 2} /\ at \in 1..(Len(grid) + 1)
    /\ \A i \in DOMAIN grid : grid[i] \in Generated(FALSE)

(* Every generated configuration is a result, filtered or failed, in the   *)
(* saved file too; a partial run is not offered as complete.               *)
SweepAccounts ==
    /\ at - 1 = Len(results) + filtered + failed
    /\ saved.schema = "v2" =>
          /\ saved.generated = saved.evaluated
          /\ saved.evaluated = saved.complete + saved.partial + saved.failed + saved.filtered
          /\ saved.failed > 0 => saved.complete = 0 /\ saved.trust = "non_authoritative"

(* Success means that what was asked for was saved and no error was hidden; *)
(* a failed or refused call leaves nothing.                                *)
ExitHonest ==
    /\ exit \in {1, 2} => saved = Nothing
    /\ exit = 0 /\ ~call.replay =>
          /\ (saved = Nothing) = (call.output = "none")
          /\ failed > 0 => call.partial

(* The frontier: nothing outside it is better than all of it, its members  *)
(* do not beat each other, and a result that a vision model's file leaves  *)
(* out is not reasonable, not at the top, or has the label of one shown.   *)
FrontierCovers ==
    /\ \A i \in DOMAIN results : \E j \in Pareto : j = i \/ Dominates(results[j], results[i])
    /\ \A i, j \in Pareto : results[i].tok > results[j].tok => results[i].area > results[j].area
    /\ saved.schema = "v1" => \A i \in TopResults :
          \/ i \in saved.shown
          \/ \E j \in saved.frontier : Label(results[j]) = Label(results[i])

(* The best result is cross-validated as itself, up to the size of L2, if  *)
(* no configuration was dropped before it.                                 *)
BestIsLookedUp ==
    Reasonable # {} /\ filtered + failed = 0 =>
        Label([config |-> LookedUp]) = Label(results[Best])

(* A larger L2, a merge of gate and up projection or a wider memory never  *)
(* slows a configuration down.                                             *)
MoreIsNotSlower ==
    ~call.cv => \A i, j \in DOMAIN results :
        LET a == results[i].config
            b == results[j].config
        IN /\ a.l2 <= b.l2 /\ (a.wc => b.wc) /\ a.dram <= b.dram
           /\ [a EXCEPT !.l2 = b.l2, !.wc = b.wc, !.dram = b.dram] = b
           =>
           results[i].tok <= results[j].tok /\ results[i].ttft >= results[j].ttft

(* When one parameter tells two results apart, its optimal value is that   *)
(* of a result not beaten in both metrics, and it is without influence     *)
(* only if both metrics lie within 2% of their mean.                       *)
SensitivityOfTwo ==
    Len(results) = 2 => \A p \in Varying :
        LET a == results[1]
            b == results[2]
        IN /\ Dominates(a, b) => Optimal(p) = Label(a)[p]
           /\ Dominates(b, a) /\ b.tok > 0 => Optimal(p) = Label(b)[p]
           /\ p \in ZeroSensitivity => 100 * (a.area - b.area) <= a.area + b.area
=============================================================================
