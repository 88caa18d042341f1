---------------------------- MODULE Requirements ----------------------------
(***************************************************************************)
(* Around a design-space search (sim/dse_scenario.py): are the critical    *)
(* fields of a scenario given, what limits it before the search, does the  *)
(* configuration have the components it asks for, and how does the best    *)
(* result compare with known products.  Rates are whole numbers; what a    *)
(* model's name says of its size is a constant.                            *)
(***************************************************************************)
EXTENDS Integers, FiniteSets, Sequences, FiniteSetsExt

CONSTANTS Scenarios,     \* entries of scenarios.yaml; Unknown for a name that has none
          Configs,       \* design-space configurations
          Bests,         \* best results: [process, area, tops, tps]
          Models,        \* what a model's name says: [three, seven, billions]
          Unknown

VARIABLES scenario, config, best, report, plan, verdict

vars == <<scenario, config, best, report, plan, verdict>>

Pending == [state |-> "pending"]
Error == [state |-> "error"]

Get(f, key, default) == IF key \in DOMAIN f THEN f[key] ELSE default
Above(a, b) == IF a > b THEN a ELSE b
-----------------------------------------------------------------------------
(* CRITICAL_FIELDS: those with a default, and those of high impact. *)
Critical == {"seq_len", "ttft_ms_max", "tps_min", "model", "memory.type", "process_nm"}
Defaulted == Critical \ {"model"}
HighImpact == Critical \ {"tps_min"}
MemoryTypes == {"lpddr5", "lpddr5x", "on_chip_3d_dram", "hbm2e", "hbm3"}

(* Where a field is found; a type that the memory does not have counts as  *)
(* found, as the lookup of a nested field returns an empty mapping.        *)
Explicit(field) ==
    CASE field = "memory.type" -> TRUE
      [] field = "process_nm" -> field \in DOMAIN scenario.top \/ "process_node" \in DOMAIN config
      [] OTHER -> field \in DOMAIN scenario.top

Confidence(field) == IF Explicit(field) THEN "explicit"
                     ELSE IF field \in Defaulted THEN "defaulted" ELSE "missing"

Valid(field) ==
    Explicit(field) =>
        CASE field = "memory.type" -> Get(scenario.memory, "type", "nothing") \in MemoryTypes
          [] field = "ttft_ms_max" -> scenario.top[field] \in 1..4999
          [] field = "process_nm" -> Get(scenario.top, field, Get(config, "process_node", 12)) \in 2..99
          [] field = "model" -> scenario.top[field] \in DOMAIN Models
          [] OTHER -> scenario.top[field] > 0

(* Faulty: nothing is asked about a field that has no default. *)
ReportOfDefaults ==
    LET asked == {f \in Critical : Confidence(f) = "defaulted"}
    IN [state |-> "done", ready |-> asked = {}, questions |-> asked,
        warnings |-> (HighImpact \cap asked) \cup {f \in Critical : ~Valid(f)}]

(* check_requirements *)
Report ==
    LET asked == {f \in Critical : Confidence(f) # "explicit"}
    IN [state |-> "done", ready |-> asked = {}, questions |-> asked,
        warnings |-> {f \in HighImpact : Confidence(f) = "defaulted"} \cup {f \in Critical : ~Valid(f)}]
-----------------------------------------------------------------------------
(* _build_scenario_model: one periodic class, in tenths of a millisecond. *)
Ttft == Get(scenario.constraints, "ttft_ms_max", Get(scenario.top, "ttft_ms_max", 200))
MemoryType == Get(scenario.memory, "type", "lpddr5")
ScenarioModel ==
    LET work == Above(10, Ttft \div 2)
        capacity == Get(scenario.memory, "capacity_gb", 0)
    IN [memory_type |-> MemoryType,
        available_gb |-> IF MemoryType = "on_chip_3d_dram" /\ capacity > 0 THEN capacity ELSE 8,
        work |-> work, period |-> Above(10, 2 * work), deadline |-> 10 * Ttft]

(* predict_bottleneck: bandwidth in GB/s, weights in tenths of a GB.  The  *)
(* parameter count is read off the model's name in two ways.               *)
Bandwidth(s) == Get(s.memory, "effective_bw_gbps", Get(s.memory, "bandwidth_gbps", 51))
Weights == Get(scenario.top, "model_params_gb", 15)
Name == Models[Get(scenario.top, "model", "")]
Billions == IF Name.three THEN 3 ELSE IF Name.seven THEN 7 ELSE 1
TypicalTops == {6, 16, 49, 131}

(* Whether the rate that bandwidth allows is below (above) what an array   *)
(* of so many TOPS computes: bw / weights against 500 tops / (2 billions). *)
SlowerThan(bw, tops) == 20 * bw * Billions < 500 * tops * Weights
FasterThan(bw, tops) == 20 * bw * Billions > 500 * tops * Weights

Bottleneck(bw) ==
    IF \A t \in TypicalTops : SlowerThan(bw, t) THEN "bandwidth"
    ELSE IF \A t \in TypicalTops : FasterThan(bw, t) THEN "compute" ELSE "mixed"

(* _estimate_min_tops, of the constraint alone. *)
Work == 2 * Name.billions * Get(scenario.top, "seq_len", 128)
Allowed == Get(scenario.constraints, "ttft_ms_max", 200)
NeedsMore(tops) == Work > tops * Allowed

(* validate_components: shares of the area for vias in hundredths. *)
HasDdr == Get(config, "bandwidth_gbps", 0) > 0
HasOnChip == Get(config, "capacity_gb", 0) > 0
Lacking(components) ==
    {c \in components : (c = "dram_phy" /\ ~HasDdr) \/ (c = "tsv" /\ ~HasOnChip)}
Missing == Lacking(scenario.required)
Excess == {c \in scenario.excluded : (c = "dram_phy" /\ HasDdr) \/ (c = "tsv" /\ HasOnChip)}
Vias ==
    LET expected == IF scenario.vias > 0 THEN scenario.vias ELSE Get(scenario.memory, "tsv_overhead_pct", 10)
        actual == Get(config, "tsv_overhead_pct", 0)
    IN "tsv" \in scenario.required /\ Above(actual - expected, expected - actual) > 1

(* preflight: the search of the array starts at "from" TOPS, or not above 16. *)
Plan ==
    LET bw == Bandwidth(scenario)
        limit == Bottleneck(bw)
    IN [state |-> "done", model |-> ScenarioModel, bottleneck |-> limit,
        missing |-> Missing, excess |-> Excess, vias |-> Vias,
        sram |-> IF limit # "bandwidth" THEN "small" ELSE IF bw >= 200 THEN "any" ELSE "large",
        array |-> IF NeedsMore(16) THEN "at least" ELSE
                  CASE limit = "bandwidth" -> "small" [] limit = "compute" -> "large" [] OTHER -> "none",
        from |-> IF NeedsMore(16) THEN Above(4, (2 * Work) \div (3 * Allowed)) ELSE 0]
-----------------------------------------------------------------------------
(* cross_validate: areas are scaled by the square of the process, and      *)
(* compared per token rate where both have one, else per TOPS.  A product  *)
(* without area or TOPS is passed over.                                    *)
Compared(b) == {p \in b : p.area > 0 /\ p.tops > 0}

Share(p, q) ==
    LET out(x) == IF p.tps > 0 /\ q.tps > 0 THEN x.tps ELSE x.tops
    IN p.area * out(q) * q.process * q.process

(* Twice the area per output is an anomaly, less than half is suspicious. *)
Anomaly(p, q) == Share(p, q) > 2 * Share(q, p)
Suspicious(p, q) == 2 * Share(p, q) < Share(q, p)

Verdict ==
    LET compared == IF scenario = Unknown THEN {} ELSE Compared(scenario.benchmarks)
    IN [state |-> "done", compared |-> compared,
        anomalies |-> {q \in compared : Anomaly(best, q)},
        suspicious |-> {q \in compared : Suspicious(best, q)}]
-----------------------------------------------------------------------------
Init ==
    /\ scenario \in Scenarios \cup {Unknown} /\ config \in Configs /\ best \in Bests
    /\ report = Pending /\ plan = Pending /\ verdict = Pending

CheckRequirements ==
    /\ report = Pending
    /\ report' = IF scenario = Unknown THEN Error ELSE Report
    /\ UNCHANGED <<scenario, config, best, plan, verdict>>

Preflight ==
    /\ plan = Pending
    /\ plan' = IF scenario = Unknown THEN Error ELSE Plan
    /\ UNCHANGED <<scenario, config, best, report, verdict>>

CrossValidate ==
    /\ verdict = Pending
    /\ verdict' = Verdict
    /\ UNCHANGED <<scenario, config, best, report, plan>>

Next == CheckRequirements \/ Preflight \/ CrossValidate

Spec == Init /\ [][Next]_vars
-----------------------------------------------------------------------------
(* A scenario that is ready without warnings gives every critical field,   *)
(* and what the search is prepared with is what was reported, if the       *)
(* constraints repeat the fields they share.                               *)
ReadyIsGiven ==
    (report.state = "done" /\ report.ready /\ report.warnings = {}) =>
        /\ Critical \ {"memory.type", "process_nm"} \subseteq DOMAIN scenario.top
        /\ "type" \in DOMAIN scenario.memory
        /\ (plan.state = "done" /\ "ttft_ms_max" \in DOMAIN scenario.constraints) =>
              /\ plan.model.memory_type = scenario.memory["type"]
              /\ plan.model.deadline = 10 * scenario.constraints["ttft_ms_max"]

(* The class that stands for a scenario meets its deadline on an idle      *)
(* engine and loads it to one half; more bandwidth never makes bandwidth   *)
(* the limit; what the array is advised to be suits that limit and covers  *)
(* the TOPS needed.                                                        *)
PlanIsSound ==
    plan.state = "done" =>
        /\ plan.model.work <= plan.model.deadline /\ 2 * plan.model.work <= plan.model.period
        /\ \A more \in {1, 10, 100, 1000} :
              LET after == Bottleneck(Bandwidth(scenario) + more)
              IN /\ plan.bottleneck = "compute" => after = "compute"
                 /\ plan.bottleneck = "mixed" => after # "bandwidth"
        /\ plan.array = "at least" => 4 <= plan.from /\ plan.from * Allowed <= Work
        /\ plan.array = "small" => ~NeedsMore(16) /\ plan.sram # "small"

(* A configuration without warnings serves no scenario with the opposite   *)
(* memory: what one requires, the other excludes.                          *)
ComponentsDecide ==
    (plan.state = "done" /\ plan.missing = {} /\ plan.excess = {}) =>
        \A other \in Scenarios : \A c \in {"dram_phy", "tsv"} :
            c \in scenario.excluded \cap other.required => c \in Lacking(other.required)

(* Every product is judged once, the judgement is the opposite when the    *)
(* roles change, and a result is neither against itself.                   *)
JudgementIsFair ==
    verdict.state = "done" =>
        /\ verdict.anomalies \cap verdict.suspicious = {}
        /\ \A q \in verdict.compared : (q \in verdict.anomalies) = Suspicious(q, best)
        /\ ~Anomaly(best, best) /\ ~Suspicious(best, best)
=============================================================================
