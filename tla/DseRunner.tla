----------------------------- MODULE DseRunner -----------------------------
(***************************************************************************)
(* A design-space run: the points are evaluated one after the other, the   *)
(* trust gate rates the calibration entries each one rests on, failures    *)
(* make the run partial, the hard gates and the dominance filter choose    *)
(* the frontier, and the bundle written can be replayed or put through the *)
(* release gate.  Metrics are small numbers; how they are computed is left *)
(* out.                                                                    *)
(***************************************************************************)
EXTENDS CoverageManifest, Sequences

CONSTANTS
    Order,        \* the points in the order they were generated
    Outcomes,     \* what evaluating a point may come to
    Configs,      \* the ways to ask for a run
    Maximized,    \* the objectives to maximise, the others are minimised
    Objectives,
    ThermalLimit  \* thermal_limit_w of the run's configuration

\* the runner's callers write decision_grade, the command line decision-grade
TrustModes == {"exploratory", "decision_grade", "decision-grade"}

Config == [trust_mode : TrustModes, allow_partial : BOOLEAN,
           quality_gate_required : BOOLEAN,
           missing : BOOLEAN,  \* the generated points leave an axis value out
           dirty : BOOLEAN]    \* the worktree has changes

RunnerAssumption ==
    /\ Order \in Seq(Points) /\ {Order[i] : i \in DOMAIN Order} = Points
    /\ Configs \subseteq Config /\ Maximized \subseteq Objectives
    /\ \A o \in Outcomes :
          /\ o.values \in [Objectives -> Int]
          /\ \A e \in o.entries :  \* levels T0 to T3
                e.known \in BOOLEAN /\ e.in_range \in BOOLEAN /\ e.trust \in 0..3

VARIABLES
    config,       \* how the run is asked for
    outcome,      \* what evaluating each point comes to
    results,      \* the results so far, in order
    manifest,
    frontier,     \* frontier_design_point_ids
    set_trust,    \* the trust level of the result set
    artifact,     \* the directory of the release exists
    status        \* "run", "returned", "ConfigError", "released",
                  \* "NonAuthoritativeRunError", "reclassified", "verified", "mismatch",
                  \* "gate_pass", "gate_fail", "RuntimeError"

vars == <<config, outcome, results, manifest, frontier, set_trust, artifact, status>>

-----------------------------------------------------------------------------
(* The trust gate.  An entry: known to the registry, its level, whether    *)
(* the configuration's value lies in the calibrated range.                 *)

Least(S) == CHOOSE x \in S : \A y \in S : x <= y

CappedLevel(e) == IF ~e.known THEN 0 ELSE IF ~e.in_range THEN 1 ELSE e.trust
MaxTrust(entries) == Least({3} \cup {CappedLevel(e) : e \in entries})
Violations(entries) == {e \in entries : ~e.known \/ ~e.in_range}

LevelName(level) ==
    CASE level < 2 -> "exploratory" [] level = 2 -> "calibrated_estimate"
      [] OTHER -> "authoritative"

\* Faulty: only broken calibrations count, not their level.
TrustUnlessBroken(entries, mode) ==
    IF mode = "decision_grade" /\ Violations(entries) # {} THEN "non_authoritative"
    ELSE LevelName(MaxTrust(entries))

PointTrust(entries, mode) ==
    IF mode = "decision_grade" /\ (Violations(entries) # {} \/ MaxTrust(entries) < 2)
    THEN "non_authoritative" ELSE LevelName(MaxTrust(entries))

\* the result of a point whose evaluation came to o
Failed(o) == o.error # "none"
ResultOf(p, o, mode) ==
    [point |-> p,
     status |-> IF Failed(o) THEN "failed" ELSE "complete",
     trust_level |-> IF Failed(o) THEN "non_authoritative" ELSE PointTrust(o.entries, mode)]

-----------------------------------------------------------------------------
(* The Pareto filter: a metric that is missing counts as the worst.        *)

Missing == -1
Infinity == 1000
ObjectiveValue(r, obj) ==
    LET v == outcome[r.point].values[obj] IN
    CASE v # Missing -> v
      [] v = Missing /\ obj \in Maximized -> -Infinity
      [] OTHER -> Infinity

PassesGates(r) ==
    LET o == outcome[r.point] IN
    /\ r.status = "complete"
    /\ ~o.cpu
    /\ ~config.quality_gate_required
    /\ o.power <= ThermalLimit
    /\ o.misses = 0 /\ o.drops = 0
    /\ IF config.quality_gate_required THEN r.trust_level = "authoritative"
       ELSE r.trust_level # "non_authoritative"

NoWorse(a, b, obj) ==
    IF obj \in Maximized THEN ObjectiveValue(a, obj) >= ObjectiveValue(b, obj)
    ELSE ObjectiveValue(a, obj) <= ObjectiveValue(b, obj)

Dominates(a, b) ==
    /\ \A obj \in Objectives : NoWorse(a, b, obj)
    /\ \E obj \in Objectives : ~NoWorse(b, a, obj)

Elements(rs) == {rs[i] : i \in DOMAIN rs}

\* Faulty: points that fail a gate dominate too.
FrontierAmongAll(rs) ==
    {r \in Elements(rs) : PassesGates(r) /\ \A other \in Elements(rs) : ~Dominates(other, r)}

Frontier(rs) ==
    LET decorated == {r \in Elements(rs) : PassesGates(r)} IN
    {r \in decorated : \A other \in decorated : ~Dominates(other, r)}

-----------------------------------------------------------------------------
Init ==
    /\ config \in Configs
    /\ outcome \in [Points -> Outcomes]
    /\ results = <<>> /\ manifest = NewManifest
    /\ frontier = {} /\ set_trust = "none"
    /\ artifact \in BOOLEAN
    /\ status = "run"

Evaluating == status = "run" /\ Len(results) < Len(Order)
Point == Order[Len(results) + 1]

Evaluate(recorded) ==
    /\ results' = Append(results, ResultOf(Point, outcome[Point], config.trust_mode))
    /\ manifest' = recorded
    /\ UNCHANGED <<config, outcome, frontier, set_trust, artifact, status>>

\* Faulty: the success is noted before the error is looked at.
EvaluateFailsLate ==
    /\ Evaluating /\ Failed(outcome[Point])
    /\ Evaluate(RecordFailed(RecordSuccess(manifest, Point), Point))
\* The power and area model or the scenario raises.
EvaluateFails ==
    /\ Evaluating /\ Failed(outcome[Point])
    /\ Evaluate(RecordFailed(RecordEvaluated(manifest, Point), Point))

EvaluateCompletes ==
    /\ Evaluating /\ ~Failed(outcome[Point])
    /\ Evaluate(RecordSuccess(RecordEvaluated(manifest, Point), Point))

HasErrors == \E p \in Points : Failed(outcome[p])
IsPartial == HasErrors /\ config.allow_partial

\* a partial run is believed by no one
Demoted(rs) ==
    IF IsPartial THEN [i \in DOMAIN rs |-> [rs[i] EXCEPT !.trust_level = "non_authoritative"]]
    ELSE rs

\* A decision-grade run raises when a point broke a calibration, once all is done.
Violating == config.trust_mode = "decision_grade"
             /\ \E p \in Points : ~Failed(outcome[p]) /\ Violations(outcome[p].entries) # {}

Return ==
    /\ status = "run" /\ Len(results) = Len(Order)
    /\ set_trust' = IF IsPartial THEN "non_authoritative" ELSE "exploratory"
    /\ results' = Demoted(results)
    /\ frontier' = Frontier(Demoted(results))
    /\ status' = IF Violating THEN "ConfigError" ELSE "returned"
    /\ UNCHANGED <<config, outcome, manifest, artifact>>

\* release_recommendation
Recommend ==
    /\ status = "returned"
    /\ status' = IF set_trust = "authoritative"
                    /\ \A r \in Elements(results) : r.trust_level = "authoritative"
                 THEN "released" ELSE "NonAuthoritativeRunError"
    /\ UNCHANGED <<config, outcome, results, manifest, frontier, set_trust, artifact>>

\* The caller of run() gives points that were successful another verdict.
Reclassify(p) ==
    /\ status \in {"returned", "reclassified"} /\ p \in manifest.ids["successful"]
    /\ \/ manifest' = RecordFailed(manifest, p)
       \/ manifest' = RecordFiltered(manifest, p)
       \/ manifest' = RecordPruned(manifest, p)
    /\ status' = "reclassified"
    /\ UNCHANGED <<config, outcome, results, frontier, set_trust, artifact>>

\* _run_replay evaluates the recorded inputs again and compares; allow_partial is
\* part of what was recorded, trust_mode is not.
\* Faulty: allow_partial is not restored.
ReplayedResults ==
    Demoted([i \in DOMAIN Order |-> ResultOf(Order[i], outcome[Order[i]], "exploratory")])

\* the command line never asks for the quality gate
Replay ==
    /\ status = "returned" /\ ~config.quality_gate_required
    /\ status' = IF ReplayedResults = results THEN "verified" ELSE "mismatch"
    /\ UNCHANGED <<config, outcome, results, manifest, frontier, set_trust, artifact>>

-----------------------------------------------------------------------------
(* The release gate runs the command line in the trust mode of its profile *)
(* and looks at the files it left; a run that raised left none.            *)

Authoritative(level) == level = "authoritative"

CoverageComplete == ~config.missing /\ Count(manifest, "failed") = 0

\* Faulty: the coverage is not looked at.
GateTrusts ==
    IF config.trust_mode = "exploratory" THEN ~Authoritative(set_trust)
    ELSE Authoritative(set_trust)
GatePasses ==
    /\ CoverageComplete
    /\ IF config.trust_mode = "exploratory" THEN ~Authoritative(set_trust)
       ELSE /\ Authoritative(set_trust)
            /\ \A r \in Elements(results) : Authoritative(r.trust_level)

ByGate ==
    /\ config.trust_mode # "decision_grade"
    /\ ~config.quality_gate_required /\ ~config.allow_partial

\* A dirty worktree stops the gate of the decision-grade profile before the run.
GateFails ==
    /\ ByGate
    /\ \/ status = "run" /\ results = <<>> /\ config.trust_mode = "decision-grade" /\ config.dirty
       \/ status = "ConfigError"
       \/ status = "returned" /\ ~GatePasses
    /\ status' = "gate_fail"
    /\ UNCHANGED <<config, outcome, results, manifest, frontier, set_trust, artifact>>

\* An artifact is written once: a second gate over the same inputs raises.
GatePublishes ==
    /\ ByGate /\ status = "returned" /\ GatePasses
    /\ status' = IF artifact THEN "RuntimeError" ELSE "gate_pass"
    /\ artifact' = TRUE
    /\ UNCHANGED <<config, outcome, results, manifest, frontier, set_trust>>

Next ==
    \/ EvaluateFails \/ EvaluateCompletes \/ Return \/ Recommend \/ Replay
    \/ GateFails \/ GatePublishes
    \/ \E p \in Points : Reclassify(p)

\* what run() does by itself
Loop == EvaluateFails \/ EvaluateCompletes \/ Return

Spec == Init /\ [][Next]_vars /\ WF_vars(Loop)

-----------------------------------------------------------------------------
TypeOK ==
    /\ config \in Config /\ outcome \in [Points -> Outcomes]
    /\ Len(results) <= Len(Order)
    /\ \A i \in DOMAIN results : results[i].point = Order[i]
    /\ manifest.ids \in [Kinds -> SUBSET Points]
    /\ frontier \subseteq Elements(results)
    /\ set_trust \in {"none", "exploratory", "non_authoritative"}
    /\ artifact \in BOOLEAN

Ended == status # "run" /\ Len(results) = Len(Order)

\* compute_frontier keeps what no other eligible point beats: of two frontier
\* points neither dominates the other, and every eligible point left out is
\* dominated by a point that was kept, also where metrics are missing.
FrontierSound ==
    Ended =>
        /\ \A a, b \in frontier : ~Dominates(a, b)
        /\ \A r \in Elements(results) \ frontier :
              PassesGates(r) => \E a \in frontier : Dominates(a, r)

Calibrated(e) == e.known /\ e.in_range /\ e.trust >= 2
OffersOnlyCalibrated ==
    \A r \in frontier : \A e \in outcome[r.point].entries : Calibrated(e)

\* What a decision_grade run offers rests on calibrated entries only: all known,
\* in their range, and of level T2 or T3, through the trust gate, the demotion of
\* its point, and the gate that reads the trust level.
DecisionGradeCalibrated ==
    Ended /\ config.trust_mode = "decision_grade" => OffersOnlyCalibrated

\* The same of a run the command line was asked for in decision-grade mode.
CommandLineDecisionGrade ==
    Ended /\ config.trust_mode = "decision-grade" => OffersOnlyCalibrated

\* A run that lost a point and was allowed to go on offers nothing.
PartialOffersNothing ==
    Ended /\ IsPartial => frontier = {} /\ set_trust = "non_authoritative"

\* The manifest's counts add up after a run, and stay so whatever successes its
\* caller reclassifies, each at most once.
ManifestBalanced == Ended => CountsBalance(manifest)

\* Until a verdict is changed, the axis values shown for each kind are those of
\* the points recorded under it.
CoverageTrue ==
    status # "reclassified" =>
        \A k \in Kinds : manifest.shown[k] = PairsOf(manifest.ids[k])

\* A bundle the command line wrote verifies when its recorded inputs are run
\* again, partial or not.
ReplayVerifies ==
    config.trust_mode # "decision_grade" => status # "mismatch"

\* What the gate publishes has no failed point and no axis value left out; under
\* the decision-grade profile all its points rest on T3 entries in their range.
ArtifactHonest ==
    status = "gate_pass" =>
        /\ ~config.missing
        /\ \A r \in Elements(results) :
              /\ r.status = "complete"
              /\ config.trust_mode = "decision-grade" =>
                    \A e \in outcome[r.point].entries : Calibrated(e) /\ e.trust = 3

\* A run ends, with a result or with an error.
RunEnds == <>(status # "run")

=============================================================================
