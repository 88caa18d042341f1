------------------------- MODULE ExplorationProofs -------------------------
(***************************************************************************)
(* What is proved of the runner, the replay bundles and the workload       *)
(* graphs holds of every behaviour that MCExploration puts together, for   *)
(* all values of their constants: the component a behaviour is of never    *)
(* changes, and its steps are steps of that component.                     *)
(***************************************************************************)
EXTENDS MCExploration, FiniteSetTheorems, SequenceTheorems, TLAPS

RunProofs == INSTANCE DseRunnerProofs WITH
    Points <- RunPoints, Axes <- RunAxes, ValueOf <- RunValueOf, Order <- RunOrder,
    Objectives <- RunObjectives, Maximized <- RunMaximized, ThermalLimit <- RunThermalLimit,
    Outcomes <- RunOutcomes, Configs <- RunConfigs,
    config <- x1, outcome <- x2, results <- x3, manifest <- x4,
    frontier <- x5, set_trust <- x6, artifact <- x7, status <- x8,
    Writers <- BundleWriters, Shared <- BundleShared,
    concurrent <- x1, overwrite <- x2, files <- x3, step <- x4,
    at <- x5, sums <- x6, last <- x7

-----------------------------------------------------------------------------
(* A behaviour is of one component throughout. *)
LEMMA PartIsFixed ==
  Spec => /\ [](part = "run") \/ []~(part = "run")
          /\ [](part = "bundle") \/ []~(part = "bundle")
          /\ [](part = "graph") \/ []~(part = "graph")
<1>1. [Next]_state => UNCHANGED part
  BY DEF Next, state
<1>2. UNCHANGED part => /\ (part = "run") <=> (part = "run")'
                        /\ (part = "bundle") <=> (part = "bundle")'
                        /\ (part = "graph") <=> (part = "graph")'
  OBVIOUS
<1> QED BY <1>1, <1>2, PTL DEF Spec

-----------------------------------------------------------------------------
(* The runner.                                                             *)

(* A behaviour of the runner is one of DseRunner. *)
LEMMA RunsAreRuns == Spec /\ part = "run" => RunProofs!Behaviour
<1>1. Init /\ part = "run" => RunProofs!Init
  BY DEF Init,
      Run!Init, RunProofs!Init, Run!NewManifest, RunProofs!NewManifest, Run!Kinds,
      RunProofs!Kinds, Run!Verdicts, RunProofs!Verdicts
<1>2. Run!Next => RunProofs!Next
  <2>1. Run!EvaluateFails => RunProofs!EvaluateFails
    BY DEF
      Run!EvaluateFails, RunProofs!EvaluateFails, Run!Evaluating, RunProofs!Evaluating,
      Run!Failed, RunProofs!Failed, Run!Point, RunProofs!Point, Run!Evaluate,
      RunProofs!Evaluate, Run!ResultOf, RunProofs!ResultOf, Run!PointTrust,
      RunProofs!PointTrust, Run!Violations, RunProofs!Violations, Run!MaxTrust,
      RunProofs!MaxTrust, Run!Least, RunProofs!Least, Run!CappedLevel,
      RunProofs!CappedLevel, Run!LevelName, RunProofs!LevelName, Run!RecordFailed,
      RunProofs!RecordFailed, Run!Mark, RunProofs!Mark, Run!Pairs, RunProofs!Pairs,
      Run!RecordEvaluated, RunProofs!RecordEvaluated, Run!Unsuccessful,
      RunProofs!Unsuccessful
  <2>2. Run!EvaluateCompletes => RunProofs!EvaluateCompletes
    BY DEF
      Run!EvaluateCompletes, RunProofs!EvaluateCompletes, Run!Evaluating,
      RunProofs!Evaluating, Run!Failed, RunProofs!Failed, Run!Point, RunProofs!Point,
      Run!Evaluate, RunProofs!Evaluate, Run!ResultOf, RunProofs!ResultOf, Run!PointTrust,
      RunProofs!PointTrust, Run!Violations, RunProofs!Violations, Run!MaxTrust,
      RunProofs!MaxTrust, Run!Least, RunProofs!Least, Run!CappedLevel,
      RunProofs!CappedLevel, Run!LevelName, RunProofs!LevelName, Run!RecordSuccess,
      RunProofs!RecordSuccess, Run!Mark, RunProofs!Mark, Run!Pairs, RunProofs!Pairs,
      Run!RecordEvaluated, RunProofs!RecordEvaluated
  <2>3. Run!Return => RunProofs!Return
    BY DEF
      Run!Return, RunProofs!Return, Run!IsPartial, RunProofs!IsPartial, Run!HasErrors,
      RunProofs!HasErrors, Run!Failed, RunProofs!Failed, Run!Demoted, RunProofs!Demoted,
      Run!Frontier, RunProofs!Frontier, Run!Elements, RunProofs!Elements, Run!PassesGates,
      RunProofs!PassesGates, Run!Dominates, RunProofs!Dominates, Run!NoWorse,
      RunProofs!NoWorse, Run!ObjectiveValue, RunProofs!ObjectiveValue, Run!Missing,
      RunProofs!Missing, Run!Infinity, RunProofs!Infinity, Run!Violating,
      RunProofs!Violating, Run!Violations, RunProofs!Violations
  <2>4. Run!Recommend => RunProofs!Recommend
    BY DEF
      Run!Recommend, RunProofs!Recommend, Run!Elements, RunProofs!Elements
  <2>5. Run!Replay => RunProofs!Replay
    BY DEF
      Run!Replay, RunProofs!Replay, Run!ReplayedResults, RunProofs!ReplayedResults,
      Run!Demoted, RunProofs!Demoted, Run!IsPartial, RunProofs!IsPartial, Run!HasErrors,
      RunProofs!HasErrors, Run!Failed, RunProofs!Failed, Run!ResultOf, RunProofs!ResultOf,
      Run!PointTrust, RunProofs!PointTrust, Run!Violations, RunProofs!Violations,
      Run!MaxTrust, RunProofs!MaxTrust, Run!Least, RunProofs!Least, Run!CappedLevel,
      RunProofs!CappedLevel, Run!LevelName, RunProofs!LevelName
  <2>6. Run!GateFails => RunProofs!GateFails
    BY DEF
      Run!GateFails, RunProofs!GateFails, Run!ByGate, RunProofs!ByGate, Run!GatePasses,
      RunProofs!GatePasses, Run!CoverageComplete, RunProofs!CoverageComplete, Run!Count,
      RunProofs!Count, Run!Authoritative, RunProofs!Authoritative, Run!Elements,
      RunProofs!Elements,
      Run!Cardinality, RunProofs!Cardinality
  <2>7. Run!GatePublishes => RunProofs!GatePublishes
    BY DEF
      Run!GatePublishes, RunProofs!GatePublishes, Run!ByGate, RunProofs!ByGate,
      Run!GatePasses, RunProofs!GatePasses, Run!CoverageComplete,
      RunProofs!CoverageComplete, Run!Count, RunProofs!Count, Run!Authoritative,
      RunProofs!Authoritative, Run!Elements, RunProofs!Elements,
      Run!Cardinality, RunProofs!Cardinality
  <2>8. ASSUME NEW p \in RunPoints, Run!Reclassify(p) PROVE RunProofs!Reclassify(p)
    BY <2>8 DEF
      Run!Reclassify, RunProofs!Reclassify, Run!RecordFailed, RunProofs!RecordFailed,
      Run!Mark, RunProofs!Mark, Run!Pairs, RunProofs!Pairs, Run!RecordEvaluated,
      RunProofs!RecordEvaluated, Run!Unsuccessful, RunProofs!Unsuccessful,
      Run!RecordFiltered, RunProofs!RecordFiltered, Run!RecordPruned,
      RunProofs!RecordPruned, Run!ClearSuccessState, RunProofs!ClearSuccessState
  <2> QED BY <2>1, <2>2, <2>3, <2>4, <2>5, <2>6, <2>7, <2>8 DEF Run!Next, RunProofs!Next
<1>3. part = "run" /\ Next => Run!Next
  BY DEF Next
<1>4. UNCHANGED state => UNCHANGED RunProofs!vars
  BY DEF state, RunProofs!vars
<1> QED BY <1>1, <1>2, <1>3, <1>4, PartIsFixed, PTL DEF Spec, RunProofs!Behaviour

(* What is proved of the runner is what the composition states of it. *)
LEMMA RunProperties ==
  /\ RunProofs!TypeOK => Run!TypeOK
  /\ RunProofs!FrontierSound => Run!FrontierSound
  /\ RunProofs!PartialOffersNothing => Run!PartialOffersNothing
  /\ RunProofs!DecisionGradeCalibrated => Run!DecisionGradeCalibrated
  /\ RunProofs!ManifestBalanced => Run!ManifestBalanced
  /\ RunProofs!CoverageTrue => Run!CoverageTrue
  /\ RunProofs!ReplayVerifies => Run!ReplayVerifies
  /\ RunProofs!ArtifactHonest => Run!ArtifactHonest
<1>1. RunProofs!TypeOK => Run!TypeOK
  BY DEF
      Run!TypeOK, RunProofs!TypeOK, Run!Config, RunProofs!Config, Run!TrustModes,
      RunProofs!TrustModes, Run!Kinds, RunProofs!Kinds, Run!Verdicts, RunProofs!Verdicts,
      Run!Elements, RunProofs!Elements
<1>2. RunProofs!FrontierSound => Run!FrontierSound
  BY DEF
      Run!FrontierSound, RunProofs!FrontierSound, Run!Ended, RunProofs!Ended,
      Run!Dominates, RunProofs!Dominates, Run!NoWorse, RunProofs!NoWorse,
      Run!ObjectiveValue, RunProofs!ObjectiveValue, Run!Missing, RunProofs!Missing,
      Run!Infinity, RunProofs!Infinity, Run!Elements, RunProofs!Elements, Run!PassesGates,
      RunProofs!PassesGates
<1>3. RunProofs!PartialOffersNothing => Run!PartialOffersNothing
  BY DEF
      Run!PartialOffersNothing, RunProofs!PartialOffersNothing, Run!Ended,
      RunProofs!Ended, Run!IsPartial, RunProofs!IsPartial, Run!HasErrors,
      RunProofs!HasErrors, Run!Failed, RunProofs!Failed
<1>4. RunProofs!DecisionGradeCalibrated => Run!DecisionGradeCalibrated
  BY DEF
      Run!DecisionGradeCalibrated, RunProofs!DecisionGradeCalibrated, Run!Ended,
      RunProofs!Ended, Run!OffersOnlyCalibrated, RunProofs!OffersOnlyCalibrated,
      Run!Calibrated, RunProofs!Calibrated
<1>5. RunProofs!ManifestBalanced => Run!ManifestBalanced
  BY DEF
      Run!ManifestBalanced, RunProofs!ManifestBalanced, Run!Ended, RunProofs!Ended,
      Run!CountsBalance, RunProofs!CountsBalance, Run!Count, RunProofs!Count,
      Run!Cardinality, RunProofs!Cardinality
<1>6. RunProofs!CoverageTrue => Run!CoverageTrue
  BY DEF
      Run!CoverageTrue, RunProofs!CoverageTrue, Run!Kinds, RunProofs!Kinds, Run!Verdicts,
      RunProofs!Verdicts, Run!PairsOf, RunProofs!PairsOf, Run!Pairs, RunProofs!Pairs
<1>7. RunProofs!ReplayVerifies => Run!ReplayVerifies
  BY DEF
      Run!ReplayVerifies, RunProofs!ReplayVerifies
<1>8. RunProofs!ArtifactHonest => Run!ArtifactHonest
  BY DEF
      Run!ArtifactHonest, RunProofs!ArtifactHonest, Run!Elements, RunProofs!Elements,
      Run!Calibrated, RunProofs!Calibrated
<1> QED BY <1>1, <1>2, <1>3, <1>4, <1>5, <1>6, <1>7, <1>8

(* What the proofs about the runner suppose is supposed here. *)
LEMMA RunnerAssumed == RunProofs!RunnerAssumption
BY ExplorationAssumption DEF ExplorationAssumption,
      Run!RunnerAssumption, RunProofs!RunnerAssumption, Run!Config, RunProofs!Config,
      Run!TrustModes, RunProofs!TrustModes

(* Whatever the points, their outcomes, the calibration entries and the    *)
(* objectives are: the frontier is that of the eligible points, a partial  *)
(* run offers nothing, and a decision_grade run offers calibrated points   *)
(* only (compute_frontier, TrustGate.check, run).                          *)
THEOREM FrontiersAreSound == Spec => []FrontierSound
<1>1. RunProofs!RunnerAssumption
  BY RunnerAssumed
<1>2. RunProofs!Behaviour => [](
      RunProofs!TypeOK /\ RunProofs!FrontierSound /\
      RunProofs!PartialOffersNothing /\ RunProofs!DecisionGradeCalibrated)
  BY <1>1, RunProofs!FrontierIsSound
<1>3. (
      RunProofs!TypeOK /\ RunProofs!FrontierSound /\
      RunProofs!PartialOffersNothing /\ RunProofs!DecisionGradeCalibrated)
        => FrontierSound
  BY RunProperties DEF FrontierSound
<1>4. ~(part = "run") => FrontierSound
  BY DEF FrontierSound
<1> QED BY <1>2, <1>3, <1>4, RunsAreRuns, PartIsFixed, PTL

(* Whatever the points and their outcomes are: the counts of the manifest  *)
(* add up after a run, through every reclassification, and the axis values *)
(* shown are those of the points recorded (CoverageManifest.validate).     *)
THEOREM CoveragesAreTrue == Spec => []CoverageTrue
<1>1. RunProofs!RunnerAssumption
  BY RunnerAssumed
<1>2. RunProofs!Behaviour => [](
      RunProofs!ManifestBalanced /\ RunProofs!CoverageTrue)
  BY <1>1, RunProofs!CoverageIsTrue
<1>3. (
      RunProofs!ManifestBalanced /\ RunProofs!CoverageTrue)
        => CoverageTrue
  BY RunProperties DEF CoverageTrue
<1>4. ~(part = "run") => CoverageTrue
  BY DEF CoverageTrue
<1> QED BY <1>2, <1>3, <1>4, RunsAreRuns, PartIsFixed, PTL

(* Whatever the points and their outcomes are: what the release gate       *)
(* publishes lost no point and no axis value, and a bundle that the        *)
(* command line wrote verifies when replayed (release_gate, _run_replay).  *)
THEOREM ArtifactsAreHonest == Spec => []ArtifactHonest
<1>1. RunProofs!RunnerAssumption
  BY RunnerAssumed
<1>2. RunProofs!Behaviour => [](
      RunProofs!ReplayVerifies /\ RunProofs!ArtifactHonest)
  BY <1>1, RunProofs!ArtifactIsHonest
<1>3. (
      RunProofs!ReplayVerifies /\ RunProofs!ArtifactHonest)
        => ArtifactHonest
  BY RunProperties DEF ArtifactHonest
<1>4. ~(part = "run") => ArtifactHonest
  BY DEF ArtifactHonest
<1> QED BY <1>2, <1>3, <1>4, RunsAreRuns, PartIsFixed, PTL

-----------------------------------------------------------------------------
(* The replay bundles.                                                     *)

(* A behaviour of the writers is one of ReplayBundle. *)
LEMMA BundlesAreBundles == Spec /\ part = "bundle" => RunProofs!Bundle!Spec
<1>1. Init /\ part = "bundle" => RunProofs!Bundle!Init
  BY DEF Init,
      Bundle!Init, RunProofs!Bundle!Init, Bundle!Files, RunProofs!Bundle!Files,
      Bundle!FileOrder, RunProofs!Bundle!FileOrder, Bundle!Payload,
      RunProofs!Bundle!Payload, Bundle!Absent, RunProofs!Bundle!Absent
<1>2. Bundle!Next => RunProofs!Bundle!Next
  <2>1. ASSUME NEW w \in BundleWriters, Bundle!Start(w) PROVE RunProofs!Bundle!Start(w)
    BY <2>1 DEF
        Bundle!Start, RunProofs!Bundle!Start, Bundle!Active, RunProofs!Bundle!Active,
        Bundle!Become, RunProofs!Bundle!Become, Bundle!PayloadFiles,
        RunProofs!Bundle!PayloadFiles, Bundle!Payload, RunProofs!Bundle!Payload,
        Bundle!Absent, RunProofs!Bundle!Absent
  <2>2. ASSUME NEW w \in BundleWriters, Bundle!Check(w) PROVE RunProofs!Bundle!Check(w)
    BY <2>2 DEF
        Bundle!Check, RunProofs!Bundle!Check, Bundle!Become, RunProofs!Bundle!Become,
        Bundle!File, RunProofs!Bundle!File, Bundle!FileOrder, RunProofs!Bundle!FileOrder,
        Bundle!Payload, RunProofs!Bundle!Payload, Bundle!Absent, RunProofs!Bundle!Absent
  <2>3. ASSUME NEW w \in BundleWriters, Bundle!Sum(w) PROVE RunProofs!Bundle!Sum(w)
    BY <2>3 DEF
        Bundle!Sum, RunProofs!Bundle!Sum, Bundle!Payload, RunProofs!Bundle!Payload,
        Bundle!Become, RunProofs!Bundle!Become
  <2>4. ASSUME NEW w \in BundleWriters, Bundle!Open(w) PROVE RunProofs!Bundle!Open(w)
    BY <2>4 DEF
        Bundle!Open, RunProofs!Bundle!Open, Bundle!File, RunProofs!Bundle!File,
        Bundle!FileOrder, RunProofs!Bundle!FileOrder, Bundle!Payload,
        RunProofs!Bundle!Payload, Bundle!Torn, RunProofs!Bundle!Torn, Bundle!Become,
        RunProofs!Bundle!Become
  <2>5. ASSUME NEW w \in BundleWriters, Bundle!Write(w) PROVE RunProofs!Bundle!Write(w)
    BY <2>5 DEF
        Bundle!Write, RunProofs!Bundle!Write, Bundle!File, RunProofs!Bundle!File,
        Bundle!FileOrder, RunProofs!Bundle!FileOrder, Bundle!Payload,
        RunProofs!Bundle!Payload, Bundle!Content, RunProofs!Bundle!Content, Bundle!Digest,
        RunProofs!Bundle!Digest, Bundle!Part, RunProofs!Bundle!Part,
        Bundle!PayloadContent, RunProofs!Bundle!PayloadContent, Bundle!Become,
        RunProofs!Bundle!Become
  <2>6. ASSUME NEW w \in BundleWriters, Bundle!Crash(w) PROVE RunProofs!Bundle!Crash(w)
    BY <2>6 DEF
        Bundle!Crash, RunProofs!Bundle!Crash, Bundle!Active, RunProofs!Bundle!Active,
        Bundle!Become, RunProofs!Bundle!Become
  <2> QED BY <2>1, <2>2, <2>3, <2>4, <2>5, <2>6 DEF Bundle!Next, RunProofs!Bundle!Next
<1>3. part = "bundle" /\ Next => Bundle!Next
  BY DEF Next
<1>4. UNCHANGED state => UNCHANGED RunProofs!Bundle!vars
  BY DEF state, RunProofs!Bundle!vars
<1> QED BY <1>1, <1>2, <1>3, <1>4, PartIsFixed, PTL DEF Spec, RunProofs!Bundle!Spec

(* What is proved of the bundles is what the composition states of them. *)
LEMMA BundleProperties ==
  /\ RunProofs!Bundle!SuccessReadable => Bundle!SuccessReadable
  /\ RunProofs!Bundle!AcceptedIsOneRun => Bundle!AcceptedIsOneRun
<1>1. RunProofs!Bundle!SuccessReadable => Bundle!SuccessReadable
  BY DEF
      Bundle!SuccessReadable, RunProofs!Bundle!SuccessReadable, Bundle!Accepts,
      RunProofs!Bundle!Accepts, Bundle!Files, RunProofs!Bundle!Files, Bundle!FileOrder,
      RunProofs!Bundle!FileOrder, Bundle!Payload, RunProofs!Bundle!Payload, Bundle!Absent,
      RunProofs!Bundle!Absent, Bundle!Torn, RunProofs!Bundle!Torn, Bundle!ChecksumsMatch,
      RunProofs!Bundle!ChecksumsMatch, Bundle!PayloadFiles, RunProofs!Bundle!PayloadFiles,
      Bundle!PayloadDigest, RunProofs!Bundle!PayloadDigest, Bundle!IsOf,
      RunProofs!Bundle!IsOf, Bundle!PayloadContent, RunProofs!Bundle!PayloadContent,
      Bundle!Digest, RunProofs!Bundle!Digest, Bundle!Part, RunProofs!Bundle!Part
<1>2. RunProofs!Bundle!AcceptedIsOneRun => Bundle!AcceptedIsOneRun
  BY DEF
      Bundle!AcceptedIsOneRun, RunProofs!Bundle!AcceptedIsOneRun, Bundle!Accepts,
      RunProofs!Bundle!Accepts, Bundle!Files, RunProofs!Bundle!Files, Bundle!FileOrder,
      RunProofs!Bundle!FileOrder, Bundle!Payload, RunProofs!Bundle!Payload, Bundle!Absent,
      RunProofs!Bundle!Absent, Bundle!Torn, RunProofs!Bundle!Torn, Bundle!ChecksumsMatch,
      RunProofs!Bundle!ChecksumsMatch, Bundle!PayloadFiles, RunProofs!Bundle!PayloadFiles,
      Bundle!PayloadDigest, RunProofs!Bundle!PayloadDigest, Bundle!IsOf,
      RunProofs!Bundle!IsOf, Bundle!PayloadContent, RunProofs!Bundle!PayloadContent,
      Bundle!Digest, RunProofs!Bundle!Digest, Bundle!Part, RunProofs!Bundle!Part
<1> QED BY <1>1, <1>2

(* However many writers there are, overlapping and crashing at any point:  *)
(* a bundle that the reader accepts is of one run, and of writers that do  *)
(* not overlap the last one that succeeded left one that is accepted       *)
(* (write_replay_bundle, read_replay_bundle).                              *)
THEOREM AcceptedBundlesAreWhole == Spec => []AcceptedIsOneRun
<1>1. RunProofs!Bundle!Spec => [](
      RunProofs!Bundle!SuccessReadable /\ RunProofs!Bundle!AcceptedIsOneRun)
  BY RunProofs!LastSuccessIsReadable
<1>2. (
      RunProofs!Bundle!SuccessReadable /\ RunProofs!Bundle!AcceptedIsOneRun)
        => AcceptedIsOneRun
  BY BundleProperties DEF AcceptedIsOneRun
<1>3. ~(part = "bundle") => AcceptedIsOneRun
  BY DEF AcceptedIsOneRun
<1> QED BY <1>1, <1>2, <1>3, BundlesAreBundles, PartIsFixed, PTL

-----------------------------------------------------------------------------
(* The workload graphs.                                                    *)

(* WorkloadGraph: x1 graph, x2 phase, x3 degree, x4 queue, x5 order.       *)

(* The counts of the graph's definitions are cardinalities. *)
LEMMA GraphCounts == \A S : Graph!Cardinality(S) = Cardinality(S)
BY DEF Graph!Cardinality, Graph!IsFiniteSet, Cardinality, IsFiniteSet

(* What a node has to wait for, and what has been visited. *)
Before(n) == {m \in GraphNodes : n \in Graph!After(x1, m)}
Visited == {x5[i] : i \in 1..Len(x5)}

(* The nodes visited so far are different ones, each after all it waits    *)
(* for.                                                                    *)
Ordered ==
  /\ x5 \in Seq(GraphNodes)
  /\ \A i, j \in 1..Len(x5) : x5[i] = x5[j] => i = j
  /\ \A i \in 1..Len(x5) : \A m \in Before(x5[i]) : \E k \in 1..(i - 1) : x5[k] = m

(* The degree of a node counts what it waits for and has not been visited; *)
(* the queue has different nodes that wait for nothing more, and all those *)
(* that have not been visited.                                             *)
Counted ==
  /\ x3 \in [GraphNodes -> Int] /\ x4 \in Seq(GraphNodes)
  /\ \A n \in GraphNodes : x3[n] = Cardinality(Before(n) \ Visited)
  /\ \A i, j \in 1..Len(x4) : x4[i] = x4[j] => i = j
  /\ \A i \in 1..Len(x4) : x3[x4[i]] = 0 /\ x4[i] \notin Visited
  /\ \A n \in GraphNodes \ Visited : x3[n] = 0 => \E i \in 1..Len(x4) : x4[i] = n

IInv ==
  /\ Ordered
  /\ x2 = "build" => x5 = <<>>
  /\ x2 = "sort" => Counted
  /\ x2 \in {"references", "aliases", "lifetime", "accepted"} => Len(x5) = Cardinality(GraphNodes)

-----------------------------------------------------------------------------
(* A set of nodes in some order is a sequence of different ones of them.   *)
LEMMA OrdersAreSequences ==
  ASSUME NEW S \in SUBSET GraphNodes, IsFiniteSet(GraphNodes), NEW s \in Graph!Orders(S)
  PROVE  /\ s \in Seq(GraphNodes)
         /\ \A i \in 1..Len(s) : s[i] \in S
         /\ \A i, j \in 1..Len(s) : s[i] = s[j] => i = j
         /\ \A n \in S : \E i \in 1..Len(s) : s[i] = n
<1>1. IsFiniteSet(S)
  BY FS_Subset
<1>2. Cardinality(S) \in Nat
  BY <1>1, FS_CardinalityType
<1>3. s \in [1..Cardinality(S) -> S] /\ \A i, j \in DOMAIN s : s[i] = s[j] => i = j
  BY GraphCounts DEF Graph!Orders
<1>4. s \in Seq(S) /\ Len(s) = Cardinality(S)
  BY <1>2, <1>3, SeqDef
<1>5. s \in Injection(1..Cardinality(S), S)
  BY <1>3 DEF Injection, IsInjective
<1>6. Cardinality(1..Cardinality(S)) = Cardinality(S)
  BY <1>2, FS_Interval
<1>7. s \in Surjection(1..Cardinality(S), S)
  BY <1>1, <1>5, <1>6, FS_Injection
<1>8. \A n \in S : \E i \in 1..Cardinality(S) : s[i] = n
  BY <1>7 DEF Surjection
<1> QED BY <1>3, <1>4, <1>8

(* Different nodes, as many as there are, are all nodes. *)
LEMMA AllAreOrdered ==
  ASSUME IsFiniteSet(GraphNodes), Ordered, Len(x5) = Cardinality(GraphNodes), NEW n \in GraphNodes
  PROVE  \E i \in DOMAIN x5 : x5[i] = n
<1>1. Len(x5) \in Nat /\ DOMAIN x5 = 1..Len(x5) /\ x5 \in [1..Len(x5) -> GraphNodes]
  BY DEF Ordered
<1>2. x5 \in Injection(1..Len(x5), GraphNodes)
  BY <1>1 DEF Ordered, Injection, IsInjective
<1>3. Cardinality(1..Len(x5)) = Len(x5)
  BY <1>1, FS_Interval
<1>4. x5 \in Surjection(1..Len(x5), GraphNodes)
  BY <1>2, <1>3, FS_Injection
<1> QED BY <1>1, <1>4 DEF Surjection

(* The graph that is validated does not change. *)
LEMMA BeforeStays == ASSUME x1' = x1 PROVE \A n : Before(n)' = Before(n)
BY DEF Before, Graph!After, Graph!Edges, Graph!DataEdges

-----------------------------------------------------------------------------
(* What must run before a node.                                            *)

(* Induction over the members of a set of numbers. *)
LEMMA AllNumbers ==
  ASSUME NEW S, 0 \in S, \A k \in Nat : k \in S => k + 1 \in S
  PROVE  Nat \subseteq S
<1> DEFINE Bad == Nat \ S
<1> SUFFICES ASSUME Bad # {} PROVE FALSE
  OBVIOUS
<1>1. PICK k \in Bad : \A m \in Bad : ~ (<<m, k>> \in OpToRel(<, Nat))
  BY WFMin, NatLessThanWellFounded, Zenon
<1>2. \A m \in Bad : ~ (m < k)
  BY <1>1, Zenon DEF OpToRel
<1>3. k # 0 /\ k - 1 \in Nat /\ k - 1 \notin Bad
  BY <1>2
<1>4. (k - 1) + 1 \in S
  BY <1>3
<1> QED BY <1>4

(* One step further back. *)
Grow(g, s) == s \cup UNION {Graph!Direct(g, m) : m \in s}

(* The function of Below, as far as k. *)
IsChain(b, g, n, k) ==
  b = [i \in 0..k |-> IF i = 0 THEN Graph!Direct(g, n) ELSE Grow(g, b[i - 1])]

(* Below is the end of a chain that is chosen. *)
LEMMA BelowDef ==
  ASSUME NEW g, NEW n
  PROVE  Graph!Below(g, n) =
           (CHOOSE b : IsChain(b, g, n, Cardinality(GraphNodes)))[Cardinality(GraphNodes)]
BY GraphCounts, Zenon DEF Graph!Below, IsChain, Grow

(* There are chains of any length. *)
LEMMA ChainExists ==
  ASSUME NEW g, NEW n, NEW k \in Nat
  PROVE  \E b : IsChain(b, g, n, k)
<1> DEFINE S == {i \in Nat : \E b : IsChain(b, g, n, i)}
<1>1. 0 \in S
  <2> DEFINE b == [i \in 0..0 |-> Graph!Direct(g, n)]
  <2>1. b = [i \in 0..0 |-> IF i = 0 THEN Graph!Direct(g, n) ELSE Grow(g, b[i - 1])]
    OBVIOUS
  <2>2. IsChain(b, g, n, 0)
    BY <2>1, Zenon DEF IsChain
  <2> QED BY <2>2
<1>2. ASSUME NEW i \in Nat, i \in S PROVE i + 1 \in S
  <2>1. PICK b : IsChain(b, g, n, i)
    BY <1>2
  <2>2. \A j \in 0..i : b[j] = IF j = 0 THEN Graph!Direct(g, n) ELSE Grow(g, b[j - 1])
    BY <2>1, Zenon DEF IsChain
  <2> DEFINE c == [j \in 0..i + 1 |-> IF j = i + 1 THEN Grow(g, b[i]) ELSE b[j]]
  <2>3. \A j \in 0..i + 1 : c[j] = IF j = 0 THEN Graph!Direct(g, n) ELSE Grow(g, c[j - 1])
    <3> TAKE j \in 0..i + 1
    <3>1. CASE j = i + 1
      <4>1. c[j - 1] = b[i] /\ c[j] = Grow(g, b[i]) /\ j # 0
        BY <3>1
      <4> QED BY <4>1
    <3>2. CASE j # i + 1
      <4>1. j \in 0..i /\ c[j] = b[j] /\ (j # 0 => c[j - 1] = b[j - 1])
        BY <3>2
      <4> QED BY <2>2, <4>1
    <3> QED BY <3>1, <3>2
  <2>4. c = [j \in 0..i + 1 |-> c[j]]
    OBVIOUS
  <2> HIDE DEF c
  <2>5. IsChain(c, g, n, i + 1)
    BY <2>3, <2>4 DEF IsChain
  <2> QED BY <2>5
<1> HIDE DEF S
<1>3. k \in S
  BY <1>1, <1>2, AllNumbers
<1> QED BY <1>3 DEF S

(* The chain that ends in Below. *)
LEMMA BelowChain ==
  ASSUME IsFiniteSet(GraphNodes), NEW g, NEW n
  PROVE  \E b : /\ Graph!Below(g, n) = b[Cardinality(GraphNodes)]
                /\ b[0] = Graph!Direct(g, n)
                /\ \A i \in 1..Cardinality(GraphNodes) : b[i] = Grow(g, b[i - 1])
<1> DEFINE k == Cardinality(GraphNodes)
           b == CHOOSE c : IsChain(c, g, n, k)
<1>1. k \in Nat
  BY FS_CardinalityType
<1>2. IsChain(b, g, n, k)
  <2>1. \E c : IsChain(c, g, n, k)
    BY <1>1, ChainExists
  <2> QED BY <2>1, Zenon
<1>3. Graph!Below(g, n) = b[k]
  BY BelowDef, Zenon
<1> HIDE DEF b
<1>4. \A i \in 0..k : b[i] = IF i = 0 THEN Graph!Direct(g, n) ELSE Grow(g, b[i - 1])
  BY <1>2, Zenon DEF IsChain
<1> HIDE DEF k
<1>5. b[0] = Graph!Direct(g, n) /\ \A i \in 1..k : b[i] = Grow(g, b[i - 1])
  BY <1>1, <1>4
<1> QED BY <1>3, <1>5 DEF k

(* What must run directly before a node is a set of nodes. *)
LEMMA DirectAreNodes ==
  ASSUME NEW g, NEW n
  PROVE  Graph!Direct(g, n) \subseteq GraphNodes
BY DEF Graph!Direct

(* Below has the direct predecessors, only nodes, and nothing that a set   *)
(* closed under predecessors leaves out.                                   *)
LEMMA BelowIsLeast ==
  ASSUME IsFiniteSet(GraphNodes), NEW g, NEW n
  PROVE  /\ Graph!Direct(g, n) \subseteq Graph!Below(g, n)
         /\ Graph!Below(g, n) \subseteq GraphNodes
         /\ \A C : Graph!Direct(g, n) \subseteq C /\ (\A m \in C : Graph!Direct(g, m) \subseteq C) =>
                     Graph!Below(g, n) \subseteq C
<1> DEFINE k == Cardinality(GraphNodes)
<1>1. k \in Nat
  BY FS_CardinalityType
<1>2. PICK b : /\ Graph!Below(g, n) = b[k] /\ b[0] = Graph!Direct(g, n)
               /\ \A i \in 1..k : b[i] = Grow(g, b[i - 1])
  BY BelowChain
<1> HIDE DEF k
<1>3. ASSUME NEW C, Graph!Direct(g, n) \subseteq C, \A m \in C : Graph!Direct(g, m) \subseteq C
      PROVE  b[k] \subseteq C
  <2> DEFINE S == {i \in Nat : i <= k => b[i] \subseteq C}
  <2>1. 0 \in S
    BY <1>2, <1>3
  <2>2. ASSUME NEW i \in Nat, i \in S PROVE i + 1 \in S
    <3>1. CASE i + 1 <= k
      <4>1. i + 1 \in 1..k /\ (i + 1) - 1 = i /\ i <= k
        BY <1>1, <3>1
      <4>2. b[i + 1] = Grow(g, b[i]) /\ b[i] \subseteq C
        BY <1>2, <2>2, <4>1
      <4>3. b[i + 1] \subseteq C
        BY <1>3, <4>2 DEF Grow
      <4> QED BY <4>3
    <3>2. CASE ~ (i + 1 <= k)
      BY <3>2
    <3> QED BY <3>1, <3>2
  <2> HIDE DEF S
  <2>3. k \in S
    BY <1>1, <2>1, <2>2, AllNumbers
  <2> QED BY <1>1, <2>3 DEF S
<1>4. Graph!Direct(g, n) \subseteq b[k]
  <2> DEFINE S == {i \in Nat : i <= k => Graph!Direct(g, n) \subseteq b[i]}
  <2>1. 0 \in S
    BY <1>2
  <2>2. ASSUME NEW i \in Nat, i \in S PROVE i + 1 \in S
    <3>1. CASE i + 1 <= k
      <4>1. i + 1 \in 1..k /\ (i + 1) - 1 = i /\ i <= k
        BY <1>1, <3>1
      <4>2. b[i + 1] = Grow(g, b[i]) /\ Graph!Direct(g, n) \subseteq b[i]
        BY <1>2, <2>2, <4>1
      <4>3. Graph!Direct(g, n) \subseteq b[i + 1]
        BY <4>2 DEF Grow
      <4> QED BY <4>3
    <3>2. CASE ~ (i + 1 <= k)
      BY <3>2
    <3> QED BY <3>1, <3>2
  <2> HIDE DEF S
  <2>3. k \in S
    BY <1>1, <2>1, <2>2, AllNumbers
  <2> QED BY <1>1, <2>3 DEF S
<1>5. b[k] \subseteq GraphNodes
  BY <1>3, DirectAreNodes
<1> QED BY <1>2, <1>3, <1>4, <1>5

(* Below is closed under predecessors: a chain that has grown at each of   *)
(* as many steps as there are nodes has all of them.                       *)
LEMMA BelowIsClosed ==
  ASSUME IsFiniteSet(GraphNodes), NEW g, NEW n, NEW m \in Graph!Below(g, n)
  PROVE  Graph!Direct(g, m) \subseteq Graph!Below(g, n)
<1> DEFINE k == Cardinality(GraphNodes)
<1>1. k \in Nat
  BY FS_CardinalityType
<1>2. PICK b : /\ Graph!Below(g, n) = b[k] /\ b[0] = Graph!Direct(g, n)
               /\ \A i \in 1..k : b[i] = Grow(g, b[i - 1])
  BY BelowChain
<1>3. b[k] \subseteq GraphNodes
  BY <1>2, BelowIsLeast
<1>5. \A i \in 0..k : b[i] \subseteq GraphNodes /\ IsFiniteSet(b[i]) /\ Cardinality(b[i]) \in Nat
  <2> HIDE DEF k
  <2> DEFINE S == {i \in Nat : i <= k => b[i] \subseteq GraphNodes}
  <2>1. 0 \in S
    BY <1>2, DirectAreNodes
  <2>2. ASSUME NEW i \in Nat, i \in S PROVE i + 1 \in S
    <3>1. CASE i + 1 <= k
      <4>1. i + 1 \in 1..k /\ (i + 1) - 1 = i /\ i <= k
        BY <1>1, <3>1
      <4>2. b[i + 1] = Grow(g, b[i]) /\ b[i] \subseteq GraphNodes
        BY <1>2, <2>2, <4>1
      <4>3. b[i + 1] \subseteq GraphNodes
        BY <4>2, DirectAreNodes DEF Grow
      <4> QED BY <4>3
    <3>2. CASE ~ (i + 1 <= k)
      BY <3>2
    <3> QED BY <3>1, <3>2
  <2>3. Nat \subseteq S
    <3> HIDE DEF S
    <3> QED BY <2>1, <2>2, AllNumbers
  <2> TAKE i \in 0..k
  <2>4. b[i] \subseteq GraphNodes
    BY <1>1, <2>3
  <2> QED BY <2>4, FS_Subset, FS_CardinalityType
<1>6. CASE \E i \in 1..k : b[i] = b[i - 1]
  <2> HIDE DEF k
  <2>1. PICK j \in 1..k : b[j] = b[j - 1]
    BY <1>6
  <2>2. j - 1 \in Nat /\ j \in Nat /\ j <= k /\ Grow(g, b[j - 1]) = b[j - 1]
    BY <1>1, <1>2, <2>1
  <2> DEFINE S == {i \in Nat : j - 1 <= i /\ i <= k => b[i] = b[j - 1]}
  <2>3. 0 \in S
    <3>1. j - 1 <= 0 => j - 1 = 0
      BY <2>2
    <3> QED BY <3>1
  <2>4. ASSUME NEW i \in Nat, i \in S PROVE i + 1 \in S
    <3>1. CASE j - 1 <= i /\ i + 1 <= k
      <4>1. i + 1 \in 1..k /\ (i + 1) - 1 = i /\ i <= k
        BY <1>1, <3>1
      <4>2. b[i + 1] = Grow(g, b[i]) /\ b[i] = b[j - 1]
        BY <1>2, <2>4, <3>1, <4>1
      <4> QED BY <2>2, <4>2
    <3>2. CASE j - 1 = i + 1
      BY <3>2
    <3>3. CASE ~ (j - 1 <= i + 1 /\ i + 1 <= k)
      BY <3>3
    <3> QED BY <2>2, <3>1, <3>2, <3>3
  <2> HIDE DEF S
  <2>5. k \in S
    BY <1>1, <2>3, <2>4, AllNumbers
  <2>6. b[k] = b[j - 1]
    BY <1>1, <2>2, <2>5 DEF S
  <2>7. Grow(g, b[k]) = b[k]
    BY <2>2, <2>6
  <2> QED BY <1>2, <2>7 DEF Grow
<1>7. CASE \A i \in 1..k : b[i] # b[i - 1]
  <2> DEFINE S == {i \in Nat : i <= k => Cardinality(b[i]) >= i}
  <2>1. 0 \in S
    BY <1>1, <1>5
  <2>2. ASSUME NEW i \in Nat, i \in S PROVE i + 1 \in S
    <3> HIDE DEF k
    <3>1. CASE i + 1 <= k
      <4>1. i + 1 \in 1..k /\ (i + 1) - 1 = i /\ i <= k /\ i \in 0..k /\ i + 1 \in 0..k
        BY <1>1, <3>1
      <4>2. b[i + 1] = Grow(g, b[i]) /\ b[i + 1] # b[i]
        BY <1>2, <1>7, <4>1
      <4>3. b[i] \subseteq b[i + 1]
        BY <4>2 DEF Grow
      <4>4. Cardinality(b[i]) < Cardinality(b[i + 1])
        BY <1>5, <4>1, <4>2, <4>3, FS_Subset
      <4>5. Cardinality(b[i]) >= i /\ Cardinality(b[i]) \in Nat /\ Cardinality(b[i + 1]) \in Nat
        BY <1>5, <2>2, <4>1
      <4>6. Cardinality(b[i + 1]) >= i + 1
        BY <4>4, <4>5
      <4> QED BY <4>6
    <3>2. CASE ~ (i + 1 <= k)
      BY <3>2
    <3> QED BY <3>1, <3>2
  <2> HIDE DEF S
  <2>3. k \in S
    BY <1>1, <2>1, <2>2, AllNumbers
  <2>4. Cardinality(b[k]) >= k
    BY <1>1, <2>3 DEF S
  <2>5. b[k] = GraphNodes
    <3>1. /\ Cardinality(b[k]) <= Cardinality(GraphNodes)
          /\ Cardinality(GraphNodes) = Cardinality(b[k]) => GraphNodes = b[k]
      <4> DEFINE t == b[k]
      <4>1. t \in SUBSET GraphNodes
        BY <1>3
      <4> HIDE DEF t
      <4>2. /\ Cardinality(t) <= Cardinality(GraphNodes)
            /\ Cardinality(GraphNodes) = Cardinality(t) => GraphNodes = t
        BY <4>1, FS_Subset
      <4> QED BY <4>2 DEF t
    <3>2. Cardinality(b[k]) \in Nat
      BY <1>1, <1>5
    <3> QED BY <1>1, <2>4, <3>1, <3>2
  <2> QED BY <1>2, <2>5, DirectAreNodes
<1> QED BY <1>6, <1>7

(* A nonempty set of nodes each of which has a predecessor in the set      *)
(* contains a node on a cycle.                                             *)
LEMMA CycleAmong ==
  ASSUME IsFiniteSet(GraphNodes), NEW g, NEW U \in SUBSET GraphNodes, U # {},
         \A n \in U : \E m \in U : m \in Graph!Direct(g, n)
  PROVE  Graph!Cyclic(g)
<1> SUFFICES ASSUME ~ Graph!Cyclic(g) PROVE FALSE
  OBVIOUS
<1> DEFINE R == {Graph!Below(g, n) : n \in U}
<1>1. R \in SUBSET (SUBSET GraphNodes) /\ R # {}
  BY BelowIsLeast
<1>2. FiniteSubsetsOf(GraphNodes) = SUBSET GraphNodes
  BY FS_FiniteSubsetsOfFinite
<1>3. PICK s \in R : \A t \in R : ~ (<<t, s>> \in StrictSubsetOrdering(GraphNodes))
  <2> HIDE DEF R
  <2> QED BY <1>1, <1>2, WFMin, FS_StrictSubsetOrderingWellFounded
<1>4. PICK n \in U : s = Graph!Below(g, n)
  BY <1>3
<1>5. PICK m \in U : m \in Graph!Direct(g, n)
  BY <1>4
<1>6. m \in Graph!Below(g, n)
  BY <1>5, BelowIsLeast
<1>7. Graph!Below(g, m) \subseteq Graph!Below(g, n)
  BY <1>6, BelowIsLeast, BelowIsClosed
<1>8. m \notin Graph!Below(g, m)
  BY DEF Graph!Cyclic
<1>9. <<Graph!Below(g, m), s>> \in StrictSubsetOrdering(GraphNodes)
  BY <1>1, <1>4, <1>6, <1>7, <1>8 DEF StrictSubsetOrdering
<1> QED BY <1>3, <1>9

-----------------------------------------------------------------------------
LEMMA InitIInv == ASSUME Graph!Init PROVE IInv
BY DEF Graph!Init, IInv, Ordered

(* At the start the degrees count all that a node waits for. *)
LEMMA CountDegreesIInv ==
  ASSUME IsFiniteSet(GraphNodes), IInv, Graph!CountDegrees
  PROVE  IInv'
<1> DEFINE S == {n \in GraphNodes : x3'[n] = 0}
<1>1. /\ x5 = <<>> /\ x5' = x5 /\ x1' = x1 /\ x2' = "sort"
      /\ x3' = [n \in GraphNodes |-> Cardinality(Before(n))] /\ x4' \in Graph!Orders(S)
  <2>1. x3' = [n \in GraphNodes |-> Graph!InDegree(n)]
    BY DEF Graph!CountDegrees
  <2>2. S = {n \in GraphNodes : [k \in GraphNodes |-> Graph!InDegree(k)][n] = 0}
    BY <2>1
  <2>3. x4' \in Graph!Orders(S)
    BY <2>2 DEF Graph!CountDegrees
  <2> QED BY GraphCounts, <2>1, <2>3 DEF Graph!CountDegrees, IInv, Graph!InDegree, Before
<1>2. Visited' = {} /\ Visited = {}
  BY <1>1 DEF Visited
<1>3. \A n \in GraphNodes : Before(n) \in SUBSET GraphNodes /\ Cardinality(Before(n)) \in Nat
  <2> SUFFICES ASSUME NEW n \in GraphNodes
               PROVE  Before(n) \in SUBSET GraphNodes /\ Cardinality(Before(n)) \in Nat
    OBVIOUS
  <2>1. Before(n) \in SUBSET GraphNodes
    BY DEF Before
  <2> QED BY <2>1, FS_Subset, FS_CardinalityType
<1>4. \A n : Before(n)' = Before(n)
  BY <1>1, BeforeStays
<1>5. \A n \in GraphNodes : x3'[n] = Cardinality(Before(n)' \ Visited')
  <2>1. \A n : Before(n)' \ Visited' = Before(n)
    BY <1>2, <1>4
  <2> QED BY <1>1, <2>1
<1>6. /\ x4' \in Seq(GraphNodes) /\ \A i \in 1..Len(x4') : x4'[i] \in S
      /\ \A i, j \in 1..Len(x4') : x4'[i] = x4'[j] => i = j
      /\ \A n \in S : \E i \in 1..Len(x4') : x4'[i] = n
  <2> HIDE DEF S
  <2>1. S \in SUBSET GraphNodes
    BY DEF S
  <2> QED BY <1>1, <2>1, OrdersAreSequences
<1>7. Counted'
  <2>1. x3' \in [GraphNodes -> Int]
    BY <1>1, <1>3
  <2>2. \A i \in 1..Len(x4') : x4'[i] \in GraphNodes /\ x3'[x4'[i]] = 0 /\ x4'[i] \notin Visited'
    BY <1>2, <1>6
  <2>3. \A n \in GraphNodes \ Visited' : x3'[n] = 0 => \E i \in 1..Len(x4') : x4'[i] = n
    BY <1>6
  <2> HIDE DEF S
  <2> QED BY <1>5, <1>6, <2>1, <2>2, <2>3 DEF Counted
<1>8. Ordered'
  BY <1>1 DEF Ordered
<1> QED BY <1>1, <1>7, <1>8 DEF IInv

(* A visited node waited for nothing that had not been visited; the nodes  *)
(* that waited for it alone are new in the queue.                          *)
LEMMA VisitIInv ==
  ASSUME IsFiniteSet(GraphNodes), IInv, Graph!Visit
  PROVE  IInv'
<1> DEFINE n == x4[1]
<1>1. Ordered /\ Counted /\ x4 # <<>> /\ x2 = "sort" /\ x2' = x2 /\ x1' = x1
  BY DEF Graph!Visit, IInv
<1>2. PICK s \in Graph!Orders(Graph!Ready(n)) :
         /\ x4' = Tail(x4) \o s /\ x5' = Append(x5, n)
         /\ x3' = [m \in GraphNodes |-> x3[m] - IF m \in Graph!After(x1, n) THEN 1 ELSE 0]
  <2>1. Head(x4) = n
    BY <1>1 DEF Counted
  <2> QED BY <2>1 DEF Graph!Visit
<1>3. n \in GraphNodes /\ x3[n] = 0 /\ n \notin Visited /\ 1 \in 1..Len(x4)
  BY <1>1 DEF Counted
<1> HIDE DEF n
<1>4. /\ x5' \in Seq(GraphNodes) /\ Len(x5') = Len(x5) + 1 /\ x5'[Len(x5) + 1] = n
      /\ \A i \in 1..Len(x5) : x5'[i] = x5[i]
  BY <1>1, <1>2, <1>3, AppendProperties DEF Ordered
<1>5. Visited' = Visited \cup {n}
  BY <1>1, <1>4 DEF Visited, Ordered
<1>6. \A m : Before(m)' = Before(m)
  BY <1>1, BeforeStays
<1>7. \A m \in GraphNodes :
        Before(m) \ Visited \in SUBSET GraphNodes /\ IsFiniteSet(Before(m) \ Visited)
  <2> SUFFICES ASSUME NEW m \in GraphNodes
               PROVE  Before(m) \ Visited \in SUBSET GraphNodes /\ IsFiniteSet(Before(m) \ Visited)
    OBVIOUS
  <2>1. Before(m) \ Visited \in SUBSET GraphNodes
    BY DEF Before
  <2> QED BY <2>1, FS_Subset
<1>8. \A m \in GraphNodes : x3[m] = 0 => Before(m) \subseteq Visited
  <2> SUFFICES ASSUME NEW m \in GraphNodes, x3[m] = 0 PROVE Before(m) \ Visited = {}
    OBVIOUS
  <2>1. Cardinality(Before(m) \ Visited) = 0
    BY <1>1 DEF Counted
  <2> QED BY <2>1, <1>7, FS_EmptySet
<1>9. Ordered'
  <2>1. \A i, j \in 1..Len(x5') : x5'[i] = x5'[j] => i = j
    BY <1>1, <1>3, <1>4 DEF Ordered, Visited
  <2>2. \A i \in 1..Len(x5') : \A m \in Before(x5'[i]) : \E k \in 1..(i - 1) : x5'[k] = m
    <3> SUFFICES ASSUME NEW i \in 1..Len(x5'), NEW m \in Before(x5'[i])
                 PROVE  \E k \in 1..(i - 1) : x5'[k] = m
      OBVIOUS
    <3>1. Len(x5) \in Nat
      BY <1>1 DEF Ordered
    <3>2. CASE i = Len(x5) + 1
      <4>1. m \in Visited
        BY <1>3, <1>4, <1>8, <3>2
      <4>2. PICK k \in 1..Len(x5) : x5[k] = m
        BY <4>1 DEF Visited
      <4> QED BY <1>4, <3>1, <3>2, <4>2
    <3>3. CASE i # Len(x5) + 1
      <4>1. i \in 1..Len(x5)
        BY <1>4, <3>1, <3>3
      <4>2. PICK k \in 1..(i - 1) : x5[k] = m
        BY <1>1, <1>4, <4>1 DEF Ordered
      <4>3. k \in 1..Len(x5)
        BY <3>1, <4>1
      <4> QED BY <1>4, <4>2, <4>3
    <3> QED BY <3>2, <3>3
  <2> QED BY <1>4, <1>6, <2>1, <2>2 DEF Ordered
<1>10. x3' \in [GraphNodes -> Int]
  BY <1>1, <1>2 DEF Counted
<1>11. \A m \in GraphNodes : x3'[m] = Cardinality(Before(m) \ Visited')
  <2> SUFFICES ASSUME NEW m \in GraphNodes PROVE x3'[m] = Cardinality(Before(m) \ Visited')
    OBVIOUS
  <2> DEFINE W == Before(m) \ Visited
  <2>1. Before(m) \ Visited' = W \ {n}
    BY <1>5
  <2>2. n \in W <=> m \in Graph!After(x1, n)
    BY <1>3 DEF Before
  <2>3. x3[m] = Cardinality(W) /\ IsFiniteSet(W)
    BY <1>1, <1>7 DEF Counted
  <2>4. Cardinality(W \ {n}) = IF n \in W THEN Cardinality(W) - 1 ELSE Cardinality(W)
    <3> HIDE DEF W
    <3> QED BY <2>3, FS_RemoveElement
  <2>5. x3'[m] = IF m \in Graph!After(x1, n) THEN x3[m] - 1 ELSE x3[m]
    BY <1>1, <1>2 DEF Counted
  <2> HIDE DEF W
  <2> QED BY <2>1, <2>2, <2>3, <2>4, <2>5
<1>12. Graph!Ready(n) \in SUBSET GraphNodes
       /\ \A m \in Graph!Ready(n) : x3[m] = 1 /\ m \in Graph!After(x1, n)
  BY DEF Graph!Ready, Graph!After
<1>13. /\ s \in Seq(GraphNodes) /\ \A i \in 1..Len(s) : s[i] \in Graph!Ready(n)
       /\ \A i, j \in 1..Len(s) : s[i] = s[j] => i = j
       /\ \A m \in Graph!Ready(n) : \E i \in 1..Len(s) : s[i] = m
  BY <1>12, OrdersAreSequences
<1>14. /\ Tail(x4) \in Seq(GraphNodes) /\ Len(Tail(x4)) = Len(x4) - 1
       /\ \A i \in 1..Len(Tail(x4)) : Tail(x4)[i] = x4[i + 1]
  BY <1>1, HeadTailProperties DEF Counted
<1>15. /\ x4' \in Seq(GraphNodes) /\ Len(x4') = Len(Tail(x4)) + Len(s)
       /\ \A i \in 1..Len(x4') :
             x4'[i] = IF i <= Len(Tail(x4)) THEN Tail(x4)[i] ELSE s[i - Len(Tail(x4))]
  BY <1>2, <1>13, <1>14, ConcatProperties
<1>16. \A i \in 1..Len(Tail(x4)) :
          LET q == Tail(x4)[i] IN
          q \in GraphNodes /\ x3[q] = 0 /\ q # n /\ q \notin Visited /\ q \notin Graph!After(x1, n)
  <2> SUFFICES ASSUME NEW i \in 1..Len(Tail(x4)), NEW q, q = Tail(x4)[i]
               PROVE  /\ q \in GraphNodes /\ x3[q] = 0 /\ q # n
                      /\ q \notin Visited /\ q \notin Graph!After(x1, n)
    OBVIOUS
  <2>1. q = x4[i + 1] /\ i + 1 \in 1..Len(x4) /\ i + 1 # 1 /\ Len(x4) \in Nat
    BY <1>1, <1>14 DEF Counted
  <2>2. q \in GraphNodes /\ x3[q] = 0 /\ q \notin Visited
    BY <1>1, <2>1 DEF Counted
  <2>3. q # n
    BY <1>1, <1>3, <2>1 DEF Counted, n
  <2>4. q \notin Graph!After(x1, n)
    BY <1>3, <1>8, <2>2 DEF Before
  <2> QED BY <2>2, <2>3, <2>4
<1>17. \A m \in Graph!Ready(n) : m # n /\ m \notin Visited
  <2> SUFFICES ASSUME NEW m \in Graph!Ready(n) PROVE m # n /\ m \notin Visited
    OBVIOUS
  <2>1. m # n
    BY <1>3, <1>12
  <2>2. ASSUME m \in Visited PROVE FALSE
    <3>1. PICK i \in 1..Len(x5) : x5[i] = m
      BY <2>2 DEF Visited
    <3>2. n \in Before(m)
      BY <1>3, <1>12 DEF Before
    <3>3. PICK k \in 1..(i - 1) : x5[k] = n
      BY <1>1, <3>1, <3>2 DEF Ordered
    <3>4. k \in 1..Len(x5)
      BY <1>1, <3>1, <3>3 DEF Ordered
    <3> QED BY <1>3, <3>3, <3>4 DEF Visited
  <2> QED BY <2>1, <2>2
<1>18. \A i \in 1..Len(x4') : x3'[x4'[i]] = 0 /\ x4'[i] \notin Visited'
  <2> SUFFICES ASSUME NEW i \in 1..Len(x4')
               PROVE  x3'[x4'[i]] = 0 /\ x4'[i] \notin Visited'
    OBVIOUS
  <2>1. CASE i <= Len(Tail(x4))
    <3>1. i \in 1..Len(Tail(x4)) /\ x4'[i] = Tail(x4)[i]
      BY <1>14, <1>15, <2>1
    <3> QED BY <1>2, <1>5, <1>16, <3>1
  <2>2. CASE ~(i <= Len(Tail(x4)))
    <3>1. i - Len(Tail(x4)) \in 1..Len(s) /\ x4'[i] = s[i - Len(Tail(x4))]
      BY <1>13, <1>14, <1>15, <2>2
    <3>2. x4'[i] \in Graph!Ready(n)
      BY <1>13, <3>1
    <3> QED BY <1>2, <1>5, <1>12, <1>17, <3>2
  <2> QED BY <2>1, <2>2
<1>19. \A i, j \in 1..Len(x4') : x4'[i] = x4'[j] => i = j
  <2> DEFINE l == Len(Tail(x4))
  <2>1. l \in Nat /\ Len(x4) \in Nat /\ Len(s) \in Nat /\ l = Len(x4) - 1 /\ Len(x4') = l + Len(s)
    BY <1>1, <1>13, <1>14, <1>15 DEF Counted
  <2>2. \A i, j \in 1..l : Tail(x4)[i] = Tail(x4)[j] => i = j
    <3>1. \A i \in 1..l : Tail(x4)[i] = x4[i + 1] /\ i + 1 \in 1..Len(x4)
      BY <1>14, <2>1
    <3> QED BY <1>1, <2>1, <3>1 DEF Counted
  <2>3. \A i \in 1..l : \A j \in 1..Len(s) : Tail(x4)[i] # s[j]
    BY <1>12, <1>13, <1>16
  <2>4. \A i \in 1..Len(x4') :
           \/ i \in 1..l /\ x4'[i] = Tail(x4)[i]
           \/ i > l /\ i - l \in 1..Len(s) /\ x4'[i] = s[i - l]
    BY <1>15, <2>1
  <2> HIDE DEF l
  <2> SUFFICES ASSUME NEW i \in 1..Len(x4'), NEW j \in 1..Len(x4'), x4'[i] = x4'[j]
               PROVE  i = j
    OBVIOUS
  <2> DEFINE v == x4'  u == Tail(x4)
  <2>10. l \in Int /\ i \in Int /\ j \in Int
    BY <2>1
  <2>11. /\ (i \in 1..l /\ v[i] = u[i]) \/ (i > l /\ i - l \in 1..Len(s) /\ v[i] = s[i - l])
         /\ (j \in 1..l /\ v[j] = u[j]) \/ (j > l /\ j - l \in 1..Len(s) /\ v[j] = s[j - l])
    BY <2>4
  <2>12. v[i] = v[j]
    OBVIOUS
  <2> HIDE DEF v, u
  <2>5. CASE i \in 1..l /\ j \in 1..l
    <3>1. v[i] = u[i] /\ v[j] = u[j]
      BY <2>5, <2>10, <2>11
    <3>2. u[i] = u[j]
      BY <2>12, <3>1
    <3> QED BY <2>2, <2>5, <3>2 DEF u
  <2>6. CASE i > l /\ j > l
    <3>1. /\ i - l \in 1..Len(s) /\ v[i] = s[i - l]
          /\ j - l \in 1..Len(s) /\ v[j] = s[j - l]
      BY <2>6, <2>10, <2>11
    <3>2. s[i - l] = s[j - l]
      BY <2>12, <3>1
    <3>3. i - l = j - l
      BY <1>13, <3>1, <3>2
    <3> QED BY <2>10, <3>3
  <2>7. CASE i \in 1..l /\ j > l
    BY <2>1, <2>3, <2>4, <2>7
  <2>8. CASE i > l /\ j \in 1..l
    <3>1. i - l \in 1..Len(s) /\ x4'[i] = s[i - l] /\ x4'[j] = Tail(x4)[j]
      BY <2>1, <2>4, <2>8
    <3>2. x4'[i] # x4'[j]
      BY <2>3, <2>8, <3>1
    <3> QED BY <3>2
  <2>9. (i \in 1..l \/ i > l) /\ (j \in 1..l \/ j > l)
    BY <2>4
  <2> QED BY <2>5, <2>6, <2>7, <2>8, <2>9
<1>20. \A m \in GraphNodes \ Visited' : x3'[m] = 0 => \E i \in 1..Len(x4') : x4'[i] = m
  <2> SUFFICES ASSUME NEW m \in GraphNodes, m \notin Visited, m # n, x3'[m] = 0
               PROVE  \E i \in 1..Len(x4') : x4'[i] = m
    BY <1>5
  <2> DEFINE l == Len(Tail(x4))
  <2>1. l \in Nat /\ Len(x4) \in Nat /\ Len(s) \in Nat /\ l = Len(x4) - 1 /\ Len(x4') = l + Len(s)
    BY <1>1, <1>13, <1>14, <1>15 DEF Counted
  <2>2. x3[m] \in Int /\ x3[m] = IF m \in Graph!After(x1, n) THEN 1 ELSE 0
    <3>1. x3[m] \in Int
      BY <1>1 DEF Counted
    <3>2. 0 = x3[m] - IF m \in Graph!After(x1, n) THEN 1 ELSE 0
      BY <1>2
    <3> QED BY <3>1, <3>2
  <2>3. CASE m \in Graph!After(x1, n)
    <3>1. PICK i \in 1..Len(s) : s[i] = m
      BY <1>13, <2>2, <2>3 DEF Graph!Ready
    <3> HIDE DEF l
    <3>2. l + i \in 1..Len(x4') /\ (l + i) - l = i /\ ~ (l + i <= l)
      BY <2>1
    <3>3. x4'[l + i] = s[i]
      BY <1>15, <3>2 DEF l
    <3> QED BY <3>1, <3>2, <3>3
  <2>4. CASE m \notin Graph!After(x1, n)
    <3>1. x3[m] = 0
      BY <2>2, <2>4
    <3>2. PICK i \in 1..Len(x4) : x4[i] = m
      BY <1>1, <3>1 DEF Counted
    <3>3. i # 1
      BY <3>2 DEF n
    <3> HIDE DEF l
    <3>4. i - 1 \in 1..l /\ (i - 1) + 1 = i /\ i - 1 \in 1..Len(x4') /\ i - 1 <= l
      BY <2>1, <3>2, <3>3
    <3>5. x4'[i - 1] = Tail(x4)[i - 1] /\ Tail(x4)[i - 1] = x4[i]
      BY <1>14, <1>15, <3>4 DEF l
    <3> QED BY <3>2, <3>4, <3>5
  <2> QED BY <2>3, <2>4
<1>21. Counted'
  BY <1>6, <1>10, <1>11, <1>15, <1>18, <1>19, <1>20 DEF Counted
<1> QED BY <1>1, <1>9, <1>21 DEF IInv

(* Every step; the later checks only pass or reject. *)
LEMMA NextIInv == ASSUME IsFiniteSet(GraphNodes), IInv, [Graph!Next]_(Graph!vars) PROVE IInv'
<1>1. ASSUME UNCHANGED <<x1, x5>> PROVE Ordered'
  <2>1. \A n : Before(n)' = Before(n)
    BY <1>1, BeforeStays
  <2>2. x5' = x5 /\ Ordered
    BY <1>1 DEF IInv
  <2>3. \A i \in 1..Len(x5') : \A m \in Before(x5'[i]) : \E k \in 1..(i - 1) : x5'[k] = m
    BY <2>2 DEF Ordered
  <2>4. \A i, j \in 1..Len(x5') : x5'[i] = x5'[j] => i = j
    BY <2>2 DEF Ordered
  <2>5. x5' \in Seq(GraphNodes)
    BY <2>2 DEF Ordered
  <2> QED BY <2>1, <2>3, <2>4, <2>5 DEF Ordered
<1>2. CASE Graph!RejectSelfLoop
  BY <1>1, <1>2 DEF Graph!RejectSelfLoop, IInv
<1>3. CASE Graph!CountDegrees
  BY <1>3, CountDegreesIInv
<1>4. CASE Graph!Visit
  BY <1>4, VisitIInv
<1>5. CASE Graph!EndSort
  BY GraphCounts, <1>1, <1>5 DEF Graph!EndSort, Graph!Verdict, IInv
<1>6. CASE Graph!CheckReferences
  BY <1>1, <1>6 DEF Graph!CheckReferences, Graph!Verdict, IInv
<1>7. CASE Graph!CheckAliases
  BY <1>1, <1>7 DEF Graph!CheckAliases, Graph!Verdict, IInv
<1>8. CASE Graph!CheckLifetime
  BY <1>1, <1>8 DEF Graph!CheckLifetime, Graph!Verdict, IInv
<1>9. CASE UNCHANGED Graph!vars
  <2>1. \A n : Before(n)' = Before(n)
    BY <1>9, BeforeStays DEF Graph!vars
  <2>2. Visited' = Visited
    BY <1>9 DEF Graph!vars, Visited
  <2>3. Counted => Counted'
    BY <1>9, <2>1, <2>2 DEF Graph!vars, Counted
  <2> QED BY <1>1, <1>9, <2>3 DEF Graph!vars, IInv
<1> QED BY <1>2, <1>3, <1>4, <1>5, <1>6, <1>7, <1>8, <1>9 DEF Graph!Next

(* The order that topological_order returns has every node once, after     *)
(* everything it depends on, whatever the graph.                           *)
THEOREM SortIsTopological ==
  ASSUME IsFiniteSet(GraphNodes) PROVE Graph!Spec => []Graph!OrderIsTopological
<1>1. Graph!Init => IInv
  BY InitIInv
<1>2. IInv /\ [Graph!Next]_(Graph!vars) => IInv'
  BY NextIInv
<1>3. IInv => Graph!OrderIsTopological
  <2> SUFFICES ASSUME IInv, Len(x5) = Cardinality(GraphNodes)
               PROVE  /\ \A n \in GraphNodes : \E i \in DOMAIN x5 : x5[i] = n
                      /\ \A i, j \in DOMAIN x5 :
                            i < j => x5[j] \notin Graph!Direct(x1, x5[i]) \cup {x5[i]}
    BY DEF IInv, Graph!OrderIsTopological
  <2>1. Ordered
    BY DEF IInv
  <2>2. \A n \in GraphNodes : \E i \in DOMAIN x5 : x5[i] = n
    BY <2>1, AllAreOrdered
  <2>3. \A n \in GraphNodes : Graph!Direct(x1, n) \subseteq Before(n)
    BY DEF Graph!Direct, Before, Graph!After, Graph!Edges, Graph!DataEdges
  <2> SUFFICES ASSUME NEW i \in DOMAIN x5, NEW j \in DOMAIN x5, i < j,
                      x5[j] \in Graph!Direct(x1, x5[i]) \cup {x5[i]}
               PROVE  FALSE
    BY <2>2
  <2>4. i \in 1..Len(x5) /\ j \in 1..Len(x5) /\ x5[i] \in GraphNodes /\ Len(x5) \in Nat
    BY <2>1 DEF Ordered
  <2>5. x5[j] # x5[i]
    BY <2>1, <2>4 DEF Ordered
  <2>6. x5[j] \in Before(x5[i])
    BY <2>3, <2>4, <2>5
  <2>7. PICK k \in 1..(i - 1) : x5[k] = x5[j]
    BY <2>1, <2>4, <2>6 DEF Ordered
  <2>8. k \in 1..Len(x5) /\ k # j
    BY <2>4, <2>7
  <2> QED BY <2>1, <2>4, <2>7, <2>8 DEF Ordered
<1> QED BY <1>1, <1>2, <1>3, PTL DEF Graph!Spec

-----------------------------------------------------------------------------
(* The verdict.                                                            *)

(* The reasons for which a graph may be rejected. *)
Reasons ==
  \/ Graph!Cyclic(x1) \/ ~Graph!References(x1)
  \/ \E t \in GraphTensors : x1.alias[t] \notin (GraphTensors \ {t}) \cup {Graph!None}
  \/ \E n \in GraphNodes : \E t \in x1.outputs[n] :
       t \in x1.inputs[n] \/ x1.producer[t] \notin {n, Graph!None}

(* Who may write the tensors of a graph. *)
WritersAgree ==
  \A n \in GraphNodes : \A t \in x1.outputs[n] :
    t \in GraphTensors /\ x1.producer[t] \in {n, Graph!None}

(* What the checks so far have found. *)
Found ==
  /\ Graph!TypeOK
  /\ x2 = "rejected" => Reasons
  /\ x2 \in {"aliases", "lifetime", "accepted"} => Graph!References(x1)
  /\ x2 = "accepted" => WritersAgree

(* The edges of the graph are what its nodes wait for directly. *)
LEMMA BeforeIsDirect == \A n \in GraphNodes : Before(n) = Graph!Direct(x1, n)
BY DEF Before, Graph!After, Graph!Edges, Graph!DataEdges, Graph!Direct

(* A sort that ends early leaves nodes that wait for each other. *)
LEMMA StuckOnCycle ==
  ASSUME IsFiniteSet(GraphNodes), IInv, x2 = "sort", x4 = <<>>,
         Len(x5) # Cardinality(GraphNodes)
  PROVE  Graph!Cyclic(x1)
<1> DEFINE U == GraphNodes \ Visited
<1>1. Ordered /\ Counted
  BY DEF IInv
<1>2. U # {}
  <2> SUFFICES ASSUME GraphNodes \subseteq Visited PROVE FALSE
    OBVIOUS
  <2>1. Len(x5) \in Nat /\ x5 \in [1..Len(x5) -> GraphNodes]
    BY <1>1 DEF Ordered
  <2>2. x5 \in Bijection(1..Len(x5), GraphNodes)
    BY <1>1, <2>1 DEF Ordered, Visited, Bijection, Injection, Surjection, IsInjective
  <2> DEFINE l == Len(x5)
  <2>3. l \in Nat /\ x5 \in Bijection(1..l, GraphNodes) /\ l # Cardinality(GraphNodes)
    BY <2>1, <2>2
  <2> HIDE DEF l
  <2>4. IsFiniteSet(1..l) /\ Cardinality(1..l) = l
    BY <2>3, FS_Interval
  <2>5. Cardinality(1..l) = Cardinality(GraphNodes)
    BY <2>3, <2>4, FS_Bijection DEF ExistsBijection
  <2> QED BY <2>3, <2>4, <2>5
<1>3. ASSUME NEW n \in U PROVE \E m \in U : m \in Graph!Direct(x1, n)
  <2>1. x3[n] # 0
    BY <1>1, <1>3 DEF Counted
  <2>2. Cardinality(Before(n) \ Visited) # 0
    BY <1>1, <1>3, <2>1 DEF Counted
  <2>3. Before(n) \ Visited # {}
    BY <2>2, FS_EmptySet
  <2> QED BY <1>3, <2>3, BeforeIsDirect DEF Before
<1> HIDE DEF U
<1>4. U \in SUBSET GraphNodes
  BY DEF U
<1> QED BY <1>2, <1>3, <1>4, CycleAmong

(* An order with every node after what it waits for has no cycle: what     *)
(* must run before a node, directly or not, comes earlier.                 *)
LEMMA OrderedIsAcyclic ==
  ASSUME IsFiniteSet(GraphNodes), Ordered, Len(x5) = Cardinality(GraphNodes)
  PROVE  ~ Graph!Cyclic(x1)
<1> SUFFICES ASSUME NEW n \in GraphNodes, n \in Graph!Below(x1, n) PROVE FALSE
  BY DEF Graph!Cyclic
<1>1. PICK i \in 1..Len(x5) : x5[i] = n
  BY AllAreOrdered DEF Ordered
<1> DEFINE C == {x5[k] : k \in 1..(i - 1)}
<1>2. Len(x5) \in Nat /\ \A k \in 1..(i - 1) : k \in 1..Len(x5) /\ x5[k] \in GraphNodes
  BY <1>1 DEF Ordered
<1>3. Graph!Direct(x1, n) \subseteq C
  BY <1>1, BeforeIsDirect DEF Ordered
<1>4. ASSUME NEW m \in C PROVE Graph!Direct(x1, m) \subseteq C
  <2>1. PICK k \in 1..(i - 1) : x5[k] = m
    BY <1>4
  <2>2. k \in 1..Len(x5) /\ m \in GraphNodes
    BY <1>2, <2>1
  <2>3. \A p \in Graph!Direct(x1, m) : \E l \in 1..(k - 1) : x5[l] = p
    BY <2>1, <2>2, BeforeIsDirect DEF Ordered
  <2>4. \A l \in 1..(k - 1) : l \in 1..(i - 1)
    BY <2>1, <2>2, <1>1, <1>2
  <2> QED BY <2>3, <2>4
<1>5. n \in C
  <2> HIDE DEF C
  <2> QED BY <1>3, <1>4, BelowIsLeast
<1>6. PICK k \in 1..(i - 1) : x5[k] = n
  BY <1>5
<1> QED BY <1>1, <1>2, <1>6 DEF Ordered

(* Each check rejects for its own reason, and establishes what it checks.  *)
LEMMA NextFound ==
  ASSUME IsFiniteSet(GraphNodes), IInv, IInv', Found, [Graph!Next]_(Graph!vars)
  PROVE  Found'
<1>0. ASSUME UNCHANGED <<x1, x3, x4, x5>>
      PROVE  /\ Reasons' <=> Reasons
             /\ Graph!References(x1)' <=> Graph!References(x1)
             /\ WritersAgree' <=> WritersAgree
  BY GraphCounts, <1>0
      DEF Reasons, WritersAgree, Graph!Cyclic, Graph!References, Graph!Below, Graph!Direct
<1>1. CASE Graph!RejectSelfLoop
  <2>1. PICK n \in GraphNodes : <<n, n>> \in Graph!DataEdges(x1)
    BY <1>1 DEF Graph!RejectSelfLoop
  <2>2. n \in Graph!Direct(x1, n)
    BY <2>1 DEF Graph!DataEdges, Graph!Direct
  <2>3. Graph!Cyclic(x1)
    BY <2>2, BelowIsLeast DEF Graph!Cyclic
  <2>4. Reasons /\ x2' = "rejected" /\ UNCHANGED <<x1, x3, x4, x5>>
    BY <1>1, <2>3 DEF Reasons, Graph!RejectSelfLoop
  <2> QED BY <1>0, <2>4 DEF Found, Graph!TypeOK
<1>2. CASE Graph!CountDegrees \/ Graph!Visit
  <2>1. x2' = "sort"
    BY <1>2 DEF Graph!CountDegrees, Graph!Visit
  <2>2. Graph!TypeOK'
    BY <2>1 DEF IInv, Counted, Graph!TypeOK
  <2> QED BY <2>1, <2>2 DEF Found
<1>3. CASE Graph!EndSort
  <2>1. /\ x2 = "sort" /\ x4 = <<>> /\ UNCHANGED <<x1, x3, x4, x5>>
        /\ x2' = IF Len(x5) = Cardinality(GraphNodes) THEN "references" ELSE "rejected"
    BY GraphCounts, <1>3 DEF Graph!EndSort, Graph!Verdict
  <2>2. x2' = "rejected" => Reasons
    BY <2>1, StuckOnCycle DEF Reasons
  <2> QED BY <1>0, <2>1, <2>2 DEF Found, Graph!TypeOK
<1>5. CASE Graph!CheckReferences
  BY <1>0, <1>5 DEF Graph!CheckReferences, Graph!Verdict, Found, Graph!TypeOK, Reasons
<1>6. CASE Graph!CheckAliases
  BY <1>0, <1>6 DEF Graph!CheckAliases, Graph!Verdict, Found, Graph!TypeOK, Reasons
<1>7. CASE Graph!CheckLifetime
  <2>1. UNCHANGED <<x1, x3, x4, x5>> /\ x2 = "lifetime" /\ Graph!References(x1)
    BY <1>7 DEF Graph!CheckLifetime, Found
  <2>2. \/ x2' = "accepted" /\ WritersAgree
        \/ x2' = "rejected" /\ Reasons
    BY <1>7, <2>1 DEF Graph!CheckLifetime, Graph!Verdict, WritersAgree, Graph!References, Reasons
  <2> QED BY <1>0, <2>1, <2>2 DEF Found, Graph!TypeOK
<1>8. CASE UNCHANGED Graph!vars
  <2>1. UNCHANGED <<x1, x3, x4, x5>> /\ x2' = x2
    BY <1>8 DEF Graph!vars
  <2> QED BY <1>0, <2>1 DEF Found, Graph!TypeOK
<1> QED BY <1>1, <1>2, <1>3, <1>5, <1>6, <1>7, <1>8 DEF Graph!Next

(* validate_graph accepts exactly the graphs that can run: an accepted one *)
(* has no cycle and agrees on its tensors and their writers, a rejected    *)
(* one has a cycle, a reference that does not resolve, or a writer or an   *)
(* alias that contradicts another.                                         *)
THEOREM ValidationIsExact ==
  ASSUME IsFiniteSet(GraphNodes)
  PROVE  Graph!Spec => [](Graph!TypeOK /\ Graph!AcceptedIsSound /\ Graph!RejectedForAReason
                            /\ Graph!OrderIsTopological)
<1>1. Graph!Init => IInv /\ Found
  BY InitIInv DEF Graph!Init, Found, Graph!TypeOK
<1>2. IInv /\ Found /\ [Graph!Next]_(Graph!vars) => (IInv /\ Found)'
  BY NextIInv, NextFound
<1>3. IInv /\ Found => Graph!TypeOK /\ Graph!AcceptedIsSound /\ Graph!RejectedForAReason
  <2>1. IInv /\ x2 = "accepted" => ~ Graph!Cyclic(x1)
    BY OrderedIsAcyclic DEF IInv
  <2> QED BY <2>1 DEF Found, Graph!AcceptedIsSound, WritersAgree, Graph!RejectedForAReason, Reasons
<1> QED BY <1>1, <1>2, <1>3, SortIsTopological, PTL DEF Graph!Spec
(* Whatever the finite graph is: what is accepted has no cycle and agrees  *)
(* on the writers of its tensors, what is rejected could not run, and the  *)
(* order returned is topological (validate_graph, topological_order).      *)
THEOREM OrdersAreTopological == Spec => []OrderIsTopological
<1>1. Spec /\ part = "graph" => Graph!Spec
  <2>1. Init /\ part = "graph" => Graph!Init
    BY DEF Init
  <2>2. part = "graph" /\ [Next]_state => [Graph!Next]_(Graph!vars)
    BY DEF Next, state, Graph!vars
  <2> QED BY <2>1, <2>2, PartIsFixed, PTL DEF Spec, Graph!Spec
<1>2. Graph!Spec => [](Graph!TypeOK /\ Graph!AcceptedIsSound /\ Graph!RejectedForAReason
                         /\ Graph!OrderIsTopological)
  BY ExplorationAssumption, ValidationIsExact DEF ExplorationAssumption
<1>3. (Graph!TypeOK /\ Graph!AcceptedIsSound /\ Graph!RejectedForAReason
         /\ Graph!OrderIsTopological) => OrderIsTopological
  BY DEF OrderIsTopological
<1>4. ~(part = "graph") => OrderIsTopological
  BY DEF OrderIsTopological
<1> QED BY <1>1, <1>2, <1>3, <1>4, PartIsFixed, PTL
=============================================================================
