-------------------------- MODULE DseRunnerProofs --------------------------
(***************************************************************************)
(* Proofs about DseRunner, for every set of points and every outcome of    *)
(* their evaluation.                                                       *)
(***************************************************************************)
EXTENDS DseRunner, FiniteSetTheorems, SequenceTheorems, TLAPS

TrustLevels == {"non_authoritative", "exploratory", "calibrated_estimate", "authoritative"}
Results == [point : Points, status : {"failed", "complete"}, trust_level : TrustLevels]

(* What run() makes of the i-th point, before and after a partial run is   *)
(* demoted.                                                                *)
Rated(i) == ResultOf(Order[i], outcome[Order[i]], config.trust_mode)
Final(i) ==
    IF IsPartial THEN [Rated(i) EXCEPT !.trust_level = "non_authoritative"] ELSE Rated(i)

(* Before run() returns the results are the verdicts so far and there is   *)
(* no frontier; afterwards they are final, and the frontier is of points   *)
(* that pass the gates.  Only a gate that finds the worktree dirty ends a  *)
(* run before it returns.                                                  *)
IInv ==
    /\ outcome \in [Points -> Outcomes]
    /\ results \in Seq(Results) /\ Len(results) <= Len(Order)
    /\ set_trust = "none" =>
          /\ frontier = {} /\ status \in {"run", "gate_fail"}
          /\ status = "gate_fail" => results = <<>>
          /\ \A i \in 1..Len(results) : results[i] = Rated(i)
    /\ set_trust # "none" =>
          /\ status # "run" /\ Len(results) = Len(Order)
          /\ \A i \in 1..Len(results) : results[i] = Final(i)
          /\ \A r \in frontier : r \in Elements(results) /\ PassesGates(r)
          /\ set_trust = IF IsPartial THEN "non_authoritative" ELSE "exploratory"
    /\ config.trust_mode # "decision_grade" => status # "mismatch"

-----------------------------------------------------------------------------
(* The least of some levels is one of them, and none is below it. *)
LEMMA LeastIsLeast ==
  ASSUME NEW S \in SUBSET (0..3), S # {}
  PROVE  Least(S) \in S /\ \A y \in S : Least(S) <= y
<1>1. \E x \in S : \A y \in S : x <= y
  <2>1. CASE 0 \in S
    BY <2>1
  <2>2. CASE 0 \notin S /\ 1 \in S
    BY <2>2
  <2>3. CASE 0 \notin S /\ 1 \notin S /\ 2 \in S
    BY <2>3
  <2>4. CASE 0 \notin S /\ 1 \notin S /\ 2 \notin S
    <3>1. \A y \in S : y = 3
      BY <2>4
    <3>2. 3 \in S
      BY <3>1
    <3> QED BY <3>1, <3>2
  <2> QED BY <2>1, <2>2, <2>3, <2>4
<1> QED BY <1>1 DEF Least

(* The trust gate: a point of a decision_grade run that is believed at all *)
(* rests on calibrated entries only.                                       *)
LEMMA BelievedIsCalibrated ==
  ASSUME RunnerAssumption, NEW o \in Outcomes,
         PointTrust(o.entries, "decision_grade") # "non_authoritative"
  PROVE  \A e \in o.entries : Calibrated(e)
<1> DEFINE S == {3} \cup {CappedLevel(e) : e \in o.entries}
<1>1. \A e \in o.entries : e.known \in BOOLEAN /\ e.in_range \in BOOLEAN /\ e.trust \in 0..3
  BY DEF RunnerAssumption
<1>2. S \in SUBSET (0..3) /\ S # {}
  BY <1>1 DEF CappedLevel
<1>3. ~(Least(S) < 2) /\ Violations(o.entries) = {}
  BY DEF PointTrust, MaxTrust
<1>4. \A y \in S : y >= 2
  <2> HIDE DEF S
  <2>1. Least(S) \in S /\ \A y \in S : Least(S) <= y
    BY <1>2, LeastIsLeast
  <2>2. S \subseteq 0..3
    BY <1>2
  <2> DEFINE l == Least(S)
  <2>3. ~(l < 2)
    BY <1>3
  <2>4. l \in 0..3
    BY <2>1, <2>2
  <2>5. \A y \in S : y \in 0..3 /\ l <= y
    BY <2>1, <2>2
  <2> HIDE DEF l
  <2> QED BY <2>3, <2>4, <2>5
<1> SUFFICES ASSUME NEW e \in o.entries PROVE Calibrated(e)
  OBVIOUS
<1>5. e.known /\ e.in_range
  BY <1>1, <1>3 DEF Violations
<1>6. CappedLevel(e) >= 2
  BY <1>4
<1> QED BY <1>5, <1>6 DEF Calibrated, CappedLevel

(* A verdict is a result. *)
LEMMA VerdictsAreResults ==
  ASSUME NEW p \in Points, NEW o, NEW mode
  PROVE  ResultOf(p, o, mode) \in Results
BY DEF ResultOf, Results, TrustLevels, PointTrust, LevelName

(* Demoting a run's verdicts makes them final. *)
LEMMA DemotedIsFinal ==
  ASSUME NEW rs \in Seq(Results), \A i \in 1..Len(rs) : rs[i] = Rated(i)
  PROVE  /\ Demoted(rs) \in Seq(Results) /\ Len(Demoted(rs)) = Len(rs)
         /\ \A i \in 1..Len(rs) : Demoted(rs)[i] = Final(i)
<1>1. CASE IsPartial
  <2> DEFINE d == [i \in 1..Len(rs) |-> [rs[i] EXCEPT !.trust_level = "non_authoritative"]]
  <2>1. Demoted(rs) = d
    BY <1>1 DEF Demoted
  <2>2. \A i \in 1..Len(rs) : [rs[i] EXCEPT !.trust_level = "non_authoritative"] \in Results
    <3>1. \A r \in Results : [r EXCEPT !.trust_level = "non_authoritative"] \in Results
      BY DEF Results, TrustLevels
    <3> QED BY <3>1
  <2>3. d \in Seq(Results) /\ Len(d) = Len(rs)
    BY <2>2
  <2>4. \A i \in 1..Len(rs) : d[i] = Final(i)
    BY <1>1 DEF Final
  <2> QED BY <2>1, <2>3, <2>4
<1>2. CASE ~IsPartial
  BY <1>2 DEF Demoted, Final
<1> QED BY <1>1, <1>2

-----------------------------------------------------------------------------
(* Nothing has been evaluated. *)
LEMMA InitIInv == ASSUME RunnerAssumption, Init PROVE IInv
BY DEF RunnerAssumption, Init, IInv

(* A point's verdict is added to the results. *)
LEMMA EvaluateIInv ==
  ASSUME RunnerAssumption, IInv, Evaluating, NEW m, Evaluate(m)
  PROVE  IInv'
<1>1. /\ status = "run" /\ Len(results) < Len(Order) /\ set_trust = "none"
      /\ results \in Seq(Results) /\ Order \in Seq(Points)
  BY DEF Evaluating, IInv, RunnerAssumption
<1> DEFINE k == Len(results) + 1
           r == ResultOf(Order[k], outcome[Order[k]], config.trust_mode)
<1>2. results' = Append(results, r) /\ UNCHANGED <<config, outcome, frontier, set_trust, artifact, status>>
  BY DEF Evaluate, Point
<1>3. Order[k] \in Points /\ k \in Nat /\ k <= Len(Order)
  BY <1>1
<1>4. r \in Results
  BY <1>3, VerdictsAreResults
<1>5. r = Rated(k)
  BY DEF Rated
<1> HIDE DEF r
<1>6. results' \in Seq(Results) /\ Len(results') = k
  BY <1>1, <1>2, <1>4
<1>7. \A i \in 1..Len(results') : results'[i] = Rated(i)
  BY <1>1, <1>2, <1>5, <1>6 DEF IInv
<1>8. \A i : Rated(i)' = Rated(i)
  BY <1>2 DEF Rated
<1> QED BY <1>1, <1>2, <1>3, <1>6, <1>7, <1>8 DEF IInv

(* run() demotes the results of a partial run and chooses the frontier.    *)
LEMMA ReturnIInv == ASSUME RunnerAssumption, IInv, Return PROVE IInv'
<1>1. /\ status = "run" /\ Len(results) = Len(Order) /\ set_trust = "none"
      /\ results \in Seq(Results) /\ \A i \in 1..Len(results) : results[i] = Rated(i)
  BY DEF Return, IInv
<1>2. /\ results' = Demoted(results) /\ frontier' = Frontier(results')
      /\ config' = config /\ outcome' = outcome /\ status' \in {"ConfigError", "returned"}
      /\ set_trust' = IF IsPartial THEN "non_authoritative" ELSE "exploratory"
  BY DEF Return
<1>3. /\ results' \in Seq(Results) /\ Len(results') = Len(Order)
      /\ \A i \in 1..Len(results') : results'[i] = Final(i)
  BY <1>1, <1>2, DemotedIsFinal
<1>4. IsPartial' = IsPartial /\ \A i : Final(i)' = Final(i)
  BY <1>2 DEF Final, Rated, IsPartial, HasErrors
<1>5. \A r : PassesGates(r)' = PassesGates(r)
  BY <1>2 DEF PassesGates
<1>6. \A r \in frontier' : r \in Elements(results') /\ PassesGates(r)
  BY <1>2 DEF Frontier
<1>7. Elements(results)' = Elements(results')
  BY DEF Elements
<1>8. /\ outcome' \in [Points -> Outcomes] /\ set_trust' # "none" /\ Len(results') <= Len(Order)
  BY <1>2, <1>3 DEF IInv, RunnerAssumption
<1> QED BY <1>2, <1>3, <1>4, <1>5, <1>6, <1>7, <1>8 DEF IInv

-----------------------------------------------------------------------------
(* What is asked of a run and what its points come to never change, and    *)
(* with them the verdicts.                                                 *)
LEMMA VerdictsStay ==
  ASSUME UNCHANGED <<config, outcome>>
  PROVE  /\ \A i : Rated(i)' = Rated(i) /\ Final(i)' = Final(i)
         /\ \A r : PassesGates(r)' = PassesGates(r)
         /\ IsPartial' = IsPartial
BY DEF Rated, Final, PassesGates, IsPartial, HasErrors

(* After run() has returned nobody changes the results or the frontier.    *)
LEMMA AfterwardsIInv ==
  ASSUME IInv, UNCHANGED <<config, outcome, results, frontier, set_trust>>, status' # "run",
         set_trust = "none" => status' = "gate_fail" /\ results = <<>>,
         config.trust_mode # "decision_grade" => status' # "mismatch"
  PROVE  IInv'
<1>1. \A i : Rated(i)' = Rated(i) /\ Final(i)' = Final(i)
  BY VerdictsStay
<1>2. \A r : PassesGates(r)' = PassesGates(r)
  BY VerdictsStay
<1>3. IsPartial' = IsPartial /\ Elements(results)' = Elements(results)
  BY VerdictsStay DEF Elements
<1> QED BY <1>1, <1>2, <1>3 DEF IInv

(* The recorded inputs of a run the command line asked for are evaluated   *)
(* to the results it had: only decision_grade itself is rated otherwise    *)
(* than the exploratory mode of the replay.                                *)
LEMMA ReplayIsFaithful ==
  ASSUME RunnerAssumption, IInv, Replay, config.trust_mode # "decision_grade"
  PROVE  ReplayedResults = results
<1> DEFINE again == [i \in DOMAIN Order |-> ResultOf(Order[i], outcome[Order[i]], "exploratory")]
<1>1. /\ Order \in Seq(Points) /\ DOMAIN Order = 1..Len(Order)
  BY DEF RunnerAssumption
<1>2. /\ results \in Seq(Results) /\ Len(results) = Len(Order)
      /\ \A i \in 1..Len(results) : results[i] = Final(i)
  BY DEF IInv, Replay
<1>3. \A i \in 1..Len(Order) : ResultOf(Order[i], outcome[Order[i]], "exploratory") = Rated(i)
  BY DEF ResultOf, Rated, PointTrust
<1>4. /\ again \in Seq(Results) /\ Len(again) = Len(Order)
      /\ \A i \in 1..Len(again) : again[i] = Rated(i)
  <2>1. \A i \in 1..Len(Order) : again[i] = Rated(i) /\ again[i] \in Results
    BY <1>1, <1>3, VerdictsAreResults
  <2>2. again \in [1..Len(Order) -> Results]
    BY <1>1, <2>1
  <2> HIDE DEF again
  <2>3. Len(Order) \in Nat
    BY <1>1
  <2> QED BY <2>1, <2>2, <2>3
<1>5. ReplayedResults = Demoted(again)
  BY DEF ReplayedResults
<1> HIDE DEF again
<1>6. /\ Demoted(again) \in Seq(Results) /\ Len(Demoted(again)) = Len(Order)
      /\ \A i \in 1..Len(Order) : Demoted(again)[i] = Final(i)
  BY <1>4, DemotedIsFinal
<1> QED BY <1>2, <1>5, <1>6, SeqEqual

(* Every step of the run, its callers, the replay and the gate. *)
LEMMA NextIInv == ASSUME RunnerAssumption, IInv, [Next]_vars PROVE IInv'
<1>1. CASE EvaluateFails
  BY <1>1, EvaluateIInv DEF EvaluateFails
<1>2. CASE EvaluateCompletes
  BY <1>2, EvaluateIInv DEF EvaluateCompletes
<1>3. CASE Return
  BY <1>3, ReturnIInv
<1>4. CASE Recommend
  <2>1. status = "returned" /\ set_trust # "none"
    BY <1>4 DEF Recommend, IInv
  <2> QED BY <1>4, <2>1, AfterwardsIInv DEF Recommend
<1>5. CASE Replay
  <2>1. status = "returned" /\ set_trust # "none"
    BY <1>5 DEF Replay, IInv
  <2>2. config.trust_mode # "decision_grade" => status' # "mismatch"
    BY <1>5, ReplayIsFaithful DEF Replay
  <2> QED BY <1>5, <2>1, <2>2, AfterwardsIInv DEF Replay
<1>6. CASE GateFails
  <2>1. set_trust = "none" => results = <<>>
    BY <1>6 DEF GateFails, IInv
  <2> QED BY <1>6, <2>1, AfterwardsIInv DEF GateFails
<1>7. CASE GatePublishes
  <2>1. status = "returned" /\ set_trust # "none"
    BY <1>7 DEF GatePublishes, IInv
  <2> QED BY <1>7, <2>1, AfterwardsIInv DEF GatePublishes
<1>8. ASSUME NEW p \in Points, Reclassify(p) PROVE IInv'
  <2>1. set_trust # "none"
    BY <1>8 DEF Reclassify, IInv
  <2> QED BY <1>8, <2>1, AfterwardsIInv DEF Reclassify
<1>9. CASE UNCHANGED vars
  BY <1>9, VerdictsStay DEF vars, IInv, Elements
<1> QED BY <1>1, <1>2, <1>3, <1>4, <1>5, <1>6, <1>7, <1>8, <1>9 DEF Next

(* The specification without its fairness, which safety does not need. *)
Behaviour == Init /\ [][Next]_vars

LEMMA AlwaysIInv == ASSUME RunnerAssumption PROVE Behaviour => []IInv
<1>1. Init => IInv
  BY InitIInv
<1>2. IInv /\ [Next]_vars => IInv'
  BY NextIInv
<1> QED BY <1>1, <1>2, PTL DEF Behaviour

-----------------------------------------------------------------------------
(* Only a run that was stopped before its first point ends with verdicts   *)
(* that are not final; it offers nothing.                                  *)
LEMMA OffersPassTheGates ==
  ASSUME IInv, NEW r \in frontier
  PROVE  /\ r \in Elements(results) /\ PassesGates(r) /\ set_trust # "none"
BY DEF IInv

(* A frontier point of a decision_grade run rests on calibrated entries    *)
(* only (TrustGate.check, evaluate_point, evaluate_gates).                 *)
THEOREM DecisionGradeIsCalibrated ==
  ASSUME RunnerAssumption PROVE Behaviour => []DecisionGradeCalibrated
<1>1. IInv => DecisionGradeCalibrated
  <2> SUFFICES ASSUME IInv, config.trust_mode = "decision_grade", NEW r \in frontier
               PROVE  \A e \in outcome[r.point].entries : Calibrated(e)
    BY DEF DecisionGradeCalibrated, OffersOnlyCalibrated
  <2>1. r \in Elements(results) /\ PassesGates(r) /\ set_trust # "none"
    BY OffersPassTheGates
  <2>2. PICK i \in 1..Len(results) : r = Final(i)
    BY <2>1 DEF IInv, Elements
  <2>3. i \in 1..Len(Order) /\ Order[i] \in Points
    BY <2>2 DEF IInv, RunnerAssumption
  <2>4. r.status = "complete" /\ r.trust_level # "non_authoritative"
    BY <2>1 DEF PassesGates
  <2>5. r.point = Order[i] /\ r.trust_level = PointTrust(outcome[Order[i]].entries, "decision_grade")
    <3>1. CASE IsPartial
      BY <2>2, <2>4, <3>1 DEF Final, Rated, ResultOf
    <3>2. CASE ~IsPartial
      BY <2>2, <2>4, <3>2 DEF Final, Rated, ResultOf
    <3> QED BY <3>1, <3>2
  <2>6. outcome[Order[i]] \in Outcomes
    BY <2>3 DEF IInv
  <2> QED BY <2>4, <2>5, <2>6, BelievedIsCalibrated
<1> QED BY <1>1, AlwaysIInv, PTL

(* A partial run has an empty frontier and is believed by no one (run()    *)
(* demotes every result before it chooses).                                *)
THEOREM PartialRunsOfferNothing ==
  ASSUME RunnerAssumption PROVE Behaviour => []PartialOffersNothing
<1>1. ASSUME IInv, IsPartial, NEW r \in frontier PROVE FALSE
  <2>1. r \in Elements(results) /\ PassesGates(r) /\ set_trust # "none"
    BY <1>1, OffersPassTheGates
  <2>2. PICK i \in 1..Len(results) : r = Final(i)
    BY <1>1, <2>1 DEF IInv, Elements
  <2>3. r.trust_level = "non_authoritative"
    BY <1>1, <2>2 DEF Final, Rated, ResultOf
  <2> QED BY <2>1, <2>3 DEF PassesGates
<1>2. ASSUME RunnerAssumption, IInv, IsPartial, Ended PROVE set_trust = "non_authoritative"
  <2>1. Points # {}
    BY <1>2 DEF IsPartial, HasErrors
  <2>2. Len(Order) # 0
    BY <1>2, <2>1 DEF RunnerAssumption
  <2>3. set_trust # "none"
    BY <1>2, <2>2 DEF IInv, Ended
  <2> QED BY <1>2, <2>3 DEF IInv
<1>3. IInv => PartialOffersNothing
  BY <1>1, <1>2 DEF PartialOffersNothing
<1> QED BY <1>3, AlwaysIInv, PTL

(* A bundle that the command line wrote verifies when it is replayed       *)
(* (_run_replay), partial or not.                                          *)
THEOREM BundlesReplay == ASSUME RunnerAssumption PROVE Behaviour => []ReplayVerifies
<1>1. IInv => ReplayVerifies
  BY DEF IInv, ReplayVerifies
<1> QED BY <1>1, AlwaysIInv, PTL
-----------------------------------------------------------------------------
(* The manifest.                                                           *)

AllPairs == PairsOf(Points)
Manifests ==
    [ids : [Kinds -> SUBSET Points], shown : [Kinds -> SUBSET AllPairs],
     excluded : SUBSET AllPairs]

(* Marking a point touches one kind of verdict. *)
LEMMA MarkMarks ==
  ASSUME NEW m \in Manifests, NEW kind \in Kinds, NEW p \in Points
  PROVE  /\ Mark(m, kind, p) \in Manifests
         /\ Mark(m, kind, p).ids = [m.ids EXCEPT ![kind] = m.ids[kind] \cup {p}]
         /\ Mark(m, kind, p).shown = [m.shown EXCEPT ![kind] = m.shown[kind] \cup Pairs(p)]
<1> DEFINE i == [m.ids EXCEPT ![kind] = m.ids[kind] \cup {p}]
           s == [m.shown EXCEPT ![kind] = m.shown[kind] \cup Pairs(p)]
<1>1. /\ m.ids \in [Kinds -> SUBSET Points] /\ m.shown \in [Kinds -> SUBSET AllPairs]
      /\ m.excluded \in SUBSET AllPairs
      /\ m = [ids |-> m.ids, shown |-> m.shown, excluded |-> m.excluded]
  BY DEF Manifests
<1>2. Mark(m, kind, p) = [ids |-> i, shown |-> s, excluded |-> m.excluded]
  <2>1. Mark(m, kind, p) = [[m EXCEPT !.ids = i] EXCEPT !.shown = s]
    BY <1>1 DEF Mark
  <2> HIDE DEF i, s
  <2> QED BY <1>1, <2>1
<1>3. Pairs(p) \subseteq AllPairs
  BY DEF AllPairs, PairsOf
<1>4. i \in [Kinds -> SUBSET Points]
  BY <1>1
<1>5. s \in [Kinds -> SUBSET AllPairs]
  BY <1>1, <1>3
<1> HIDE DEF i, s
<1>6. [ids |-> i, shown |-> s, excluded |-> m.excluded] \in Manifests
  BY <1>1, <1>4, <1>5 DEF Manifests
<1> QED BY <1>2, <1>6 DEF i, s

(* r is m with a point added to one kind. *)
Marked(m, kind, p, r) ==
    /\ r \in Manifests
    /\ r.ids[kind] = m.ids[kind] \cup {p} /\ r.shown[kind] = m.shown[kind] \cup Pairs(p)
    /\ \A k \in Kinds \ {kind} : r.ids[k] = m.ids[k] /\ r.shown[k] = m.shown[k]

(* The same, kind by kind. *)
LEMMA MarkTouches ==
  ASSUME NEW m \in Manifests, NEW kind \in Kinds, NEW p \in Points
  PROVE  Marked(m, kind, p, Mark(m, kind, p))
<1> DEFINE r == Mark(m, kind, p)
<1>1. /\ r \in Manifests
      /\ r.ids = [m.ids EXCEPT ![kind] = m.ids[kind] \cup {p}]
      /\ r.shown = [m.shown EXCEPT ![kind] = m.shown[kind] \cup Pairs(p)]
  BY MarkMarks
<1> HIDE DEF r
<1>2. m.ids \in [Kinds -> SUBSET Points] /\ m.shown \in [Kinds -> SUBSET AllPairs]
  BY DEF Manifests
<1>3. Marked(m, kind, p, r)
  BY <1>1, <1>2 DEF Marked
<1> QED BY <1>3 DEF r

(* Taking a success back touches the successes. *)
LEMMA UnsuccessfulTakes ==
  ASSUME NEW m \in Manifests, NEW p \in Points, NEW r, r = Unsuccessful(m, p)
  PROVE  /\ r \in Manifests /\ r.shown = m.shown
         /\ r.ids["successful"] = m.ids["successful"] \ {p}
         /\ \A k \in Kinds \ {"successful"} : r.ids[k] = m.ids[k]
<1> DEFINE i == [m.ids EXCEPT !["successful"] = m.ids["successful"] \ {p}]
<1>1. /\ m.ids \in [Kinds -> SUBSET Points] /\ m.shown \in [Kinds -> SUBSET AllPairs]
      /\ m.excluded \in SUBSET AllPairs
      /\ m = [ids |-> m.ids, shown |-> m.shown, excluded |-> m.excluded]
      /\ "successful" \in Kinds
  BY DEF Manifests, Kinds, Verdicts
<1>2. r = [m EXCEPT !.ids = i]
  BY <1>1 DEF Unsuccessful
<1>3. /\ i \in [Kinds -> SUBSET Points] /\ i["successful"] = m.ids["successful"] \ {p}
      /\ \A k \in Kinds \ {"successful"} : i[k] = m.ids[k]
  BY <1>1
<1> HIDE DEF i
<1>4. r = [ids |-> i, shown |-> m.shown, excluded |-> m.excluded]
  BY <1>1, <1>2
<1> QED BY <1>1, <1>3, <1>4 DEF Manifests

(* Clearing what a success left touches the evaluated and the successful.  *)
LEMMA ClearingTakes ==
  ASSUME NEW m \in Manifests, NEW p \in Points, NEW r, r = ClearSuccessState(m, p)
  PROVE  /\ r \in Manifests
         /\ \A k \in {"evaluated", "successful"} : r.ids[k] = m.ids[k] \ {p}
         /\ \A k \in {"filtered", "failed", "pruned"} : r.ids[k] = m.ids[k]
<1> DEFINE i1 == [m.ids EXCEPT !["evaluated"] = m.ids["evaluated"] \ {p}]
           i == [i1 EXCEPT !["successful"] = i1["successful"] \ {p}]
           s1 == [m.shown EXCEPT !["evaluated"] = m.shown["evaluated"] \ Pairs(p)]
           s == [s1 EXCEPT !["successful"] = s1["successful"] \ Pairs(p)]
<1>1. /\ m.ids \in [Kinds -> SUBSET Points] /\ m.shown \in [Kinds -> SUBSET AllPairs]
      /\ m.excluded \in SUBSET AllPairs
      /\ m = [ids |-> m.ids, shown |-> m.shown, excluded |-> m.excluded]
      /\ {"evaluated", "successful", "filtered", "failed", "pruned"} = Kinds
  BY DEF Manifests, Kinds, Verdicts
<1>2. i1 \in [Kinds -> SUBSET Points] /\ s1 \in [Kinds -> SUBSET AllPairs]
  BY <1>1
<1>3. /\ i \in [Kinds -> SUBSET Points]
      /\ i["evaluated"] = m.ids["evaluated"] \ {p} /\ i["successful"] = m.ids["successful"] \ {p}
      /\ \A k \in {"filtered", "failed", "pruned"} : i[k] = m.ids[k]
  BY <1>1
<1>4. s \in [Kinds -> SUBSET AllPairs]
  BY <1>1, <1>2
<1>5. r = [[[[m EXCEPT !.ids = i1] EXCEPT !.ids = i] EXCEPT !.shown = s1] EXCEPT !.shown = s]
  BY <1>1 DEF ClearSuccessState
<1> HIDE DEF i1, i, s1, s
<1>6. r = [ids |-> i, shown |-> s, excluded |-> m.excluded]
  BY <1>1, <1>5
<1> QED BY <1>1, <1>3, <1>4, <1>6 DEF Manifests

(* A success is evaluated and successful. *)
LEMMA SuccessRecords ==
  ASSUME NEW m \in Manifests, NEW p \in Points,
         NEW r, r = RecordSuccess(RecordEvaluated(m, p), p)
  PROVE  /\ r \in Manifests
         /\ \A k \in {"evaluated", "successful"} :
               r.ids[k] = m.ids[k] \cup {p} /\ r.shown[k] = m.shown[k] \cup Pairs(p)
         /\ \A k \in {"filtered", "failed", "pruned"} :
               r.ids[k] = m.ids[k] /\ r.shown[k] = m.shown[k]
<1> DEFINE a == Mark(m, "evaluated", p)
           b == Mark(a, "evaluated", p)
<1>1. Kinds = {"evaluated", "successful", "filtered", "failed", "pruned"}
  BY DEF Kinds, Verdicts
<1>2. r = Mark(b, "successful", p)
  BY DEF RecordSuccess, RecordEvaluated
<1>3. Marked(m, "evaluated", p, a)
  BY <1>1, MarkTouches
<1> HIDE DEF a
<1>4. Marked(a, "evaluated", p, b)
  <2>1. a \in Manifests
    BY <1>3 DEF Marked
  <2> QED BY <1>1, <2>1, MarkTouches
<1> HIDE DEF b
<1>5. Marked(b, "successful", p, r)
  <2>1. b \in Manifests
    BY <1>4 DEF Marked
  <2> QED BY <1>1, <1>2, <2>1, MarkTouches
<1> QED BY <1>1, <1>3, <1>4, <1>5 DEF Marked

(* A failure or a filtered point is evaluated, of that verdict, and not    *)
(* successful.                                                             *)
LEMMA VerdictRecords ==
  ASSUME NEW m \in Manifests, NEW p \in Points, NEW v \in {"failed", "filtered"},
         NEW r, r = Mark(RecordEvaluated(Unsuccessful(m, p), p), v, p)
  PROVE  /\ r \in Manifests
         /\ r.ids["successful"] = m.ids["successful"] \ {p}
         /\ r.shown["successful"] = m.shown["successful"]
         /\ \A k \in {"evaluated", v} :
               r.ids[k] = m.ids[k] \cup {p} /\ r.shown[k] = m.shown[k] \cup Pairs(p)
         /\ \A k \in Kinds \ {"evaluated", v, "successful"} :
               r.ids[k] = m.ids[k] /\ r.shown[k] = m.shown[k]
<1> DEFINE a == Unsuccessful(m, p)
           b == Mark(a, "evaluated", p)
<1>1. /\ Kinds = {"evaluated", "successful", "filtered", "failed", "pruned"}
      /\ v \in Kinds /\ v # "successful" /\ v # "evaluated"
  BY DEF Kinds, Verdicts
<1>2. r = Mark(b, v, p)
  BY DEF RecordEvaluated
<1>3. /\ a \in Manifests /\ a.shown = m.shown
      /\ a.ids["successful"] = m.ids["successful"] \ {p}
      /\ \A k \in Kinds \ {"successful"} : a.ids[k] = m.ids[k]
  BY UnsuccessfulTakes
<1> HIDE DEF a
<1>4. Marked(a, "evaluated", p, b)
  <2>1. a \in Manifests
    BY <1>3 DEF Marked
  <2> QED BY <1>1, <2>1, MarkTouches
<1> HIDE DEF b
<1>5. Marked(b, v, p, r)
  <2>1. b \in Manifests
    BY <1>4 DEF Marked
  <2> QED BY <1>1, <1>2, <2>1, MarkTouches
<1> QED BY <1>1, <1>3, <1>4, <1>5 DEF Marked

(* A pruned point is neither evaluated nor successful any more.            *)
LEMMA PrunedRecords ==
  ASSUME NEW m \in Manifests, NEW p \in Points, NEW r, r = RecordPruned(m, p)
  PROVE  /\ r \in Manifests
         /\ \A k \in {"evaluated", "successful"} : r.ids[k] = m.ids[k] \ {p}
         /\ r.ids["pruned"] = m.ids["pruned"] \cup {p}
         /\ \A k \in {"filtered", "failed"} : r.ids[k] = m.ids[k]
<1> DEFINE a == ClearSuccessState(m, p)
           b == Mark(a, "pruned", p)
<1>1. Kinds = {"evaluated", "successful", "filtered", "failed", "pruned"}
  BY DEF Kinds, Verdicts
<1>2. r = [b EXCEPT !.excluded = @ \cup Pairs(p)]
  BY DEF RecordPruned
<1>3. /\ a \in Manifests
      /\ \A k \in {"evaluated", "successful"} : a.ids[k] = m.ids[k] \ {p}
      /\ \A k \in {"filtered", "failed", "pruned"} : a.ids[k] = m.ids[k]
  BY ClearingTakes
<1> HIDE DEF a
<1>4. Marked(a, "pruned", p, b)
  BY <1>1, <1>3, MarkTouches
<1> HIDE DEF b
<1>5. Pairs(p) \subseteq AllPairs
  BY DEF AllPairs, PairsOf
<1>6. r \in Manifests /\ r.ids = b.ids
  BY <1>2, <1>4, <1>5 DEF Manifests, Marked
<1> QED BY <1>1, <1>3, <1>4, <1>6 DEF Marked

-----------------------------------------------------------------------------
(* The frontier.                                                           *)

(* Values are compared as numbers, the missing ones as the worst. *)
LEMMA ValueIsNumber ==
  ASSUME RunnerAssumption, outcome \in [Points -> Outcomes],
         NEW r, r.point \in Points, NEW obj \in Objectives
  PROVE  ObjectiveValue(r, obj) \in Int
<1>1. outcome[r.point] \in Outcomes
  OBVIOUS
<1>2. outcome[r.point].values[obj] \in Int
  BY <1>1 DEF RunnerAssumption
<1> QED BY <1>2 DEF ObjectiveValue, Infinity

(* What is no worse than what is no worse is no worse, and of two results  *)
(* one is no worse.                                                        *)
LEMMA NoWorseIsPreorder ==
  ASSUME RunnerAssumption, outcome \in [Points -> Outcomes], NEW obj \in Objectives,
         NEW a, NEW b, NEW c,
         a.point \in Points, b.point \in Points, c.point \in Points
  PROVE  /\ NoWorse(a, a, obj)
         /\ NoWorse(a, b, obj) /\ NoWorse(b, c, obj) => NoWorse(a, c, obj)
<1> DEFINE x == ObjectiveValue(a, obj)
           y == ObjectiveValue(b, obj)
           z == ObjectiveValue(c, obj)
<1>1. x \in Int /\ y \in Int /\ z \in Int
  BY ValueIsNumber
<1>2. /\ NoWorse(a, a, obj) <=> IF obj \in Maximized THEN x >= x ELSE x <= x
      /\ NoWorse(a, b, obj) <=> IF obj \in Maximized THEN x >= y ELSE x <= y
      /\ NoWorse(b, c, obj) <=> IF obj \in Maximized THEN y >= z ELSE y <= z
      /\ NoWorse(a, c, obj) <=> IF obj \in Maximized THEN x >= z ELSE x <= z
  BY DEF NoWorse
<1> HIDE DEF x, y, z
<1> QED BY <1>1, <1>2

(* Dominance is a strict partial order. *)
LEMMA DominanceIsOrder ==
  ASSUME RunnerAssumption, outcome \in [Points -> Outcomes], NEW a, NEW b, NEW c,
         a.point \in Points, b.point \in Points, c.point \in Points
  PROVE  /\ ~ Dominates(a, a)
         /\ Dominates(a, b) /\ Dominates(b, c) => Dominates(a, c)
<1>1. ~ Dominates(a, a)
  BY DEF Dominates
<1>2. ASSUME Dominates(a, b), Dominates(b, c) PROVE Dominates(a, c)
  <2>1. \A obj \in Objectives : NoWorse(a, c, obj)
    BY <1>2, NoWorseIsPreorder DEF Dominates
  <2>2. PICK obj \in Objectives : ~ NoWorse(b, a, obj)
    BY <1>2 DEF Dominates
  <2>3. NoWorse(b, c, obj) /\ (NoWorse(c, a, obj) => NoWorse(b, a, obj))
    <3>1. NoWorse(b, c, obj)
      BY <1>2 DEF Dominates
    <3>2. NoWorse(b, c, obj) /\ NoWorse(c, a, obj) => NoWorse(b, a, obj)
      BY NoWorseIsPreorder
    <3> QED BY <3>1, <3>2
  <2> QED BY <2>1, <2>2, <2>3 DEF Dominates
<1> QED BY <1>1, <1>2

(* Among finitely many results, each is on the frontier or dominated by    *)
(* one that is: of those that dominate it take one with the fewest above.  *)
LEMMA DominatedByMaximal ==
  ASSUME RunnerAssumption, outcome \in [Points -> Outcomes],
         NEW D, IsFiniteSet(D), \A x \in D : x.point \in Points,
         NEW r \in D, \E other \in D : Dominates(other, r)
  PROVE  \E a \in D : Dominates(a, r) /\ \A other \in D : ~ Dominates(other, a)
<1> DEFINE Above(x) == {y \in D : Dominates(y, x)}
           R == {Above(x) : x \in Above(r)}
<1>1. R \in SUBSET (SUBSET D) /\ R # {}
  OBVIOUS
<1>2. FiniteSubsetsOf(D) = SUBSET D
  BY FS_FiniteSubsetsOfFinite
<1>3. PICK s \in R : \A t \in R : ~ (<<t, s>> \in StrictSubsetOrdering(D))
  <2> HIDE DEF R
  <2> QED BY <1>1, <1>2, WFMin, FS_StrictSubsetOrderingWellFounded
<1>4. PICK a \in Above(r) : s = Above(a)
  BY <1>3
<1>5. ASSUME NEW b \in D, Dominates(b, a) PROVE FALSE
  <2>1. a \in D /\ Dominates(a, r)
    BY <1>4
  <2>2. Dominates(b, r)
    BY <1>5, <2>1, DominanceIsOrder
  <2>3. \A x \in D : Dominates(x, b) => Dominates(x, a)
    BY <1>5, <2>1, DominanceIsOrder
  <2>4. ~ Dominates(b, b)
    BY DominanceIsOrder
  <2>5. Above(b) \in R
    BY <2>2
  <2>6. Above(b) \subseteq Above(a) /\ Above(b) # Above(a)
    BY <1>5, <2>3, <2>4
  <2>7. <<Above(b), s>> \in StrictSubsetOrdering(D)
    BY <1>4, <2>6 DEF StrictSubsetOrdering
  <2> QED BY <1>3, <2>5, <2>7
<1> QED BY <1>4, <1>5

(* A sequence has finitely many elements. *)
LEMMA FinitelyMany == ASSUME NEW S, NEW s \in Seq(S) PROVE IsFiniteSet(Elements(s))
<1> DEFINE f == [i \in 1..Len(s) |-> s[i]]
<1>1. f \in Surjection(1..Len(s), Elements(s))
  BY DEF Surjection, Elements
<1>2. IsFiniteSet(1..Len(s))
  BY FS_Interval
<1> QED BY <1>1, <1>2, FS_Surjection

(* compute_frontier keeps what nobody eligible beats, and something that   *)
(* beats each eligible point it leaves out.                                *)
LEMMA FrontierIsCover ==
  ASSUME RunnerAssumption, outcome \in [Points -> Outcomes], NEW rs \in Seq(Results)
  PROVE  /\ Frontier(rs) \subseteq Elements(rs)
         /\ \A a, b \in Frontier(rs) : ~ Dominates(a, b)
         /\ \A r \in Elements(rs) \ Frontier(rs) :
               PassesGates(r) => \E a \in Frontier(rs) : Dominates(a, r)
<1> DEFINE D == {r \in Elements(rs) : PassesGates(r)}
<1>1. /\ D \subseteq Elements(rs)
      /\ Frontier(rs) = {r \in D : \A other \in D : ~ Dominates(other, r)}
  BY DEF Frontier
<1>2. IsFiniteSet(D)
  BY <1>1, FinitelyMany, FS_Subset
<1>3. \A x \in D : x.point \in Points
  <2>1. \A x \in Elements(rs) : x \in Results
    BY DEF Elements
  <2> QED BY <1>1, <2>1 DEF Results
<1>4. \A r \in Elements(rs) : PassesGates(r) => r \in D
  OBVIOUS
<1> HIDE DEF D
<1>5. ASSUME NEW r \in D, r \notin Frontier(rs) PROVE \E a \in Frontier(rs) : Dominates(a, r)
  <2>1. \E other \in D : Dominates(other, r)
    BY <1>1, <1>5
  <2>2. PICK a \in D : Dominates(a, r) /\ \A other \in D : ~ Dominates(other, a)
    BY <1>2, <1>3, <2>1, DominatedByMaximal
  <2> QED BY <1>1, <2>2
<1> QED BY <1>1, <1>4, <1>5

(* What is asked of a run never changes, and once it has returned its      *)
(* frontier is that of its results.                                        *)
FInv ==
    /\ config \in Config /\ artifact \in BOOLEAN
    /\ set_trust \in {"none", "exploratory", "non_authoritative"}
    /\ set_trust # "none" => frontier = Frontier(results)

(* The frontier depends on the results, on what the points came to and on  *)
(* what was asked, which never change.                                     *)
LEMMA FrontierStays ==
  ASSUME UNCHANGED <<config, outcome>>
  PROVE  Frontier(results)' = Frontier(results')
<1>1. \A r : PassesGates(r)' = PassesGates(r)
  BY DEF PassesGates
<1>2. \A a, b : Dominates(a, b)' = Dominates(a, b)
  BY DEF Dominates, NoWorse, ObjectiveValue
<1>3. Elements(results)' = Elements(results')
  BY DEF Elements
<1> QED BY <1>1, <1>2, <1>3 DEF Frontier

(* The frontier is chosen once, of the results that are returned.          *)
LEMMA NextFInv ==
  ASSUME IInv, FInv, [Next]_vars
  PROVE  FInv'
<1> USE DEF FInv
<1>1. CASE EvaluateFails \/ EvaluateCompletes
  BY <1>1 DEF EvaluateFails, EvaluateCompletes, Evaluate, Evaluating, IInv
<1>2. CASE Return
  <2>1. /\ UNCHANGED <<config, outcome, artifact>>
        /\ results' = Demoted(results) /\ frontier' = Frontier(Demoted(results))
        /\ set_trust' \in {"exploratory", "non_authoritative"}
    BY <1>2 DEF Return
  <2> QED BY <2>1, FrontierStays
<1>3. ASSUME UNCHANGED <<config, outcome, results, frontier, set_trust>>, artifact' \in BOOLEAN
      PROVE  FInv'
  BY <1>3, FrontierStays
<1>4. CASE Recommend
  BY <1>3, <1>4 DEF Recommend
<1>5. CASE Replay
  BY <1>3, <1>5 DEF Replay
<1>6. CASE GateFails
  BY <1>3, <1>6 DEF GateFails
<1>7. CASE GatePublishes
  BY <1>3, <1>7 DEF GatePublishes
<1>8. ASSUME NEW p \in Points, Reclassify(p) PROVE FInv'
  BY <1>3, <1>8 DEF Reclassify
<1>9. CASE UNCHANGED vars
  BY <1>3, <1>9 DEF vars
<1> QED BY <1>1, <1>2, <1>4, <1>5, <1>6, <1>7, <1>8, <1>9 DEF Next

LEMMA AlwaysFInv == ASSUME RunnerAssumption PROVE Behaviour => [](IInv /\ FInv)
<1>1. Init => FInv
  BY DEF Init, FInv, RunnerAssumption
<1>2. IInv /\ FInv /\ [Next]_vars => FInv'
  BY NextFInv
<1> QED BY <1>1, <1>2, AlwaysIInv, PTL DEF Behaviour

-----------------------------------------------------------------------------
(* The coverage.                                                           *)

Seen == {Order[i] : i \in 1..Len(results)}

(* Until a caller changes a verdict the manifest is of the points seen:    *)
(* evaluated all, and failed where the evaluation raised.                  *)
Recorded(ids, shown) ==
    /\ ids["evaluated"] = Seen
    /\ ids["failed"] = {p \in Seen : Failed(outcome[p])}
    /\ ids["successful"] = {p \in Seen : ~ Failed(outcome[p])}
    /\ ids["filtered"] = {} /\ ids["pruned"] = {}
    /\ \A k \in Kinds : shown[k] = PairsOf(ids[k])

(* Every point seen is evaluated or pruned, and an evaluated one has one   *)
(* verdict.                                                                *)
Balanced(ids) ==
    /\ ids["evaluated"] \cup ids["pruned"] = Seen /\ ids["evaluated"] \cap ids["pruned"] = {}
    /\ ids["successful"] \cup ids["filtered"] \cup ids["failed"] = ids["evaluated"]
    /\ ids["successful"] \cap ids["filtered"] = {}
    /\ (ids["successful"] \cup ids["filtered"]) \cap ids["failed"] = {}

BInv ==
    /\ manifest \in Manifests
    /\ Balanced(manifest.ids)
    /\ status # "reclassified" => Recorded(manifest.ids, manifest.shown)

LEMMA RecordedIsBalanced ==
  ASSUME NEW ids, NEW shown, Recorded(ids, shown) PROVE Balanced(ids)
BY DEF Recorded, Balanced

(* Nothing has been recorded. *)
LEMMA InitBInv == ASSUME Init PROVE BInv
<1>1. manifest = NewManifest /\ Seen = {} /\ status = "run"
  BY DEF Init, Seen
<1>2. /\ manifest.ids = [k \in Kinds |-> {}] /\ manifest.shown = [k \in Kinds |-> {}]
      /\ manifest.excluded = {}
  BY <1>1 DEF NewManifest
<1>3. manifest \in Manifests
  BY <1>1 DEF NewManifest, Manifests
<1>4. PairsOf({}) = {}
  BY DEF PairsOf
<1>5. Kinds = {"evaluated", "successful", "filtered", "failed", "pruned"}
  BY DEF Kinds, Verdicts
<1>6. Recorded(manifest.ids, manifest.shown)
  BY <1>1, <1>2, <1>4, <1>5 DEF Recorded
<1> QED BY <1>3, <1>6, RecordedIsBalanced DEF BInv

(* One more point has been seen. *)
LEMMA SeenGrows ==
  ASSUME RunnerAssumption, IInv, Evaluating, NEW m, Evaluate(m)
  PROVE  /\ Seen' = Seen \cup {Point} /\ Point \in Points
         /\ status' = status /\ status = "run" /\ outcome' = outcome /\ manifest' = m
<1>1. /\ results \in Seq(Results) /\ Order \in Seq(Points) /\ Len(results) < Len(Order)
  BY DEF Evaluating, IInv, RunnerAssumption
<1>2. Len(results') = Len(results) + 1
  BY <1>1 DEF Evaluate
<1> DEFINE n == Len(results)
<1>3. n \in Nat /\ Len(results') = n + 1 /\ n + 1 \in 1..Len(Order) /\ n = Len(results)
  BY <1>1, <1>2
<1> HIDE DEF n
<1>4. Point = Order[n + 1]
  BY <1>3 DEF Point
<1>5. Seen' = {Order[i] : i \in 1..(n + 1)} /\ Seen = {Order[i] : i \in 1..n}
  BY <1>3 DEF Seen
<1>6. 1..(n + 1) = (1..n) \cup {n + 1}
  BY <1>3
<1>7. Seen' = Seen \cup {Point}
  BY <1>4, <1>5, <1>6
<1> QED BY <1>1, <1>3, <1>4, <1>7 DEF Evaluate, Evaluating

(* The pairs of one more point. *)
LEMMA PairsGrow == ASSUME NEW S, NEW p PROVE PairsOf(S \cup {p}) = PairsOf(S) \cup Pairs(p)
BY DEF PairsOf

(* A completed evaluation is recorded. *)
LEMMA CompletesBInv ==
  ASSUME RunnerAssumption, IInv, BInv, EvaluateCompletes PROVE BInv'
<1> DEFINE r == RecordSuccess(RecordEvaluated(manifest, Point), Point)
<1>1. /\ Seen' = Seen \cup {Point} /\ Point \in Points /\ manifest' = r
      /\ status' = status /\ status = "run" /\ outcome' = outcome
  BY SeenGrows DEF EvaluateCompletes
<1>2. /\ r \in Manifests
      /\ \A k \in {"evaluated", "successful"} :
            r.ids[k] = manifest.ids[k] \cup {Point}
            /\ r.shown[k] = manifest.shown[k] \cup Pairs(Point)
      /\ \A k \in {"filtered", "failed", "pruned"} :
            r.ids[k] = manifest.ids[k] /\ r.shown[k] = manifest.shown[k]
  BY <1>1, SuccessRecords DEF BInv
<1>3. Recorded(manifest.ids, manifest.shown) /\ ~ Failed(outcome[Point])
  BY <1>1 DEF BInv, EvaluateCompletes
<1> HIDE DEF r
<1>4. Kinds = {"evaluated", "successful", "filtered", "failed", "pruned"}
  BY DEF Kinds, Verdicts
<1>5. \A k \in Kinds : r.shown[k] = PairsOf(r.ids[k])
  <2> SUFFICES ASSUME NEW k \in Kinds PROVE r.shown[k] = PairsOf(r.ids[k])
    OBVIOUS
  <2>1. manifest.shown[k] = PairsOf(manifest.ids[k])
    BY <1>3 DEF Recorded
  <2>2. PairsOf(manifest.ids[k] \cup {Point}) = PairsOf(manifest.ids[k]) \cup Pairs(Point)
    BY PairsGrow
  <2>3. CASE k \in {"evaluated", "successful"}
    BY <1>2, <2>1, <2>2, <2>3
  <2>4. CASE k \in {"filtered", "failed", "pruned"}
    BY <1>2, <2>1, <2>4
  <2> QED BY <1>4, <2>3, <2>4
<1>6. \A p : Failed(outcome[p])' = Failed(outcome[p])
  BY <1>1 DEF Failed
<1> DEFINE q == Point
<1>7. /\ Seen' = Seen \cup {q} /\ ~ Failed(outcome[q])
      /\ r.ids["evaluated"] = manifest.ids["evaluated"] \cup {q}
      /\ r.ids["successful"] = manifest.ids["successful"] \cup {q}
      /\ r.ids["filtered"] = manifest.ids["filtered"]
      /\ r.ids["failed"] = manifest.ids["failed"]
      /\ r.ids["pruned"] = manifest.ids["pruned"]
  BY <1>1, <1>2, <1>3
<1> HIDE DEF q
<1>8. /\ r.ids["evaluated"] = Seen'
      /\ r.ids["failed"] = {p \in Seen' : Failed(outcome[p])}
      /\ r.ids["successful"] = {p \in Seen' : ~ Failed(outcome[p])}
      /\ r.ids["filtered"] = {} /\ r.ids["pruned"] = {}
  BY <1>3, <1>7 DEF Recorded
<1>9. Recorded(manifest.ids, manifest.shown)'
  BY <1>1, <1>5, <1>6, <1>8 DEF Recorded
<1>10. Balanced(manifest.ids)'
  BY <1>9 DEF Recorded, Balanced
<1> QED BY <1>1, <1>2, <1>9, <1>10 DEF BInv

(* An evaluation that raised is recorded. *)
LEMMA FailsBInv ==
  ASSUME RunnerAssumption, IInv, BInv, EvaluateFails PROVE BInv'
<1> DEFINE a == RecordEvaluated(manifest, Point)
           r == RecordFailed(a, Point)
<1>1. /\ Seen' = Seen \cup {Point} /\ Point \in Points /\ manifest' = r
      /\ status' = status /\ status = "run" /\ outcome' = outcome
  BY SeenGrows DEF EvaluateFails
<1>2. Kinds = {"evaluated", "successful", "filtered", "failed", "pruned"}
  BY DEF Kinds, Verdicts
<1>3. Marked(manifest, "evaluated", Point, a)
  BY <1>1, <1>2, MarkTouches DEF BInv, RecordEvaluated
<1>4. Recorded(manifest.ids, manifest.shown) /\ Failed(outcome[Point])
  BY <1>1 DEF BInv, EvaluateFails
<1>5. /\ r \in Manifests
      /\ r.ids["successful"] = a.ids["successful"] \ {Point}
      /\ r.shown["successful"] = a.shown["successful"]
      /\ \A k \in {"evaluated", "failed"} :
            r.ids[k] = a.ids[k] \cup {Point} /\ r.shown[k] = a.shown[k] \cup Pairs(Point)
      /\ \A k \in Kinds \ {"evaluated", "failed", "successful"} :
            r.ids[k] = a.ids[k] /\ r.shown[k] = a.shown[k]
  <2> HIDE DEF a
  <2>1. a \in Manifests
    BY <1>3 DEF Marked
  <2>2. r = Mark(RecordEvaluated(Unsuccessful(a, Point), Point), "failed", Point)
    BY DEF RecordFailed
  <2> HIDE DEF r
  <2> QED BY <1>1, <2>1, <2>2, VerdictRecords
<1> DEFINE q == Point
<1>6. Failed(outcome[q]) /\ Seen' = Seen \cup {q}
  BY <1>1, <1>4
<1>7. /\ \A k \in {"evaluated", "failed"} :
            r.ids[k] = manifest.ids[k] \cup {q} /\ r.shown[k] = manifest.shown[k] \cup Pairs(q)
      /\ r.ids["successful"] = manifest.ids["successful"] \ {q}
      /\ r.shown["successful"] = manifest.shown["successful"]
      /\ \A k \in {"filtered", "pruned"} :
            r.ids[k] = manifest.ids[k] /\ r.shown[k] = manifest.shown[k]
  <2> HIDE DEF a, r
  <2> QED BY <1>2, <1>3, <1>5 DEF Marked
<1> HIDE DEF a, r, q
<1>8. q \notin manifest.ids["successful"]
  BY <1>4, <1>6 DEF Recorded
<1>9. r.ids["successful"] = manifest.ids["successful"]
  BY <1>7, <1>8
<1>10. \A k \in Kinds : r.shown[k] = PairsOf(r.ids[k])
  <2> SUFFICES ASSUME NEW k \in Kinds PROVE r.shown[k] = PairsOf(r.ids[k])
    OBVIOUS
  <2>1. manifest.shown[k] = PairsOf(manifest.ids[k])
    BY <1>4 DEF Recorded
  <2>2. PairsOf(manifest.ids[k] \cup {q}) = PairsOf(manifest.ids[k]) \cup Pairs(q)
    BY PairsGrow
  <2>3. CASE k \in {"evaluated", "failed"}
    BY <1>7, <2>1, <2>2, <2>3
  <2>4. CASE k \in {"successful", "filtered", "pruned"}
    BY <1>7, <1>9, <2>1, <2>4
  <2> QED BY <1>2, <2>3, <2>4
<1>11. /\ r.ids["evaluated"] = Seen'
       /\ r.ids["failed"] = {p \in Seen' : Failed(outcome[p])}
       /\ r.ids["successful"] = {p \in Seen' : ~ Failed(outcome[p])}
       /\ r.ids["filtered"] = {} /\ r.ids["pruned"] = {}
  BY <1>4, <1>6, <1>7, <1>9 DEF Recorded
<1>12. \A p : Failed(outcome[p])' = Failed(outcome[p])
  BY <1>1 DEF Failed
<1>13. Recorded(manifest.ids, manifest.shown)'
  BY <1>1, <1>10, <1>11, <1>12 DEF Recorded
<1>14. Balanced(manifest.ids)'
  BY <1>13 DEF Recorded, Balanced
<1>15. r \in Manifests
  BY <1>5
<1> QED BY <1>1, <1>13, <1>14, <1>15 DEF BInv

(* A success may be given any other verdict, once. *)
LEMMA ReclassifyBInv ==
  ASSUME IInv, BInv, NEW p \in Points, Reclassify(p) PROVE BInv'
<1>1. /\ manifest \in Manifests /\ Balanced(manifest.ids) /\ p \in manifest.ids["successful"]
      /\ Seen' = Seen /\ status' = "reclassified"
  BY DEF BInv, Reclassify, Seen
<1>2. Kinds = {"evaluated", "successful", "filtered", "failed", "pruned"}
  BY DEF Kinds, Verdicts
<1>3. ASSUME NEW v \in {"failed", "filtered"},
             manifest' = Mark(RecordEvaluated(Unsuccessful(manifest, p), p), v, p)
      PROVE  manifest' \in Manifests /\ Balanced(manifest.ids)'
  <2> DEFINE r == Mark(RecordEvaluated(Unsuccessful(manifest, p), p), v, p)
  <2>1. /\ r \in Manifests
        /\ r.ids["successful"] = manifest.ids["successful"] \ {p}
        /\ \A k \in {"evaluated", v} : r.ids[k] = manifest.ids[k] \cup {p}
        /\ \A k \in Kinds \ {"evaluated", v, "successful"} : r.ids[k] = manifest.ids[k]
    BY <1>1, VerdictRecords
  <2>2. manifest' = r
    BY <1>3
  <2> HIDE DEF r
  <2>3. CASE v = "failed"
    BY <1>1, <1>2, <2>1, <2>2, <2>3 DEF Balanced
  <2>4. CASE v = "filtered"
    BY <1>1, <1>2, <2>1, <2>2, <2>4 DEF Balanced
  <2> QED BY <2>3, <2>4
<1>4. CASE manifest' = RecordFailed(manifest, p)
  BY <1>1, <1>3, <1>4 DEF BInv, RecordFailed
<1>5. CASE manifest' = RecordFiltered(manifest, p)
  BY <1>1, <1>3, <1>5 DEF BInv, RecordFiltered
<1>6. CASE manifest' = RecordPruned(manifest, p)
  <2> DEFINE r == RecordPruned(manifest, p)
  <2>1. /\ r \in Manifests
        /\ \A k \in {"evaluated", "successful"} : r.ids[k] = manifest.ids[k] \ {p}
        /\ r.ids["pruned"] = manifest.ids["pruned"] \cup {p}
        /\ \A k \in {"filtered", "failed"} : r.ids[k] = manifest.ids[k]
    BY <1>1, PrunedRecords
  <2>2. manifest' = r
    BY <1>6
  <2> HIDE DEF r
  <2>3. Balanced(manifest.ids)'
    BY <1>1, <2>1, <2>2 DEF Balanced
  <2> QED BY <1>1, <2>1, <2>2, <2>3 DEF BInv
<1> QED BY <1>4, <1>5, <1>6 DEF Reclassify

(* Nothing else touches the manifest. *)
LEMMA StaysBInv ==
  ASSUME BInv, UNCHANGED <<outcome, manifest>>, Len(results') = Len(results),
         status' = status \/ status # "reclassified"
  PROVE  BInv'
<1>1. Seen' = Seen /\ \A p : Failed(outcome[p])' = Failed(outcome[p])
  BY DEF Seen, Failed
<1> QED BY <1>1 DEF BInv, Balanced, Recorded

(* Every step keeps the manifest in balance. *)
LEMMA NextBInv == ASSUME RunnerAssumption, IInv, BInv, [Next]_vars PROVE BInv'
<1>1. CASE EvaluateFails
  BY <1>1, FailsBInv
<1>2. CASE EvaluateCompletes
  BY <1>2, CompletesBInv
<1>3. CASE Return
  <2>1. Len(Demoted(results)) = Len(results)
    <3>1. results \in Seq(Results) /\ \A i \in 1..Len(results) : results[i] = Rated(i)
      BY <1>3 DEF Return, IInv
    <3> QED BY <3>1, DemotedIsFinal
  <2> QED BY <1>3, <2>1, StaysBInv DEF Return
<1>4. CASE Recommend
  BY <1>4, StaysBInv DEF Recommend
<1>5. CASE Replay
  BY <1>5, StaysBInv DEF Replay
<1>6. CASE GateFails
  BY <1>6, StaysBInv DEF GateFails
<1>7. CASE GatePublishes
  BY <1>7, StaysBInv DEF GatePublishes
<1>8. ASSUME NEW p \in Points, Reclassify(p) PROVE BInv'
  BY <1>8, ReclassifyBInv
<1>9. CASE UNCHANGED vars
  BY <1>9, StaysBInv DEF vars
<1> QED BY <1>1, <1>2, <1>3, <1>4, <1>5, <1>6, <1>7, <1>8, <1>9 DEF Next

LEMMA AlwaysBInv == ASSUME RunnerAssumption PROVE Behaviour => [](IInv /\ FInv /\ BInv)
<1>1. Init => BInv
  BY InitBInv
<1>2. IInv /\ BInv /\ [Next]_vars => BInv'
  BY NextBInv
<1> QED BY <1>1, <1>2, AlwaysFInv, PTL DEF Behaviour

(* All points have been generated in order, so there are finitely many. *)
LEMMA PointsAreFinite ==
  ASSUME RunnerAssumption
  PROVE  IsFiniteSet(Points) /\ Points = {Order[i] : i \in 1..Len(Order)}
<1>1. Order \in Seq(Points) /\ Elements(Order) = Points
  BY DEF RunnerAssumption, Elements
<1>2. DOMAIN Order = 1..Len(Order)
  BY <1>1
<1> QED BY <1>1, <1>2, FinitelyMany DEF Elements

(* Parts that exclude each other add up. *)
LEMMA PartsAddUp ==
  ASSUME NEW S, NEW T, IsFiniteSet(S), IsFiniteSet(T), S \cap T = {}
  PROVE  IsFiniteSet(S \cup T) /\ Cardinality(S \cup T) = Cardinality(S) + Cardinality(T)
<1>1. /\ IsFiniteSet(S \cup T)
      /\ Cardinality(S \cup T) = Cardinality(S) + Cardinality(T) - Cardinality(S \cap T)
  BY FS_Union
<1>2. Cardinality(S \cap T) = 0
  BY FS_EmptySet
<1>3. Cardinality(S) \in Nat /\ Cardinality(T) \in Nat
  BY FS_CardinalityType
<1> DEFINE a == Cardinality(S)
           b == Cardinality(T)
           c == Cardinality(S \cap T)
           d == Cardinality(S \cup T)
<1>4. d = a + b - c /\ c = 0 /\ a \in Nat /\ b \in Nat
  BY <1>1, <1>2, <1>3
<1> HIDE DEF a, b, c, d
<1>5. d = a + b
  BY <1>4
<1> QED BY <1>1, <1>5 DEF a, b, d

(* The counts of the manifest add up after a run, whatever successes its   *)
(* caller reclassifies (CoverageManifest.validate), and until then the     *)
(* axis values shown are those of the points recorded.                     *)
THEOREM CoverageIsTrue ==
  ASSUME RunnerAssumption PROVE Behaviour => [](ManifestBalanced /\ CoverageTrue)
<1>1. ASSUME BInv PROVE CoverageTrue
  BY <1>1 DEF BInv, Recorded, CoverageTrue
<1>2. ASSUME RunnerAssumption, BInv, Ended PROVE CountsBalance(manifest)
  <2> DEFINE e == manifest.ids["evaluated"]
             u == manifest.ids["pruned"]
             s == manifest.ids["successful"]
             i == manifest.ids["filtered"]
             f == manifest.ids["failed"]
  <2>1. IsFiniteSet(Points) /\ Points = Seen
    BY <1>2, PointsAreFinite DEF Seen, Ended
  <2>2. e \cup u = Points /\ e \cap u = {} /\ (s \cup i) \cup f = e
        /\ s \cap i = {} /\ (s \cup i) \cap f = {}
    BY <1>2, <2>1 DEF BInv, Balanced
  <2> HIDE DEF e, u, s, i, f
  <2>3. /\ IsFiniteSet(e) /\ IsFiniteSet(u) /\ IsFiniteSet(s) /\ IsFiniteSet(i)
        /\ IsFiniteSet(f) /\ IsFiniteSet(s \cup i)
    <3>1. \A T \in SUBSET Points : IsFiniteSet(T)
      BY <2>1, FS_Subset
    <3>2. /\ e \in SUBSET Points /\ u \in SUBSET Points /\ s \in SUBSET Points
          /\ i \in SUBSET Points /\ f \in SUBSET Points /\ s \cup i \in SUBSET Points
      BY <2>2
    <3> QED BY <3>1, <3>2
  <2>4. Cardinality(Points) = Cardinality(e) + Cardinality(u)
    BY <2>2, <2>3, PartsAddUp
  <2>5. Cardinality(s \cup i) = Cardinality(s) + Cardinality(i)
    BY <2>2, <2>3, PartsAddUp
  <2>6. Cardinality(e) = Cardinality(s \cup i) + Cardinality(f)
    BY <2>2, <2>3, PartsAddUp
  <2> QED BY <2>4, <2>5, <2>6 DEF CountsBalance, Count, e, u, s, i, f
<1>3. RunnerAssumption /\ BInv => ManifestBalanced /\ CoverageTrue
  BY <1>1, <1>2 DEF ManifestBalanced
<1> QED BY <1>3, AlwaysBInv, PTL

-----------------------------------------------------------------------------
(* The release gate.                                                       *)

(* The gate lets through only runs of the exploratory profile without a    *)
(* failed point and without an axis value left out: no run of its own is   *)
(* rated authoritative as a whole, as the other profile would need.        *)
GInv ==
    status = "gate_pass" =>
        /\ ~config.missing /\ config.trust_mode = "exploratory" /\ set_trust # "none"
        /\ \A p \in Points : ~ Failed(outcome[p])

(* A coverage without failures is of a run without failures. *)
LEMMA CoveredIsComplete ==
  ASSUME RunnerAssumption, IInv, BInv, status = "returned", Count(manifest, "failed") = 0
  PROVE  \A p \in Points : ~ Failed(outcome[p])
<1>1. Len(results) = Len(Order)
  BY DEF IInv
<1>2. IsFiniteSet(Points) /\ Points = Seen
  BY <1>1, PointsAreFinite DEF Seen
<1>3. manifest.ids["failed"] = {p \in Points : Failed(outcome[p])}
  BY <1>2 DEF BInv, Recorded
<1>4. IsFiniteSet(manifest.ids["failed"])
  <2>1. manifest.ids["failed"] \in SUBSET Points
    BY <1>3
  <2> QED BY <1>2, <2>1, FS_Subset
<1>5. manifest.ids["failed"] = {}
  BY <1>4, FS_EmptySet DEF Count
<1> QED BY <1>3, <1>5

LEMMA NextGInv ==
  ASSUME RunnerAssumption, IInv, FInv, BInv, GInv, [Next]_vars
  PROVE  GInv'
<1>1. CASE status' # "gate_pass"
  BY <1>1 DEF GInv
<1>2. CASE GatePublishes
  <2>1. /\ status = "returned" /\ UNCHANGED <<config, outcome, set_trust>>
        /\ ~config.missing /\ Count(manifest, "failed") = 0
        /\ config.trust_mode # "exploratory" => set_trust = "authoritative"
    BY <1>2 DEF GatePublishes, GatePasses, CoverageComplete, Authoritative
  <2>2. set_trust # "none" /\ set_trust # "authoritative"
    BY <2>1 DEF IInv, FInv
  <2>3. \A p \in Points : ~ Failed(outcome[p])
    BY <2>1, CoveredIsComplete
  <2>4. \A p : Failed(outcome[p])' = Failed(outcome[p])
    BY <2>1 DEF Failed
  <2> QED BY <2>1, <2>2, <2>3, <2>4 DEF GInv
<1>3. CASE UNCHANGED vars
  BY <1>3 DEF vars, GInv, Failed
<1>4. ASSUME Next, ~ GatePublishes PROVE status' # "gate_pass"
  BY <1>4 DEF Next, EvaluateFails, EvaluateCompletes, Evaluate, Evaluating, Return, Recommend,
              Replay, GateFails, Reclassify
<1> QED BY <1>1, <1>2, <1>3, <1>4

(* What the gate publishes has no failed point and no axis value left out  *)
(* (_check_coverage_complete, _check_decision_grade), and what the command *)
(* line wrote verifies when replayed.                                      *)
THEOREM ArtifactIsHonest ==
  ASSUME RunnerAssumption PROVE Behaviour => [](ReplayVerifies /\ ArtifactHonest)
<1>1. Init => GInv
  BY DEF Init, GInv
<1>2. RunnerAssumption /\ IInv /\ FInv /\ BInv /\ GInv /\ [Next]_vars => GInv'
  BY NextGInv
<1>3. ASSUME RunnerAssumption, IInv, GInv PROVE ArtifactHonest
  <2> SUFFICES ASSUME status = "gate_pass", NEW r \in Elements(results)
               PROVE  r.status = "complete"
    BY <1>3 DEF ArtifactHonest, GInv
  <2>1. PICK i \in 1..Len(results) : r = Final(i)
    BY <1>3 DEF IInv, GInv, Elements
  <2>2. ~ Failed(outcome[Order[i]])
    BY <1>3, <2>1 DEF GInv, IInv, RunnerAssumption
  <2>3. Rated(i).status = "complete"
    BY <2>2 DEF Rated, ResultOf
  <2> QED BY <2>1, <2>3 DEF Final, Rated, ResultOf
<1>4. RunnerAssumption /\ IInv /\ GInv => ReplayVerifies /\ ArtifactHonest
  BY <1>3 DEF IInv, ReplayVerifies
<1> QED BY <1>1, <1>2, <1>4, AlwaysBInv, PTL DEF Behaviour

-----------------------------------------------------------------------------
(* Types and frontier, whatever came to the points.                        *)

(* The types, and the results of a run that has returned or was stopped    *)
(* before its first point.                                                 *)
LEMMA TypesHold ==
  ASSUME RunnerAssumption, IInv, FInv, BInv
  PROVE  TypeOK
<1>1. Order \in Seq(Points) /\ results \in Seq(Results)
  BY DEF RunnerAssumption, IInv
<1>2. \A i \in DOMAIN results : results[i].point = Order[i]
  <2>1. \A i : Rated(i).point = Order[i] /\ Final(i).point = Order[i]
    BY DEF Rated, Final, ResultOf
  <2>2. \A i \in 1..Len(results) : results[i] = Rated(i) \/ results[i] = Final(i)
    BY DEF IInv, FInv
  <2> QED BY <1>1, <2>1, <2>2
<1>3. frontier \subseteq Elements(results)
  BY DEF IInv, FInv
<1>4. manifest.ids \in [Kinds -> SUBSET Points]
  BY DEF BInv, Manifests
<1> QED BY <1>2, <1>3, <1>4 DEF TypeOK, IInv, FInv

(* compute_frontier keeps what no other eligible point beats, and of what  *)
(* it leaves out each eligible point is beaten by one it kept; nothing is  *)
(* offered of a partial run, and calibrated points only of a               *)
(* decision_grade one; the types hold.                                     *)
THEOREM FrontierIsSound ==
  ASSUME RunnerAssumption
  PROVE  Behaviour => [](TypeOK /\ FrontierSound /\ PartialOffersNothing /\ DecisionGradeCalibrated)
<1>1. ASSUME RunnerAssumption, IInv, FInv, BInv PROVE TypeOK /\ FrontierSound
  <2>1. TypeOK
    BY <1>1, TypesHold
  <2>2. CASE set_trust = "none"
    <3> SUFFICES ASSUME Ended PROVE FrontierSound
      BY <2>1 DEF FrontierSound
    <3>1. frontier = {} /\ results = <<>>
      BY <1>1, <2>2 DEF IInv, Ended
    <3>2. Elements(results) = {}
      BY <3>1 DEF Elements
    <3> QED BY <2>1, <3>1, <3>2 DEF FrontierSound
  <2>3. CASE set_trust # "none"
    <3>1. frontier = Frontier(results) /\ results \in Seq(Results)
          /\ outcome \in [Points -> Outcomes]
      BY <1>1, <2>3 DEF FInv, IInv
    <3> QED BY <1>1, <2>1, <3>1, FrontierIsCover DEF FrontierSound
  <2> QED BY <2>2, <2>3
<1>2. RunnerAssumption /\ IInv /\ FInv /\ BInv => TypeOK /\ FrontierSound
  BY <1>1
<1> QED BY <1>2, AlwaysBInv, PartialRunsOfferNothing, DecisionGradeIsCalibrated, PTL

-----------------------------------------------------------------------------
(* The replay bundle on disk, for every number of writers, whatever they   *)
(* agree on, overlapping and crashing at any point.                        *)

CONSTANTS Writers, Shared
VARIABLES concurrent, overwrite, files, step, at, sums, last

Bundle == INSTANCE ReplayBundle

Steps == {"idle", "check", "sum", "open", "write", "done", "refused", "crashed"}

(* What may be in a file of the payload: nothing, or what some writer      *)
(* means to write there.                                                   *)
Contents == {Bundle!Absent, Bundle!Torn}
      \cup {Bundle!PayloadContent(w, f) : w \in Writers, f \in Bundle!PayloadFiles}

TypeInv ==
    /\ overwrite \in [Writers -> BOOLEAN] /\ concurrent \in BOOLEAN
    /\ step \in [Writers -> Steps] /\ at \in [Writers -> 1..6]
    /\ sums \in [Writers -> Seq(Bundle!PayloadFiles \X Contents)]
    /\ DOMAIN files = Bundle!Files
    /\ \A f \in Bundle!PayloadFiles :
          files[f] \in {Bundle!Absent, Bundle!Torn}
                \cup {Bundle!PayloadContent(w, f) : w \in Writers}

(* How far a writer is: it sums up between the payload and the rest. *)
InPlace(w) ==
    /\ step[w] = "idle" => at[w] = 1
    /\ step[w] \in {"idle", "check", "open", "write"} /\ at[w] <= 4 => sums[w] = <<>>
    /\ step[w] = "sum" => at[w] = 5 /\ Len(sums[w]) < 4
    /\ step[w] \in {"check", "open", "write"} /\ at[w] >= 5 => Len(sums[w]) = 4
    /\ step[w] = "done" => at[w] = 6 /\ Len(sums[w]) = 4

BundleInv == TypeInv /\ \A w \in Writers : InPlace(w)

(* What a writer means to write as its i-th file, and has if it was not    *)
(* disturbed.                                                              *)
Meant(w, i) == IF i = 5 THEN sums[w] ELSE IF i = 6 THEN Bundle!Digest(w)
      ELSE Bundle!PayloadContent(w, Bundle!FileOrder[i])
Undisturbed(w) ==
    /\ \A i \in 1..6 : i < at[w] \/ step[w] = "done" => files[Bundle!FileOrder[i]] = Meant(w, i)
    /\ \A k \in 1..Len(sums[w]) : sums[w][k]
          = <<Bundle!Payload[k], Bundle!PayloadContent(w, Bundle!Payload[k])>>

(* Writers that do not overlap: only the last one is active, and what it   *)
(* has written so far is there.                                            *)
SerialInv ==
    ~concurrent =>
        /\ last = {} \/ \E w \in Writers : last = {w}
        /\ \A w \in Writers : Bundle!Active(w) => w \in last
        /\ \A w \in last : Bundle!Active(w) \/ step[w] = "done" => Undisturbed(w)

-----------------------------------------------------------------------------
(* The files in the order they are written. *)
LEMMA FilesInOrder ==
    /\ Bundle!FileOrder = <<"inputs", "result", "coverage", "manifest", "SHA256SUMS", "metadata">>
    /\ Bundle!Files = {"inputs", "result", "coverage", "manifest", "SHA256SUMS", "metadata"}
    /\ Bundle!PayloadFiles = {"inputs", "result", "coverage", "manifest"}
    /\ Len(Bundle!FileOrder) = 6 /\ Len(Bundle!Payload) = 4
<1> DEFINE P == <<"inputs", "result", "coverage", "manifest">>
           M == <<"SHA256SUMS", "metadata">>
           N == {"inputs", "result", "coverage", "manifest", "SHA256SUMS", "metadata"}
<1>1. Bundle!FileOrder = <<"inputs", "result", "coverage", "manifest", "SHA256SUMS", "metadata">>
  <2>1. P \in Seq(N) /\ M \in Seq(N) /\ Len(P) = 4 /\ Len(M) = 2
    OBVIOUS
  <2>2. P \o M \in Seq(N) /\ Len(P \o M) = 6
    BY <2>1
  <2>3. \A i \in 1..6 : (P \o M)[i] = IF i <= 4 THEN P[i] ELSE M[i - 4]
    BY <2>1
  <2>4. /\ (P \o M)[1] = "inputs" /\ (P \o M)[2] = "result" /\ (P \o M)[3] = "coverage"
        /\ (P \o M)[4] = "manifest" /\ (P \o M)[5] = "SHA256SUMS" /\ (P \o M)[6] = "metadata"
    BY <2>3
  <2> DEFINE F == <<"inputs", "result", "coverage", "manifest", "SHA256SUMS", "metadata">>
             PM == P \o M
  <2>5. F \in Seq(N) /\ Len(F) = 6
    OBVIOUS
  <2>6. \A i \in 1..6 : i \in {1, 2, 3, 4, 5, 6}
    OBVIOUS
  <2>7. \A i \in 1..6 : PM[i] = F[i]
    BY <2>4, <2>6
  <2>8. PM = F
    <3> HIDE DEF PM, F
    <3> QED BY <2>2, <2>5, <2>7, SeqEqual DEF PM
  <2> QED BY <2>8 DEF Bundle!FileOrder, Bundle!Payload
<1>2. DOMAIN Bundle!FileOrder = 1..6 /\ DOMAIN Bundle!Payload = 1..4
  BY <1>1 DEF Bundle!Payload
<1>3. Bundle!Files = {"inputs", "result", "coverage", "manifest", "SHA256SUMS", "metadata"}
  <2>1. Bundle!Files = {Bundle!FileOrder[i] : i \in 1..6}
    BY <1>2 DEF Bundle!Files
  <2>2. 1..6 = {1, 2, 3, 4, 5, 6}
    OBVIOUS
  <2> QED BY <1>1, <2>1, <2>2
<1>4. Bundle!PayloadFiles = {"inputs", "result", "coverage", "manifest"}
  <2>1. Bundle!PayloadFiles = {Bundle!Payload[i] : i \in 1..4}
    BY <1>2 DEF Bundle!PayloadFiles
  <2>2. 1..4 = {1, 2, 3, 4}
    OBVIOUS
  <2> QED BY <2>1, <2>2 DEF Bundle!Payload
<1>5. Len(Bundle!FileOrder) = 6 /\ Len(Bundle!Payload) = 4
  BY <1>1 DEF Bundle!Payload
<1> QED BY <1>1, <1>3, <1>4, <1>5

(* Each file has one place in the order, payload first. *)
LEMMA PlacesOfFiles ==
    /\ \A i, j \in 1..6 : Bundle!FileOrder[i] = Bundle!FileOrder[j] => i = j
    /\ \A i \in 1..4 : Bundle!FileOrder[i] = Bundle!Payload[i]
          /\ Bundle!Payload[i] \in Bundle!PayloadFiles
    /\ \A i \in 1..6 : Bundle!FileOrder[i] \in Bundle!Files
    /\ \A i \in 1..6 : Bundle!FileOrder[i] \in Bundle!PayloadFiles <=> i <= 4
    /\ Bundle!FileOrder[5] = "SHA256SUMS" /\ Bundle!FileOrder[6] = "metadata"
<1>1. \A i \in 1..6 : i \in {1, 2, 3, 4, 5, 6}
  OBVIOUS
<1> QED BY <1>1, FilesInOrder DEF Bundle!Payload

(* Nothing is written yet. *)
LEMMA InitBundleInv == ASSUME Bundle!Init PROVE BundleInv
<1>1. TypeInv
  BY FilesInOrder DEF Bundle!Init, TypeInv, Steps
<1>2. \A w \in Writers : InPlace(w)
  BY DEF Bundle!Init, InPlace
<1> QED BY <1>1, <1>2 DEF BundleInv

(* A writer's step leaves in a file what was there, or a part of its own   *)
(* run, or breaks it off.                                                  *)
LEMMA NextTypeInv == ASSUME BundleInv, [Bundle!Next]_Bundle!vars PROVE TypeInv'
<1> USE DEF TypeInv, BundleInv
<1>1. ASSUME NEW w \in Writers, Bundle!Start(w) PROVE TypeInv'
  BY <1>1 DEF Bundle!Start, Bundle!Become, Steps
<1>2. ASSUME NEW w \in Writers, Bundle!Check(w) PROVE TypeInv'
  BY <1>2 DEF Bundle!Check, Bundle!Become, Steps
<1>3. ASSUME NEW w \in Writers, Bundle!Sum(w) PROVE TypeInv'
  <2> DEFINE f == Bundle!Payload[Len(sums[w]) + 1]
  <2>1. Len(sums[w]) + 1 \in 1..4
    BY <1>3 DEF Bundle!Sum, InPlace
  <2>2. f \in Bundle!PayloadFiles
    BY <2>1, PlacesOfFiles
  <2>3. files[f] \in Contents
    BY <2>2 DEF Contents
  <2> QED BY <1>3, <2>2, <2>3, FilesInOrder DEF Bundle!Sum, Bundle!Become, Steps
<1>4. ASSUME NEW w \in Writers, Bundle!Open(w) PROVE TypeInv'
  BY <1>4 DEF Bundle!Open, Bundle!Become, Steps
<1>5. ASSUME NEW w \in Writers, Bundle!Write(w) PROVE TypeInv'
  <2>1. step' \in [Writers -> Steps] /\ at' \in [Writers -> 1..6]
    BY <1>5, FilesInOrder DEF Bundle!Write, Bundle!Become, Steps
  <2>2. Bundle!File(w) \in Bundle!PayloadFiles
        => Bundle!Content(w) = Bundle!PayloadContent(w, Bundle!File(w))
    BY FilesInOrder DEF Bundle!Content
  <2>3. DOMAIN files' = Bundle!Files
    BY <1>5 DEF Bundle!Write
  <2>4. \A f \in Bundle!PayloadFiles : files'[f] = IF f = Bundle!File(w) THEN Bundle!Content(w)
        ELSE files[f]
    BY <1>5, FilesInOrder DEF Bundle!Write
  <2> QED BY <1>5, <2>1, <2>2, <2>3, <2>4 DEF Bundle!Write
<1>6. ASSUME NEW w \in Writers, Bundle!Crash(w) PROVE TypeInv'
  BY <1>6 DEF Bundle!Crash, Bundle!Become, Steps
<1>7. ASSUME UNCHANGED Bundle!vars PROVE TypeInv'
  BY <1>7 DEF Bundle!vars
<1> QED BY <1>1, <1>2, <1>3, <1>4, <1>5, <1>6, <1>7 DEF Bundle!Next

(* A writer's step moves it on, and no other writer. *)
LEMMA NextInPlace == ASSUME BundleInv, [Bundle!Next]_Bundle!vars, NEW v \in Writers
         PROVE InPlace(v)'
<1> USE DEF TypeInv, BundleInv, InPlace
<1>1. ASSUME NEW w \in Writers, Bundle!Start(w) PROVE InPlace(v)'
  BY <1>1 DEF Bundle!Start, Bundle!Become
<1>2. ASSUME NEW w \in Writers, Bundle!Check(w) PROVE InPlace(v)'
  BY <1>2 DEF Bundle!Check, Bundle!Become
<1>3. ASSUME NEW w \in Writers, Bundle!Sum(w) PROVE InPlace(v)'
  <2> DEFINE e == <<Bundle!Payload[Len(sums[w]) + 1], files[Bundle!Payload[Len(sums[w]) + 1]]>>
  <2>1. Len(Append(sums[w], e)) = Len(sums[w]) + 1 /\ Len(sums[w]) \in Nat
    OBVIOUS
  <2>2. /\ sums' = [sums EXCEPT ![w] = Append(@, e)] /\ at' = at
        /\ step' = [step EXCEPT ![w] = IF Len(sums[w]) + 1 = 4 THEN "check" ELSE "sum"]
        /\ step[w] = "sum"
    BY <1>3, FilesInOrder DEF Bundle!Sum, Bundle!Become
  <2> HIDE DEF e
  <2>3. CASE v = w
    BY <2>1, <2>2, <2>3
  <2>4. CASE v # w
    BY <2>2, <2>4
  <2> QED BY <2>3, <2>4
<1>4. ASSUME NEW w \in Writers, Bundle!Open(w) PROVE InPlace(v)'
  BY <1>4 DEF Bundle!Open, Bundle!Become
<1>5. ASSUME NEW w \in Writers, Bundle!Write(w) PROVE InPlace(v)'
  <2>1. /\ step[w] = "write" /\ sums' = sums
        /\ at' = [at EXCEPT ![w] = IF @ < 6 THEN @ + 1 ELSE @]
        /\ step' = [step EXCEPT ![w] = CASE at[w] = 4 -> "sum" [] at[w] = 6 -> "done"
              [] OTHER -> "check"]
    BY <1>5, FilesInOrder DEF Bundle!Write, Bundle!Become
  <2>2. CASE v # w
    BY <2>1, <2>2
  <2>3. CASE v = w
    <3>1. CASE at[w] = 4
      <4>1. step'[w] = "sum" /\ at'[w] = 5 /\ sums'[w] = <<>>
        BY <2>1, <3>1
      <4> QED BY <2>3, <4>1
    <3>2. CASE at[w] = 6
      <4>1. step'[w] = "done" /\ at'[w] = 6 /\ Len(sums'[w]) = 4
        BY <2>1, <3>2
      <4> QED BY <2>3, <4>1
    <3>3. CASE at[w] \notin {4, 6}
      <4>1. at[w] \in 1..3 \/ at[w] = 5
        BY <3>3
      <4>2. step'[w] = "check" /\ at'[w] = at[w] + 1 /\ sums'[w] = sums[w]
        BY <2>1, <4>1
      <4>3. (at[w] \in 1..3 /\ sums[w] = <<>>) \/ (at[w] = 5 /\ Len(sums[w]) = 4)
        BY <2>1, <4>1
      <4> QED BY <2>3, <4>2, <4>3
    <3> QED BY <3>1, <3>2, <3>3
  <2> QED BY <2>2, <2>3
<1>6. ASSUME NEW w \in Writers, Bundle!Crash(w) PROVE InPlace(v)'
  BY <1>6 DEF Bundle!Crash, Bundle!Become
<1>7. ASSUME UNCHANGED Bundle!vars PROVE InPlace(v)'
  BY <1>7 DEF Bundle!vars
<1> QED BY <1>1, <1>2, <1>3, <1>4, <1>5, <1>6, <1>7 DEF Bundle!Next

LEMMA NextBundleInv == ASSUME BundleInv, [Bundle!Next]_Bundle!vars PROVE BundleInv'
BY NextTypeInv, NextInPlace DEF BundleInv

-----------------------------------------------------------------------------
(* What a writer means to write is not taken for a file that is missing or *)
(* broken off.                                                             *)
LEMMA ContentsAreWhole ==
  ASSUME NEW w \in Writers, NEW f \in Bundle!PayloadFiles
  PROVE  Bundle!PayloadContent(w, f) \notin {Bundle!Absent, Bundle!Torn}
           /\ Bundle!Digest(w) \notin {Bundle!Absent, Bundle!Torn}
BY FilesInOrder DEF Bundle!PayloadContent, Bundle!Part, Bundle!Digest, Bundle!Absent, Bundle!Torn

(* Whatever writers did, a bundle that read_replay_bundle accepts is of    *)
(* one run: its manifest names the digest of that run's three parts.       *)
THEOREM AcceptedBundlesAreOfOneRun == Bundle!Spec => []Bundle!AcceptedIsOneRun
<1>1. Bundle!Init => BundleInv
  BY InitBundleInv
<1>2. BundleInv /\ [Bundle!Next]_Bundle!vars => BundleInv'
  BY NextBundleInv
<1>3. BundleInv => Bundle!AcceptedIsOneRun
  <2> SUFFICES ASSUME BundleInv, Bundle!Accepts PROVE \E w \in Writers : Bundle!IsOf(w)
    BY DEF Bundle!AcceptedIsOneRun
  <2>1. PICK w \in Writers : files["manifest"] = Bundle!PayloadContent(w, "manifest")
    BY FilesInOrder DEF Bundle!Accepts, BundleInv, TypeInv
  <2>2. files["manifest"] = Bundle!Digest(w)
    BY <2>1 DEF Bundle!PayloadContent
  <2>3. <<files["inputs"], files["result"], files["coverage"]>> = Bundle!Digest(w)
    BY <2>2 DEF Bundle!Accepts, Bundle!PayloadDigest
  <2>4. /\ files["inputs"] = Bundle!Part(w, "inputs") /\ files["result"] = Bundle!Part(w, "result")
        /\ files["coverage"] = Bundle!Part(w, "coverage")
    BY <2>3 DEF Bundle!Digest
  <2> QED BY <2>1, <2>4, FilesInOrder DEF Bundle!IsOf, Bundle!PayloadContent
<1> QED BY <1>1, <1>2, <1>3, PTL DEF Bundle!Spec

-----------------------------------------------------------------------------
(* No one has started. *)
LEMMA InitSerialInv == ASSUME Bundle!Init PROVE SerialInv
BY DEF Bundle!Init, SerialInv, Bundle!Active

(* A step of the only writer that is active keeps what it has written.     *)
LEMMA NextUndisturbed ==
  ASSUME BundleInv, NEW w \in Writers, Bundle!Active(w), Undisturbed(w), Bundle!Check(w)
           \/ Bundle!Sum(w) \/ Bundle!Open(w) \/ Bundle!Write(w)
  PROVE  Undisturbed(w)'
<1> USE DEF BundleInv, TypeInv, InPlace, Undisturbed
<1>1. ASSUME Bundle!Check(w) PROVE Undisturbed(w)'
  <2>1. step[w] = "check" /\ step'[w] # "done" /\ at' = at /\ sums' = sums /\ files' = files
    BY <1>1 DEF Bundle!Check, Bundle!Become
  <2> QED BY <2>1 DEF Meant, Bundle!PayloadContent, Bundle!Digest, Bundle!Part
<1>2. ASSUME Bundle!Sum(w) PROVE Undisturbed(w)'
  <2> DEFINE k == Len(sums[w]) + 1
             e == <<Bundle!Payload[k], files[Bundle!Payload[k]]>>
  <2>1. /\ step[w] = "sum" /\ step'[w] # "done" /\ at' = at /\ files' = files /\ at[w] = 5
        /\ sums'[w] = Append(sums[w], e)
    BY <1>2 DEF Bundle!Sum, Bundle!Become
  <2>2. k \in 1..4
    BY <2>1
  <2>3. files[Bundle!FileOrder[k]] = Meant(w, k)
    BY <2>1, <2>2
  <2>4. e = <<Bundle!Payload[k], Bundle!PayloadContent(w, Bundle!Payload[k])>>
    BY <2>2, <2>3, PlacesOfFiles DEF Meant
  <2>5. /\ Len(sums'[w]) = k /\ sums'[w][k] = e
        /\ \A j \in 1..Len(sums[w]) : sums'[w][j] = sums[w][j]
    <3> HIDE DEF e
    <3> QED BY <2>1
  <2>8. \A i \in 1..6 : i # 5 => Meant(w, i)' = Meant(w, i)
    BY DEF Meant, Bundle!PayloadContent, Bundle!Digest, Bundle!Part
  <2>9. \A i \in 1..6 : i < 5 => files[Bundle!FileOrder[i]] = Meant(w, i)
    BY <2>1
  <2>6. \A i \in 1..6 : i < at'[w] \/ step'[w] = "done"
        => files'[Bundle!FileOrder[i]] = Meant(w, i)'
    <3> HIDE DEF Undisturbed, BundleInv
    <3> QED BY <2>1, <2>8, <2>9
  <2>7. \A j \in 1..Len(sums'[w]) : sums'[w][j]
        = <<Bundle!Payload[j], Bundle!PayloadContent(w, Bundle!Payload[j])>>
    <3> SUFFICES ASSUME NEW j \in 1..Len(sums'[w])
                 PROVE  sums'[w][j] = <<Bundle!Payload[j], Bundle!PayloadContent(w, Bundle!Payload[j])>>
      OBVIOUS
    <3>1. CASE j = k
      BY <2>4, <2>5, <3>1
    <3>2. CASE j # k
      <4>1. j \in 1..Len(sums[w])
        BY <2>2, <2>5, <3>2
      <4> QED BY <4>1, <2>5
    <3> QED BY <3>1, <3>2
  <2> QED BY <2>6, <2>7 DEF Bundle!PayloadContent, Bundle!Digest, Bundle!Part
<1>3. ASSUME Bundle!Open(w) PROVE Undisturbed(w)'
  <2>1. /\ step[w] = "open" /\ step'[w] # "done" /\ at' = at /\ sums' = sums
        /\ files' = [files EXCEPT ![Bundle!FileOrder[at[w]]] = Bundle!Torn]
    BY <1>3 DEF Bundle!Open, Bundle!Become, Bundle!File
  <2>2. \A i \in 1..6 : i < at[w] => files'[Bundle!FileOrder[i]] = files[Bundle!FileOrder[i]]
    <3>1. at[w] \in 1..6 /\ DOMAIN files = Bundle!Files
      OBVIOUS
    <3> HIDE DEF Undisturbed, BundleInv
    <3> QED BY <2>1, <3>1, PlacesOfFiles
  <2>3. \A i \in 1..6 : Meant(w, i)' = Meant(w, i)
    BY <2>1 DEF Meant, Bundle!PayloadContent, Bundle!Digest, Bundle!Part
  <2>4. \A k \in 1..Len(sums[w]) : sums[w][k]
        = <<Bundle!Payload[k], Bundle!PayloadContent(w, Bundle!Payload[k])>>
    OBVIOUS
  <2>5. \A f \in Bundle!PayloadFiles : Bundle!PayloadContent(w, f)' = Bundle!PayloadContent(w, f)
    BY DEF Bundle!PayloadContent, Bundle!Digest, Bundle!Part
  <2>6. \A i \in 1..6 : i < at'[w] => files'[Bundle!FileOrder[i]] = Meant(w, i)'
    BY <2>1, <2>2, <2>3
  <2>7. sums'[w] = sums[w] /\ step'[w] # "done"
    BY <2>1
  <2> QED BY <2>4, <2>6, <2>7 DEF Bundle!PayloadContent, Bundle!Digest, Bundle!Part
<1>4. ASSUME Bundle!Write(w) PROVE Undisturbed(w)'
  <2>1. /\ step[w] = "write" /\ sums' = sums
        /\ files' = [files EXCEPT ![Bundle!FileOrder[at[w]]] = Bundle!Content(w)]
        /\ at'[w] = IF at[w] < 6 THEN at[w] + 1 ELSE at[w]
        /\ step'[w] = "done" => at[w] = 6
    BY <1>4, FilesInOrder DEF Bundle!Write, Bundle!Become, Bundle!File
  <2>2. Bundle!Content(w) = Meant(w, at[w])
    <3>1. CASE at[w] = 5
      BY <3>1, PlacesOfFiles DEF Bundle!Content, Meant, Bundle!File
    <3>2. CASE at[w] = 6
      BY <3>2, PlacesOfFiles DEF Bundle!Content, Meant, Bundle!File
    <3>3. CASE at[w] <= 4
      BY <3>3, PlacesOfFiles, FilesInOrder DEF Bundle!Content, Meant, Bundle!File
    <3> QED BY <3>1, <3>2, <3>3
  <2>3. \A i \in 1..6 : Meant(w, i)' = Meant(w, i)
    BY <2>1 DEF Meant, Bundle!PayloadContent, Bundle!Digest, Bundle!Part
  <2>4. files'[Bundle!FileOrder[at[w]]] = Meant(w, at[w])
    BY <2>1, <2>2, PlacesOfFiles
  <2>5. \A i \in 1..6 : i # at[w] => files'[Bundle!FileOrder[i]] = files[Bundle!FileOrder[i]]
    BY <2>1, PlacesOfFiles
  <2>6. \A i \in 1..6 : i < at'[w] \/ step'[w] = "done" => i < at[w] \/ i = at[w]
    BY <2>1
  <2>7. \A i \in 1..6 : i < at'[w] \/ step'[w] = "done"
        => files'[Bundle!FileOrder[i]] = Meant(w, i)'
    <3> SUFFICES ASSUME NEW i \in 1..6, i < at'[w] \/ step'[w] = "done"
                 PROVE  files'[Bundle!FileOrder[i]] = Meant(w, i)'
      OBVIOUS
    <3>1. CASE i = at[w]
      BY <3>1, <2>3, <2>4
    <3>2. CASE i # at[w]
      <4>1. i < at[w]
        BY <3>2, <2>6
      <4>2. files[Bundle!FileOrder[i]] = Meant(w, i)
        BY <4>1
      <4> QED BY <4>2, <3>2, <2>3, <2>5
    <3> QED BY <3>1, <3>2
  <2>8. \A k \in 1..Len(sums[w]) : sums[w][k]
        = <<Bundle!Payload[k], Bundle!PayloadContent(w, Bundle!Payload[k])>>
    OBVIOUS
  <2> QED BY <2>1, <2>7, <2>8 DEF Bundle!PayloadContent, Bundle!Digest, Bundle!Part
<1> QED BY <1>1, <1>2, <1>3, <1>4

(* Without overlap the active writer is the last, and it is undisturbed.   *)
LEMMA NextSerialInv == ASSUME BundleInv, SerialInv, [Bundle!Next]_Bundle!vars PROVE SerialInv'
<1>1. CASE UNCHANGED Bundle!vars
  BY <1>1 DEF Bundle!vars, SerialInv, Bundle!Active, Undisturbed, Meant, Bundle!PayloadContent,
        Bundle!Digest, Bundle!Part
<1> USE DEF BundleInv, TypeInv
<1>2. ASSUME NEW w \in Writers, Bundle!Start(w) PROVE SerialInv'
  <2> SUFFICES ASSUME ~concurrent PROVE SerialInv'
    BY <1>2 DEF Bundle!Start, SerialInv
  <2>1. /\ last' = {w} /\ step[w] = "idle" /\ at' = at /\ sums' = sums
        /\ \A v \in Writers : ~Bundle!Active(v)
        /\ step'[w] \in {"refused", "check"} /\ \A v \in Writers : v # w => step'[v] = step[v]
    BY <1>2 DEF Bundle!Start, Bundle!Become
  <2>2. \A v \in Writers : Bundle!Active(v)' => v = w
    BY <2>1 DEF Bundle!Active
  <2>3. at'[w] = 1 /\ sums'[w] = <<>>
    BY <2>1 DEF InPlace
  <2>4. Undisturbed(w)'
    BY <2>1, <2>3 DEF Undisturbed
  <2> QED BY <2>1, <2>2, <2>4 DEF SerialInv
<1>3. ASSUME NEW w \in Writers, Bundle!Check(w) \/ Bundle!Sum(w) \/ Bundle!Open(w)
      \/ Bundle!Write(w) PROVE SerialInv'
  <2> SUFFICES ASSUME ~concurrent PROVE SerialInv'
    BY <1>3 DEF Bundle!Check, Bundle!Sum, Bundle!Open, Bundle!Write, SerialInv
  <2>1. Bundle!Active(w) /\ last' = last /\ \A v \in Writers : v # w => step'[v] = step[v]
    BY <1>3 DEF Bundle!Check, Bundle!Sum, Bundle!Open, Bundle!Write, Bundle!Become, Bundle!Active
  <2>2. last = {w} /\ \A v \in Writers : Bundle!Active(v) => v = w
    BY <2>1 DEF SerialInv
  <2>3. \A v \in Writers : Bundle!Active(v)' => v = w
    BY <2>1, <2>2 DEF Bundle!Active
  <2>4. Undisturbed(w)'
    BY <1>3, <2>1, <2>2, NextUndisturbed DEF SerialInv
  <2> QED BY <2>1, <2>2, <2>3, <2>4 DEF SerialInv
<1>4. ASSUME NEW w \in Writers, Bundle!Crash(w) PROVE SerialInv'
  <2> SUFFICES ASSUME ~concurrent PROVE SerialInv'
    BY <1>4 DEF Bundle!Crash, SerialInv
  <2>1. /\ Bundle!Active(w) /\ last' = last /\ step'[w] = "crashed"
        /\ \A v \in Writers : v # w => step'[v] = step[v]
    BY <1>4 DEF Bundle!Crash, Bundle!Become
  <2>2. last = {w} /\ \A v \in Writers : Bundle!Active(v) => v = w
    BY <2>1 DEF SerialInv
  <2>3. \A v \in Writers : ~Bundle!Active(v)'
    BY <2>1, <2>2 DEF Bundle!Active
  <2> QED BY <2>1, <2>2, <2>3 DEF SerialInv
<1> QED BY <1>1, <1>2, <1>3, <1>4 DEF Bundle!Next

(* Of writers that do not overlap, the last one that succeeded left a      *)
(* bundle that read_replay_bundle accepts, and its own, whatever those     *)
(* before it left when they crashed; whatever they do, what is accepted is *)
(* of one run.                                                             *)
THEOREM LastSuccessIsReadable == Bundle!Spec => [](Bundle!SuccessReadable
         /\ Bundle!AcceptedIsOneRun)
<1>1. Bundle!Init => BundleInv /\ SerialInv
  BY InitBundleInv, InitSerialInv
<1>2. BundleInv /\ SerialInv /\ [Bundle!Next]_Bundle!vars => (BundleInv /\ SerialInv)'
  BY NextBundleInv, NextSerialInv
<1>3. BundleInv /\ SerialInv => Bundle!SuccessReadable
  <2> SUFFICES ASSUME BundleInv, SerialInv, ~concurrent, NEW w \in last, step[w] = "done"
               PROVE  Bundle!Accepts /\ Bundle!IsOf(w) /\ files["metadata"] = Bundle!Digest(w)
    BY DEF Bundle!SuccessReadable
  <2>1. w \in Writers /\ Undisturbed(w) /\ Len(sums[w]) = 4
    BY DEF SerialInv, BundleInv, InPlace
  <2>2. \A i \in 1..6 : files[Bundle!FileOrder[i]] = Meant(w, i)
    BY <2>1 DEF Undisturbed
  <2>3. files["SHA256SUMS"] = sums[w] /\ files["metadata"] = Bundle!Digest(w)
    BY <2>2, PlacesOfFiles DEF Meant
  <2>4. \A i \in 1..4 : files[Bundle!Payload[i]] = Bundle!PayloadContent(w, Bundle!Payload[i])
    BY <2>2, PlacesOfFiles DEF Meant
  <2>5. \A f \in Bundle!PayloadFiles : \E i \in 1..4 : f = Bundle!Payload[i]
    BY FilesInOrder DEF Bundle!PayloadFiles
  <2>6. Bundle!IsOf(w)
    BY <2>4, <2>5 DEF Bundle!IsOf
  <2>7. sums[w] \notin {Bundle!Absent, Bundle!Torn} /\ DOMAIN sums[w] = 1..4
    <3>1. sums[w] \in Seq(Bundle!PayloadFiles \X Contents)
      BY <2>1 DEF BundleInv, TypeInv
    <3>2. sums[w] # <<"absent">> /\ sums[w] # <<"torn">> /\ DOMAIN sums[w] = 1..4
      BY <2>1, <3>1
    <3> QED BY <3>2 DEF Bundle!Absent, Bundle!Torn
  <2>8. Bundle!ChecksumsMatch
    <3> SUFFICES ASSUME NEW f \in Bundle!PayloadFiles
          PROVE \E i \in 1..4 : sums[w][i] = <<f, files[f]>>
      BY <2>3, <2>7 DEF Bundle!ChecksumsMatch
    <3>1. PICK i \in 1..4 : f = Bundle!Payload[i]
      BY <2>5
    <3>2. sums[w][i] = <<Bundle!Payload[i], Bundle!PayloadContent(w, Bundle!Payload[i])>>
      BY <2>1 DEF Undisturbed
    <3> QED BY <2>4, <3>1, <3>2
  <2>9. files["manifest"] = Bundle!PayloadDigest
    BY <2>6, FilesInOrder DEF Bundle!IsOf, Bundle!PayloadDigest, Bundle!PayloadContent,
          Bundle!Digest
  <2>10. \A f \in Bundle!Files : files[f] \notin {Bundle!Absent, Bundle!Torn}
    <3>1. \A f \in Bundle!PayloadFiles : files[f] \notin {Bundle!Absent, Bundle!Torn}
      BY <2>1, <2>6, ContentsAreWhole DEF Bundle!IsOf
    <3>2. Bundle!Digest(w) \notin {Bundle!Absent, Bundle!Torn}
      BY <2>1, FilesInOrder, ContentsAreWhole
    <3> QED BY <2>3, <2>7, <3>1, <3>2, FilesInOrder
  <2> QED BY <2>3, <2>6, <2>8, <2>9, <2>10 DEF Bundle!Accepts
<1> QED BY <1>1, <1>2, <1>3, AcceptedBundlesAreOfOneRun, PTL DEF Bundle!Spec
=============================================================================
