---------------------------- MODULE DesignSpace ----------------------------
(***************************************************************************)
(* The generation of design points: candidate combinations of axis values  *)
(* are checked against conditional constraints, in one mode repaired       *)
(* first, and the values that constraints remove are recorded.             *)
(***************************************************************************)
EXTENDS Integers, SequencesExt, TLC

CONSTANTS
    AxisOrder,   \* the axes in order
    Values,      \* axis -> sequence of its values
    Defaults,    \* axis -> default value
    Constraints, \* the lists of constraints to generate with
    CrossAxes    \* the two axes whose values are also combined, or <<>>

Axes == ToSet(AxisOrder)

\* A rule: an axis and the sequence of values allowed.  A constraint: sequences of
\* rules "when" it applies and it "require"s, in the order of the file, and a set of
\* such sequences, the combinations it "exclude"s.
Allowed(rule) == ToSet(rule.allowed)

VARIABLES
    mode, constraints,
    todo,        \* candidates not looked at yet
    points,      \* the combinations generated
    exclusions   \* <<axis, value>> recorded as excluded, with a reason

vars == <<mode, constraints, todo, points, exclusions>>

-----------------------------------------------------------------------------
Meets(rules, combo) == \A i \in DOMAIN rules : combo[rules[i].axis] \in Allowed(rules[i])
Matches(c, combo) == Meets(c.when, combo)
RequireViolations(c, combo) == SelectSeq(c.require, LAMBDA r : combo[r.axis] \notin Allowed(r))
Excludes(c, combo) == \E rules \in c.exclude : Meets(rules, combo)
Broken(combo) ==
    SelectSeq(constraints, LAMBDA c : /\ Matches(c, combo)
                                      /\ RequireViolations(c, combo) # <<>> \/ Excludes(c, combo))
IsValid(combo) == Broken(combo) = <<>>

\* what _check blames of the first constraint that is broken: the first axis it requires
\* something of in vain, or, of a combination it excludes, the first axis of its condition
NoAxis == <<"", "none">>
Blamed(combo) ==
    LET c == Broken(combo)[1]
        blame(rules) == <<rules[1].axis, combo[rules[1].axis]>>
    IN  IF RequireViolations(c, combo) # <<>> THEN blame(RequireViolations(c, combo))
        ELSE IF c.when # <<>> THEN blame(c.when) ELSE NoAxis

\* One round of _repair; a change is the axis, its value before and after.
Fix(st, rule) ==
    IF rule.allowed = <<>> \/ st.combo[rule.axis] \in Allowed(rule) THEN st
    ELSE [combo |-> [st.combo EXCEPT ![rule.axis] = rule.allowed[1]],
          changes |-> Append(st.changes, <<rule.axis, st.combo[rule.axis], rule.allowed[1]>>),
          changed |-> TRUE]
FixAll(st, c) == IF Matches(c, st.combo) THEN FoldLeft(Fix, st, c.require) ELSE st
Round(st) == FoldLeft(FixAll, [st EXCEPT !.changed = FALSE], constraints)

Rounds == [round \in 1..10 |-> round]
Repair(combo) ==
    FoldLeft(LAMBDA st, round : IF st.changed THEN Round(st) ELSE st,
             [combo |-> combo, changes |-> <<>>, changed |-> TRUE], Rounds)

-----------------------------------------------------------------------------
\* A candidate: the combination, and the axis it was made for.
Candidate(axis, combo) == [axis |-> axis, combo |-> combo]

PerAxis == FlattenSeq([i \in DOMAIN AxisOrder |->
    LET a == AxisOrder[i] IN
    [j \in DOMAIN Values[a] |-> Candidate(a, [Defaults EXCEPT ![a] = Values[a][j]])]])

\* the combinations of two axes that differ from the default in both
Crossed ==
    IF CrossAxes = <<>> THEN {}
    ELSE LET a == CrossAxes[1]  b == CrossAxes[2] IN
         {Candidate("none", [Defaults EXCEPT ![a] = x, ![b] = y]) :
             x \in ToSet(Values[a]) \ {Defaults[a]}, y \in ToSet(Values[b]) \ {Defaults[b]}}

Product == FoldLeft(LAMBDA combos, a : {(a :> v) @@ f : v \in ToSet(Values[a]), f \in combos},
                    {<<>>}, AxisOrder)

\* the candidates of the mode; their order only orders what is generated
Candidates(m) ==
    IF m = "full" THEN {Candidate("none", combo) : combo \in Product}
    ELSE {Candidate("none", Defaults)} \cup ToSet(PerAxis) \cup Crossed

Init ==
    /\ mode \in {"full", "ci_all_axes"}
    /\ constraints \in Constraints
    /\ todo = Candidates(mode)
    /\ points = {} /\ exclusions = {}

\* Every combination is checked as it is.
Full ==
    /\ mode = "full" /\ todo # {}
    /\ LET combos == {c.combo : c \in todo}
           valid == {f \in combos : IsValid(f)}
       IN  points' = valid /\ exclusions' = {Blamed(f) : f \in combos \ valid}
    /\ todo' = {}
    /\ UNCHANGED <<mode, constraints>>

\* the value a candidate was made for, when the repair replaced it
RepairedAway(candidate, repaired) ==
    {<<candidate.axis, candidate.combo[candidate.axis]>> : k \in
        {k \in DOMAIN repaired.changes :
            repaired.changes[k][1] = candidate.axis
            /\ repaired.changes[k][2] = candidate.combo[candidate.axis]}}

Upcoming == CHOOSE c \in todo : TRUE
Examine == mode = "ci_all_axes" /\ todo # {} /\ todo' = todo \ {Upcoming}
           /\ UNCHANGED <<mode, constraints>>

\* Faulty: what was repaired counts as valid.
CiTrusting ==
    /\ Examine
    /\ points' = points \cup {Repair(Upcoming.combo).combo}
    /\ UNCHANGED exclusions

\* A candidate is repaired and then checked.
Ci ==
    /\ Examine
    /\ LET candidate == Upcoming
           repaired == Repair(candidate.combo)
           combo == repaired.combo
       IN  IF IsValid(combo)
           THEN /\ points' = points \cup {combo}
                /\ exclusions' = exclusions \cup
                     IF candidate.axis # "none" /\ combo[candidate.axis] # candidate.combo[candidate.axis]
                     THEN RepairedAway(candidate, repaired) ELSE {}
           ELSE /\ exclusions' = exclusions \cup
                     IF candidate = Candidate("none", Defaults) THEN {} ELSE {Blamed(combo)}
                /\ UNCHANGED points

Next == Full \/ Ci

Spec == Init /\ [][Next]_vars

-----------------------------------------------------------------------------
Done == todo = {}

\* the axis values neither generated nor excluded, as the manifest reports them
Missing == {e \in UNION {{a} \X ToSet(Values[a]) : a \in Axes} :
               e \notin exclusions /\ \A combo \in points : combo[e[1]] # e[2]}

\* a repair that gave up: some constraint still asks for a change
Unsettled(candidate) == Repair(candidate.combo).changed

\* a repair that ended in a combination some constraint rules out as a whole
RuledOut(candidate) ==
    LET combo == Repair(candidate.combo).combo
    IN  \E i \in DOMAIN constraints :
            Matches(constraints[i], combo) /\ Excludes(constraints[i], combo)

\* An axis value is lost silently, being in no point and not recorded, for two reasons
\* only: the repair of the candidate made for it gave up, or it ended in an excluded
\* combination, which no repair leaves and for which another axis is blamed.  Whatever
\* else the constraints do, in however many rounds and undoing each other, the value is
\* in a point or the constraint that replaced it is recorded.
NothingSilentlyMissing ==
    Done /\ mode = "ci_all_axes" =>
        \A value \in Missing :
            \E c \in ToSet(PerAxis) :
                /\ value = <<c.axis, c.combo[c.axis]>>
                /\ Unsettled(c) \/ RuledOut(c)

\* The repaired points are points the full mode would generate too: valid under
\* every constraint, whichever the repair applied last, none of them an excluded
\* combination, with values of the axes.
CiWithinFull ==
    mode = "ci_all_axes" =>
        \A combo \in points :
            IsValid(combo) /\ \A a \in Axes : combo[a] \in ToSet(Values[a])

=============================================================================
