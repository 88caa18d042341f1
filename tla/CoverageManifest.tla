-------------------------- MODULE CoverageManifest --------------------------
(***************************************************************************)
(* The coverage manifest: which generated points were evaluated, and with  *)
(* what verdict, and which values of which axis they show.  A manifest is  *)
(* a record; the operators are the methods of the class.                   *)
(***************************************************************************)
EXTENDS Integers, FiniteSets

CONSTANTS
    Points,  \* the generated design points
    Axes,
    ValueOf  \* [Points -> [Axes -> values]]

Verdicts == {"successful", "filtered", "failed"}
Kinds == Verdicts \cup {"evaluated", "pruned"}

\* the axis values a point shows
Pairs(p) == {<<a, ValueOf[p][a]>> : a \in Axes}
PairsOf(points) == UNION {Pairs(p) : p \in points}

NewManifest == [ids |-> [k \in Kinds |-> {}],
                shown |-> [k \in Kinds |-> {}],
                excluded |-> {}]

Mark(m, kind, p) == [m EXCEPT !.ids[kind] = @ \cup {p},
                              !.shown[kind] = @ \cup Pairs(p)]

RecordEvaluated(m, p) == Mark(m, "evaluated", p)
RecordSuccess(m, p) == Mark(RecordEvaluated(m, p), "successful", p)

\* a success is taken back, what its point shows stays
Unsuccessful(m, p) == [m EXCEPT !.ids["successful"] = @ \ {p}]
RecordFailed(m, p) == Mark(RecordEvaluated(Unsuccessful(m, p), p), "failed", p)
RecordFiltered(m, p) == Mark(RecordEvaluated(Unsuccessful(m, p), p), "filtered", p)

\* the values of the point are taken back too, also those other points show
ClearSuccessState(m, p) ==
    [m EXCEPT !.ids["evaluated"] = @ \ {p}, !.ids["successful"] = @ \ {p},
              !.shown["evaluated"] = @ \ Pairs(p), !.shown["successful"] = @ \ Pairs(p)]
RecordPruned(m, p) ==
    [Mark(ClearSuccessState(m, p), "pruned", p) EXCEPT !.excluded = @ \cup Pairs(p)]

Count(m, kind) == Cardinality(m.ids[kind])

\* the two count invariants of validate
CountsBalance(m) ==
    /\ Cardinality(Points) = Count(m, "evaluated") + Count(m, "pruned")
    /\ Count(m, "evaluated") = Count(m, "successful") + Count(m, "filtered") + Count(m, "failed")

=============================================================================
