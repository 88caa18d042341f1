-------------------------- MODULE ScenarioCompiler --------------------------
(***************************************************************************)
(* From a temporal scenario to something the runner can run                *)
(* (sim/scenarios/compiler.py, with the checks of sim/scenarios/schema.py):*)
(* the releases of every class in the order they happen, the resources,    *)
(* the queues, the memory admission may give out and the window that the   *)
(* metrics are taken over.  Times are ticks; an absent number is None, an  *)
(* absent name is empty.                                                   *)
(***************************************************************************)
EXTENDS Integers, Sequences, FiniteSets, SequencesExt, FiniteSetsExt

CONSTANTS Scenarios,   \* what a scenario file may hold
          Fixtures,    \* the usable bytes of each workload fixture's memory plan
          None

VARIABLES scenario, compiled

Failed(error) == [state |-> error]
-----------------------------------------------------------------------------
(* The numbers a class leaves out or gives as zero: a deadline is then the *)
(* service time, and a timeout is the deadline.                            *)
OrElse(given, default) == IF given \in {None, 0} THEN default ELSE given

RelativeDeadline(c) == OrElse(c.deadline, c.work)
Timeout(c) == OrElse(c.timeout, RelativeDeadline(c))

(* ArrivalPattern._mode_consistency *)
ValidArrival(c) ==
    IF c.mode = "periodic" THEN c.period > 0 /\ c.count > 0 /\ c.offset >= 0
    ELSE /\ c.times # <<>>
         /\ \A i \in 1..Len(c.times) : c.times[i] >= 0
         /\ \A i \in 1..(Len(c.times) - 1) : c.times[i] <= c.times[i + 1]

(* What a scenario must be to be loaded at all. *)
ValidScenario(s) ==
    /\ s.classes # <<>> /\ s.warmup >= 0 /\ s.measurement >= 1 /\ s.capacity >= 1
    /\ \A i, j \in 1..Len(s.classes) : s.classes[i].id = s.classes[j].id => i = j
    /\ \A i \in 1..Len(s.classes) : s.classes[i].work > 0 /\ ValidArrival(s.classes[i])

ReleaseTimes(c) ==
    IF c.mode = "periodic" THEN [i \in 1..c.count |-> c.offset + (i - 1) * c.period] ELSE c.times
-----------------------------------------------------------------------------
(* The i-th release of a class: first those that warm up, then those that  *)
(* are measured; what is left is neither.                                  *)
Release(s, c, i) ==
    LET total    == Len(ReleaseTimes(c))
        warmup   == Min({s.warmup, total})
        measured == Min({s.measurement, total - warmup})
        arrival  == ReleaseTimes(c)[i]
    IN [class |-> c.id, index |-> i, arrival |-> arrival, work |-> c.work,
        deadline |-> arrival + RelativeDeadline(c), timeout |-> arrival + Timeout(c),
        warmup |-> i <= warmup, measured |-> warmup < i /\ i <= warmup + measured]

ClassReleases(s, c) == [i \in 1..Len(ReleaseTimes(c)) |-> Release(s, c, i)]

(* In the order of the file, which decides between equal arrivals. *)
Releases(s) ==
    LET all == FlattenSeq([i \in 1..Len(s.classes) |-> ClassReleases(s, s.classes[i])])
        numbered == [i \in 1..Len(all) |-> [release |-> all[i], sequence |-> i]]
        sorted == SortSeq(numbered, LAMBDA a, b :
                     \/ a.release.arrival < b.release.arrival
                     \/ a.release.arrival = b.release.arrival /\ a.sequence < b.sequence)
    IN [i \in 1..Len(sorted) |-> sorted[i].release]

MeasuredOf(releases) == SelectSeq(releases, LAMBDA r : r.measured)

(* A periodic class keeps its window open for a period after its last one. *)
GridEnd(c, measured) ==
    LET own == SelectSeq(measured, LAMBDA r : r.class = c.id)
    IN IF c.mode = "periodic" /\ own # <<>> THEN own[1].arrival + Len(own) * c.period ELSE 0

Window(s, releases) ==
    LET measured == MeasuredOf(releases)
        arrivals == {measured[i].arrival : i \in 1..Len(measured)}
        start    == IF arrivals = {} THEN 0 ELSE Min(arrivals)
        grids    == {GridEnd(s.classes[i], measured) : i \in 1..Len(s.classes)}
    IN [start |-> start, end |-> Max({start} \cup arrivals \cup grids)]
-----------------------------------------------------------------------------
BadResources(s) == \E name \in DOMAIN s.resources : s.resources[name] <= 0

(* compute is a resource like others, that a scenario may give anew. *)
Resources(s) ==
    [name \in DOMAIN s.resources \cup {"compute"} |->
        IF name \in DOMAIN s.resources THEN s.resources[name] ELSE s.capacity]

(* A queue of its own for a FIFO class, one mailbox for the classes of a   *)
(* stream; a class without a stream is one.                                *)
QueueOf(c) == <<c.policy, IF c.policy = "mailbox" /\ c.stream # "" THEN c.stream ELSE c.id>>
Queues(s) == {QueueOf(s.classes[i]) : i \in 1..Len(s.classes)}

MemoryAvailable(s) ==
    IF s.ref = "" THEN s.memory ELSE Max({s.memory, Fixtures[s.ref]})

(* compile_scenario_from_yaml *)
Compiled(s) ==
    IF ~ValidScenario(s) THEN Failed("ValidationError")
    ELSE IF (s.ref # "" /\ s.ref \notin DOMAIN Fixtures) \/ BadResources(s) THEN Failed("ConfigError")
    ELSE LET releases == Releases(s)
         IN [state |-> "ready", releases |-> releases, window |-> Window(s, releases),
             resources |-> Resources(s), queues |-> Queues(s), memory |-> MemoryAvailable(s)]

InitCompiler == scenario \in Scenarios /\ compiled = Failed("pending")

Compile == compiled.state = "pending" /\ compiled' = Compiled(scenario) /\ UNCHANGED scenario
-----------------------------------------------------------------------------
(* Releases, in order: all of those asked for, in the order they arrive    *)
(* and, at the same instant, in the order of the file; each class warms up *)
(* before it is measured and is measured without a gap                     *)
(* (compile_scenario, releases.sort).                                      *)
ReleasesArePlanned ==
    compiled.state = "ready" =>
        LET rs == compiled.releases
            Of(c) == SelectSeq(rs, LAMBDA r : r.class = c.id)
            Place(r) == CHOOSE i \in 1..Len(scenario.classes) : scenario.classes[i].id = r.class
        IN /\ \A i \in 1..(Len(rs) - 1) :
                \/ rs[i].arrival < rs[i + 1].arrival
                \/ /\ rs[i].arrival = rs[i + 1].arrival
                   /\ \/ Place(rs[i]) < Place(rs[i + 1])
                      \/ rs[i].class = rs[i + 1].class /\ rs[i].index < rs[i + 1].index
           /\ Len(rs) = FoldSeq(LAMBDA c, n : n + Len(ReleaseTimes(c)), 0, scenario.classes)
           /\ \A n \in 1..Len(scenario.classes) :
                LET own == Of(scenario.classes[n])
                    measured == {i \in 1..Len(own) : own[i].measured}
                IN /\ \A i \in 1..Len(own) : own[i].index = i /\ ~(own[i].warmup /\ own[i].measured)
                   /\ \A i \in 1..Len(own), j \in measured :
                         (own[i].warmup => i < j) /\ (i < j => own[i].warmup \/ own[i].measured)
                   /\ Cardinality(measured) <= scenario.measurement
                   /\ measured = {} <=> Len(own) <= scenario.warmup

(* What is measured arrives inside the window, and the window of a single  *)
(* periodic class is a whole number of its periods, one for each measured  *)
(* release: a class that asks for its period's worth of work offers a load *)
(* of exactly one (compile_scenario: "so that utilization denominators     *)
(* match the offered load over a full period grid").                       *)
WindowIsWhole ==
    compiled.state = "ready" =>
        LET measured == MeasuredOf(compiled.releases)
            w == compiled.window
        IN /\ \A i \in 1..Len(measured) : measured[i].arrival \in w.start..w.end
           /\ \A c \in ToSet(scenario.classes) :
                (Len(scenario.classes) = 1 /\ c.mode = "periodic") =>
                    w.end - w.start = Len(measured) * c.period
=============================================================================
