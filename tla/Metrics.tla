------------------------------- MODULE Metrics -------------------------------
(***************************************************************************)
(* The metrics of a scenario run (sim/scheduler/metrics.py): what the      *)
(* runner reports of every job while it runs, and what compute makes of it *)
(* at the end.  The runner is abstracted to a client that reports what a   *)
(* runner may: jobs arrive as they were compiled, are refused, queued,     *)
(* started class by class in order within the capacity, suspended for what *)
(* arrives, and completed.  Ratios are pairs of two numbers.               *)
(***************************************************************************)
EXTENDS ScenarioCompiler

VARIABLES now,      \* the kernel's clock
          jobs,     \* the records of the jobs that arrived, in that order
          started,  \* since when each running job runs
          busy,     \* the busy intervals of the compute resource
          peak,     \* the largest queue size recorded
          metrics

vars == <<scenario, compiled, now, jobs, started, busy, peak, metrics>>

Arrived == 1..Len(jobs)
ClassOf(j) == CHOOSE c \in ToSet(scenario.classes) : c.id = jobs[j].class

(* Queued or suspended: neither ended nor running. *)
Waiting(j) == jobs[j].outcome = "completed" /\ jobs[j].complete = None /\ j \notin DOMAIN started
Queued(c) == {j \in Arrived : Waiting(j) /\ ClassOf(j) = c}
Pending(c) == {j \in Arrived : Waiting(j) /\ QueueOf(ClassOf(j)) = QueueOf(c) /\ jobs[j].start = None}
UnitsInUse == MapThenSumSet(LAMBDA j : jobs[j].units, DOMAIN started)
InTurn(j) == Waiting(j) /\ \A k \in Arrived : (k < j /\ jobs[k].class = jobs[j].class) => ~Waiting(k)
CanStart(j) == InTurn(j) /\ UnitsInUse + jobs[j].units <= compiled.resources["compute"]
NextDue == Len(jobs) < Len(compiled.releases) /\ compiled.releases[Len(jobs) + 1].arrival = now
Finishing(j) == jobs[j].left = now - started[j]
-----------------------------------------------------------------------------
(* record_arrival: an outcome is completed until another one is recorded.  *)
Arrival(r) ==
    [class |-> r.class, arrival |-> r.arrival, deadline |-> r.deadline, warmup |-> r.warmup,
     measured |-> r.measured, work |-> r.work, left |-> r.work,
     units |-> (CHOOSE c \in ToSet(scenario.classes) : c.id = r.class).units,
     start |-> None, complete |-> None, outcome |-> "completed", age |-> 0]

Running == compiled.state = "ready" /\ metrics = <<>>
NextRelease == compiled.releases[Len(jobs) + 1]

(* record_reject, after an arrival that admission control refuses.         *)
ArriveRejected ==
    /\ Running /\ NextDue
    /\ \E c \in ToSet(scenario.classes) : c.id = NextRelease.class /\ ~c.excluded
    /\ jobs' = Append(jobs, [Arrival(NextRelease) EXCEPT !.outcome = "rejected"])
    /\ UNCHANGED <<scenario, compiled, now, started, busy, peak, metrics>>

(* A FIFO takes the job and its size is recorded, or it is full and the    *)
(* job is dropped (record_drop).                                           *)
ArriveInFifo ==
    /\ Running /\ NextDue
    /\ LET r == NextRelease
           c == CHOOSE k \in ToSet(scenario.classes) : k.id = r.class
           size == Cardinality(Queued(c))
       IN /\ c.policy = "fifo"
          /\ IF size < c.room
             THEN jobs' = Append(jobs, Arrival(r)) /\ peak' = Max({peak, size + 1})
             ELSE /\ jobs' = Append(jobs, [Arrival(r) EXCEPT !.outcome = "dropped"])
                  /\ UNCHANGED peak
    /\ UNCHANGED <<scenario, compiled, now, started, busy, metrics>>

(* A mailbox takes it in the place of the one that waits there.            *)
ArriveInMailbox ==
    /\ Running /\ NextDue
    /\ LET r == NextRelease
           c == CHOOSE k \in ToSet(scenario.classes) : k.id = r.class
       IN /\ c.policy = "mailbox"
          /\ jobs' = Append([j \in Arrived |-> IF j \in Pending(c)
                                               THEN [jobs[j] EXCEPT !.outcome = "replaced"]
                                               ELSE jobs[j]], Arrival(r))
    /\ UNCHANGED <<scenario, compiled, now, started, busy, peak, metrics>>

(* record_start keeps the first start; a job taken from a mailbox had its  *)
(* observation grow old there (record_observation_age).                    *)
Start(j) ==
    /\ Running /\ j \in Arrived /\ CanStart(j)
    /\ started' = [k \in DOMAIN started \cup {j} |-> IF k = j THEN now ELSE started[k]]
    /\ IF jobs[j].start = None
       THEN jobs' = [jobs EXCEPT ![j].start = now,
                                 ![j].age = IF ClassOf(j).policy = "mailbox" THEN now - jobs[j].arrival ELSE 0]
       ELSE UNCHANGED jobs
    /\ UNCHANGED <<scenario, compiled, now, busy, peak, metrics>>

(* record_resource_busy leaves out what is empty. *)
BusyWith(j) ==
    IF now <= started[j] THEN busy
    ELSE Append(busy, [class |-> jobs[j].class, from |-> started[j], to |-> now])
Without(j) == [k \in DOMAIN started \ {j} |-> started[k]]

(* A job preempted for one that just arrived was busy until now. *)
Suspend(j) ==
    /\ Running /\ j \in DOMAIN started /\ ~Finishing(j)
    /\ \E k \in Arrived : jobs[k].arrival = now /\ Waiting(k) /\ jobs[k].class # jobs[j].class
    /\ busy' = BusyWith(j) /\ started' = Without(j)
    /\ jobs' = [jobs EXCEPT ![j].left = @ - (now - started[j])]
    /\ UNCHANGED <<scenario, compiled, now, peak, metrics>>

(* record_resource_busy and record_complete, when its work is done. *)
Complete(j) ==
    /\ Running /\ j \in DOMAIN started /\ Finishing(j)
    /\ busy' = BusyWith(j) /\ started' = Without(j)
    /\ jobs' = [jobs EXCEPT ![j].complete = now, ![j].left = 0]
    /\ UNCHANGED <<scenario, compiled, now, peak, metrics>>

(* Time passes when nothing is due and no job that could run waits. *)
Tick ==
    /\ Running /\ ~NextDue /\ now < scenario.limit
    /\ \A j \in DOMAIN started : ~Finishing(j)
    /\ \A j \in Arrived : ~CanStart(j)
    /\ now' = now + 1
    /\ UNCHANGED <<scenario, compiled, jobs, started, busy, peak, metrics>>
-----------------------------------------------------------------------------
Judged(js) ==
    LET measured == SelectSeq(js, LAMBDA j : j.measured /\ ~j.warmup)
    IN IF measured # <<>> THEN measured ELSE SelectSeq(js, LAMBDA j : ~j.warmup)

With(js, outcome) == SelectSeq(js, LAMBDA j : j.outcome = outcome)

(* Faulty: what was replaced in a mailbox is no miss. *)
MissedOrDropped(j) == \/ j.outcome = "completed" /\ j.complete # None /\ j.complete > j.deadline
                      \/ j.outcome = "dropped"

Missed(j) == \/ j.outcome = "completed" /\ j.complete # None /\ j.complete > j.deadline
             \/ j.outcome \in {"dropped", "replaced"}

Latencies(js) ==
    LET ended == SelectSeq(js, LAMBDA j : j.outcome = "completed" /\ j.complete # None)
    IN [i \in 1..Len(ended) |-> ended[i].complete - ended[i].arrival]
StartLatencies(js) ==
    LET begun == SelectSeq(js, LAMBDA j : j.start # None)
    IN [i \in 1..Len(begun) |-> begun[i].start - begun[i].arrival]
Ages(js) ==
    LET aged == SelectSeq(js, LAMBDA j : j.age > 0)
    IN [i \in 1..Len(aged) |-> aged[i].age]

(* nearest_rank_percentile: the value of rank ceil(p n / 100), from 1.     *)
Percentile(values, p) ==
    IF values = <<>> THEN 0
    ELSE LET n == Len(values)
             rank == Max({1, Min({(p * n + 99) \div 100, n})})
         IN SortSeq(values, <)[rank]

Distribution(values) == [p50 |-> Percentile(values, 50), p99 |-> Percentile(values, 99),
                         max |-> IF values = <<>> THEN 0 ELSE Max(ToSet(values))]

(* _union_intervals_length: intervals by their start, each of them merged  *)
(* with the current one or beginning another.                              *)
UnionLength(intervals) ==
    IF intervals = <<>> THEN 0
    ELSE LET sorted == SortSeq(intervals,
                               LAMBDA a, b : a[1] < b[1] \/ (a[1] = b[1] /\ a[2] < b[2]))
             Merge(i, u) == IF i[1] <= u.to THEN [u EXCEPT !.to = Max({u.to, i[2]})]
                            ELSE [total |-> u.total + u.to - u.from, from |-> i[1], to |-> i[2]]
             last == FoldLeft(LAMBDA u, i : Merge(i, u),
                              [total |-> 0, from |-> sorted[1][1], to |-> sorted[1][2]], Tail(sorted))
         IN last.total + last.to - last.from

Clipped(window, intervals) ==
    LET inside == SelectSeq(intervals, LAMBDA i : i.to > window.start /\ i.from < window.end)
    IN [i \in 1..Len(inside) |-> <<Max({inside[i].from, window.start}), Min({inside[i].to, window.end})>>]

WindowTime(window) == Max({0, window.end - window.start})
Ratio(n, d) == IF d > 0 THEN <<n, d>> ELSE <<0, 1>>

(* The counters and distributions of some jobs. *)
Summary(js, window) ==
    [released |-> Len(js), completed |-> Len(With(js, "completed")), dropped |-> Len(With(js, "dropped")),
     replaced |-> Len(With(js, "replaced")), rejected |-> Len(With(js, "rejected")),
     misses |-> Len(SelectSeq(js, Missed)),
     throughput |-> Ratio(Len(With(js, "completed")), WindowTime(window)),
     latency |-> Distribution(Latencies(js)), start |-> Distribution(StartLatencies(js)),
     age |-> Distribution(Ages(js))]

(* What a class asks for and what it got, of the window and the capacity.  *)
ClassSummary(js, c, window, capacity) ==
    LET own == SelectSeq(js, LAMBDA j : j.class = c)
        intervals == SelectSeq(busy, LAMBDA i : i.class = c)
        offer == WindowTime(window) * capacity
    IN [summary |-> Summary(own, window),
        offered |-> Ratio(FoldLeft(LAMBDA n, j : n + j.work, 0, own) * Max({own[i].units : i \in 1..Len(own)}), offer),
        achieved |-> Ratio(UnionLength(Clipped(window, intervals)), offer)]

(* compute *)
Computed(js, window, capacity) ==
    LET judged == Judged(js)
        total  == Summary(judged, window)
    IN [total |-> total,
        classes |-> [c \in {judged[i].class : i \in 1..Len(judged)} |->
                        ClassSummary(judged, c, window, capacity)],
        busy |-> UnionLength(Clipped(window, busy)),
        utilization |-> Ratio(UnionLength(Clipped(window, busy)), WindowTime(window)),
        peak |-> peak,
        stable |-> total.dropped = 0 /\ total.replaced = 0 /\ total.misses = 0]

(* run: what is left in the queues is dropped, and the metrics are taken   *)
(* over the compiled window.  A job in a mailbox or still running keeps    *)
(* the outcome it started with.                                            *)
Finish ==
    /\ Running /\ ~NextDue
    /\ \A j \in DOMAIN started : ~Finishing(j)
    /\ \A j \in Arrived : ~CanStart(j)
    /\ \/ now = scenario.limit
       \/ Len(jobs) = Len(compiled.releases) /\ started = <<>>
    /\ jobs' = [j \in Arrived |-> IF Waiting(j) /\ ClassOf(j).policy = "fifo"
                                  THEN [jobs[j] EXCEPT !.outcome = "dropped"] ELSE jobs[j]]
    /\ metrics' = Computed(jobs', compiled.window, scenario.capacity)
    /\ UNCHANGED <<scenario, compiled, now, started, busy, peak>>

Init ==
    /\ InitCompiler
    /\ now = 0 /\ jobs = <<>> /\ started = <<>> /\ busy = <<>> /\ peak = 0 /\ metrics = <<>>

Next ==
    \/ Compile /\ UNCHANGED <<now, jobs, started, busy, peak, metrics>>
    \/ ArriveRejected
    \/ ArriveInFifo
    \/ ArriveInMailbox
    \/ \E j \in Arrived : Start(j) \/ Suspend(j) \/ Complete(j)
    \/ Tick
    \/ Finish

Spec == Init /\ [][Next]_vars
-----------------------------------------------------------------------------
(* Type correctness of the records and of what is being run. *)
TypeOK ==
    /\ now \in 0..scenario.limit /\ peak \in Nat
    /\ DOMAIN started \subseteq Arrived
    /\ \A j \in Arrived :
          /\ jobs[j].outcome \in {"completed", "dropped", "replaced", "rejected"}
          /\ jobs[j].left \in 0..jobs[j].work
    /\ \A i \in ToSet(busy) : i.from < i.to /\ i.to <= now

JudgedIds ==
    {j \in Arrived : jobs[j].measured}
NumberOf(outcome) == Cardinality({j \in JudgedIds : jobs[j].outcome = outcome})
Late(j) == jobs[j].complete # None /\ jobs[j].complete > jobs[j].deadline
Lost(j) == jobs[j].outcome \in {"dropped", "replaced"}

(* What is judged are the measured jobs that arrived, and only those: the  *)
(* releases are compiled so that compute never falls back on the others.   *)
(* Every one of them is counted once, with its class and in total.         *)
EveryJobCountedOnce ==
    metrics # <<>> =>
        LET total == metrics.total
            Sum(count(_)) == MapThenSumSet(LAMBDA c : count(metrics.classes[c].summary), DOMAIN metrics.classes)
        IN /\ total.released = Cardinality(JudgedIds)
           /\ total.released = total.completed + total.dropped + total.replaced + total.rejected
           /\ total.rejected = NumberOf("rejected") /\ total.dropped = NumberOf("dropped")
           /\ Sum(LAMBDA s : s.released) = total.released /\ Sum(LAMBDA s : s.completed) = total.completed
           /\ Sum(LAMBDA s : s.replaced) = total.replaced /\ Sum(LAMBDA s : s.misses) = total.misses

(* "Dropped/replaced jobs are kept in denominators for miss-rate           *)
(* calculations so that overload cannot be hidden by discarding jobs"      *)
(* (metrics.py): in a stable run a measured job was refused at admission,  *)
(* ended in time, or had not ended when the run was cut off.  Jobs of a    *)
(* mailbox that got a successor are all replaced but the last.             *)
OverloadIsVisible ==
    metrics # <<>> =>
        /\ metrics.total.misses = Cardinality({j \in JudgedIds : Late(j) \/ Lost(j)})
        /\ metrics.stable =>
              \A j \in JudgedIds :
                  \/ jobs[j].outcome = "rejected"
                  \/ jobs[j].complete # None /\ jobs[j].complete <= jobs[j].deadline
                  \/ jobs[j].complete = None /\ now = scenario.limit
        /\ \A j, k \in Arrived :
              (/\ j < k /\ ClassOf(j).policy = "mailbox" /\ QueueOf(ClassOf(j)) = QueueOf(ClassOf(k))
               /\ jobs[j].start = None /\ jobs[k].outcome # "rejected") =>
                  jobs[j].outcome \in {"replaced", "rejected"}

(* A single periodic class offers the load it asks for: its work in every  *)
(* period, by the units it needs, of the whole capacity.                   *)
OfferedIsAsked ==
    (metrics # <<>> /\ Len(scenario.classes) = 1) =>
        \A c \in ToSet(scenario.classes) :
            (/\ c.mode = "periodic" /\ c.id \in DOMAIN metrics.classes
             /\ Len(jobs) = Len(compiled.releases)) =>
                LET offered == metrics.classes[c.id].offered
                IN offered[1] * c.period * scenario.capacity = offered[2] * c.work * c.units

(* A percentile is a value that was seen, that p in a hundred do not       *)
(* exceed, and the least one of these (nearest_rank_percentile).           *)
IsPercentile(v, values, p) ==
    LET NotAbove(w) == Cardinality({i \in DOMAIN values : values[i] <= w})
    IN IF values = <<>> THEN v = 0
       ELSE /\ v \in ToSet(values)
            /\ 100 * NotAbove(v) >= p * Len(values)
            /\ \A w \in ToSet(values) : w < v => 100 * NotAbove(w) < p * Len(values)

PercentilesAreRanked ==
    metrics # <<>> =>
        LET js == Judged(jobs)
        IN \A d \in {<<metrics.total.latency, Latencies(js)>>, <<metrics.total.start, StartLatencies(js)>>,
                     <<metrics.total.age, Ages(js)>>} :
              /\ IsPercentile(d[1].p50, d[2], 50) /\ IsPercentile(d[1].p99, d[2], 99)
              /\ d[1].p50 <= d[1].p99 /\ d[1].p99 <= d[1].max

(* Busy time is the ticks of the window that some job ran in, so never     *)
(* more than the window; a class has no more than all have together, all   *)
(* have no more than the classes have in sum, and with a single unit       *)
(* exactly that.  No class was busy for longer than its jobs were served.  *)
BusyIsCoverage ==
    metrics # <<>> =>
        LET w == compiled.window
            Covered(intervals) == {t \in w.start..(w.end - 1) : \E i \in ToSet(intervals) : i.from <= t /\ t < i.to}
            Of(c) == SelectSeq(busy, LAMBDA i : i.class = c)
            PerClass == [c \in {i.class : i \in ToSet(busy)} |-> UnionLength(Clipped(w, Of(c)))]
            Together == MapThenSumSet(LAMBDA c : PerClass[c], DOMAIN PerClass)
        IN /\ metrics.busy = Cardinality(Covered(busy))
           /\ \A c \in DOMAIN PerClass :
                 /\ PerClass[c] = Cardinality(Covered(Of(c)))
                 /\ PerClass[c] <= metrics.busy
                 /\ PerClass[c] <= MapThenSumSet(LAMBDA j : jobs[j].work - jobs[j].left,
                                                 {j \in Arrived : jobs[j].class = c})
           /\ metrics.busy <= Together
           /\ compiled.resources["compute"] = 1 => metrics.busy = Together
=============================================================================
