---------------------------- MODULE ScenarioRunner ----------------------------
(***************************************************************************)
(* One run of a compiled scenario: the class ScenarioRunner of             *)
(* sim/scenario_runner.py together with what it drives, the discrete-event *)
(* kernel (sim/scheduler/kernel.py), the bounded FIFOs and the mailboxes   *)
(* (queues.py), the admission controller (admission.py), the ordering      *)
(* policy (policies.py) and the metrics collector's job records            *)
(* (metrics.py).                                                           *)
(*                                                                         *)
(* The program is one thread.  The kernel pops one event, advances the     *)
(* clock, charges the elapsed time to the running jobs and calls the       *)
(* event's handler; an action below is such an event (Arrive..., Complete, *)
(* DispatchEvent), or one turn of the loop over the candidates in          *)
(* _dispatch, with which arrival and dispatch events end (Start, Preempt,  *)
(* Pass, EndDispatch).  While that loop runs (status = "dispatch") no      *)
(* event is popped, so a step is never lost between an event and its loop. *)
(* What varies from run to run is the release list: Init picks the arrival *)
(* times.                                                                  *)
(***************************************************************************)
EXTENDS EventOrder, Sequences, FiniteSets, Functions

CONSTANTS
  Job,            \* the releases, numbered by JobRelease.sequence
  NoJob,          \* what is not a job
  ClassId,        \* Scenario.classes
  StreamId,       \* the mailbox streams
  Resource,       \* CompiledScenario.resources, "compute" among them
  ClassOf,        \* JobRelease.class_id
  IdRank,         \* the place of the job's id in string order
  Classes,        \* WorkloadClass of each class, see WorkloadClass below
  Scenario,       \* the limits of the scenario, see ScenarioLimits below
  ArrivalTimes    \* the arrival times Init picks from

WorkloadClass ==
  [priority : Int, work : Nat \ {0}, relDeadline : Nat,
   policy : {"fifo", "mailbox_latest"}, queueCapacity : Nat \ {0},
   stream : StreamId, needs : [Resource -> Nat],
   memory : Nat, bandwidth : Nat, admissionExcluded : BOOLEAN]

ScenarioLimits ==
  [capacity : [Resource -> Nat \ {0}], memoryAvailable : Nat,
   maxInflight : Nat \ {0}, maxBandwidth : Nat \ {0},
   preemptionEnabled : BOOLEAN, maxTime : Nat, recoveryStart : Nat]

ASSUME RunnerAssumption ==
  /\ Job \subseteq Nat /\ NoJob \notin Job /\ IsFiniteSet(Job)
  /\ ClassOf \in [Job -> ClassId]
  /\ IdRank \in [Job -> Nat]
  /\ \A i, j \in Job : IdRank[i] = IdRank[j] => i = j
  /\ Classes \in [ClassId -> WorkloadClass]
  /\ Scenario \in ScenarioLimits
  /\ ArrivalTimes \subseteq Nat

Cls(j)    == Classes[ClassOf[j]]
Work(j)   == Cls(j).work
Stream(j) == Cls(j).stream
Preemption == Scenario.preemptionEnabled

VARIABLES
  arrival,        \* JobRelease.arrival_ps of each job, fixed by Init
  \* the kernel
  now,            \* now_ps
  events,         \* the queued events
  nextSeq,        \* insertion number of the next event
  jobState,       \* jobs[...].state, "absent" before register_job
  remaining,      \* jobs[...].remaining_ps
  finished,       \* the jobs in the kernel's list `completed`
  \* the runner
  used,           \* _resource_used
  running,        \* _running (its events are the "complete" events)
  startTime,      \* _start_times
  preempted,      \* _preempted
  resume,         \* work a job is started with: _preempted_remaining
                  \* if the job is in it, else the whole work
  fifo,           \* _fifo_queues
  mailbox,        \* _mailboxes: the pending job of each stream
  admitted,       \* _admitted
  \* the admission controller
  inflight,       \* _inflight
  memoryUsed,     \* _memory_used_bytes
  bandwidthUsed,  \* _bandwidth_fraction_used
  \* the metrics collector
  outcome,        \* outcome of each job's record, "absent" without record
  completeTime,   \* complete_ps
  busy,           \* length of the job's busy intervals
  recovery,       \* recovery_time_ps
  \* control
  todo,           \* candidates the loop of _dispatch has not considered
  status          \* "events", "dispatch", "done" or "raised"

kernelVars    == <<now, events, nextSeq, jobState, remaining, finished>>
executionVars == <<used, running, startTime, preempted, resume>>
queueVars     == <<fifo, mailbox>>
admissionVars == <<admitted, inflight, memoryUsed, bandwidthUsed>>
metricVars    == <<outcome, completeTime, busy, recovery>>
vars == <<arrival, kernelVars, executionVars, queueVars, admissionVars,
          metricVars, todo, status>>

NoTime == -1

-----------------------------------------------------------------------------
(* The canonical order of jobs: policies.policy_key. *)
Deadline(j) == arrival[j] + Cls(j).relDeadline

Precedes(i, j) ==
  LET p == Cls(i).priority  q == Cls(j).priority
  IN  \/ p > q
      \/ p = q /\ Deadline(i) < Deadline(j)
      \/ p = q /\ Deadline(i) = Deadline(j) /\ arrival[i] < arrival[j]
      \/ /\ p = q /\ Deadline(i) = Deadline(j) /\ arrival[i] = arrival[j]
         /\ IdRank[i] < IdRank[j]

(* _can_allocate *)
CanAllocate(j) ==
  \A r \in Resource : Scenario.capacity[r] - used[r] >= Cls(j).needs[r]

(* Faulty: what a job holds is given back twice, which the clamp hides. *)
ReleasedTwice(j) ==
  [r \in Resource |-> IF used[r] >= 2 * Cls(j).needs[r]
                      THEN used[r] - 2 * Cls(j).needs[r] ELSE 0]

(* _allocate and _release_resources: what is in use afterwards. *)
Allocated(j) == [r \in Resource |-> used[r] + Cls(j).needs[r]]
Released(j)  ==
  [r \in Resource |-> IF used[r] >= Cls(j).needs[r]
                      THEN used[r] - Cls(j).needs[r] ELSE 0]

(* Faulty: one job too many in flight. *)
AdmissibleByOne(j) ==
  /\ Scenario.memoryAvailable - memoryUsed >= Cls(j).memory
  /\ Cardinality(inflight) <= Scenario.maxInflight
  /\ bandwidthUsed + Cls(j).bandwidth <= Scenario.maxBandwidth

(* AdmissionController.check: memory, inflight and bandwidth.  The runner  *)
(* names no exclusive resources, so the fourth dimension never blocks.     *)
Admissible(j) ==
  /\ Scenario.memoryAvailable - memoryUsed >= Cls(j).memory
  /\ Cardinality(inflight) < Scenario.maxInflight
  /\ bandwidthUsed + Cls(j).bandwidth <= Scenario.maxBandwidth

(* The reservation of job j, if it is one of S. *)
MemoryOf(j, S)    == IF j \in S THEN Cls(j).memory ELSE 0
BandwidthOf(j, S) == IF j \in S THEN Cls(j).bandwidth ELSE 0

(* Faulty: the runner forgets the job that leaves, the controller does not.*)
ReserveForgetting(old, new) ==
  LET in == IF new = NoJob \/ Cls(new).admissionExcluded THEN {} ELSE {new}
  IN  /\ admitted' = (admitted \ {old}) \cup in
      /\ inflight' = inflight \cup in
      /\ memoryUsed' = memoryUsed + MemoryOf(new, in)
      /\ bandwidthUsed' = bandwidthUsed + BandwidthOf(new, in)

(* Job old gives its reservation back, if _admitted and the controller     *)
(* know it, and job new gets one, unless its class bypasses the controller *)
(* (either may be NoJob).  The check admit repeats succeeds: the job was   *)
(* checked in the same event, and since then memory was only given back.   *)
Reserve(old, new) ==
  LET out == {old} \cap admitted
      in  == IF new = NoJob \/ Cls(new).admissionExcluded THEN {} ELSE {new}
  IN  /\ admitted' = (admitted \ out) \cup in
      /\ inflight' = (inflight \ out) \cup in
      /\ memoryUsed' = memoryUsed - MemoryOf(old, out \cap inflight)
                                  + MemoryOf(new, in)
      /\ bandwidthUsed' = bandwidthUsed - BandwidthOf(old, out \cap inflight)
                                        + BandwidthOf(new, in)

(* _collect_candidates: suspended jobs, FIFO heads and pending jobs. *)
Candidates ==
  (preempted \ running)
    \cup {Head(fifo[c]) : c \in {d \in ClassId : fifo[d] # <<>>}}
    \cup {mailbox[s] : s \in {t \in StreamId : mailbox[t] # NoJob}}

(* The job is in the FIFO of its class. *)
Queued(j) == \E i \in DOMAIN fifo[ClassOf[j]] : fifo[ClassOf[j]][i] = j

(* The job is pending in a mailbox. *)
Pending(j) == \E s \in StreamId : mailbox[s] = j

(* _backlog_count = 0.  The runner asks each mailbox for the stream named  *)
(* by the mailbox's own key, which it never holds, so that pending jobs do *)
(* not count.                                                              *)
NoBacklog ==
  /\ \A c \in ClassId : fifo[c] = <<>>
  /\ running = {} /\ preempted = {}

(* _maybe_record_recovery, at the end of a step. *)
MaybeRecordRecovery ==
  recovery' = IF recovery = NoTime /\ now' >= Scenario.recoveryStart
                   /\ NoBacklog'
              THEN now' ELSE recovery

-----------------------------------------------------------------------------
(* The kernel. *)
Event(t, p, n, k, j) ==
  [time |-> t, phase |-> p, seq |-> n, kind |-> k, job |-> j]

(* run_until takes e next: the loop of run stops past the time limit. *)
Takes(e) ==
  /\ status = "events"
  /\ IsFirst(e, events)
  /\ e.time <= Scenario.maxTime

(* _consume_elapsed_work at time t, and complete_job of the jobs in ended: *)
(* a job whose work runs out is completed by the clock, before the handler *)
(* of its own event is called.                                             *)
RunsOut(t) ==
  {j \in Job : jobState[j] = "RUNNING" /\ t > now /\ remaining[j] <= t - now}

(* Faulty: running jobs are not charged the elapsed time. *)
AdvanceClock(t, ended) ==
  /\ now' = t
  /\ jobState' = [j \in Job |->
                    IF j \in ended THEN "COMPLETED" ELSE jobState[j]]
  /\ remaining' = [j \in Job |-> IF j \in ended THEN 0 ELSE remaining[j]]
  /\ finished' = finished \cup ended

AdvanceKernel(t, ended) ==
  LET done == RunsOut(t) \cup ended
  IN  /\ now' = t
      /\ jobState' = [j \in Job |->
                        IF j \in done THEN "COMPLETED" ELSE jobState[j]]
      /\ remaining' = [j \in Job |->
                         IF j \in done THEN 0
                         ELSE IF jobState[j] = "RUNNING"
                              THEN remaining[j] - (t - now) ELSE remaining[j]]
      /\ finished' = finished \cup done

(* Faulty: no dispatch is asked for. *)
Retire(e) == events' = events \ {e} /\ UNCHANGED nextSeq

(* The handler of e is done with it and asks for a dispatch at once. *)
ReplaceByDispatch(e) ==
  /\ events' = (events \ {e})
                 \cup {Event(e.time, DISPATCH, nextSeq, "dispatch", NoJob)}
  /\ nextSeq' = nextSeq + 1

-----------------------------------------------------------------------------
(* Arrivals: _on_arrival, whose event then runs the dispatcher. *)
ArrivalOf(e, j) ==
  /\ Takes(e) /\ e.kind = "arrival" /\ e.job = j
  /\ AdvanceKernel(e.time, {})
  /\ ReplaceByDispatch(e)
  /\ UNCHANGED <<arrival, executionVars, completeTime, busy>>
  /\ MaybeRecordRecovery
  /\ status' = "dispatch" /\ todo' = Candidates'

(* The controller is asked, unless the class bypasses it. *)
Admits(j) == Cls(j).admissionExcluded \/ Admissible(j)

ArriveRejected(e, j) ==
  /\ ~ Admits(j)
  /\ outcome' = [outcome EXCEPT ![j] = "REJECTED"]
  /\ UNCHANGED <<queueVars, admissionVars>>
  /\ ArrivalOf(e, j)

ArriveDropped(e, j) ==
  /\ Admits(j)
  /\ Cls(j).policy = "fifo"
  /\ Len(fifo[ClassOf[j]]) >= Cls(j).queueCapacity
  /\ outcome' = [outcome EXCEPT ![j] = "DROPPED"]
  /\ UNCHANGED <<queueVars, admissionVars>>
  /\ ArrivalOf(e, j)

(* A record starts with the outcome "COMPLETED". *)
ArriveQueued(e, j) ==
  /\ Admits(j)
  /\ Cls(j).policy = "fifo"
  /\ Len(fifo[ClassOf[j]]) < Cls(j).queueCapacity
  /\ fifo' = [fifo EXCEPT ![ClassOf[j]] = Append(@, j)]
  /\ outcome' = [outcome EXCEPT ![j] = "COMPLETED"]
  /\ Reserve(NoJob, j)
  /\ UNCHANGED mailbox
  /\ ArrivalOf(e, j)

ArrivePosted(e, j) ==
  /\ Admits(j)
  /\ Cls(j).policy = "mailbox_latest"
  /\ mailbox[Stream(j)] = NoJob
  /\ mailbox' = [mailbox EXCEPT ![Stream(j)] = j]
  /\ outcome' = [outcome EXCEPT ![j] = "COMPLETED"]
  /\ Reserve(NoJob, j)
  /\ UNCHANGED fifo
  /\ ArrivalOf(e, j)

(* Faulty: the replaced job's record is left as it is. *)
RecordPut(old, j) == outcome' = [outcome EXCEPT ![j] = "COMPLETED"]

(* The pending job is replaced: its reservation is given back before the   *)
(* new one is committed, but after the new job was checked.  (The branches *)
(* for a replaced job that is running or preempted are not reachable:      *)
(* PendingIsFresh.)                                                        *)
RecordReplace(old, j) ==
  outcome' = [outcome EXCEPT ![old] = "REPLACED", ![j] = "COMPLETED"]

ArriveReplacing(e, j) ==
  LET old == mailbox[Stream(j)]
  IN  /\ Admits(j)
      /\ Cls(j).policy = "mailbox_latest"
      /\ old # NoJob
      /\ mailbox' = [mailbox EXCEPT ![Stream(j)] = j]
      /\ RecordReplace(old, j)
      /\ Reserve(old, j)
      /\ UNCHANGED fifo
      /\ ArrivalOf(e, j)

Arrive(e, j) ==
  \/ ArriveRejected(e, j)
  \/ ArriveDropped(e, j)
  \/ ArriveQueued(e, j)
  \/ ArrivePosted(e, j)
  \/ ArriveReplacing(e, j)

-----------------------------------------------------------------------------
(* A dispatch event asked for earlier: _dispatch alone. *)
DispatchEvent(e) ==
  /\ Takes(e) /\ e.kind = "dispatch"
  /\ AdvanceKernel(e.time, {})
  /\ events' = events \ {e}
  /\ status' = "dispatch" /\ todo' = Candidates
  /\ UNCHANGED <<arrival, nextSeq, executionVars, queueVars, admissionVars,
                 metricVars>>

(* The loop of _dispatch takes the candidates in the canonical order. *)
Considers(c) ==
  /\ status = "dispatch"
  /\ c \in todo /\ \A d \in todo \ {c} : Precedes(c, d)

(* Faulty: the started job is looked at, not taken. *)
Look(c) == UNCHANGED queueVars

(* _dequeue_from_runner: a FIFO gives up its head if that is the job; a    *)
(* mailbox gives up whatever is pending on the job's stream.               *)
Dequeue(c) ==
  IF Cls(c).policy = "fifo"
  THEN /\ fifo' = [fifo EXCEPT ![ClassOf[c]] =
                     IF @ # <<>> /\ Head(@) = c THEN Tail(@) ELSE @]
       /\ UNCHANGED mailbox
  ELSE /\ mailbox' = [mailbox EXCEPT ![Stream(c)] = NoJob]
       /\ UNCHANGED fifo

(* _try_start and _start_job: the resources are taken, the kernel job is   *)
(* registered or resumed, and its completion event queued.                 *)
Start(c) ==
  /\ Considers(c)
  /\ c \notin running
  /\ CanAllocate(c)
  /\ used' = Allocated(c)
  /\ preempted' = preempted \ {c}
  /\ Dequeue(c)
  /\ resume' = [resume EXCEPT ![c] = Work(c)]
  /\ jobState' = [jobState EXCEPT ![c] = "RUNNING"]
  /\ remaining' = [remaining EXCEPT ![c] = resume[c]]
  /\ startTime' = [startTime EXCEPT ![c] = now]
  /\ events' = events \cup
                 {Event(now + resume[c], TIMER, nextSeq, "complete", c)}
  /\ nextSeq' = nextSeq + 1
  /\ running' = running \cup {c}
  /\ todo' = todo \ {c}
  /\ UNCHANGED <<arrival, now, finished, admissionVars, metricVars, status>>

(* Faulty: the comparison is reversed. *)
MayBePreemptedBy(c, v) == Preemption /\ Precedes(v, c)

(* _preempt_for: whether running job v may be suspended for candidate c. *)
MayPreempt(c, v) == Preemption /\ Precedes(c, v)

(* cancel_event of v's completion. *)
Uncompleted(v) == {e \in events : ~ (e.kind = "complete" /\ e.job = v)}

(* Faulty: the kernel goes on serving the job. *)
Shown(v) == jobState

(* The kernel job is hidden from the kernel: it is PENDING, with a release *)
(* time past the time limit, so that the kernel never wakes it.            *)
Hidden(v) ==
  [jobState EXCEPT ![v] = IF @ = "RUNNING" THEN "PENDING" ELSE @]

(* Faulty: the job goes to the tail of its queue. *)
Requeued(v) ==
  IF Cls(v).policy = "fifo"
  THEN [fifo EXCEPT ![ClassOf[v]] = Append(@, v)] ELSE fifo

(* A FIFO job goes back to the head of its queue, full or not. *)
Reinserted(v) ==
  IF Cls(v).policy = "fifo"
  THEN [fifo EXCEPT ![ClassOf[v]] = <<v>> \o @] ELSE fifo

(* One turn of _preempt_for and _preempt_job: while the candidate does not *)
(* fit, the last running job in the canonical order is suspended, if the   *)
(* candidate precedes it.                                                  *)
Preempt(c, v) ==
  /\ Considers(c)
  /\ c \notin running
  /\ ~ CanAllocate(c)
  /\ v \in running /\ \A w \in running \ {v} : Precedes(w, v)
  /\ MayPreempt(c, v)
  /\ running' = running \ {v}
  /\ events' = Uncompleted(v)
  /\ jobState' = Hidden(v)
  /\ busy' = [busy EXCEPT ![v] = @ + (now - startTime[v])]
  /\ startTime' = [startTime EXCEPT ![v] = NoTime]
  /\ resume' = [resume EXCEPT ![v] = remaining[v]]
  /\ used' = Released(v)
  /\ preempted' = preempted \cup {v}
  /\ fifo' = Reinserted(v)
  /\ UNCHANGED <<arrival, now, nextSeq, remaining, finished, mailbox,
                 admissionVars, outcome, completeTime, recovery, todo, status>>

(* The candidate is running already, or does not fit and no running job    *)
(* may be suspended for it.                                                *)
Pass(c) ==
  /\ Considers(c)
  /\ \/ c \in running
     \/ /\ ~ CanAllocate(c)
        /\ \A v \in running : ~ MayPreempt(c, v)
  /\ todo' = todo \ {c}
  /\ UNCHANGED <<arrival, kernelVars, executionVars, queueVars,
                 admissionVars, metricVars, status>>

EndDispatch ==
  /\ status = "dispatch" /\ todo = {}
  /\ status' = "events"
  /\ UNCHANGED <<arrival, kernelVars, executionVars, queueVars,
                 admissionVars, outcome, completeTime, busy, todo>>
  /\ MaybeRecordRecovery

-----------------------------------------------------------------------------
(* _on_complete.  After the handler run_until looks for progress: the      *)
(* clock advanced, or a job was added to the kernel's list of completed    *)
(* jobs; else it raises SchedulerError and the run is over.                *)
Complete(e) ==
  LET j == e.job
      ended == IF jobState[j] = "RUNNING" THEN {j} ELSE {}
  IN  /\ Takes(e) /\ e.kind = "complete"
      /\ AdvanceKernel(e.time, ended)
      /\ ReplaceByDispatch(e)
      /\ running' = running \ {j}
      /\ busy' = [busy EXCEPT ![j] = @ + (e.time - startTime[j])]
      /\ startTime' = [startTime EXCEPT ![j] = NoTime]
      /\ outcome' = [outcome EXCEPT ![j] = "COMPLETED"]
      /\ completeTime' = [completeTime EXCEPT ![j] = e.time]
      /\ used' = Released(j)
      /\ Reserve(j, NoJob)
      /\ UNCHANGED <<arrival, preempted, resume, queueVars, todo>>
      /\ MaybeRecordRecovery
      /\ status' = IF now' > now \/ finished' # finished
                   THEN "events" ELSE "raised"

(* No event is left before the time limit: run counts the jobs still in    *)
(* the FIFOs as dropped and computes the metrics.                          *)
Finish ==
  /\ status = "events"
  /\ \A e \in events : e.time > Scenario.maxTime
  /\ outcome' = [j \in Job |->
                   IF Queued(j) THEN "DROPPED" ELSE outcome[j]]
  /\ fifo' = [c \in ClassId |-> <<>>]
  /\ status' = "done"
  /\ UNCHANGED <<arrival, kernelVars, executionVars, mailbox, admissionVars,
                 completeTime, busy, recovery, todo>>

Terminated == status \in {"done", "raised"} /\ UNCHANGED vars

-----------------------------------------------------------------------------
(* Place of release j in the compiled list, sorted by (arrival, sequence). *)
Place(j) ==
  Cardinality({i \in Job : arrival[i] < arrival[j]
                             \/ (arrival[i] = arrival[j] /\ i < j)})

(* The arrival events are all queued first, as DISPATCH events, and then a *)
(* dispatch at time 0.  The releases of a class arrive in order.           *)
Init ==
  /\ arrival \in [Job -> ArrivalTimes]
  /\ \A i, j \in Job :
       ClassOf[i] = ClassOf[j] /\ i < j => arrival[i] <= arrival[j]
  /\ now = 0
  /\ events = {Event(arrival[j], DISPATCH, Place(j), "arrival", j) : j \in Job}
                \cup {Event(0, DISPATCH, Cardinality(Job), "dispatch", NoJob)}
  /\ nextSeq = Cardinality(Job) + 1
  /\ jobState = [j \in Job |-> "absent"]
  /\ remaining = [j \in Job |-> 0]
  /\ finished = {}
  /\ used = [r \in Resource |-> 0]
  /\ running = {} /\ preempted = {}
  /\ startTime = [j \in Job |-> NoTime]
  /\ resume = [j \in Job |-> Work(j)]
  /\ fifo = [c \in ClassId |-> <<>>]
  /\ mailbox = [s \in StreamId |-> NoJob]
  /\ admitted = {} /\ inflight = {} /\ memoryUsed = 0 /\ bandwidthUsed = 0
  /\ outcome = [j \in Job |-> "absent"]
  /\ completeTime = [j \in Job |-> NoTime]
  /\ busy = [j \in Job |-> 0]
  /\ recovery = NoTime
  /\ todo = {}
  /\ status = "events"

Dispatch ==
  \/ \E c \in todo : Start(c) \/ Pass(c) \/ \E v \in running : Preempt(c, v)
  \/ EndDispatch

Next ==
  \/ \E e \in events : \/ \E j \in Job : Arrive(e, j)
                       \/ DispatchEvent(e)
                       \/ Complete(e)
  \/ Dispatch
  \/ Finish
  \/ Terminated

(* The program is a loop that runs whenever it can. *)
Spec == Init /\ [][Next]_vars /\ WF_vars(Next)

-----------------------------------------------------------------------------
(* Safety properties.                                                      *)
QueuedEvent ==
  [time : Nat, phase : EventPhase, seq : Nat,
   kind : {"arrival", "dispatch", "complete"}, job : Job \cup {NoJob}]

KernelTypeOK ==
  /\ arrival \in [Job -> Nat]
  /\ now \in Nat /\ nextSeq \in Nat
  /\ events \subseteq QueuedEvent
  /\ \A e \in events : e.kind = "dispatch" <=> e.job = NoJob
  /\ jobState \in [Job -> {"absent", "PENDING", "RUNNING", "COMPLETED"}]
  /\ remaining \in [Job -> Nat]
  /\ finished \subseteq Job

ExecutionTypeOK ==
  /\ used \in [Resource -> Nat]
  /\ running \subseteq Job /\ preempted \subseteq Job
  /\ startTime \in [Job -> Nat \cup {NoTime}]
  /\ resume \in [Job -> Nat]

QueueTypeOK ==
  /\ fifo \in [ClassId -> Seq(Job)]
  /\ mailbox \in [StreamId -> Job \cup {NoJob}]

AdmissionTypeOK ==
  /\ admitted \subseteq Job /\ inflight \subseteq Job
  /\ memoryUsed \in Int /\ bandwidthUsed \in Int

OutcomeTypeOK ==
  outcome \in [Job -> {"absent", "COMPLETED", "DROPPED", "REPLACED", "REJECTED"}]

MetricTypeOK ==
  /\ completeTime \in [Job -> Nat \cup {NoTime}]
  /\ busy \in [Job -> Nat]
  /\ recovery \in Nat \cup {NoTime}

(* The types of all variables; events of the runner name their job.        *)
TypeOK ==
  /\ KernelTypeOK /\ ExecutionTypeOK /\ QueueTypeOK /\ AdmissionTypeOK
  /\ OutcomeTypeOK /\ MetricTypeOK
  /\ todo \subseteq Job
  /\ status \in {"events", "dispatch", "done", "raised"}

(* What the jobs in S take of resource r together. *)
TotalNeed(S, r) == SumFunctionOnSet([j \in Job |-> Cls(j).needs[r]], S)

(* The counters of _resource_used are what the running jobs hold: nothing  *)
(* leaks or is returned twice over starts, suspensions and completions,    *)
(* though a release too many would be hidden by the clamp at zero and let  *)
(* later jobs exceed the capacity, and one too few would starve them.      *)
UsedIsHeld == \A r \in Resource : used[r] = TotalNeed(running, r)

(* Every running job has exactly one completion event queued, and no other *)
(* job has one; it is due when the work the kernel has left for the job    *)
(* runs out, at whatever times it was suspended and resumed before.        *)
CompletionsOf(j) == {e \in events : e.kind = "complete" /\ e.job = j}

CompletionDue ==
  /\ \A j \in running :
       \E e \in CompletionsOf(j) :
         e.time = now + remaining[j] /\ CompletionsOf(j) = {e}
  /\ \A e \in events : e.kind = "complete" => e.job \in running
  /\ \A e \in events : e.time >= now

(* The runner's and the kernel's view of a job agree between events.       *)
KernelAgrees ==
  \A j \in Job :
    /\ j \in running => jobState[j] \in {"RUNNING", "COMPLETED"}
    /\ jobState[j] = "RUNNING" => j \in running
    /\ jobState[j] = "PENDING" <=> j \in preempted
    /\ j \in running /\ jobState[j] = "COMPLETED" => remaining[j] = 0

(* The job has met its fate. *)
Settled(j) ==
  outcome[j] \in {"DROPPED", "REPLACED", "REJECTED"} \/ completeTime[j] # NoTime

(* Until the run is over a job is at most at one place, and has none once  *)
(* it has met its fate.                                                    *)
OnePlace ==
  status # "done" => \A j \in Job :
    /\ ~ (j \in running /\ j \in preempted)
    /\ j \in running => ~ Queued(j)
    /\ Pending(j) => j \notin running \cup preempted
    /\ Settled(j) =>
         j \notin running \cup preempted /\ ~ Queued(j) /\ ~ Pending(j)

(* A pending mailbox job was never started: replacing it cannot take a     *)
(* running or suspended job away.                                          *)
PendingIsFresh ==
  status # "done" => \A s \in StreamId :
    LET j == mailbox[s]
    IN  j # NoJob => jobState[j] = "absent" /\ resume[j] = Work(j)

(* Until the run is over the suspended jobs of a FIFO class stand before   *)
(* its fresh jobs, and the whole queue is in the canonical order.          *)
FifoInOrder ==
  status # "done" => \A c \in ClassId :
    /\ \A i, k \in DOMAIN fifo[c] : i < k => Precedes(fifo[c][i], fifo[c][k])
    /\ \A i, k \in DOMAIN fifo[c] :
         i < k /\ fifo[c][k] \in preempted => fifo[c][i] \in preempted
    /\ \A j \in preempted : Cls(j).policy = "fifo" => Queued(j)

(* Service is neither lost nor done twice: what was charged to a job, what *)
(* it is being served and what is left add up to its work.                 *)
ServiceConserved ==
  \A j \in Job :
    /\ j \in running => busy[j] + (now - startTime[j]) + remaining[j] = Work(j)
    /\ j \notin running /\ ~ Settled(j) => busy[j] + resume[j] = Work(j)
    /\ completeTime[j] # NoTime => busy[j] = Work(j)

(* AdmissionController: the reservations in force never exceed any of the  *)
(* three limits, although a replacing job is checked before the job it     *)
(* replaces gives its reservation back.                                    *)
AdmissionWithinLimits ==
  /\ memoryUsed <= Scenario.memoryAvailable
  /\ bandwidthUsed <= Scenario.maxBandwidth
  /\ Cardinality(inflight) <= Scenario.maxInflight

(* The runner's _admitted and the controller agree, and the controller's   *)
(* counters are the sums over the jobs inflight: over replacements and     *)
(* completions no reservation leaks and none is given back twice.          *)
AdmissionAccounts ==
  /\ inflight = admitted
  /\ memoryUsed = SumFunctionOnSet([j \in Job |-> Cls(j).memory], inflight)
  /\ bandwidthUsed = SumFunctionOnSet([j \in Job |-> Cls(j).bandwidth], inflight)

(* The runner is between two events and no event is due at this time. *)
Quiescent == status = "events" /\ \A e \in events : e.time > now

(* Between events no job is lost: a job that was accepted and has not met  *)
(* its fate runs, is suspended or waits in a queue, and a job that holds a *)
(* reservation is such a job, so that reservations are given back.         *)
NothingLost ==
  status = "events" =>
    \A j \in Job :
      (outcome[j] = "COMPLETED" /\ completeTime[j] = NoTime) \/ j \in admitted =>
        j \in running \cup preempted \/ Queued(j) \/ Pending(j)

(* When nothing more happens at this time, no waiting job precedes a job   *)
(* that is running and would leave it its place.                           *)
NoPriorityInversion ==
  Quiescent /\ Preemption =>
    \A c \in Candidates \ running, v \in running : ~ Precedes(c, v)

(* ... and no candidate waits although it would fit. *)
WorkConserving ==
  Quiescent => \A c \in Candidates \ running : ~ CanAllocate(c)

(* Where job j stands on the path of JobLifecycle. *)
Phase(j) ==
  IF j \in running THEN "running"
  ELSE IF j \in preempted /\ ~(status = "done" /\ outcome[j] = "DROPPED") THEN "suspended"
  ELSE CASE outcome[j] = "absent" -> "future"
         [] outcome[j] = "REJECTED" -> "rejected"
         [] outcome[j] = "DROPPED" -> "dropped"
         [] outcome[j] = "REPLACED" -> "replaced"
         [] OTHER -> IF completeTime[j] # NoTime THEN "completed" ELSE "waiting"

Lifecycle == INSTANCE JobLifecycle
  WITH phase <- [j \in Job |-> Phase(j)], served <- busy,
       Service <- [j \in Job |-> Work(j)]

(* Each job takes one path from its arrival to a single final fate, and    *)
(* execution time is charged to it (record_resource_busy) only when it     *)
(* leaves the processor, in all exactly its work if it completes.          *)
ImplementsLifecycle == Lifecycle!Spec

(* With a time limit beyond all the work, every job a queue accepted is    *)
(* eventually completed, unless a later arrival on its stream replaces it: *)
(* after each event that frees a place a dispatch follows.                 *)
AcceptedComplete ==
  \A j \in Job :
    outcome[j] = "COMPLETED"
      ~> completeTime[j] # NoTime \/ outcome[j] = "REPLACED"

-----------------------------------------------------------------------------
(* What the shipped scenarios have in common, and some properties need.    *)

(* Every class needs as much of every resource as every other: in          *)
(* config/temporal_scenarios.yaml one unit of "compute".                   *)
UniformNeeds == \A c, d \in ClassId : Classes[c].needs = Classes[d].needs

(* The ids of a class are its id and a running number of fixed width, so   *)
(* that their string order is the order of the releases.                   *)
IdsInOrder ==
  \A i, j \in Job : ClassOf[i] = ClassOf[j] /\ i < j => IdRank[i] < IdRank[j]

(* Where jobs are suspended, a mailbox class has the highest priority.     *)
MailboxOnTop ==
  \A i, j \in Job :
    Preemption /\ Cls(i).policy = "mailbox_latest" /\ ClassOf[i] # ClassOf[j] =>
      Cls(j).priority < Cls(i).priority

-----------------------------------------------------------------------------
(* What comments of the program say.                                       *)

(* scenario_runner.py: the runner "drives the discrete-event scheduler     *)
(* kernel, and returns a ScenarioMetrics".                                 *)
ReturnsMetrics == status # "raised"

(* schema.py: "the runner drains all admitted jobs before finalizing       *)
(* metrics"; the time limit of the run is beyond all the work.             *)
DrainsAdmitted == status = "done" => admitted = {}
=============================================================================
