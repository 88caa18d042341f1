------------------------- MODULE ScenarioRunnerProofs -------------------------
(***************************************************************************)
(* Proofs about ScenarioRunner, for every scenario and every list of       *)
(* releases.                                                               *)
(***************************************************************************)
EXTENDS ScenarioRunner, Sums, SequenceTheorems, FiniteSetTheorems, TLAPS

(* Completions are TIMER events, arrivals and dispatches DISPATCH events.  *)
EventKinds ==
  \A e \in events : e.phase = (IF e.kind = "complete" THEN TIMER ELSE DISPATCH)

(* No job was started in the future. *)
StartedBefore == \A j \in Job : startTime[j] <= now

(* A job is never started with nothing to do. *)
ResumePositive == \A j \in Job : resume[j] > 0

(* Once the dispatcher runs, every completion due by now was handled: an   *)
(* instant's TIMER events precede its DISPATCH events.                     *)
DispatchAfterTimers ==
  status = "dispatch" =>
    \A e \in events : e.kind = "complete" => e.time > now

IInv ==
  /\ TypeOK
  /\ EventKinds
  /\ CompletionDue
  /\ KernelAgrees
  /\ StartedBefore
  /\ ResumePositive
  /\ DispatchAfterTimers

-----------------------------------------------------------------------------
(* The constants. *)

(* A class has the fields of a WorkloadClass. *)
LEMMA ClassTypes ==
  ASSUME NEW j \in Job
  PROVE  /\ ClassOf[j] \in ClassId
         /\ Work(j) \in Nat /\ Work(j) > 0
         /\ Stream(j) \in StreamId
         /\ Cls(j).needs \in [Resource -> Nat]
         /\ Cls(j).memory \in Nat /\ Cls(j).bandwidth \in Nat
         /\ Cls(j).queueCapacity \in Nat
BY RunnerAssumption DEF Work, Stream, Cls, WorkloadClass

(* What a dispatcher collects out of well-typed queues are jobs. *)
LEMMA CandidatesAreJobs ==
  ExecutionTypeOK /\ QueueTypeOK => Candidates \subseteq Job
<1> SUFFICES ASSUME ExecutionTypeOK, QueueTypeOK PROVE Candidates \subseteq Job
  OBVIOUS
<1>1. \A c \in ClassId : fifo[c] # <<>> => Head(fifo[c]) \in Job
  BY DEF QueueTypeOK
<1>2. \A s \in StreamId : mailbox[s] # NoJob => mailbox[s] \in Job
  BY DEF QueueTypeOK
<1> QED BY <1>1, <1>2 DEF Candidates, ExecutionTypeOK

(* ... in the next state as well. *)
LEMMA CandidatesAreJobsNext ==
  (ExecutionTypeOK /\ QueueTypeOK => Candidates \subseteq Job)'
BY CandidatesAreJobs, PTL

(* Reservations are given back and granted to jobs, in whole numbers.      *)
LEMMA ReserveTyped ==
  ASSUME AdmissionTypeOK, NEW old \in Job \cup {NoJob},
         NEW new \in Job \cup {NoJob}, Reserve(old, new)
  PROVE  AdmissionTypeOK'
<1> DEFINE out == {old} \cap admitted
           in  == IF new = NoJob \/ Cls(new).admissionExcluded THEN {} ELSE {new}
<1>1. in \subseteq Job /\ out \subseteq Job
  BY DEF AdmissionTypeOK
<1>2. \A j \in Job \cup {NoJob} : \A S \in SUBSET Job :
        MemoryOf(j, S) \in Int /\ BandwidthOf(j, S) \in Int
  BY ClassTypes DEF MemoryOf, BandwidthOf
<1>3. /\ admitted' = (admitted \ out) \cup in
      /\ inflight' = (inflight \ out) \cup in
      /\ memoryUsed' = memoryUsed - MemoryOf(old, out \cap inflight)
                                  + MemoryOf(new, in)
      /\ bandwidthUsed' = bandwidthUsed - BandwidthOf(old, out \cap inflight)
                                        + BandwidthOf(new, in)
  BY DEF Reserve
<1> HIDE DEF in, out
<1>4. memoryUsed' \in Int /\ bandwidthUsed' \in Int
  <2>1. out \cap inflight \in SUBSET Job /\ in \in SUBSET Job
    BY <1>1
  <2> QED BY <1>2, <1>3, <2>1 DEF AdmissionTypeOK
<1> QED BY <1>1, <1>3, <1>4 DEF AdmissionTypeOK

-----------------------------------------------------------------------------
(* The initial states. *)
LEMMA InitIInv == Init => IInv
<1> SUFFICES ASSUME Init PROVE IInv
  OBVIOUS
<1>1. \A j \in Job : Place(j) \in Nat
  <2> TAKE j \in Job
  <2> DEFINE S == {i \in Job : arrival[i] < arrival[j]
                                 \/ (arrival[i] = arrival[j] /\ i < j)}
  <2>1. IsFiniteSet(S)
    BY FS_Subset, RunnerAssumption
  <2> QED BY <2>1, FS_CardinalityType DEF Place
<1>2. Cardinality(Job) \in Nat
  BY FS_CardinalityType, RunnerAssumption
<1>3. arrival \in [Job -> Nat]
  BY RunnerAssumption DEF Init
<1>4. \A e \in events :
        /\ e \in QueuedEvent /\ e.phase = DISPATCH
        /\ e.kind \in {"arrival", "dispatch"} /\ e.time >= 0
        /\ e.kind = "dispatch" <=> e.job = NoJob
  BY <1>1, <1>2, <1>3, RunnerAssumption
     DEF Init, Event, QueuedEvent, EventPhase, DISPATCH
<1>5. KernelTypeOK
  BY <1>2, <1>3, <1>4 DEF Init, KernelTypeOK
<1>6. ExecutionTypeOK
  BY ClassTypes DEF Init, ExecutionTypeOK, NoTime
<1>7. QueueTypeOK /\ AdmissionTypeOK /\ OutcomeTypeOK /\ MetricTypeOK
  BY DEF Init, QueueTypeOK, AdmissionTypeOK, OutcomeTypeOK, MetricTypeOK,
         NoTime
<1>8. TypeOK
  BY <1>5, <1>6, <1>7 DEF TypeOK, Init
<1>9. EventKinds
  BY <1>4 DEF EventKinds
<1>10. CompletionDue
  BY <1>4 DEF CompletionDue, CompletionsOf, Init
<1>11. KernelAgrees
  BY DEF Init, KernelAgrees
<1>12. StartedBefore /\ ResumePositive /\ DispatchAfterTimers
  BY ClassTypes DEF Init, StartedBefore, ResumePositive, DispatchAfterTimers,
                    NoTime
<1> QED BY <1>8, <1>9, <1>10, <1>11, <1>12 DEF IInv

-----------------------------------------------------------------------------
(* The events. *)

(* What the kernel does before a handler is called, at the time of event e *)
(* (which may end the job of e itself): the clock does not go back, every  *)
(* other running job keeps its due time, and the states still agree.       *)
LEMMA AdvanceFacts ==
  ASSUME IInv, NEW e \in events, Takes(e), NEW ended \in SUBSET Job,
         ended \subseteq {j \in Job : jobState[j] = "RUNNING"},
         AdvanceKernel(e.time, ended)
  PROVE  /\ now' = e.time /\ now' \in Nat /\ now' >= now
         /\ jobState' \in
              [Job -> {"absent", "PENDING", "RUNNING", "COMPLETED"}]
         /\ remaining' \in [Job -> Nat]
         /\ finished' \subseteq Job
         /\ \A f \in events : f.time >= now'
         /\ \A j \in running \ ended : now' + remaining'[j] = now + remaining[j]
         /\ \A j \in Job :
              /\ j \in running \ ended => jobState'[j] \in {"RUNNING", "COMPLETED"}
              /\ jobState'[j] = "RUNNING" => j \in running \ ended
              /\ jobState'[j] = "PENDING" <=> j \in preempted
              /\ jobState'[j] = "COMPLETED" /\ j \in running => remaining'[j] = 0
<1>1. /\ e \in QueuedEvent /\ e.time \in Nat /\ now \in Nat /\ e.time >= now
      /\ \A f \in events : f \in QueuedEvent /\ f.time \in Nat
  BY DEF IInv, TypeOK, KernelTypeOK, CompletionDue, QueuedEvent
<1>2. /\ jobState \in [Job -> {"absent", "PENDING", "RUNNING", "COMPLETED"}]
      /\ remaining \in [Job -> Nat] /\ finished \subseteq Job
      /\ running \subseteq Job /\ preempted \subseteq Job
  BY DEF IInv, TypeOK, KernelTypeOK, ExecutionTypeOK
<1>3. now' = e.time /\ now' \in Nat /\ now' >= now
  BY <1>1 DEF AdvanceKernel
<1>4. \A f \in events : f.time >= now'
  BY <1>1, <1>3 DEF Takes, IsFirst, Before
<1>5. \A j \in Job : jobState[j] = "RUNNING" /\ j \notin RunsOut(e.time) =>
                      remaining[j] - (e.time - now) \in Nat
  BY <1>1, <1>2 DEF RunsOut
<1>6. remaining' \in [Job -> Nat]
  <2>1. \A j \in Job : remaining'[j] \in Nat
    BY <1>2, <1>5 DEF AdvanceKernel
  <2> QED BY <2>1 DEF AdvanceKernel
<1>7. /\ jobState' \in [Job -> {"absent", "PENDING", "RUNNING", "COMPLETED"}]
      /\ finished' \subseteq Job
  BY <1>2 DEF AdvanceKernel, RunsOut
<1>8. ASSUME NEW j \in running \ ended
      PROVE  now' + remaining'[j] = now + remaining[j]
  <2>1. PICK f \in CompletionsOf(j) : f.time = now + remaining[j]
    BY <1>8 DEF IInv, CompletionDue
  <2>2. now + remaining[j] >= e.time
    BY <2>1, <1>3, <1>4 DEF CompletionsOf
  <2>3. CASE jobState[j] = "RUNNING" /\ j \in RunsOut(e.time)
    <3>1. remaining'[j] = 0
      BY <2>3, <1>2, <1>8 DEF AdvanceKernel
    <3> QED BY <3>1, <2>2, <2>3, <1>1, <1>2, <1>3, <1>8 DEF RunsOut
  <2>4. CASE jobState[j] = "RUNNING" /\ j \notin RunsOut(e.time)
    <3>1. remaining'[j] = remaining[j] - (e.time - now)
      BY <2>4, <1>2, <1>8 DEF AdvanceKernel
    <3> QED BY <3>1, <1>1, <1>2, <1>3, <1>8
  <2>5. CASE jobState[j] # "RUNNING"
    <3>1. remaining[j] = 0
      BY <2>5, <1>2, <1>8 DEF IInv, KernelAgrees
    <3>2. remaining'[j] = 0
      BY <3>1, <2>5, <1>2, <1>8 DEF AdvanceKernel, RunsOut
    <3> QED BY <3>1, <3>2, <2>2, <1>1, <1>3
  <2> QED BY <2>3, <2>4, <2>5
<1>9. ASSUME NEW j \in Job
      PROVE  /\ j \in running \ ended => jobState'[j] \in {"RUNNING", "COMPLETED"}
             /\ jobState'[j] = "RUNNING" => j \in running \ ended
             /\ jobState'[j] = "PENDING" <=> j \in preempted
             /\ jobState'[j] = "COMPLETED" /\ j \in running => remaining'[j] = 0
  BY <1>2 DEF IInv, KernelAgrees, AdvanceKernel, RunsOut
<1> QED BY <1>3, <1>4, <1>6, <1>7, <1>8, <1>9

(* The event the handler leaves behind has the right type.                 *)
LEMMA DispatchTyped ==
  ASSUME NEW t \in Nat, nextSeq \in Nat
  PROVE  LET d == Event(t, DISPATCH, nextSeq, "dispatch", NoJob)
         IN  d \in QueuedEvent /\ d.kind = "dispatch" /\ d.job = NoJob
               /\ d.phase = DISPATCH /\ d.time = t
BY DEF Event, QueuedEvent, EventPhase, DISPATCH

(* An arrival keeps the invariant, whatever becomes of the job, if its     *)
(* queues, reservations and outcome stay well-typed.                       *)
LEMMA ArrivalInv ==
  ASSUME IInv, NEW e \in events, NEW j \in Job, ArrivalOf(e, j),
         QueueTypeOK', AdmissionTypeOK', OutcomeTypeOK'
  PROVE  IInv'
<1> DEFINE d == Event(e.time, DISPATCH, nextSeq, "dispatch", NoJob)
<1>1. Takes(e) /\ e.kind = "arrival" /\ AdvanceKernel(e.time, {})
  BY DEF ArrivalOf
<1>2. /\ now' = e.time /\ now' \in Nat /\ now' >= now
      /\ jobState' \in [Job -> {"absent", "PENDING", "RUNNING", "COMPLETED"}]
      /\ remaining' \in [Job -> Nat] /\ finished' \subseteq Job
      /\ \A f \in events : f.time >= now'
      /\ \A i \in running : now' + remaining'[i] = now + remaining[i]
      /\ \A i \in Job :
           /\ i \in running => jobState'[i] \in {"RUNNING", "COMPLETED"}
           /\ jobState'[i] = "RUNNING" => i \in running
           /\ jobState'[i] = "PENDING" <=> i \in preempted
           /\ jobState'[i] = "COMPLETED" /\ i \in running => remaining'[i] = 0
  <2>1. {} \subseteq {i \in Job : jobState[i] = "RUNNING"} /\ {} \in SUBSET Job
    OBVIOUS
  <2> HIDE DEF d
  <2>2. running \ {} = running
    OBVIOUS
  <2> QED BY <1>1, <2>1, <2>2, AdvanceFacts
<1>3. /\ d \in QueuedEvent /\ d.kind = "dispatch" /\ d.job = NoJob
      /\ d.phase = DISPATCH /\ d.time = now'
  BY <1>2, DispatchTyped DEF IInv, TypeOK, KernelTypeOK
<1>4. events' = (events \ {e}) \cup {d} /\ nextSeq' = nextSeq + 1
  BY DEF ArrivalOf, ReplaceByDispatch
<1>5. /\ UNCHANGED <<arrival, used, running, startTime, preempted, resume,
                     completeTime, busy>>
      /\ status' = "dispatch" /\ todo' = Candidates'
      /\ recovery' \in {recovery, now'}
  BY DEF ArrivalOf, MaybeRecordRecovery, executionVars
<1> HIDE DEF d
<1>6. KernelTypeOK'
  BY <1>2, <1>3, <1>4, <1>5 DEF IInv, TypeOK, KernelTypeOK
<1>7. ExecutionTypeOK' /\ MetricTypeOK'
  BY <1>2, <1>5 DEF IInv, TypeOK, ExecutionTypeOK, MetricTypeOK
<1>8. todo' \subseteq Job
  BY <1>5, <1>7, CandidatesAreJobsNext
<1>9. TypeOK'
  BY <1>5, <1>6, <1>7, <1>8 DEF TypeOK
<1>10. EventKinds'
  BY <1>3, <1>4 DEF IInv, EventKinds
<1>11. CompletionDue'
  <2>1. \A i \in Job : CompletionsOf(i)' = CompletionsOf(i)
    BY <1>1, <1>3, <1>4 DEF CompletionsOf
  <2>2. running \subseteq Job
    BY DEF IInv, TypeOK, ExecutionTypeOK
  <2>3. \A f \in events' : f.time >= now'
    BY <1>2, <1>3, <1>4
  <2>4. \A f \in events' : f.kind = "complete" => f.job \in running'
    BY <1>3, <1>4, <1>5 DEF IInv, CompletionDue
  <2> QED BY <1>2, <1>5, <2>1, <2>2, <2>3, <2>4 DEF IInv, CompletionDue
<1>12. KernelAgrees'
  BY <1>2, <1>5 DEF KernelAgrees
<1>13. StartedBefore' /\ ResumePositive'
  BY <1>2, <1>5 DEF IInv, TypeOK, KernelTypeOK, ExecutionTypeOK, NoTime,
                    StartedBefore, ResumePositive
<1>14. DispatchAfterTimers'
  <2>1. ASSUME NEW f \in events', f.kind = "complete" PROVE f.time > now'
    <3>1. f \in events /\ f # e
      BY <2>1, <1>1, <1>3, <1>4
    <3>2. f.phase = TIMER /\ e.phase = DISPATCH
      BY <1>1, <2>1, <3>1 DEF IInv, EventKinds
    <3>3. f.time \in Nat /\ e.time \in Nat
      BY <3>1 DEF IInv, TypeOK, KernelTypeOK, QueuedEvent
    <3> QED BY <1>1, <1>2, <3>1, <3>2, <3>3
            DEF Takes, IsFirst, Before, TIMER, DISPATCH
  <2> QED BY <2>1 DEF DispatchAfterTimers
<1> QED BY <1>9, <1>10, <1>11, <1>12, <1>13, <1>14 DEF IInv

(* The dispatch events. *)
LEMMA DispatchEventInv ==
  ASSUME IInv, NEW e \in events, DispatchEvent(e)
  PROVE  IInv'
<1>1. Takes(e) /\ e.kind = "dispatch" /\ AdvanceKernel(e.time, {})
  BY DEF DispatchEvent
<1>2. /\ now' = e.time /\ now' \in Nat /\ now' >= now
      /\ jobState' \in [Job -> {"absent", "PENDING", "RUNNING", "COMPLETED"}]
      /\ remaining' \in [Job -> Nat] /\ finished' \subseteq Job
      /\ \A f \in events : f.time >= now'
      /\ \A i \in running : now' + remaining'[i] = now + remaining[i]
      /\ \A i \in Job :
           /\ i \in running => jobState'[i] \in {"RUNNING", "COMPLETED"}
           /\ jobState'[i] = "RUNNING" => i \in running
           /\ jobState'[i] = "PENDING" <=> i \in preempted
           /\ jobState'[i] = "COMPLETED" /\ i \in running => remaining'[i] = 0
  <2>1. {} \subseteq {i \in Job : jobState[i] = "RUNNING"} /\ {} \in SUBSET Job
    OBVIOUS
  <2>2. running \ {} = running
    OBVIOUS
  <2> QED BY <1>1, <2>1, <2>2, AdvanceFacts
<1>3. /\ events' = events \ {e}
      /\ status' = "dispatch" /\ todo' = Candidates
      /\ UNCHANGED <<arrival, nextSeq, executionVars, queueVars, admissionVars,
                     metricVars>>
  BY DEF DispatchEvent
<1>4. KernelTypeOK'
  BY <1>2, <1>3 DEF IInv, TypeOK, KernelTypeOK
<1>5. /\ ExecutionTypeOK' /\ QueueTypeOK' /\ AdmissionTypeOK'
      /\ OutcomeTypeOK' /\ MetricTypeOK'
  BY <1>3 DEF IInv, TypeOK, ExecutionTypeOK, QueueTypeOK, AdmissionTypeOK,
              OutcomeTypeOK, MetricTypeOK, executionVars, queueVars,
              admissionVars, metricVars
<1>6. todo' \subseteq Job
  BY <1>3, CandidatesAreJobs DEF IInv, TypeOK
<1>7. TypeOK'
  BY <1>3, <1>4, <1>5, <1>6 DEF TypeOK
<1>8. EventKinds'
  BY <1>3 DEF IInv, EventKinds
<1>9. CompletionDue'
  <2>1. \A i \in Job : CompletionsOf(i)' = CompletionsOf(i)
    BY <1>1, <1>3 DEF CompletionsOf
  <2>2. running \subseteq Job
    BY DEF IInv, TypeOK, ExecutionTypeOK
  <2> QED BY <1>2, <1>3, <2>1, <2>2 DEF IInv, CompletionDue, executionVars
<1>10. KernelAgrees'
  BY <1>2, <1>3 DEF KernelAgrees, executionVars
<1>11. StartedBefore' /\ ResumePositive'
  BY <1>2, <1>3 DEF IInv, TypeOK, KernelTypeOK, ExecutionTypeOK, NoTime,
                    StartedBefore, ResumePositive, executionVars
<1>12. DispatchAfterTimers'
  <2>1. ASSUME NEW f \in events', f.kind = "complete" PROVE f.time > now'
    <3>1. f \in events /\ f # e
      BY <2>1, <1>3
    <3>2. f.phase = TIMER /\ e.phase = DISPATCH
      BY <1>1, <2>1, <3>1 DEF IInv, EventKinds
    <3>3. f.time \in Nat /\ e.time \in Nat
      BY <3>1 DEF IInv, TypeOK, KernelTypeOK, QueuedEvent
    <3> QED BY <1>1, <1>2, <3>1, <3>2, <3>3
            DEF Takes, IsFirst, Before, TIMER, DISPATCH
  <2> QED BY <2>1 DEF DispatchAfterTimers
<1> QED BY <1>7, <1>8, <1>9, <1>10, <1>11, <1>12 DEF IInv

(* The completions: the job of the event leaves the processor, its only    *)
(* completion event leaves the queue.                                      *)
LEMMA CompleteInv ==
  ASSUME IInv, NEW e \in events, Complete(e)
  PROVE  IInv'
<1> DEFINE j == e.job
           ended == IF jobState[j] = "RUNNING" THEN {j} ELSE {}
           d == Event(e.time, DISPATCH, nextSeq, "dispatch", NoJob)
<1>1. Takes(e) /\ e.kind = "complete" /\ AdvanceKernel(e.time, ended)
  BY DEF Complete
<1>2. j \in running /\ j \in Job
  BY <1>1 DEF IInv, CompletionDue, TypeOK, ExecutionTypeOK
<1>3. /\ now' = e.time /\ now' \in Nat /\ now' >= now
      /\ jobState' \in [Job -> {"absent", "PENDING", "RUNNING", "COMPLETED"}]
      /\ remaining' \in [Job -> Nat] /\ finished' \subseteq Job
      /\ \A f \in events : f.time >= now'
      /\ \A i \in running \ ended : now' + remaining'[i] = now + remaining[i]
      /\ \A i \in Job :
           /\ i \in running \ ended => jobState'[i] \in {"RUNNING", "COMPLETED"}
           /\ jobState'[i] = "RUNNING" => i \in running \ ended
           /\ jobState'[i] = "PENDING" <=> i \in preempted
           /\ jobState'[i] = "COMPLETED" /\ i \in running => remaining'[i] = 0
  <2>1. ended \subseteq {i \in Job : jobState[i] = "RUNNING"}
        /\ ended \in SUBSET Job
    BY <1>2
  <2> HIDE DEF ended
  <2> QED BY <1>1, <2>1, AdvanceFacts
<1>4. /\ d \in QueuedEvent /\ d.kind = "dispatch" /\ d.job = NoJob
      /\ d.phase = DISPATCH /\ d.time = now'
  BY <1>3, DispatchTyped DEF IInv, TypeOK, KernelTypeOK
<1>5. /\ events' = (events \ {e}) \cup {d} /\ nextSeq' = nextSeq + 1
      /\ running' = running \ {j}
      /\ busy' = [busy EXCEPT ![j] = @ + (now' - startTime[j])]
      /\ startTime' = [startTime EXCEPT ![j] = NoTime]
      /\ outcome' = [outcome EXCEPT ![j] = "COMPLETED"]
      /\ completeTime' = [completeTime EXCEPT ![j] = now']
      /\ used' = Released(j) /\ Reserve(j, NoJob)
      /\ UNCHANGED <<arrival, preempted, resume, queueVars, todo>>
      /\ recovery' \in {recovery, now'}
      /\ status' \in {"events", "raised"}
  BY <1>3 DEF Complete, ReplaceByDispatch, MaybeRecordRecovery
<1>6. jobState'[j] # "RUNNING"
  <2>1. CASE jobState[j] = "RUNNING"
    BY <1>2, <1>3, <2>1
  <2>2. CASE jobState[j] # "RUNNING"
    BY <1>1, <1>2, <2>2 DEF AdvanceKernel, RunsOut, IInv, TypeOK, KernelTypeOK
  <2> QED BY <2>1, <2>2
<1>7. ended \subseteq {j}
  OBVIOUS
<1> HIDE DEF d, ended
<1>8. KernelTypeOK'
  BY <1>3, <1>4, <1>5 DEF IInv, TypeOK, KernelTypeOK
<1>9. ExecutionTypeOK'
  <2>1. used' \in [Resource -> Nat]
    BY <1>2, <1>5, ClassTypes DEF Released, IInv, TypeOK, ExecutionTypeOK
  <2> QED BY <1>2, <1>5, <2>1 DEF IInv, TypeOK, ExecutionTypeOK
<1>10. AdmissionTypeOK'
  BY <1>2, <1>5, ReserveTyped DEF IInv, TypeOK
<1>11. MetricTypeOK' /\ OutcomeTypeOK' /\ QueueTypeOK'
  <2>1. now' - startTime[j] \in Nat
    BY <1>2, <1>3 DEF IInv, TypeOK, KernelTypeOK, ExecutionTypeOK,
                      StartedBefore, NoTime
  <2> QED BY <1>2, <1>3, <1>5, <2>1
          DEF IInv, TypeOK, MetricTypeOK, OutcomeTypeOK, QueueTypeOK, queueVars
<1>12. TypeOK'
  BY <1>5, <1>8, <1>9, <1>10, <1>11 DEF IInv, TypeOK
<1>13. EventKinds'
  BY <1>4, <1>5 DEF IInv, EventKinds
<1>14. CompletionDue'
  <2>1. CompletionsOf(j) = {e}
    BY <1>1, <1>2 DEF IInv, CompletionDue, CompletionsOf
  <2>2. \A i \in running' : CompletionsOf(i)' = CompletionsOf(i)
    BY <1>1, <1>4, <1>5 DEF CompletionsOf
  <2>3. \A f \in events' : f.kind = "complete" => f.job \in running'
    BY <1>4, <1>5, <2>1 DEF IInv, CompletionDue, CompletionsOf
  <2>4. \A f \in events' : f.time >= now'
    BY <1>3, <1>4, <1>5
  <2> QED BY <1>3, <1>5, <1>7, <2>2, <2>3, <2>4 DEF IInv, CompletionDue
<1>15. KernelAgrees'
  BY <1>3, <1>5, <1>6, <1>7 DEF KernelAgrees
<1>16. StartedBefore' /\ ResumePositive' /\ DispatchAfterTimers'
  BY <1>2, <1>3, <1>5 DEF IInv, TypeOK, KernelTypeOK, ExecutionTypeOK, NoTime,
                    StartedBefore, ResumePositive, DispatchAfterTimers
<1> QED BY <1>12, <1>13, <1>14, <1>15, <1>16 DEF IInv

-----------------------------------------------------------------------------
(* The dispatcher. *)

(* A start queues the one completion of the job, later than now.           *)
LEMMA StartInv ==
  ASSUME IInv, NEW c \in todo, Start(c)
  PROVE  IInv'
<1> DEFINE d == Event(now + resume[c], TIMER, nextSeq, "complete", c)
<1>1. c \in Job /\ c \notin running /\ c # NoJob
  BY RunnerAssumption DEF IInv, TypeOK, Start
<1>2. /\ used' = Allocated(c) /\ preempted' = preempted \ {c}
      /\ Dequeue(c)
      /\ resume' = [resume EXCEPT ![c] = Work(c)]
      /\ jobState' = [jobState EXCEPT ![c] = "RUNNING"]
      /\ remaining' = [remaining EXCEPT ![c] = resume[c]]
      /\ startTime' = [startTime EXCEPT ![c] = now]
      /\ events' = events \cup {d} /\ nextSeq' = nextSeq + 1
      /\ running' = running \cup {c} /\ todo' = todo \ {c}
      /\ status = "dispatch"
      /\ UNCHANGED <<arrival, now, finished, admissionVars, metricVars, status>>
  BY DEF Start, Considers
<1>3. resume[c] \in Nat /\ resume[c] > 0 /\ now \in Nat
  BY <1>1 DEF IInv, TypeOK, ExecutionTypeOK, KernelTypeOK, ResumePositive
<1>4. /\ d \in QueuedEvent /\ d.kind = "complete" /\ d.job = c
      /\ d.phase = TIMER /\ d.time = now + resume[c]
  BY <1>1, <1>3 DEF Event, QueuedEvent, EventPhase, TIMER, IInv, TypeOK,
                    KernelTypeOK
<1> HIDE DEF d
<1>5. KernelTypeOK'
  BY <1>1, <1>2, <1>3, <1>4 DEF IInv, TypeOK, KernelTypeOK
<1>6. ExecutionTypeOK'
  <2>1. used' \in [Resource -> Nat]
    BY <1>1, <1>2, ClassTypes DEF Allocated, IInv, TypeOK, ExecutionTypeOK
  <2>2. resume' \in [Job -> Nat]
    BY <1>1, <1>2, ClassTypes DEF IInv, TypeOK, ExecutionTypeOK
  <2> QED BY <1>1, <1>2, <1>3, <2>1, <2>2 DEF IInv, TypeOK, ExecutionTypeOK
<1>7. QueueTypeOK'
  <2>1. ClassOf[c] \in ClassId /\ Stream(c) \in StreamId
    BY <1>1, ClassTypes
  <2>2. fifo[ClassOf[c]] # <<>> => Tail(fifo[ClassOf[c]]) \in Seq(Job)
    BY <2>1 DEF IInv, TypeOK, QueueTypeOK
  <2> QED BY <1>2, <2>1, <2>2 DEF Dequeue, IInv, TypeOK, QueueTypeOK
<1>8. AdmissionTypeOK' /\ OutcomeTypeOK' /\ MetricTypeOK'
  BY <1>2 DEF IInv, TypeOK, AdmissionTypeOK, OutcomeTypeOK, MetricTypeOK,
              admissionVars, metricVars
<1>9. TypeOK'
  BY <1>2, <1>5, <1>6, <1>7, <1>8 DEF IInv, TypeOK
<1>10. EventKinds'
  BY <1>2, <1>4 DEF IInv, EventKinds
<1>11. CompletionDue'
  <2>1. \A e \in events : ~ (e.kind = "complete" /\ e.job = c)
    BY <1>1 DEF IInv, CompletionDue
  <2>2. CompletionsOf(c)' = {d}
    BY <1>2, <1>4, <2>1 DEF CompletionsOf
  <2>3. \A j \in running : CompletionsOf(j)' = CompletionsOf(j)
    BY <1>1, <1>2, <1>4 DEF CompletionsOf
  <2>4. d.time = now' + remaining'[c]
    BY <1>1, <1>2, <1>4 DEF IInv, TypeOK, KernelTypeOK
  <2>5. \A j \in running : remaining'[j] = remaining[j]
    BY <1>1, <1>2 DEF IInv, TypeOK, KernelTypeOK, ExecutionTypeOK
  <2>6. \A e \in events' : e.kind = "complete" => e.job \in running'
    BY <1>2, <1>4 DEF IInv, CompletionDue
  <2>7. \A e \in events' : e.time >= now'
    BY <1>2, <1>3, <1>4 DEF IInv, CompletionDue
  <2>8. ASSUME NEW j \in running'
        PROVE  \E e \in CompletionsOf(j)' :
                 e.time = now' + remaining'[j] /\ CompletionsOf(j)' = {e}
    <3>1. CASE j = c
      BY <2>2, <2>4, <3>1
    <3>2. CASE j \in running
      BY <1>2, <2>3, <2>5, <3>2 DEF IInv, CompletionDue
    <3> QED BY <1>2, <3>1, <3>2
  <2> QED BY <2>6, <2>7, <2>8 DEF CompletionDue
<1>12. KernelAgrees'
  BY <1>1, <1>2 DEF IInv, KernelAgrees, TypeOK, KernelTypeOK
<1>13. StartedBefore'
  BY <1>1, <1>2, <1>3 DEF IInv, StartedBefore, TypeOK, ExecutionTypeOK
<1>14. ResumePositive'
  BY <1>1, <1>2, ClassTypes DEF IInv, ResumePositive, TypeOK, ExecutionTypeOK
<1>15. DispatchAfterTimers'
  BY <1>2, <1>3, <1>4 DEF IInv, DispatchAfterTimers
<1> QED BY <1>9, <1>10, <1>11, <1>12, <1>13, <1>14, <1>15 DEF IInv

(* A victim is still being served by the kernel: its completion is to come.*)
LEMMA PreemptInv ==
  ASSUME IInv, NEW c \in todo, NEW v \in running, Preempt(c, v)
  PROVE  IInv'
<1>1. v \in Job /\ now \in Nat
  BY DEF IInv, TypeOK, ExecutionTypeOK, KernelTypeOK
<1>2. /\ running' = running \ {v} /\ events' = Uncompleted(v)
      /\ jobState' = Hidden(v)
      /\ busy' = [busy EXCEPT ![v] = @ + (now - startTime[v])]
      /\ startTime' = [startTime EXCEPT ![v] = NoTime]
      /\ resume' = [resume EXCEPT ![v] = remaining[v]]
      /\ used' = Released(v) /\ preempted' = preempted \cup {v}
      /\ fifo' = Reinserted(v)
      /\ status = "dispatch"
      /\ UNCHANGED <<arrival, now, nextSeq, remaining, finished, mailbox,
                     admissionVars, outcome, completeTime, recovery, todo, status>>
  BY DEF Preempt, Considers
<1>3. remaining[v] \in Nat /\ remaining[v] > 0
  <2>1. PICK e \in CompletionsOf(v) : e.time = now + remaining[v]
    BY DEF IInv, CompletionDue
  <2>2. e.time > now
    BY <1>2, <2>1 DEF CompletionsOf, IInv, DispatchAfterTimers
  <2>3. remaining[v] \in Nat
    BY <1>1 DEF IInv, TypeOK, KernelTypeOK
  <2> QED BY <1>1, <2>1, <2>2, <2>3
<1>4. jobState[v] = "RUNNING"
  BY <1>1, <1>3 DEF IInv, KernelAgrees
<1>5. jobState' = [jobState EXCEPT ![v] = "PENDING"]
  BY <1>1, <1>2, <1>4 DEF Hidden, IInv, TypeOK, KernelTypeOK
<1>6. events' = {e \in events : ~ (e.kind = "complete" /\ e.job = v)}
  BY <1>2 DEF Uncompleted
<1>7. KernelTypeOK'
  BY <1>1, <1>2, <1>5, <1>6 DEF IInv, TypeOK, KernelTypeOK
<1>8. ExecutionTypeOK'
  <2>1. used' \in [Resource -> Nat]
    BY <1>1, <1>2, ClassTypes DEF Released, IInv, TypeOK, ExecutionTypeOK
  <2> QED BY <1>1, <1>2, <1>3, <2>1 DEF IInv, TypeOK, ExecutionTypeOK
<1>9. QueueTypeOK'
  <2>1. ClassOf[v] \in ClassId
    BY <1>1, ClassTypes
  <2>2. <<v>> \o fifo[ClassOf[v]] \in Seq(Job)
    <3>1. <<v>> \in Seq(Job) /\ fifo[ClassOf[v]] \in Seq(Job)
      BY <1>1, <2>1 DEF IInv, TypeOK, QueueTypeOK
    <3> QED BY <3>1, ConcatProperties
  <2> QED BY <1>2, <2>1, <2>2 DEF Reinserted, IInv, TypeOK, QueueTypeOK
<1>10. AdmissionTypeOK' /\ OutcomeTypeOK'
  BY <1>2 DEF IInv, TypeOK, AdmissionTypeOK, OutcomeTypeOK, admissionVars
<1>11. MetricTypeOK'
  <2>1. now - startTime[v] \in Nat
    BY <1>1 DEF IInv, TypeOK, ExecutionTypeOK, StartedBefore, NoTime
  <2> QED BY <1>1, <1>2, <2>1 DEF IInv, TypeOK, MetricTypeOK
<1>12. TypeOK'
  BY <1>2, <1>7, <1>8, <1>9, <1>10, <1>11 DEF IInv, TypeOK
<1>13. EventKinds'
  BY <1>6 DEF IInv, EventKinds
<1>14. CompletionDue'
  <2>1. \A j \in running' : CompletionsOf(j)' = CompletionsOf(j)
    BY <1>2, <1>6 DEF CompletionsOf
  <2>2. \A e \in events' : e.kind = "complete" => e.job \in running'
    BY <1>2, <1>6 DEF IInv, CompletionDue
  <2> QED BY <1>2, <1>6, <2>1, <2>2 DEF IInv, CompletionDue
<1>15. KernelAgrees'
  BY <1>1, <1>2, <1>5 DEF IInv, KernelAgrees, TypeOK, KernelTypeOK
<1>16. StartedBefore'
  BY <1>1, <1>2 DEF IInv, StartedBefore, TypeOK, ExecutionTypeOK, NoTime
<1>17. ResumePositive'
  BY <1>1, <1>2, <1>3 DEF IInv, ResumePositive, TypeOK, ExecutionTypeOK
<1>18. DispatchAfterTimers'
  BY <1>2, <1>6 DEF IInv, DispatchAfterTimers
<1> QED BY <1>12, <1>13, <1>14, <1>15, <1>16, <1>17, <1>18 DEF IInv

-----------------------------------------------------------------------------
(* Every step. *)

(* The five things that may happen to an arriving job. *)
LEMMA ArriveInv ==
  ASSUME IInv, NEW e \in events, NEW j \in Job, Arrive(e, j)
  PROVE  IInv'
<1>1. ArrivalOf(e, j)
  BY DEF Arrive, ArriveRejected, ArriveDropped, ArriveQueued, ArrivePosted,
         ArriveReplacing
<1>2. ClassOf[j] \in ClassId /\ Stream(j) \in StreamId
  BY ClassTypes
<1>3. QueueTypeOK'
  <2>1. Append(fifo[ClassOf[j]], j) \in Seq(Job)
    BY <1>2 DEF IInv, TypeOK, QueueTypeOK
  <2>2. fifo' \in {fifo, [fifo EXCEPT ![ClassOf[j]] = Append(@, j)]}
    BY DEF Arrive, ArriveRejected, ArriveDropped, ArriveQueued, ArrivePosted,
           ArriveReplacing, queueVars
  <2>3. mailbox' \in {mailbox, [mailbox EXCEPT ![Stream(j)] = j]}
    BY DEF Arrive, ArriveRejected, ArriveDropped, ArriveQueued, ArrivePosted,
           ArriveReplacing, queueVars
  <2> QED BY <1>2, <2>1, <2>2, <2>3 DEF IInv, TypeOK, QueueTypeOK
<1>4. AdmissionTypeOK'
  <2>1. CASE UNCHANGED admissionVars
    BY <2>1 DEF IInv, TypeOK, AdmissionTypeOK, admissionVars
  <2>2. CASE Reserve(NoJob, j)
    BY <2>2, ReserveTyped DEF IInv, TypeOK
  <2>3. CASE Reserve(mailbox[Stream(j)], j)
    <3>1. mailbox[Stream(j)] \in Job \cup {NoJob}
      BY <1>2 DEF IInv, TypeOK, QueueTypeOK
    <3> QED BY <2>3, <3>1, ReserveTyped DEF IInv, TypeOK
  <2> QED BY <2>1, <2>2, <2>3
          DEF Arrive, ArriveRejected, ArriveDropped, ArriveQueued,
              ArrivePosted, ArriveReplacing
<1>5. OutcomeTypeOK'
  <2>1. CASE ArriveReplacing(e, j)
    BY <2>1 DEF ArriveReplacing, RecordReplace, IInv, TypeOK, OutcomeTypeOK
  <2>2. CASE ~ ArriveReplacing(e, j)
    BY <2>2 DEF Arrive, ArriveRejected, ArriveDropped, ArriveQueued,
                ArrivePosted, IInv, TypeOK, OutcomeTypeOK
  <2> QED BY <2>1, <2>2
<1> QED BY <1>1, <1>3, <1>4, <1>5, ArrivalInv

(* The rest: turns of the loop that start nothing, the end of the loop and *)
(* of the run, and stuttering.                                             *)
LEMMA PassInv ==
  ASSUME IInv, NEW c \in todo, Pass(c)
  PROVE  IInv'
<1>1. /\ todo' = todo \ {c}
      /\ UNCHANGED <<arrival, kernelVars, executionVars, queueVars,
                     admissionVars, metricVars, status>>
  BY DEF Pass
<1>2. TypeOK'
  BY <1>1 DEF IInv, TypeOK, KernelTypeOK, ExecutionTypeOK, QueueTypeOK,
              AdmissionTypeOK, OutcomeTypeOK, MetricTypeOK, kernelVars,
              executionVars, queueVars, admissionVars, metricVars
<1> QED BY <1>1, <1>2 DEF IInv, EventKinds, CompletionDue, CompletionsOf,
        KernelAgrees, StartedBefore, ResumePositive, DispatchAfterTimers,
        kernelVars, executionVars

LEMMA EndInv ==
  ASSUME IInv, EndDispatch \/ Finish
  PROVE  IInv'
<1>1. /\ UNCHANGED <<arrival, kernelVars, executionVars, mailbox,
                     admissionVars, completeTime, busy, todo>>
      /\ recovery' \in {recovery, now'} /\ status' \in {"events", "done"}
  BY DEF EndDispatch, Finish, MaybeRecordRecovery, queueVars
<1>2. QueueTypeOK' /\ OutcomeTypeOK'
  <2>1. CASE EndDispatch
    BY <2>1 DEF EndDispatch, queueVars, IInv, TypeOK, QueueTypeOK,
                OutcomeTypeOK
  <2>2. CASE Finish
    <3>1. <<>> \in Seq(Job)
      OBVIOUS
    <3> QED BY <2>2, <3>1 DEF Finish, IInv, TypeOK, QueueTypeOK, OutcomeTypeOK
  <2> QED BY <2>1, <2>2
<1>3. TypeOK'
  BY <1>1, <1>2 DEF IInv, TypeOK, KernelTypeOK, ExecutionTypeOK,
              AdmissionTypeOK, MetricTypeOK, kernelVars,
              executionVars, admissionVars
<1> QED BY <1>1, <1>3 DEF IInv, EventKinds, CompletionDue, CompletionsOf,
        KernelAgrees, StartedBefore, ResumePositive, DispatchAfterTimers,
        kernelVars, executionVars

LEMMA StutterInv == IInv /\ UNCHANGED vars => IInv'
<1> SUFFICES ASSUME IInv, UNCHANGED vars PROVE IInv'
  OBVIOUS
<1> USE DEF vars, kernelVars, executionVars, queueVars, admissionVars, metricVars
<1>1. TypeOK'
  BY DEF IInv, TypeOK, KernelTypeOK, ExecutionTypeOK, QueueTypeOK,
         AdmissionTypeOK, OutcomeTypeOK, MetricTypeOK
<1> QED BY <1>1 DEF IInv, EventKinds, CompletionDue, CompletionsOf,
        KernelAgrees, StartedBefore, ResumePositive, DispatchAfterTimers

LEMMA NextIInv == IInv /\ [Next]_vars => IInv'
<1> SUFFICES ASSUME IInv, [Next]_vars PROVE IInv'
  OBVIOUS
<1>1. ASSUME NEW e \in events, NEW j \in Job, Arrive(e, j) PROVE IInv'
  BY <1>1, ArriveInv
<1>2. ASSUME NEW e \in events, DispatchEvent(e) PROVE IInv'
  BY <1>2, DispatchEventInv
<1>3. ASSUME NEW e \in events, Complete(e) PROVE IInv'
  BY <1>3, CompleteInv
<1>4. ASSUME NEW c \in todo, Start(c) PROVE IInv'
  BY <1>4, StartInv
<1>5. ASSUME NEW c \in todo, NEW v \in running, Preempt(c, v) PROVE IInv'
  BY <1>5, PreemptInv
<1>6. ASSUME NEW c \in todo, Pass(c) PROVE IInv'
  BY <1>6, PassInv
<1>7. CASE EndDispatch \/ Finish
  BY <1>7, EndInv
<1>8. CASE Terminated \/ UNCHANGED vars
  BY <1>8, StutterInv DEF Terminated
<1> QED BY <1>1, <1>2, <1>3, <1>4, <1>5, <1>6, <1>7, <1>8 DEF Next, Dispatch

-----------------------------------------------------------------------------
(* The invariant holds in every run of every scenario. *)
LEMMA InvariantHolds == Spec => []IInv
BY InitIInv, NextIInv, PTL DEF Spec

(* All variables keep their types. *)
THEOREM RunnerTypeCorrect == Spec => []TypeOK
<1>1. IInv => TypeOK
  BY DEF IInv
<1> QED BY <1>1, InvariantHolds, PTL

(* Every running job has exactly one completion event, due when the work   *)
(* the kernel has left for it runs out, whatever was suspended, resumed or *)
(* executed twice before; no other job has one, and no event is overdue.   *)
THEOREM CompletionsAreDue == Spec => []CompletionDue
<1>1. IInv => CompletionDue
  BY DEF IInv
<1> QED BY <1>1, InvariantHolds, PTL

(* The runner and the kernel never disagree about the state of a job.      *)
THEOREM RunnerAndKernelAgree == Spec => []KernelAgrees
<1>1. IInv => KernelAgrees
  BY DEF IInv
<1> QED BY <1>1, InvariantHolds, PTL

-----------------------------------------------------------------------------
(* Resources. *)

(* No resource is counted as used beyond its capacity. *)
CapacityRespected == \A r \in Resource : used[r] <= Scenario.capacity[r]

(* Only Start takes resources, and only those that are free.               *)
LEMMA NextCapacity == IInv /\ CapacityRespected /\ [Next]_vars => CapacityRespected'
<1> SUFFICES ASSUME IInv, CapacityRespected, [Next]_vars
             PROVE  CapacityRespected'
  OBVIOUS
<1>1. /\ used \in [Resource -> Nat]
      /\ \A r \in Resource : Scenario.capacity[r] \in Nat
  BY RunnerAssumption DEF IInv, TypeOK, ExecutionTypeOK, ScenarioLimits
<1>2. \A j \in Job : \A r \in Resource : Cls(j).needs[r] \in Nat
  BY ClassTypes
<1>3. ASSUME NEW j \in Job, used' = Released(j) PROVE CapacityRespected'
  BY <1>1, <1>2, <1>3 DEF Released, CapacityRespected
<1>4. ASSUME NEW j \in Job, CanAllocate(j), used' = Allocated(j)
      PROVE  CapacityRespected'
  BY <1>1, <1>2, <1>4 DEF CanAllocate, Allocated, CapacityRespected
<1>5. ASSUME used' = used PROVE CapacityRespected'
  BY <1>5 DEF CapacityRespected
<1>6. ASSUME NEW c \in todo, Start(c) PROVE CapacityRespected'
  BY <1>4, <1>6 DEF Start, IInv, TypeOK
<1>7. ASSUME NEW v \in running, NEW c \in todo, Preempt(c, v)
      PROVE  CapacityRespected'
  BY <1>3, <1>7 DEF Preempt, IInv, TypeOK, ExecutionTypeOK
<1>8. ASSUME NEW e \in events, Complete(e) PROVE CapacityRespected'
  <2>1. e.job \in Job
    BY <1>8 DEF Complete, IInv, CompletionDue, TypeOK, ExecutionTypeOK
  <2> QED BY <1>3, <1>8, <2>1 DEF Complete
<1>9. ASSUME NEW e \in events, NEW j \in Job, Arrive(e, j)
      PROVE  CapacityRespected'
  BY <1>5, <1>9 DEF Arrive, ArriveRejected, ArriveDropped, ArriveQueued,
                    ArrivePosted, ArriveReplacing, ArrivalOf, executionVars
<1>10. ASSUME NEW e \in events, DispatchEvent(e) PROVE CapacityRespected'
  BY <1>5, <1>10 DEF DispatchEvent, executionVars
<1>11. ASSUME NEW c \in todo, Pass(c) PROVE CapacityRespected'
  BY <1>5, <1>11 DEF Pass, executionVars
<1>12. CASE EndDispatch \/ Finish \/ Terminated \/ UNCHANGED vars
  BY <1>5, <1>12 DEF EndDispatch, Finish, Terminated, vars, executionVars
<1> QED BY <1>6, <1>7, <1>8, <1>9, <1>10, <1>11, <1>12 DEF Next, Dispatch

(* The count of a resource in use never exceeds its capacity.              *)
LEMMA NeverOverAllocated == Spec => []CapacityRespected
<1>1. Init => CapacityRespected
  BY RunnerAssumption DEF Init, CapacityRespected, ScenarioLimits
<1> QED BY <1>1, NextCapacity, InvariantHolds, PTL DEF Spec

-----------------------------------------------------------------------------
(* Admission. *)

(* A reservation the controller was asked for leaves all limits respected, *)
(* although the check came before a replaced job gave its own back.        *)
LEMMA ReserveLimits ==
  ASSUME AdmissionTypeOK, AdmissionWithinLimits, NEW old \in Job \cup {NoJob},
         NEW new \in Job \cup {NoJob}, Reserve(old, new),
         new = NoJob \/ Admits(new)
  PROVE  AdmissionWithinLimits'
<1> DEFINE out == {old} \cap admitted
           in  == IF new = NoJob \/ Cls(new).admissionExcluded THEN {} ELSE {new}
<1>1. /\ inflight' = (inflight \ out) \cup in
      /\ memoryUsed' = memoryUsed - MemoryOf(old, out \cap inflight)
                                  + MemoryOf(new, in)
      /\ bandwidthUsed' = bandwidthUsed - BandwidthOf(old, out \cap inflight)
                                        + BandwidthOf(new, in)
  BY DEF Reserve
<1>2. \A j \in Job \cup {NoJob} : \A S \in SUBSET Job :
        MemoryOf(j, S) \in Nat /\ BandwidthOf(j, S) \in Nat
  BY ClassTypes DEF MemoryOf, BandwidthOf
<1>3. out \cap inflight \in SUBSET Job /\ in \in SUBSET Job
  BY DEF AdmissionTypeOK
<1>4. IsFiniteSet(inflight)
  BY FS_Subset, RunnerAssumption DEF AdmissionTypeOK
<1>5. /\ IsFiniteSet(inflight \ out) /\ Cardinality(inflight) \in Nat
      /\ Cardinality(inflight \ out) \in Nat
      /\ Cardinality(inflight \ out) <= Cardinality(inflight)
  BY <1>4, FS_Subset, FS_CardinalityType
<1>6. /\ Scenario.memoryAvailable \in Nat /\ Scenario.maxBandwidth \in Nat
      /\ Scenario.maxInflight \in Nat
      /\ memoryUsed \in Int /\ bandwidthUsed \in Int
  BY RunnerAssumption DEF ScenarioLimits, AdmissionTypeOK
<1>7. CASE in = {}
  <2>1. MemoryOf(new, in) = 0 /\ BandwidthOf(new, in) = 0
    BY <1>7 DEF MemoryOf, BandwidthOf
  <2>2. inflight' = inflight \ out
    BY <1>1, <1>7
  <2> HIDE DEF in, out
  <2>3. memoryUsed' <= memoryUsed /\ bandwidthUsed' <= bandwidthUsed
    BY <1>1, <1>2, <1>3, <1>6, <2>1
  <2>4. memoryUsed' \in Int /\ bandwidthUsed' \in Int
    BY <1>1, <1>2, <1>3, <1>6
  <2> QED BY <1>5, <1>6, <2>2, <2>3, <2>4 DEF AdmissionWithinLimits
<1>8. CASE in = {new} /\ new \in Job /\ Admissible(new)
  <2>1. /\ MemoryOf(new, in) = Cls(new).memory
        /\ BandwidthOf(new, in) = Cls(new).bandwidth
    BY <1>8 DEF MemoryOf, BandwidthOf
  <2>2. Cls(new).memory \in Nat /\ Cls(new).bandwidth \in Nat
    BY <1>8, ClassTypes
  <2>3. inflight' = (inflight \ out) \cup {new}
    BY <1>1, <1>8
  <2> HIDE DEF in, out
  <2>4. /\ Cardinality(inflight') \in Nat
        /\ Cardinality(inflight') <= Cardinality(inflight) + 1
    <3>1. Cardinality((inflight \ out) \cup {new}) =
            IF new \in inflight \ out THEN Cardinality(inflight \ out)
            ELSE Cardinality(inflight \ out) + 1
      BY <1>5, FS_AddElement, Zenon
    <3> QED BY <1>5, <2>3, <3>1
  <2>5. /\ memoryUsed' <= memoryUsed + Cls(new).memory
        /\ bandwidthUsed' <= bandwidthUsed + Cls(new).bandwidth
        /\ memoryUsed' \in Int /\ bandwidthUsed' \in Int
    <3>1. /\ MemoryOf(old, out \cap inflight) \in Nat
          /\ BandwidthOf(old, out \cap inflight) \in Nat
      BY <1>2, <1>3, Zenon
    <3> QED BY <1>1, <1>6, <2>1, <2>2, <3>1
  <2> QED BY <1>5, <1>6, <1>8, <2>2, <2>4, <2>5
          DEF Admissible, AdmissionWithinLimits
<1> QED BY <1>7, <1>8 DEF Admits

LEMMA NextLimits ==
  IInv /\ AdmissionWithinLimits /\ [Next]_vars => AdmissionWithinLimits'
<1> SUFFICES ASSUME IInv, AdmissionWithinLimits, [Next]_vars
             PROVE  AdmissionWithinLimits'
  OBVIOUS
<1>1. AdmissionTypeOK
  BY DEF IInv, TypeOK
<1>2. ASSUME UNCHANGED admissionVars PROVE AdmissionWithinLimits'
  BY <1>2 DEF AdmissionWithinLimits, admissionVars
<1>3. ASSUME NEW e \in events, NEW j \in Job, Arrive(e, j)
      PROVE  AdmissionWithinLimits'
  <2>1. CASE ArriveRejected(e, j) \/ ArriveDropped(e, j)
    BY <1>2, <2>1 DEF ArriveRejected, ArriveDropped
  <2>2. CASE ArriveQueued(e, j) \/ ArrivePosted(e, j)
    BY <1>1, <2>2, ReserveLimits DEF ArriveQueued, ArrivePosted
  <2>3. CASE ArriveReplacing(e, j)
    <3>1. mailbox[Stream(j)] \in Job \cup {NoJob}
      BY ClassTypes DEF IInv, TypeOK, QueueTypeOK
    <3> QED BY <1>1, <2>3, <3>1, ReserveLimits DEF ArriveReplacing
  <2> QED BY <1>3, <2>1, <2>2, <2>3 DEF Arrive
<1>4. ASSUME NEW e \in events, Complete(e) PROVE AdmissionWithinLimits'
  <2>1. e.job \in Job
    BY <1>4 DEF Complete, IInv, CompletionDue, TypeOK, ExecutionTypeOK
  <2>2. Reserve(e.job, NoJob)
    BY <1>4 DEF Complete
  <2> QED BY <1>1, <2>1, <2>2, ReserveLimits
<1>5. ASSUME NEW e \in events, DispatchEvent(e) PROVE AdmissionWithinLimits'
  BY <1>2, <1>5 DEF DispatchEvent
<1>6. CASE Dispatch \/ Finish \/ Terminated \/ UNCHANGED vars
  BY <1>2, <1>6 DEF Dispatch, Start, Pass, Preempt, EndDispatch, Finish,
                    Terminated, vars
<1> QED BY <1>3, <1>4, <1>5, <1>6 DEF Next

(* The reservations in force never exceed memory, jobs inflight or         *)
(* bandwidth.                                                              *)
THEOREM AdmissionNeverExceedsLimits == Spec => []AdmissionWithinLimits
<1>1. Init => AdmissionWithinLimits
  BY RunnerAssumption, FS_EmptySet
     DEF Init, AdmissionWithinLimits, ScenarioLimits
<1> QED BY <1>1, NextLimits, InvariantHolds, PTL DEF Spec

-----------------------------------------------------------------------------
(* The books: reservations and resources.                                  *)

(* The arrival event of a release stands in the queue as Init put it; the  *)
(* job is unknown until the event is taken.                                *)
ArrivalEvents ==
  \A e \in events : e.kind = "arrival" =>
    /\ e.time = arrival[e.job] /\ e.seq = Place(e.job)
    /\ status # "done" => outcome[e.job] = "absent"

(* Insertion numbers are given out once. *)
SeqFresh == \A e \in events : e.seq < nextSeq

(* The FIFO of a class holds jobs of the class, a mailbox a job that was   *)
(* posted to its stream.                                                   *)
QueuesTyped ==
  /\ \A c \in ClassId : \A i \in DOMAIN fifo[c] :
       ClassOf[fifo[c][i]] = c /\ Cls(fifo[c][i]).policy = "fifo"
  /\ \A s \in StreamId : mailbox[s] # NoJob =>
       Stream(mailbox[s]) = s /\ Cls(mailbox[s]).policy = "mailbox_latest"

(* The job waits: it is suspended, queued or pending. *)
Waits(j) == j \in preempted \/ Queued(j) \/ Pending(j)

(* Only a job that has arrived runs, waits or holds a reservation. *)
Known ==
  \A j \in Job :
    j \in running \/ j \in todo \/ j \in admitted \/ Waits(j) =>
      outcome[j] # "absent"

BooksInv ==
  /\ ArrivalEvents /\ SeqFresh /\ QueuesTyped /\ Known
  /\ AdmissionAccounts /\ UsedIsHeld

(* The place of a release in the compiled list is a number below the       *)
(* length of the list.                                                     *)
LEMMA PlaceType ==
  ASSUME NEW j \in Job
  PROVE  Place(j) \in Nat /\ Place(j) <= Cardinality(Job)
<1> DEFINE S == {i \in Job : arrival[i] < arrival[j]
                               \/ (arrival[i] = arrival[j] /\ i < j)}
<1>1. IsFiniteSet(S) /\ Cardinality(S) <= Cardinality(Job)
  BY FS_Subset, RunnerAssumption
<1> QED BY <1>1, FS_CardinalityType DEF Place

(* What a job needs of a resource, and reserves, as functions of the job.  *)
LEMMA Weights ==
  /\ \A r \in Resource : \A j \in Job :
       [i \in Job |-> Cls(i).needs[r]][j] \in Nat
  /\ \A j \in Job : [i \in Job |-> Cls(i).memory][j] \in Nat
  /\ \A j \in Job : [i \in Job |-> Cls(i).bandwidth][j] \in Nat
BY ClassTypes

(* Nothing is admitted and nothing is held when the run begins. *)
LEMMA InitBooks == Init => BooksInv
<1> SUFFICES ASSUME Init PROVE BooksInv
  OBVIOUS
<1>1. \A j \in Job : Place(j) \in Nat /\ Place(j) <= Cardinality(Job)
  BY PlaceType
<1>2. Cardinality(Job) \in Nat
  BY FS_CardinalityType, RunnerAssumption
<1>3. ArrivalEvents
  BY DEF ArrivalEvents, Init, Event
<1>4. SeqFresh
  BY <1>1, <1>2 DEF SeqFresh, Init, Event
<1>5. \A w : SumFunctionOnSet(w, {}) = 0
  BY SumUnfold, FS_EmptySet
<1>6. AdmissionAccounts /\ UsedIsHeld
  BY <1>5 DEF Init, AdmissionAccounts, UsedIsHeld, TotalNeed
<1>7. QueuesTyped
  BY DEF Init, QueuesTyped
<1>8. Known
  BY ClassTypes, RunnerAssumption DEF Init, Known, Waits, Queued, Pending
<1> QED BY <1>3, <1>4, <1>6, <1>7, <1>8 DEF BooksInv

(* A reservation given back is one in force, a new one is not in force yet.*)
LEMMA ReserveAccounts ==
  ASSUME AdmissionTypeOK, AdmissionAccounts, NEW old \in Job \cup {NoJob},
         NEW new \in Job \cup {NoJob}, new \notin admitted, Reserve(old, new)
  PROVE  AdmissionAccounts'
<1> DEFINE out == {old} \cap admitted
           in  == IF new = NoJob \/ Cls(new).admissionExcluded THEN {} ELSE {new}
           rest == admitted \ out
           M == [j \in Job |-> Cls(j).memory]
           B == [j \in Job |-> Cls(j).bandwidth]
<1>1. /\ admitted' = rest \cup in /\ inflight' = rest \cup in
      /\ out \cap inflight = out /\ in \cap admitted = {}
      /\ memoryUsed = SumFunctionOnSet(M, admitted)
      /\ bandwidthUsed = SumFunctionOnSet(B, admitted)
      /\ memoryUsed' = memoryUsed - MemoryOf(old, out) + MemoryOf(new, in)
      /\ bandwidthUsed' = bandwidthUsed - BandwidthOf(old, out)
                                        + BandwidthOf(new, in)
  BY DEF Reserve, AdmissionAccounts
<1>2. /\ admitted \subseteq Job /\ rest \subseteq Job /\ in \subseteq Job
      /\ out \subseteq {old} /\ in \subseteq {new}
      /\ IsFiniteSet(admitted) /\ IsFiniteSet(rest)
  BY FS_Subset, RunnerAssumption DEF AdmissionTypeOK
<1>3. ASSUME NEW w \in [Job -> Nat]
      PROVE  /\ SumFunctionOnSet(w, admitted) \in Int
             /\ SumFunctionOnSet(w, rest) \in Int
             /\ SumFunctionOnSet(w, rest) = SumFunctionOnSet(w, admitted)
                                    - (IF old \in out THEN w[old] ELSE 0)
             /\ SumFunctionOnSet(w, rest \cup in) = SumFunctionOnSet(w, rest)
                                    + (IF new \in in THEN w[new] ELSE 0)
  <2>1. \A j \in Job : w[j] \in Int
    BY <1>3
  <2>2. /\ SumFunctionOnSet(w, admitted) \in Int
        /\ SumFunctionOnSet(w, rest) \in Int
    <3>1. \A S \in SUBSET Job :
            IsFiniteSet(S) => SumFunctionOnSet(w, S) \in Int
      BY <2>1, SumUnfold
    <3> QED BY <1>2, <3>1
  <2>3. SumFunctionOnSet(w, rest) = SumFunctionOnSet(w, admitted)
                                    - (IF old \in out THEN w[old] ELSE 0)
    <3>1. CASE old \in out
      <4>1. old \in admitted /\ rest = admitted \ {old} /\ w[old] \in Int
        BY <1>2, <2>1, <3>1
      <4>2. SumFunctionOnSet(w, admitted) =
              w[old] + SumFunctionOnSet(w, admitted \ {old})
        <5>1. \A j \in admitted : w[j] \in Int
          BY <1>2, <2>1
        <5> QED BY <1>2, <4>1, <5>1, SumRemove
      <4> DEFINE a == SumFunctionOnSet(w, admitted)
                 b == SumFunctionOnSet(w, rest)
      <4>3. a = w[old] + b /\ a \in Int /\ b \in Int
        BY <2>2, <4>1, <4>2
      <4>4. SUFFICES b = a - w[old]
        BY <3>1
      <4> HIDE DEF a, b
      <4> QED BY <4>1, <4>3
    <3>2. CASE old \notin out
      <4>1. rest = admitted
        BY <1>2, <3>2
      <4> DEFINE a == SumFunctionOnSet(w, admitted)
                 b == SumFunctionOnSet(w, rest)
      <4>2. a = b /\ a \in Int
        BY <2>2, <4>1
      <4>3. SUFFICES b = a - 0
        BY <3>2
      <4> HIDE DEF a, b
      <4> QED BY <4>2
    <3> QED BY <3>1, <3>2
  <2>4. SumFunctionOnSet(w, rest \cup in) = SumFunctionOnSet(w, rest)
                                    + (IF new \in in THEN w[new] ELSE 0)
    <3>1. CASE new \in in
      <4>1. in = {new} /\ new \notin rest /\ w[new] \in Int
        BY <1>1, <1>2, <2>1, <3>1
      <4>2. \A j \in rest : w[j] \in Int
        BY <1>2, <2>1
      <4> HIDE DEF rest, in
      <4>3. SumFunctionOnSet(w, rest \cup {new}) = SumFunctionOnSet(w, rest) + w[new]
        BY <1>2, <4>1, <4>2, SumAdd
      <4> QED BY <3>1, <4>1, <4>3
    <3>2. CASE new \notin in
      <4>1. rest \cup in = rest
        BY <1>2, <3>2
      <4> DEFINE b == SumFunctionOnSet(w, rest)
      <4>2. b \in Int
        BY <2>2
      <4>3. SUFFICES b = b + 0
        BY <3>2, <4>1
      <4> HIDE DEF b
      <4> QED BY <4>2
    <3> QED BY <3>1, <3>2
  <2> QED BY <2>2, <2>3, <2>4
<1>4. /\ M \in [Job -> Nat] /\ B \in [Job -> Nat]
      /\ \A j \in Job : M[j] = Cls(j).memory /\ B[j] = Cls(j).bandwidth
  BY ClassTypes
<1>5. /\ MemoryOf(old, out) = IF old \in out THEN M[old] ELSE 0
      /\ MemoryOf(new, in) = IF new \in in THEN M[new] ELSE 0
      /\ BandwidthOf(old, out) = IF old \in out THEN B[old] ELSE 0
      /\ BandwidthOf(new, in) = IF new \in in THEN B[new] ELSE 0
  <2>1. (old \in out => old \in Job) /\ (new \in in => new \in Job)
    BY <1>2
  <2> HIDE DEF out, in, M, B
  <2> QED BY <1>4, <2>1 DEF MemoryOf, BandwidthOf
<1>6. memoryUsed' = SumFunctionOnSet(M, rest \cup in)
  <2>1. /\ SumFunctionOnSet(M, rest) = SumFunctionOnSet(M, admitted) - MemoryOf(old, out)
        /\ SumFunctionOnSet(M, rest \cup in) = SumFunctionOnSet(M, rest) + MemoryOf(new, in)
    BY <1>3, <1>4, <1>5
  <2> HIDE DEF out, in, M, B, rest
  <2> QED BY <1>1, <2>1
<1>7. bandwidthUsed' = SumFunctionOnSet(B, rest \cup in)
  <2>1. /\ SumFunctionOnSet(B, rest) = SumFunctionOnSet(B, admitted) - BandwidthOf(old, out)
        /\ SumFunctionOnSet(B, rest \cup in) = SumFunctionOnSet(B, rest) + BandwidthOf(new, in)
    BY <1>3, <1>4, <1>5
  <2> HIDE DEF out, in, M, B, rest
  <2> QED BY <1>1, <2>1
<1> QED BY <1>1, <1>6, <1>7 DEF AdmissionAccounts

(* A running job holds part of what is in use, and gives exactly that back.*)
LEMMA ReleasedIsHeld ==
  ASSUME ExecutionTypeOK, UsedIsHeld, NEW v \in running, used' = Released(v),
         running' = running \ {v}
  PROVE  /\ UsedIsHeld'
         /\ \A r \in Resource : used'[r] = used[r] - Cls(v).needs[r]
<1> SUFFICES ASSUME NEW r \in Resource
             PROVE  /\ used'[r] = TotalNeed(running', r)
                    /\ used'[r] = used[r] - Cls(v).needs[r]
  BY DEF UsedIsHeld, TotalNeed
<1> DEFINE w == [j \in Job |-> Cls(j).needs[r]]
           all == SumFunctionOnSet(w, running)
           rest == SumFunctionOnSet(w, running \ {v})
<1>1. /\ v \in Job /\ running \subseteq Job /\ IsFiniteSet(running)
      /\ IsFiniteSet(running \ {v}) /\ used[r] = all
      /\ TotalNeed(running', r) = rest
      /\ used'[r] = IF used[r] >= Cls(v).needs[r]
                    THEN used[r] - Cls(v).needs[r] ELSE 0
  BY FS_Subset, RunnerAssumption
     DEF ExecutionTypeOK, UsedIsHeld, TotalNeed, Released
<1>2. \A j \in Job : w[j] = Cls(j).needs[r] /\ w[j] \in Nat
  BY ClassTypes
<1>3. all = w[v] + rest /\ rest \in Nat
  <2>1. \A j \in running : w[j] \in Int
    BY <1>1, <1>2
  <2>2. \A j \in running \ {v} : w[j] \in Nat
    BY <1>1, <1>2
  <2> HIDE DEF w
  <2> QED BY <1>1, <2>1, <2>2, SumRemove, SumNat
<1>4. w[v] = Cls(v).needs[r] /\ w[v] \in Nat
  BY <1>1, <1>2
<1> HIDE DEF all, rest, w
<1> QED BY <1>1, <1>3, <1>4

(* A job that starts adds what it needs. *)
LEMMA AllocatedIsHeld ==
  ASSUME ExecutionTypeOK, UsedIsHeld, NEW c \in Job, c \notin running,
         used' = Allocated(c), running' = running \cup {c}
  PROVE  UsedIsHeld'
<1> SUFFICES ASSUME NEW r \in Resource
             PROVE  used'[r] = TotalNeed(running', r)
  BY DEF UsedIsHeld, TotalNeed
<1> DEFINE w == [j \in Job |-> Cls(j).needs[r]]
           all == SumFunctionOnSet(w, running)
           more == SumFunctionOnSet(w, running \cup {c})
<1>1. /\ running \subseteq Job /\ IsFiniteSet(running)
      /\ used[r] = all /\ TotalNeed(running', r) = more
      /\ used'[r] = used[r] + Cls(c).needs[r]
  BY FS_Subset, RunnerAssumption
     DEF ExecutionTypeOK, UsedIsHeld, TotalNeed, Allocated
<1>2. \A j \in Job : w[j] = Cls(j).needs[r] /\ w[j] \in Int
  BY ClassTypes
<1>3. more = all + w[c]
  <2>1. (\A j \in running : w[j] \in Int) /\ w[c] \in Int
    BY <1>1, <1>2
  <2> HIDE DEF w
  <2> QED BY <1>1, <2>1, SumAdd
<1>4. w[c] = Cls(c).needs[r]
  BY <1>2
<1> HIDE DEF all, more, w
<1> QED BY <1>1, <1>3, <1>4

(* A step that touches neither the resources nor the running jobs. *)
LEMMA HeldUnchanged ==
  UsedIsHeld /\ UNCHANGED <<used, running>> => UsedIsHeld'
BY DEF UsedIsHeld, TotalNeed

(* A step that touches neither the reservations nor the admitted jobs. *)
LEMMA AccountsUnchanged ==
  AdmissionAccounts /\ UNCHANGED admissionVars => AdmissionAccounts'
BY DEF AdmissionAccounts, admissionVars

(* An event an event is replaced by, or a start puts into the queue, is    *)
(* not an arrival and has a new number.                                    *)
LEMMA EventsFresh ==
  ASSUME IInv, SeqFresh, ArrivalEvents, UNCHANGED arrival,
         NEW d, d.kind # "arrival", d.seq = nextSeq,
         events' \subseteq events \cup {d}, nextSeq' = nextSeq + 1,
         status' # "done" => status # "done",
         \A e \in events \cap events' :
           e.kind = "arrival" => outcome'[e.job] = outcome[e.job]
  PROVE  SeqFresh' /\ ArrivalEvents'
<1>1. nextSeq \in Nat /\ \A e \in events : e.seq \in Nat
  BY DEF IInv, TypeOK, KernelTypeOK, QueuedEvent
<1>2. SeqFresh'
  BY <1>1 DEF SeqFresh
<1>3. \A j : Place(j)' = Place(j)
  BY DEF Place
<1>4. ArrivalEvents'
  BY <1>3 DEF ArrivalEvents
<1> QED BY <1>2, <1>4

(* ... as when no event is added. *)
LEMMA EventsUnchanged ==
  ASSUME SeqFresh, ArrivalEvents, UNCHANGED arrival,
         events' \subseteq events, nextSeq' = nextSeq,
         status' # "done" => status # "done" /\ outcome' = outcome
  PROVE  SeqFresh' /\ ArrivalEvents'
<1>1. \A j : Place(j)' = Place(j)
  BY DEF Place
<1> QED BY <1>1 DEF SeqFresh, ArrivalEvents

(* A release has one arrival event. *)
LEMMA OneArrival ==
  ASSUME IInv, ArrivalEvents, NEW e \in events, NEW f \in events,
         e.kind = "arrival", f.kind = "arrival", e.job = f.job
  PROVE  e = f
<1>1. /\ e \in QueuedEvent /\ f \in QueuedEvent
      /\ e.phase = f.phase
  BY DEF IInv, TypeOK, KernelTypeOK, EventKinds
<1>2. e.time = f.time /\ e.seq = f.seq
  BY DEF ArrivalEvents
<1> QED BY <1>1, <1>2 DEF QueuedEvent

-----------------------------------------------------------------------------
(* The queues as sets of jobs.                                             *)

(* Job j is in queue q. *)
In(q, j) == \E i \in DOMAIN q : q[i] = j

(* The three ways a queue changes, element by element. *)
LEMMA AppendElements ==
  ASSUME NEW q \in Seq(Job), NEW j \in Job
  PROVE  /\ DOMAIN q = 1..Len(q) /\ Len(q) \in Nat
         /\ DOMAIN Append(q, j) = 1..(Len(q) + 1)
         /\ \A i \in 1..Len(q) : Append(q, j)[i] = q[i]
         /\ Append(q, j)[Len(q) + 1] = j
BY AppendProperties

(* What is left of a queue without its head. *)
LEMMA TailElements ==
  ASSUME NEW q \in Seq(Job), q # <<>>
  PROVE  /\ DOMAIN q = 1..Len(q) /\ Len(q) \in Nat \ {0} /\ Head(q) = q[1]
         /\ Tail(q) \in Seq(Job) /\ DOMAIN Tail(q) = 1..(Len(q) - 1)
         /\ \A i \in 1..(Len(q) - 1) : Tail(q)[i] = q[i + 1]
BY HeadTailProperties

(* A queue with a job put before its head, where a preempted job goes. *)
LEMMA ConsElements ==
  ASSUME NEW q \in Seq(Job), NEW v \in Job
  PROVE  /\ DOMAIN q = 1..Len(q) /\ Len(q) \in Nat
         /\ <<v>> \o q \in Seq(Job)
         /\ DOMAIN (<<v>> \o q) = 1..(Len(q) + 1)
         /\ (<<v>> \o q)[1] = v
         /\ \A i \in 1..Len(q) : (<<v>> \o q)[i + 1] = q[i]
<1>1. <<v>> \in Seq(Job) /\ Len(<<v>>) = 1 /\ <<v>>[1] = v
  OBVIOUS
<1> QED BY <1>1, ConcatProperties

(* ... and as a set. *)
LEMMA InAppend ==
  ASSUME NEW q \in Seq(Job), NEW j \in Job
  PROVE  \A i : In(Append(q, j), i) <=> In(q, i) \/ i = j
BY AppendElements DEF In

(* The head leaves, everyone else stays. *)
LEMMA InTail ==
  ASSUME NEW q \in Seq(Job), q # <<>>
  PROVE  /\ In(q, Head(q))
         /\ \A i : In(Tail(q), i) => In(q, i)
         /\ \A i : In(q, i) => In(Tail(q), i) \/ i = Head(q)
<1>1. In(q, Head(q)) /\ \A i : In(Tail(q), i) => In(q, i)
  BY TailElements DEF In
<1>2. ASSUME NEW i, In(q, i), i # Head(q) PROVE In(Tail(q), i)
  <2>1. PICK n \in 1..Len(q) : q[n] = i /\ n # 1
    BY <1>2, TailElements DEF In
  <2>2. n - 1 \in 1..(Len(q) - 1) /\ Tail(q)[n - 1] = q[(n - 1) + 1]
    BY <2>1, TailElements
  <2> QED BY <2>1, <2>2, TailElements DEF In
<1> QED BY <1>1, <1>2

(* A job put before the head joins those that were there. *)
LEMMA InCons ==
  ASSUME NEW q \in Seq(Job), NEW v \in Job
  PROVE  \A i : In(<<v>> \o q, i) <=> In(q, i) \/ i = v
<1>1. ASSUME NEW i, In(<<v>> \o q, i), i # v PROVE In(q, i)
  <2>1. PICK n \in 1..(Len(q) + 1) : (<<v>> \o q)[n] = i /\ n # 1
    BY <1>1, ConsElements DEF In
  <2>2. n - 1 \in 1..Len(q) /\ (<<v>> \o q)[(n - 1) + 1] = q[n - 1]
    BY <2>1, ConsElements
  <2> QED BY <2>1, <2>2, ConsElements DEF In
<1>2. ASSUME NEW i, In(q, i) PROVE In(<<v>> \o q, i)
  <2>1. PICK n \in 1..Len(q) : q[n] = i
    BY <1>2, ConsElements DEF In
  <2>2. n + 1 \in 1..(Len(q) + 1)
    BY <2>1, ConsElements
  <2> QED BY <2>1, <2>2, ConsElements DEF In
<1>3. In(<<v>> \o q, v)
  BY ConsElements DEF In
<1> QED BY <1>1, <1>2, <1>3

(* The typing of the queues in terms of membership. *)
LEMMA QueuesTypedIn ==
  QueuesTyped <=>
    /\ \A c \in ClassId : \A i : In(fifo[c], i) =>
         ClassOf[i] = c /\ Cls(i).policy = "fifo"
    /\ \A s \in StreamId : mailbox[s] # NoJob =>
         Stream(mailbox[s]) = s /\ Cls(mailbox[s]).policy = "mailbox_latest"
BY DEF QueuesTyped, In

(* The same in the next state. *)
LEMMA QueuesTypedInNext ==
  QueuesTyped' <=>
    /\ \A c \in ClassId : \A i : In(fifo'[c], i) =>
         ClassOf[i] = c /\ Cls(i).policy = "fifo"
    /\ \A s \in StreamId : mailbox'[s] # NoJob =>
         Stream(mailbox'[s]) = s /\ Cls(mailbox'[s]).policy = "mailbox_latest"
BY DEF QueuesTyped, In

(* A queued job is an element of the queue of its class. *)
LEMMA QueuedIn == \A j : Queued(j) <=> In(fifo[ClassOf[j]], j)
BY DEF Queued, In

(* The same in the next state. *)
LEMMA QueuedInNext == \A j : Queued(j)' <=> In(fifo'[ClassOf[j]], j)
BY DEF Queued, In

(* A pending job sits in the mailbox of its own stream. *)
LEMMA PendingAt ==
  ASSUME QueuesTyped, NEW j \in Job
  PROVE  Pending(j) <=> mailbox[Stream(j)] = j
BY ClassTypes, RunnerAssumption DEF QueuesTyped, Pending

(* The dispatcher collects waiting jobs. *)
LEMMA CandidatesWait ==
  QueueTypeOK /\ QueuesTyped => \A c \in Candidates : Waits(c)
<1> SUFFICES ASSUME QueueTypeOK, QueuesTyped, NEW j \in Candidates PROVE Waits(j)
  OBVIOUS
<1>1. CASE j \in preempted
  BY <1>1 DEF Waits
<1>2. ASSUME NEW c \in ClassId, fifo[c] # <<>>, j = Head(fifo[c]) PROVE Waits(j)
  <2>1. In(fifo[c], j)
    BY <1>2, InTail DEF QueueTypeOK
  <2> QED BY <2>1, QueuesTypedIn, QueuedIn DEF Waits
<1>3. ASSUME NEW s \in StreamId, mailbox[s] # NoJob, j = mailbox[s] PROVE Waits(j)
  BY <1>3 DEF Waits, Pending
<1> QED BY <1>1, <1>2, <1>3 DEF Candidates

(* ... in the next state as well. *)
LEMMA CandidatesWaitNext ==
  (QueueTypeOK /\ QueuesTyped => \A c \in Candidates : Waits(c))'
BY CandidatesWait, PTL

(* What an arrival does to the queues. *)
LEMMA ArriveQueues ==
  ASSUME IInv, QueuesTyped, NEW e, NEW j \in Job, Arrive(e, j)
  PROVE  /\ QueuesTyped'
         /\ \A i \in Job :
              Queued(i)' <=> Queued(i) \/ (i = j /\ ArriveQueued(e, j))
         /\ \A i \in Job :
              Pending(i)' <=>
                \/ Pending(i) /\ ~ (ArriveReplacing(e, j) /\ i = mailbox[Stream(j)])
                \/ i = j /\ (ArrivePosted(e, j) \/ ArriveReplacing(e, j))
<1> DEFINE c == ClassOf[j]
           q == fifo[c]
<1>1. c \in ClassId /\ Stream(j) \in StreamId /\ q \in Seq(Job)
  BY ClassTypes DEF IInv, TypeOK, QueueTypeOK
<1>2. fifo \in [ClassId -> Seq(Job)] /\ mailbox \in [StreamId -> Job \cup {NoJob}]
  BY DEF IInv, TypeOK, QueueTypeOK
<1>3. /\ ArriveQueued(e, j) =>
           /\ Cls(j).policy = "fifo" /\ mailbox' = mailbox
           /\ fifo' = [fifo EXCEPT ![c] = Append(q, j)]
      /\ ArrivePosted(e, j) \/ ArriveReplacing(e, j) =>
           /\ Cls(j).policy = "mailbox_latest" /\ fifo' = fifo
           /\ mailbox' = [mailbox EXCEPT ![Stream(j)] = j]
      /\ ArriveRejected(e, j) \/ ArriveDropped(e, j) =>
           fifo' = fifo /\ mailbox' = mailbox
      /\ ArrivePosted(e, j) => mailbox[Stream(j)] = NoJob
      /\ ArriveReplacing(e, j) => mailbox[Stream(j)] # NoJob
      /\ ArriveDropped(e, j) => Cls(j).policy = "fifo"
      /\ ArriveRejected(e, j) => ~ Admits(j)
      /\ ArrivePosted(e, j) \/ ArriveReplacing(e, j) => Admits(j)
      /\ ArriveQueued(e, j) => Admits(j) /\ Len(q) < Cls(j).queueCapacity
  BY DEF ArriveQueued, ArrivePosted, ArriveReplacing, ArriveRejected,
         ArriveDropped, queueVars
<1>4. \A i : In(Append(q, j), i) <=> In(q, i) \/ i = j
  BY <1>1, InAppend
<1> HIDE DEF c, q
<1>5. CASE ArriveQueued(e, j)
  <2>1. \A d \in ClassId : fifo'[d] = IF d = c THEN Append(q, j) ELSE fifo[d]
    BY <1>1, <1>2, <1>3, <1>5
  <2>2. \A d \in ClassId : \A i :
          In(fifo'[d], i) <=> In(fifo[d], i) \/ (d = c /\ i = j)
    BY <1>4, <2>1 DEF q
  <2>3. QueuesTyped'
    <3>1. Cls(j).policy = "fifo" /\ mailbox' = mailbox /\ c = ClassOf[j]
      BY <1>3, <1>5 DEF c
    <3> QED BY <2>2, <3>1, QueuesTypedIn, QueuesTypedInNext
  <2>4. \A i \in Job : Queued(i)' <=> Queued(i) \/ i = j
    BY <2>2, ClassTypes, QueuedIn, QueuedInNext DEF c
  <2> QED BY <1>3, <1>5, <2>3, <2>4 DEF Pending
<1>6. CASE ArrivePosted(e, j) \/ ArriveReplacing(e, j)
  <2>1. \A s \in StreamId : mailbox'[s] = IF s = Stream(j) THEN j ELSE mailbox[s]
    BY <1>1, <1>2, <1>3, <1>6
  <2>2. QueuesTyped'
    BY <1>3, <1>6, <2>1 DEF QueuesTyped
  <2>3. \A i \in Job : Queued(i)' <=> Queued(i)
    BY <1>3, <1>6 DEF Queued
  <2>4. ASSUME NEW i \in Job
        PROVE Pending(i)' <=>
                \/ Pending(i) /\ ~ (ArriveReplacing(e, j) /\ i = mailbox[Stream(j)])
                \/ i = j /\ (ArrivePosted(e, j) \/ ArriveReplacing(e, j))
    <3>1. Pending(i) <=> mailbox[Stream(i)] = i
      BY PendingAt
    <3>2. Pending(i)' <=> \E s \in StreamId : mailbox'[s] = i
      BY DEF Pending
    <3>3. \A s \in StreamId : mailbox[s] = i => s = Stream(i)
      BY RunnerAssumption DEF QueuesTyped
    <3>4. Stream(i) \in StreamId /\ i # NoJob
      BY ClassTypes, RunnerAssumption
    <3>5. Pending(i)' <=> i = j \/ (mailbox[Stream(i)] = i /\ Stream(i) # Stream(j))
      BY <1>1, <2>1, <3>2, <3>3, <3>4
    <3>6. CASE ArriveReplacing(e, j)
      BY <1>1, <3>1, <3>3, <3>5, <3>6
    <3>7. CASE ~ ArriveReplacing(e, j)
      <4>1. mailbox[Stream(j)] = NoJob
        BY <1>3, <1>6, <3>7
      <4> QED BY <1>6, <3>1, <3>4, <3>5, <3>7, <4>1
    <3> QED BY <3>6, <3>7
  <2> QED BY <1>3, <1>6, <2>2, <2>3, <2>4
<1>7. CASE ~ ArriveQueued(e, j) /\ ~ ArrivePosted(e, j) /\ ~ ArriveReplacing(e, j)
  BY <1>3, <1>7 DEF Arrive, QueuesTyped, Queued, Pending
<1> QED BY <1>5, <1>6, <1>7

(* A start takes the job, and nothing else, out of a FIFO, if it is the    *)
(* head; it empties the mailbox of the job's stream.                       *)
LEMMA StartQueues ==
  ASSUME IInv, QueuesTyped, NEW c \in todo, Start(c)
  PROVE  /\ QueuesTyped' /\ c \in Job
         /\ \A i \in Job : Queued(i)' => Queued(i)
         /\ \A i \in Job : Queued(i) /\ i # c => Queued(i)'
         /\ \A i \in Job : Pending(i)' => Pending(i) /\ i # c
         /\ \A i \in Job : Pending(i) /\ i # c =>
              Pending(i)' \/ (Cls(c).policy # "fifo" /\ Stream(i) = Stream(c))
<1> DEFINE k == ClassOf[c]
           q == fifo[k]
<1>1. /\ c \in Job /\ k \in ClassId /\ Stream(c) \in StreamId /\ q \in Seq(Job)
      /\ fifo \in [ClassId -> Seq(Job)]
      /\ mailbox \in [StreamId -> Job \cup {NoJob}]
  BY ClassTypes DEF IInv, TypeOK, QueueTypeOK
<1>2. Dequeue(c)
  BY DEF Start
<1>3. CASE Cls(c).policy = "fifo"
  <2>1. /\ mailbox' = mailbox
        /\ fifo' = [fifo EXCEPT ![k] = IF q # <<>> /\ Head(q) = c THEN Tail(q) ELSE q]
    BY <1>2, <1>3 DEF Dequeue
  <2>2. /\ \A i : In(fifo'[k], i) => In(q, i)
        /\ \A i : In(q, i) /\ i # c => In(fifo'[k], i)
    <3>1. CASE q # <<>> /\ Head(q) = c
      <4>1. fifo'[k] = Tail(q)
        BY <1>1, <2>1, <3>1
      <4> HIDE DEF q
      <4> QED BY <1>1, <3>1, <4>1, InTail
    <3>2. CASE ~ (q # <<>> /\ Head(q) = c)
      BY <1>1, <2>1, <3>2
    <3> QED BY <3>1, <3>2
  <2>3. \A d \in ClassId : d # k => fifo'[d] = fifo[d]
    BY <1>1, <2>1
  <2> HIDE DEF q
  <2>4. QueuesTyped'
    BY <2>1, <2>2, <2>3, QueuesTypedIn, QueuesTypedInNext DEF q
  <2>5. \A i \in Job : /\ Queued(i)' => Queued(i)
                       /\ Queued(i) /\ i # c => Queued(i)'
    BY <2>2, <2>3, ClassTypes, QueuedIn, QueuedInNext DEF q
  <2>6. \A i \in Job : Pending(i)' <=> Pending(i)
    BY <2>1 DEF Pending
  <2>7. ~ Pending(c)
    BY <1>1, <1>3, RunnerAssumption DEF QueuesTyped, Pending
  <2> QED BY <1>1, <2>4, <2>5, <2>6, <2>7
<1>4. CASE Cls(c).policy # "fifo"
  <2>1. fifo' = fifo /\ mailbox' = [mailbox EXCEPT ![Stream(c)] = NoJob]
    BY <1>2, <1>4 DEF Dequeue
  <2>2. \A s \in StreamId : mailbox'[s] = IF s = Stream(c) THEN NoJob ELSE mailbox[s]
    BY <1>1, <2>1
  <2>3. QueuesTyped'
    BY <2>1, <2>2 DEF QueuesTyped
  <2>4. \A i \in Job : Queued(i)' <=> Queued(i)
    BY <2>1 DEF Queued
  <2>5. ASSUME NEW i \in Job
        PROVE  /\ Pending(i)' => Pending(i) /\ i # c
               /\ Pending(i) => Pending(i)' \/ Stream(i) = Stream(c)
    <3>1. Pending(i) => mailbox[Stream(i)] = i
      BY PendingAt
    <3>2. Pending(c) => mailbox[Stream(c)] = c
      BY <1>1, PendingAt
    <3>3. i # NoJob
      BY RunnerAssumption
    <3>4. Pending(i)' => \E s \in StreamId : s # Stream(c) /\ mailbox[s] = i
      BY <2>2, <3>3 DEF Pending
    <3>5. Pending(i)' => Pending(i) /\ i # c
      BY <3>1, <3>2, <3>3, <3>4 DEF Pending, QueuesTyped
    <3> QED BY <2>2, <3>1, <3>5, ClassTypes DEF Pending
  <2> QED BY <1>1, <1>4, <2>3, <2>4, <2>5
<1> QED BY <1>3, <1>4

(* A suspended FIFO job goes back to its queue. *)
LEMMA PreemptQueues ==
  ASSUME IInv, QueuesTyped, NEW c, NEW v \in running, Preempt(c, v)
  PROVE  /\ QueuesTyped' /\ v \in Job
         /\ \A i \in Job :
              Queued(i)' <=> Queued(i) \/ (i = v /\ Cls(v).policy = "fifo")
         /\ \A i \in Job : Pending(i)' <=> Pending(i)
<1> DEFINE k == ClassOf[v]
           q == fifo[k]
<1>1. /\ v \in Job /\ k \in ClassId /\ q \in Seq(Job)
      /\ fifo \in [ClassId -> Seq(Job)]
  BY ClassTypes DEF IInv, TypeOK, QueueTypeOK, ExecutionTypeOK
<1>2. fifo' = Reinserted(v) /\ mailbox' = mailbox
  BY DEF Preempt
<1>3. CASE Cls(v).policy = "fifo"
  <2>1. \A d \in ClassId : fifo'[d] = IF d = k THEN <<v>> \o q ELSE fifo[d]
    BY <1>1, <1>2, <1>3 DEF Reinserted
  <2>2. \A i : In(<<v>> \o q, i) <=> In(q, i) \/ i = v
    BY <1>1, InCons
  <2> HIDE DEF q
  <2>3. \A d \in ClassId : \A i :
          In(fifo'[d], i) <=> In(fifo[d], i) \/ (d = k /\ i = v)
    BY <2>1, <2>2 DEF q
  <2>4. QueuesTyped'
    BY <1>2, <1>3, <2>3, QueuesTypedIn, QueuesTypedInNext
  <2>5. \A i \in Job : Queued(i)' <=> Queued(i) \/ i = v
    BY <2>3, ClassTypes, QueuedIn, QueuedInNext
  <2> QED BY <1>1, <1>2, <1>3, <2>4, <2>5 DEF Pending
<1>4. CASE Cls(v).policy # "fifo"
  BY <1>1, <1>2, <1>4 DEF Reinserted, QueuesTyped, Queued, Pending
<1> QED BY <1>3, <1>4

(* A step that leaves queues and mailboxes alone. *)
LEMMA QueuesUnchanged ==
  ASSUME UNCHANGED queueVars
  PROVE  /\ QueuesTyped => QueuesTyped'
         /\ \A i \in Job : (Queued(i)' <=> Queued(i)) /\ (Pending(i)' <=> Pending(i))
BY DEF queueVars, QueuesTyped, Queued, Pending

-----------------------------------------------------------------------------
(* The books are kept by every step.                                       *)

(* An arrival changes the outcome of its job, which was unknown, and of    *)
(* the job it replaces, which was not.                                     *)
LEMMA ArriveFacts ==
  ASSUME IInv, BooksInv, NEW e \in events, NEW j \in Job, Arrive(e, j)
  PROVE  /\ e.kind = "arrival" /\ e.job = j /\ status = "events" /\ Takes(e)
         /\ UNCHANGED <<arrival, executionVars, completeTime, busy>>
         /\ status' = "dispatch" /\ todo' = Candidates'
         /\ AdvanceKernel(e.time, {}) /\ ReplaceByDispatch(e)
         /\ outcome[j] = "absent"
         /\ j \notin running /\ j \notin admitted /\ ~ Waits(j)
         /\ ArriveReplacing(e, j) =>
              /\ mailbox[Stream(j)] \in Job /\ Pending(mailbox[Stream(j)])
              /\ mailbox[Stream(j)] # j
         /\ \A i \in Job : outcome'[i] =
              IF i = j
              THEN IF ArriveRejected(e, j) THEN "REJECTED"
                   ELSE IF ArriveDropped(e, j) THEN "DROPPED" ELSE "COMPLETED"
              ELSE IF ArriveReplacing(e, j) /\ i = mailbox[Stream(j)]
                   THEN "REPLACED" ELSE outcome[i]
<1>1. ArrivalOf(e, j)
  BY DEF Arrive, ArriveRejected, ArriveDropped, ArriveQueued, ArrivePosted,
         ArriveReplacing
<1>2. /\ e.kind = "arrival" /\ e.job = j /\ status = "events" /\ Takes(e)
      /\ UNCHANGED <<arrival, executionVars, completeTime, busy>>
      /\ status' = "dispatch" /\ todo' = Candidates'
      /\ AdvanceKernel(e.time, {}) /\ ReplaceByDispatch(e)
  BY <1>1 DEF ArrivalOf, Takes
<1>3. outcome[j] = "absent"
  BY <1>2 DEF BooksInv, ArrivalEvents
<1>4. j \notin running /\ j \notin admitted /\ ~ Waits(j)
  BY <1>3 DEF BooksInv, Known
<1>5. ArriveReplacing(e, j) =>
        /\ mailbox[Stream(j)] \in Job /\ Pending(mailbox[Stream(j)])
        /\ mailbox[Stream(j)] # j
  <2> SUFFICES ASSUME ArriveReplacing(e, j)
               PROVE  /\ mailbox[Stream(j)] \in Job /\ Pending(mailbox[Stream(j)])
                      /\ mailbox[Stream(j)] # j
    OBVIOUS
  <2>1. mailbox[Stream(j)] \in Job /\ Pending(mailbox[Stream(j)])
    BY ClassTypes DEF ArriveReplacing, IInv, TypeOK, QueueTypeOK, Pending
  <2> QED BY <1>4, <2>1 DEF Waits
<1>6. outcome \in [Job -> {"absent", "COMPLETED", "DROPPED", "REPLACED", "REJECTED"}]
  BY DEF IInv, TypeOK, OutcomeTypeOK
<1>7. /\ ArriveRejected(e, j) => ~ ArriveDropped(e, j)
      /\ ArriveQueued(e, j) \/ ArrivePosted(e, j) \/ ArriveReplacing(e, j) =>
           ~ ArriveRejected(e, j) /\ ~ ArriveDropped(e, j)
      /\ ArriveQueued(e, j) \/ ArrivePosted(e, j) => ~ ArriveReplacing(e, j)
      /\ ArriveRejected(e, j) \/ ArriveDropped(e, j) => ~ ArriveReplacing(e, j)
  <2>1. Len(fifo[ClassOf[j]]) \in Nat /\ Cls(j).queueCapacity \in Nat
    BY ClassTypes DEF IInv, TypeOK, QueueTypeOK
  <2> QED BY <2>1 DEF ArriveRejected, ArriveDropped, ArriveQueued, ArrivePosted,
             ArriveReplacing
<1>8. CASE ArriveReplacing(e, j)
  <2>1. outcome' = [outcome EXCEPT ![mailbox[Stream(j)]] = "REPLACED", ![j] = "COMPLETED"]
    BY <1>8 DEF ArriveReplacing, RecordReplace
  <2> QED BY <1>2, <1>3, <1>4, <1>5, <1>6, <1>7, <1>8, <2>1
<1>9. CASE ~ ArriveReplacing(e, j)
  <2>1. outcome' = [outcome EXCEPT ![j] =
                      IF ArriveRejected(e, j) THEN "REJECTED"
                      ELSE IF ArriveDropped(e, j) THEN "DROPPED" ELSE "COMPLETED"]
    <3>1. CASE ArriveRejected(e, j)
      BY <3>1 DEF ArriveRejected
    <3>2. CASE ArriveDropped(e, j)
      BY <1>7, <3>2 DEF ArriveDropped
    <3>3. CASE ArriveQueued(e, j) \/ ArrivePosted(e, j)
      BY <1>7, <3>3 DEF ArriveQueued, ArrivePosted
    <3> QED BY <1>9, <3>1, <3>2, <3>3 DEF Arrive
  <2> QED BY <1>2, <1>3, <1>4, <1>5, <1>6, <1>9, <2>1
<1> QED BY <1>8, <1>9

(* _handle_arrival keeps the books: what it reserves, refuses or           *)
(* displaces is accounted for.                                             *)
LEMMA ArriveBooks ==
  ASSUME IInv, BooksInv, NEW e \in events, NEW j \in Job, Arrive(e, j)
  PROVE  BooksInv'
<1> DEFINE d == Event(e.time, DISPATCH, nextSeq, "dispatch", NoJob)
           old == mailbox[Stream(j)]
<1>1. /\ e.kind = "arrival" /\ e.job = j /\ status = "events"
      /\ UNCHANGED <<arrival, used, running, preempted>>
      /\ status' = "dispatch" /\ todo' = Candidates'
      /\ outcome[j] = "absent" /\ j \notin admitted
      /\ ArriveReplacing(e, j) => old \in Job /\ Pending(old)
      /\ \A i \in Job : outcome'[i] # outcome[i] =>
           i = j \/ (ArriveReplacing(e, j) /\ i = old)
      /\ \A i \in Job : outcome[i] # "absent" \/ i = j => outcome'[i] # "absent"
  BY ArriveFacts DEF executionVars
<1>2. /\ events' = (events \ {e}) \cup {d} /\ nextSeq' = nextSeq + 1
      /\ d.kind = "dispatch" /\ d.seq = nextSeq
  BY ArriveFacts DEF ReplaceByDispatch, Event
<1> HIDE DEF d
<1>3. SeqFresh' /\ ArrivalEvents'
  <2>1. ASSUME NEW f \in events \cap events', f.kind = "arrival"
        PROVE  outcome'[f.job] = outcome[f.job]
    <3>1. f \in events /\ f # e
      BY <1>1, <1>2, <2>1
    <3>2. f.job # j
      BY <1>1, <2>1, <3>1, OneArrival DEF BooksInv
    <3>3. f.job \in Job
      BY <2>1 DEF IInv, TypeOK, KernelTypeOK, QueuedEvent
    <3>4. outcome[f.job] = "absent"
      BY <1>1, <2>1 DEF BooksInv, ArrivalEvents
    <3>5. ArriveReplacing(e, j) => outcome[old] # "absent"
      BY <1>1 DEF BooksInv, Known, Waits
    <3> QED BY <1>1, <3>2, <3>3, <3>4, <3>5
  <2>2. d.kind # "arrival" /\ events' \subseteq events \cup {d}
    BY <1>2
  <2> HIDE DEF ArrivalEvents, SeqFresh
  <2> QED BY <1>1, <1>2, <2>1, <2>2, EventsFresh DEF BooksInv
<1>4. QueuesTyped' /\ \A i \in Job : Waits(i)' => Waits(i) \/ i = j
  BY <1>1, ArriveQueues DEF BooksInv, Waits
<1>5. admitted' \subseteq admitted \cup {j} /\ AdmissionAccounts'
  <2>1. CASE ArriveRejected(e, j) \/ ArriveDropped(e, j)
    BY <2>1, AccountsUnchanged
       DEF ArriveRejected, ArriveDropped, BooksInv, admissionVars
  <2>2. CASE ArriveQueued(e, j) \/ ArrivePosted(e, j)
    <3>1. Reserve(NoJob, j)
      BY <2>2 DEF ArriveQueued, ArrivePosted
    <3>2. admitted' \subseteq admitted \cup {j}
      BY <3>1 DEF Reserve
    <3> QED BY <1>1, <3>1, <3>2, ReserveAccounts DEF BooksInv, IInv, TypeOK
  <2>3. CASE ArriveReplacing(e, j)
    <3>1. Reserve(old, j)
      BY <2>3 DEF ArriveReplacing
    <3>2. admitted' \subseteq admitted \cup {j}
      BY <3>1 DEF Reserve
    <3> QED BY <1>1, <2>3, <3>1, <3>2, ReserveAccounts DEF BooksInv, IInv, TypeOK
  <2> QED BY <2>1, <2>2, <2>3 DEF Arrive
<1>6. Known'
  <2>1. QueueTypeOK'
    BY ArriveInv DEF IInv, TypeOK
  <2>2. \A i \in todo' : Waits(i)'
    BY <1>1, <1>4, <2>1, CandidatesWaitNext
  <2>3. ASSUME NEW i \in Job,
               i \in running' \/ i \in todo' \/ i \in admitted' \/ Waits(i)'
        PROVE  outcome'[i] # "absent"
    <3>1. i \in running \/ i \in admitted \/ Waits(i) \/ i = j
      BY <1>1, <1>4, <1>5, <2>2, <2>3
    <3> QED BY <1>1, <3>1 DEF BooksInv, Known
  <2> QED BY <2>3 DEF Known
<1>7. UsedIsHeld'
  BY <1>1, HeldUnchanged DEF BooksInv
<1> QED BY <1>3, <1>4, <1>5, <1>6, <1>7 DEF BooksInv

(* A dispatch event touches no account. *)
LEMMA DispatchEventBooks ==
  ASSUME IInv, BooksInv, NEW e \in events, DispatchEvent(e)
  PROVE  BooksInv'
<1>1. /\ events' = events \ {e} /\ status = "events" /\ status' = "dispatch"
      /\ todo' = Candidates
      /\ UNCHANGED <<arrival, nextSeq, executionVars, queueVars, admissionVars,
                     metricVars>>
  BY DEF DispatchEvent, Takes
<1>2. SeqFresh' /\ ArrivalEvents'
  BY <1>1, EventsUnchanged DEF BooksInv, metricVars
<1>3. QueuesTyped' /\ \A i \in Job : Waits(i)' <=> Waits(i)
  BY <1>1, QueuesUnchanged DEF BooksInv, Waits, executionVars
<1>4. \A i \in todo' : Waits(i)
  BY <1>1, CandidatesWait DEF BooksInv, IInv, TypeOK
<1>5. Known'
  BY <1>1, <1>3, <1>4
     DEF BooksInv, Known, executionVars, admissionVars, metricVars
<1>6. AdmissionAccounts' /\ UsedIsHeld'
  BY <1>1, AccountsUnchanged, HeldUnchanged DEF BooksInv, executionVars
<1> QED BY <1>2, <1>3, <1>5, <1>6 DEF BooksInv

(* _handle_completion gives back one reservation and what the job held. *)
LEMMA CompleteBooks ==
  ASSUME IInv, BooksInv, NEW e \in events, Complete(e)
  PROVE  BooksInv'
<1> DEFINE j == e.job
           d == Event(e.time, DISPATCH, nextSeq, "dispatch", NoJob)
<1>1. /\ j \in running /\ j \in Job /\ status = "events"
      /\ running' = running \ {j} /\ used' = Released(j)
      /\ outcome' = [outcome EXCEPT ![j] = "COMPLETED"]
      /\ Reserve(j, NoJob) /\ status' \in {"events", "raised"}
      /\ UNCHANGED <<arrival, preempted, resume, queueVars, todo>>
  BY DEF Complete, Takes, IInv, CompletionDue, TypeOK, ExecutionTypeOK
<1>2. /\ events' = (events \ {e}) \cup {d} /\ nextSeq' = nextSeq + 1
      /\ d.kind = "dispatch" /\ d.seq = nextSeq
  BY DEF Complete, ReplaceByDispatch, Event
<1> HIDE DEF d
<1>3. outcome \in [Job -> {"absent", "COMPLETED", "DROPPED", "REPLACED", "REJECTED"}]
  BY DEF IInv, TypeOK, OutcomeTypeOK
<1>4. SeqFresh' /\ ArrivalEvents'
  <2>1. ASSUME NEW f \in events \cap events', f.kind = "arrival"
        PROVE  outcome'[f.job] = outcome[f.job]
    <3>1. outcome[j] # "absent" /\ outcome[f.job] = "absent"
      BY <1>1, <2>1 DEF BooksInv, ArrivalEvents, Known
    <3> QED BY <1>1, <1>3, <3>1
  <2> QED BY <1>1, <1>2, <2>1, EventsFresh DEF BooksInv
<1>5. QueuesTyped' /\ \A i \in Job : Waits(i)' <=> Waits(i)
  BY <1>1, QueuesUnchanged DEF BooksInv, Waits
<1>6. admitted' \subseteq admitted
  BY <1>1 DEF Reserve
<1>7. Known'
  BY <1>1, <1>3, <1>5, <1>6 DEF BooksInv, Known
<1>8. AdmissionAccounts'
  <2>1. NoJob \notin admitted
    BY RunnerAssumption DEF IInv, TypeOK, AdmissionTypeOK
  <2> QED BY <1>1, <2>1, ReserveAccounts DEF BooksInv, IInv, TypeOK
<1>9. UsedIsHeld'
  BY <1>1, ReleasedIsHeld DEF BooksInv, IInv, TypeOK
<1> QED BY <1>4, <1>5, <1>7, <1>8, <1>9 DEF BooksInv

(* _allocate takes what the started job needs. *)
LEMMA StartBooks ==
  ASSUME IInv, BooksInv, NEW c \in todo, Start(c)
  PROVE  BooksInv'
<1> DEFINE d == Event(now + resume[c], TIMER, nextSeq, "complete", c)
<1>1. /\ c \in Job /\ c \notin running /\ used' = Allocated(c)
      /\ preempted' = preempted \ {c} /\ running' = running \cup {c}
      /\ todo' = todo \ {c} /\ status = "dispatch"
      /\ UNCHANGED <<arrival, now, finished, admissionVars, metricVars, status>>
  BY DEF Start, Considers, IInv, TypeOK
<1>2. /\ events' = events \cup {d} /\ nextSeq' = nextSeq + 1
      /\ d.kind = "complete" /\ d.seq = nextSeq
  BY DEF Start, Event
<1> HIDE DEF d
<1>3. SeqFresh' /\ ArrivalEvents'
  BY <1>1, <1>2, EventsFresh DEF BooksInv, metricVars
<1>4. QueuesTyped' /\ \A i \in Job : Waits(i)' => Waits(i)
  BY <1>1, StartQueues DEF BooksInv, Waits
<1>5. Known'
  BY <1>1, <1>4 DEF BooksInv, Known, admissionVars, metricVars
<1>6. AdmissionAccounts' /\ UsedIsHeld'
  BY <1>1, AccountsUnchanged, AllocatedIsHeld DEF BooksInv, IInv, TypeOK
<1> QED BY <1>3, <1>4, <1>5, <1>6 DEF BooksInv

(* A preemption gives back what the victim held and puts it in front of    *)
(* its queue.                                                              *)
LEMMA PreemptBooks ==
  ASSUME IInv, BooksInv, NEW c \in todo, NEW v \in running, Preempt(c, v)
  PROVE  BooksInv'
<1>1. /\ v \in Job /\ running' = running \ {v} /\ events' \subseteq events
      /\ used' = Released(v) /\ preempted' = preempted \cup {v}
      /\ status = "dispatch"
      /\ UNCHANGED <<arrival, nextSeq, admissionVars, outcome, todo, status>>
  BY DEF Preempt, Considers, Uncompleted, IInv, TypeOK, ExecutionTypeOK
<1>2. SeqFresh' /\ ArrivalEvents'
  BY <1>1, EventsUnchanged DEF BooksInv
<1>3. QueuesTyped' /\ \A i \in Job : Waits(i)' => Waits(i) \/ i = v
  BY <1>1, PreemptQueues DEF BooksInv, Waits
<1>4. Known'
  BY <1>1, <1>3 DEF BooksInv, Known, admissionVars
<1>5. AdmissionAccounts' /\ UsedIsHeld'
  BY <1>1, AccountsUnchanged, ReleasedIsHeld DEF BooksInv, IInv, TypeOK
<1> QED BY <1>2, <1>3, <1>4, <1>5 DEF BooksInv

(* The steps that change neither reservations nor resources. *)
LEMMA OtherBooks ==
  ASSUME IInv, BooksInv,
         \/ \E c \in todo : Pass(c)
         \/ EndDispatch \/ Finish \/ Terminated \/ UNCHANGED vars
  PROVE  BooksInv'
<1> USE DEF vars, kernelVars, executionVars, metricVars
<1>1. /\ UNCHANGED <<arrival, events, nextSeq, executionVars, mailbox, admissionVars>>
      /\ todo' \subseteq todo
      /\ \/ UNCHANGED <<fifo, outcome>> /\ (status' # "done" => status # "done")
         \/ Finish
  BY DEF Pass, Considers, EndDispatch, Terminated, Finish, queueVars
<1>2. SeqFresh' /\ ArrivalEvents'
  BY <1>1, EventsUnchanged DEF BooksInv, Finish
<1>3. QueuesTyped' /\ \A i \in Job : Waits(i)' => Waits(i)
  <2>1. CASE UNCHANGED fifo
    BY <1>1, <2>1, QueuesUnchanged DEF BooksInv, Waits, queueVars
  <2>2. CASE Finish
    BY <1>1, <2>2, ClassTypes
       DEF Finish, BooksInv, QueuesTyped, Waits, Queued, Pending
  <2> QED BY <1>1, <2>1, <2>2
<1>4. \A i \in Job : outcome[i] # "absent" => outcome'[i] # "absent"
  BY <1>1 DEF Finish
<1>5. Known'
  BY <1>1, <1>3, <1>4 DEF BooksInv, Known, admissionVars
<1>6. AdmissionAccounts' /\ UsedIsHeld'
  BY <1>1, AccountsUnchanged, HeldUnchanged DEF BooksInv
<1> QED BY <1>2, <1>3, <1>5, <1>6 DEF BooksInv

(* Every step keeps the books. *)
LEMMA NextBooks == IInv /\ BooksInv /\ [Next]_vars => BooksInv'
<1> SUFFICES ASSUME IInv, BooksInv, [Next]_vars PROVE BooksInv'
  OBVIOUS
<1>1. ASSUME NEW e \in events, NEW j \in Job, Arrive(e, j) PROVE BooksInv'
  BY <1>1, ArriveBooks
<1>2. ASSUME NEW e \in events, DispatchEvent(e) PROVE BooksInv'
  BY <1>2, DispatchEventBooks
<1>3. ASSUME NEW e \in events, Complete(e) PROVE BooksInv'
  BY <1>3, CompleteBooks
<1>4. ASSUME NEW c \in todo, Start(c) PROVE BooksInv'
  BY <1>4, StartBooks
<1>5. ASSUME NEW c \in todo, NEW v \in running, Preempt(c, v) PROVE BooksInv'
  BY <1>5, PreemptBooks
<1>6. ASSUME NEW c \in todo, Pass(c) PROVE BooksInv'
  BY <1>6, OtherBooks
<1>7. CASE EndDispatch \/ Finish \/ Terminated \/ UNCHANGED vars
  BY <1>7, OtherBooks
<1> QED BY <1>1, <1>2, <1>3, <1>4, <1>5, <1>6, <1>7 DEF Next, Dispatch

(* The books are right in every run. *)
LEMMA BooksHold == Spec => []BooksInv
BY InitBooks, NextBooks, InvariantHolds, PTL DEF Spec

(* The runner and the admission controller agree on who holds a            *)
(* reservation, and the controller's counters are the sums over them: over *)
(* replacements and completions none leaks, none is given back twice.      *)
THEOREM ReservationsAddUp == Spec => []AdmissionAccounts
<1>1. BooksInv => AdmissionAccounts
  BY DEF BooksInv
<1> QED BY <1>1, BooksHold, PTL

(* What is in use of each resource is what the running jobs need together, *)
(* although a release that finds too little in use is cut off at zero.     *)
THEOREM ResourcesAddUp == Spec => []UsedIsHeld
<1>1. BooksInv => UsedIsHeld
  BY DEF BooksInv
<1> QED BY <1>1, BooksHold, PTL

(* The jobs that run at the same time fit every resource together: no      *)
(* capacity is oversold, by whatever starts, preemptions, completions and  *)
(* releases cut off at zero.                                               *)
THEOREM RunningJobsFit ==
  Spec => [](\A r \in Resource : TotalNeed(running, r) <= Scenario.capacity[r])
<1>1. UsedIsHeld /\ CapacityRespected =>
        \A r \in Resource : TotalNeed(running, r) <= Scenario.capacity[r]
  BY DEF UsedIsHeld, CapacityRespected
<1> QED BY <1>1, ResourcesAddUp, NeverOverAllocated, PTL

-----------------------------------------------------------------------------
(***************************************************************************)
(* From here on: the orderly scenarios (uniform needs, ids in the order of *)
(* the releases) on any number of engines.  Service is conserved, queues   *)
(* stay in order, the runner implements JobLifecycle, nothing waits that   *)
(* could run, no job waits behind a less urgent one it may preempt, and no *)
(* job is lost.                                                            *)
(***************************************************************************)

-----------------------------------------------------------------------------
(* The canonical order of jobs.                                            *)

(* Precedes, as an operator of the arrival times. *)
Order(a, i, j) ==
  LET p == Cls(i).priority  q == Cls(j).priority
      di == a[i] + Cls(i).relDeadline  dj == a[j] + Cls(j).relDeadline
  IN  \/ p > q
      \/ p = q /\ di < dj
      \/ p = q /\ di = dj /\ a[i] < a[j]
      \/ p = q /\ di = dj /\ a[i] = a[j] /\ IdRank[i] < IdRank[j]

(* Precedes is that order, now and in the next state. *)
LEMMA PrecedesIsOrder ==
  /\ \A i, j : Precedes(i, j) <=> Order(arrival, i, j)
  /\ \A i, j : Precedes(i, j)' <=> Order(arrival', i, j)
BY DEF Precedes, Deadline, Order

(* It is a strict total order. *)
LEMMA OrderIsTotal ==
  ASSUME NEW a \in [Job -> Nat]
  PROVE  /\ \A i \in Job : ~ Order(a, i, i)
         /\ \A i, j \in Job : i = j \/ Order(a, i, j) \/ Order(a, j, i)
         /\ \A i, j, k \in Job : Order(a, i, j) /\ Order(a, j, k) => Order(a, i, k)
<1>1. \A i \in Job : /\ Cls(i).priority \in Int /\ Cls(i).relDeadline \in Nat
                     /\ IdRank[i] \in Nat /\ a[i] \in Nat
  BY RunnerAssumption DEF Cls, WorkloadClass
<1>2. \A i, j \in Job : IdRank[i] = IdRank[j] => i = j
  BY RunnerAssumption
<1> QED BY <1>1, <1>2 DEF Order

(* So is Precedes. *)
LEMMA PrecedesIsTotal ==
  ASSUME arrival \in [Job -> Nat]
  PROVE  /\ \A i \in Job : ~ Precedes(i, i)
         /\ \A i, j \in Job : i = j \/ Precedes(i, j) \/ Precedes(j, i)
         /\ \A i, j \in Job : Precedes(i, j) => ~ Precedes(j, i)
         /\ \A i, j, k \in Job : Precedes(i, j) /\ Precedes(j, k) => Precedes(i, k)
BY PrecedesIsOrder, OrderIsTotal

(* The order depends on the arrivals alone. *)
LEMMA PrecedesUnchanged ==
  UNCHANGED arrival => \A i, j : Precedes(i, j)' <=> Precedes(i, j)
BY PrecedesIsOrder

(* The releases of a class arrive in the order of their numbers ... *)
ReleasesInOrder ==
  \A i, j \in Job : ClassOf[i] = ClassOf[j] /\ i < j => arrival[i] <= arrival[j]

(* ... and precede one another in that order. *)
LEMMA ClassOrder ==
  ASSUME IdsInOrder, arrival \in [Job -> Nat], ReleasesInOrder,
         NEW i \in Job, NEW j \in Job, ClassOf[i] = ClassOf[j], i < j
  PROVE  Precedes(i, j)
<1>1. /\ Cls(i) = Cls(j) /\ Cls(i).priority \in Int /\ Cls(i).relDeadline \in Nat
      /\ arrival[i] \in Nat /\ arrival[j] \in Nat /\ arrival[i] <= arrival[j]
      /\ IdRank[i] < IdRank[j]
  BY RunnerAssumption DEF Cls, WorkloadClass, ReleasesInOrder, IdsInOrder
<1> QED BY <1>1 DEF Precedes, Deadline

(* A queue in the canonical order. *)
Sorted(a, q) == \A i, k \in DOMAIN q : i < k => Order(a, q[i], q[k])

(* A job that comes after everyone can join the end. *)
LEMMA SortedAppend ==
  ASSUME NEW a, NEW q \in Seq(Job), NEW j \in Job, Sorted(a, q),
         \A i : In(q, i) => Order(a, i, j)
  PROVE  Sorted(a, Append(q, j))
<1> DEFINE p == Append(q, j)
<1>1. /\ DOMAIN p = 1..(Len(q) + 1) /\ DOMAIN q = 1..Len(q) /\ Len(q) \in Nat
      /\ \A i \in 1..Len(q) : p[i] = q[i]
      /\ p[Len(q) + 1] = j
  BY AppendElements
<1> HIDE DEF p
<1>2. ASSUME NEW i \in DOMAIN p, NEW k \in DOMAIN p, i < k
      PROVE  Order(a, p[i], p[k])
  <2>1. i \in 1..Len(q) /\ p[i] = q[i] /\ In(q, q[i])
    BY <1>1, <1>2 DEF In
  <2>2. CASE k = Len(q) + 1
    BY <1>1, <2>1, <2>2
  <2>3. CASE k # Len(q) + 1
    <3>1. k \in 1..Len(q) /\ p[k] = q[k]
      BY <1>1, <1>2, <2>3
    <3> QED BY <1>1, <1>2, <2>1, <3>1 DEF Sorted
  <2> QED BY <2>2, <2>3
<1> QED BY <1>2 DEF Sorted, p

(* A sorted queue stays sorted without its head. *)
LEMMA SortedTail ==
  ASSUME NEW a, NEW q \in Seq(Job), q # <<>>, Sorted(a, q)
  PROVE  Sorted(a, Tail(q))
<1> DEFINE p == Tail(q)
<1>1. /\ DOMAIN p = 1..(Len(q) - 1) /\ DOMAIN q = 1..Len(q) /\ Len(q) \in Nat
      /\ \A i \in 1..(Len(q) - 1) : p[i] = q[i + 1]
  BY TailElements
<1> HIDE DEF p
<1>2. ASSUME NEW i \in DOMAIN p, NEW k \in DOMAIN p, i < k
      PROVE  Order(a, p[i], p[k])
  <2>1. i + 1 \in DOMAIN q /\ k + 1 \in DOMAIN q /\ i + 1 < k + 1
    BY <1>1, <1>2
  <2> QED BY <1>1, <2>1 DEF Sorted
<1> QED BY <1>2 DEF Sorted, p

(* A job that comes before everyone can join the front. *)
LEMMA SortedCons ==
  ASSUME NEW a, NEW q \in Seq(Job), NEW v \in Job, Sorted(a, q),
         \A i : In(q, i) => Order(a, v, i)
  PROVE  Sorted(a, <<v>> \o q)
<1> DEFINE p == <<v>> \o q
<1>1. /\ DOMAIN p = 1..(Len(q) + 1) /\ DOMAIN q = 1..Len(q) /\ Len(q) \in Nat
      /\ \A i \in 1..Len(q) : p[i + 1] = q[i]
      /\ p[1] = v
  BY ConsElements
<1> HIDE DEF p
<1>2. ASSUME NEW i \in DOMAIN p, NEW k \in DOMAIN p, i < k
      PROVE  Order(a, p[i], p[k])
  <2>1. k - 1 \in 1..Len(q) /\ p[(k - 1) + 1] = q[k - 1]
    BY <1>1, <1>2
  <2>2. p[k] = q[k - 1] /\ In(q, q[k - 1])
    BY <1>1, <1>2, <2>1 DEF In
  <2>3. CASE i = 1
    BY <1>1, <2>2, <2>3
  <2>4. CASE i # 1
    <3>1. i - 1 \in 1..Len(q) /\ p[(i - 1) + 1] = q[i - 1]
      BY <1>1, <1>2, <2>4
    <3>2. p[i] = q[i - 1] /\ i - 1 < k - 1
      BY <1>1, <1>2, <3>1
    <3> QED BY <1>1, <2>1, <2>2, <3>1, <3>2 DEF Sorted
  <2> QED BY <2>3, <2>4
<1> QED BY <1>2 DEF Sorted, p

(* The head of a sorted queue precedes the rest, and is in it once.        *)
LEMMA HeadFirst ==
  ASSUME NEW a \in [Job -> Nat], NEW q \in Seq(Job), q # <<>>, Sorted(a, q)
  PROVE  /\ Head(q) \in Job
         /\ \A i : In(q, i) /\ i # Head(q) => Order(a, Head(q), i)
         /\ ~ In(Tail(q), Head(q))
<1>1. /\ DOMAIN q = 1..Len(q) /\ Len(q) \in Nat \ {0} /\ Head(q) = q[1]
      /\ DOMAIN Tail(q) = 1..(Len(q) - 1)
      /\ \A i \in 1..(Len(q) - 1) : Tail(q)[i] = q[i + 1]
  BY TailElements
<1>2. Head(q) \in Job /\ 1 \in DOMAIN q
  BY <1>1
<1>3. ASSUME NEW i, In(q, i), i # Head(q) PROVE Order(a, Head(q), i)
  <2>1. PICK n \in DOMAIN q : q[n] = i /\ n # 1
    BY <1>1, <1>3 DEF In
  <2> QED BY <1>1, <1>2, <2>1 DEF Sorted
<1>4. ASSUME In(Tail(q), Head(q)) PROVE FALSE
  <2>1. PICK n \in 1..(Len(q) - 1) : q[n + 1] = Head(q)
    BY <1>1, <1>4 DEF In
  <2>2. Order(a, Head(q), Head(q))
    BY <1>1, <1>2, <2>1 DEF Sorted
  <2> QED BY <1>2, <2>2, OrderIsTotal
<1> QED BY <1>2, <1>3, <1>4

-----------------------------------------------------------------------------
(* The orderly scenarios.                                                  *)
(*                                                                         *)
(* With classes of different needs, several jobs may be suspended for one  *)
(* candidate, and a job that is no longer the head of its FIFO may be      *)
(* started without leaving it; then none of what follows holds.  With      *)
(* uniform needs one suspension is enough, and nothing else fits then.     *)

(* How often the needs of a job fit into what is free. *)
Need(r) == Cls(CHOOSE j \in Job : TRUE).needs[r]
Room(k) == \A r \in Resource : Scenario.capacity[r] - used[r] >= k * Need(r)

(* c is the candidate the loop of _dispatch considers next. *)
Leads(c) == c \in todo /\ \A d \in todo \ {c} : Precedes(c, d)

(* Candidate d will not be started in this loop: it can take no running    *)
(* job's place, and there is no room, or only for a candidate before it.   *)
Stuck(d) ==
  /\ \A w \in running : ~ MayPreempt(d, w)
  /\ \/ ~ Room(1)
     \/ ~ Room(2) /\ \E c \in todo : Leads(c) /\ Precedes(c, d)

(* Candidates of a FIFO are in it; what stands before one is a candidate   *)
(* too, or the candidate is stuck.                                         *)
Reach ==
  /\ status # "dispatch" => todo = {}
  /\ \A d \in todo : Cls(d).policy = "fifo" =>
       /\ Queued(d)
       /\ \/ Stuck(d)
          \/ \A b \in Job : Queued(b) /\ ClassOf[b] = ClassOf[d] /\ Precedes(b, d) =>
               b \in todo

(* The queues: in the canonical order, suspended jobs before fresh ones,   *)
(* behind the running jobs of their class, before those still to arrive.   *)
Lines ==
  /\ \A c \in ClassId : Sorted(arrival, fifo[c])
  /\ \A b, d \in Job :
       Queued(b) /\ Queued(d) /\ ClassOf[b] = ClassOf[d] /\ Precedes(b, d)
         /\ d \in preempted => b \in preempted
  /\ \A j \in preempted : Cls(j).policy = "fifo" => Queued(j)
  /\ \A j \in running, i \in Job :
       Queued(i) /\ ClassOf[i] = ClassOf[j] => Precedes(j, i)
  /\ \A e \in events, j \in Job :
       e.kind = "arrival" /\ outcome[j] # "absent" /\ ClassOf[j] = ClassOf[e.job] =>
         j < e.job

(* A job that runs or waits is accepted and has not met its fate; it does  *)
(* only one of the two; it was not started before it is taken from where   *)
(* it arrived.                                                             *)
Places ==
  \A j \in Job :
    /\ j \in running \/ j \in todo \/ Waits(j) =>
         outcome[j] = "COMPLETED" /\ completeTime[j] = NoTime
    /\ j \in running => ~ Waits(j) /\ j \notin todo
    /\ Pending(j) => j \notin preempted
    /\ completeTime[j] # NoTime => outcome[j] = "COMPLETED"
    /\ Pending(j) \/ outcome[j] = "absent" =>
         jobState[j] = "absent" /\ resume[j] = Work(j)

OrderlyInv ==
  /\ ReleasesInOrder
  /\ status # "done" => Lines /\ Places
  /\ Reach
  /\ ServiceConserved

(* All that is known of a run of an orderly scenario. *)
Inv == IInv /\ BooksInv /\ OrderlyInv

(* With uniform needs the resources are counted in jobs. *)
LEMMA NeedIsShared ==
  ASSUME UniformNeeds, NEW j \in Job
  PROVE  /\ \A r \in Resource : Cls(j).needs[r] = Need(r) /\ Need(r) \in Nat
         /\ CanAllocate(j) <=> Room(1)
<1> DEFINE i == CHOOSE i \in Job : TRUE
<1>1. i \in Job
  OBVIOUS
<1> HIDE DEF i
<1>2. Cls(j).needs = Cls(i).needs /\ Cls(j).needs \in [Resource -> Nat]
  BY <1>1, ClassTypes DEF UniformNeeds, Cls
<1>3. \A r \in Resource : Cls(j).needs[r] = Need(r) /\ Need(r) \in Nat
  BY <1>2 DEF Need, i
<1>4. \A r \in Resource : 1 * Need(r) = Cls(j).needs[r]
  BY <1>3
<1> QED BY <1>3, <1>4 DEF CanAllocate, Room

(* The empty queues are in order. *)
LEMMA InitOrderly == Init => OrderlyInv
<1> SUFFICES ASSUME Init PROVE OrderlyInv
  OBVIOUS
<1>1. ReleasesInOrder
  BY DEF Init, ReleasesInOrder
<1>2. \A j \in Job : ~ Queued(j) /\ ~ Pending(j)
  BY ClassTypes, RunnerAssumption DEF Init, Queued, Pending
<1>3. Lines
  BY <1>2 DEF Init, Lines, Sorted
<1>4. Places
  BY <1>2 DEF Init, Places, Waits
<1>5. Reach
  BY DEF Init, Reach
<1>6. ServiceConserved
  BY ClassTypes DEF Init, ServiceConserved, NoTime
<1> QED BY <1>1, <1>3, <1>4, <1>5, <1>6 DEF OrderlyInv

(* The clock: what is charged to a running job and left of it add up.      *)
LEMMA AdvanceService ==
  ASSUME IInv, NEW e \in events, Takes(e), NEW ended \in SUBSET Job,
         ended \subseteq {j \in Job : jobState[j] = "RUNNING"},
         AdvanceKernel(e.time, ended)
  PROVE  /\ \A j \in running \ ended :
              (now' - startTime[j]) + remaining'[j] = (now - startTime[j]) + remaining[j]
         /\ \A j \in Job : jobState[j] = "absent" => jobState'[j] = "absent"
<1>1. \A j \in running \ ended : now' + remaining'[j] = now + remaining[j]
  BY AdvanceFacts
<1>2. now' \in Nat /\ remaining' \in [Job -> Nat]
  BY AdvanceFacts
<1>3. /\ now \in Nat /\ remaining \in [Job -> Nat] /\ running \subseteq Job
      /\ \A j \in Job : startTime[j] \in Int
  BY DEF IInv, TypeOK, KernelTypeOK, ExecutionTypeOK, NoTime
<1>4. \A j \in Job : jobState[j] = "absent" => jobState'[j] = "absent"
  BY DEF AdvanceKernel, RunsOut
<1> QED BY <1>1, <1>2, <1>3, <1>4

(* ... when no job is ended by the event itself. *)
LEMMA AdvanceIdle ==
  ASSUME IInv, NEW e \in events, Takes(e), AdvanceKernel(e.time, {})
  PROVE  /\ \A j \in running :
              (now' - startTime[j]) + remaining'[j] = (now - startTime[j]) + remaining[j]
         /\ \A j \in Job : jobState[j] = "absent" => jobState'[j] = "absent"
         /\ now' \in Nat /\ remaining' \in [Job -> Nat]
<1> DEFINE none == {}
<1>1. /\ none \in SUBSET Job /\ none \subseteq {j \in Job : jobState[j] = "RUNNING"}
      /\ running \ none = running /\ AdvanceKernel(e.time, none)
  OBVIOUS
<1> HIDE DEF none
<1>2. /\ \A j \in running \ none :
           (now' - startTime[j]) + remaining'[j] = (now - startTime[j]) + remaining[j]
      /\ \A j \in Job : jobState[j] = "absent" => jobState'[j] = "absent"
  BY <1>1, AdvanceService
<1>3. now' \in Nat /\ remaining' \in [Job -> Nat]
  BY <1>1, AdvanceFacts
<1> QED BY <1>1, <1>2, <1>3

(* Of two arrivals of a class the first to be delivered has the smaller    *)
(* number.                                                                 *)
LEMMA FirstArrival ==
  ASSUME IInv, ArrivalEvents, ReleasesInOrder, NEW e \in events, NEW f \in events,
         e.kind = "arrival", f.kind = "arrival", e # f, Takes(e),
         ClassOf[e.job] = ClassOf[f.job]
  PROVE  e.job < f.job
<1> DEFINE S(j) == {i \in Job : arrival[i] < arrival[j]
                                  \/ (arrival[i] = arrival[j] /\ i < j)}
<1>1. /\ e \in QueuedEvent /\ f \in QueuedEvent /\ e.phase = f.phase
      /\ \A g \in events : g.kind = "dispatch" <=> g.job = NoJob
      /\ arrival \in [Job -> Nat]
  BY DEF IInv, TypeOK, KernelTypeOK, EventKinds
<1>2. e.job \in Job /\ f.job \in Job /\ e.job \in Nat /\ f.job \in Nat
  BY <1>1, RunnerAssumption DEF QueuedEvent
<1>3. Before(e, f)
  BY DEF Takes, IsFirst
<1>4. SUFFICES ASSUME f.job < e.job PROVE FALSE
  <2>1. e.job # f.job
    BY OneArrival
  <2> QED BY <1>2, <1>4, <2>1
<1>5. /\ e.time = arrival[e.job] /\ f.time = arrival[f.job]
      /\ e.seq = Place(e.job) /\ f.seq = Place(f.job)
  BY DEF ArrivalEvents
<1>6. arrival[f.job] <= arrival[e.job]
  BY <1>2, <1>4 DEF ReleasesInOrder
<1>7. arrival[f.job] = arrival[e.job] /\ Place(e.job) < Place(f.job)
  <2>1. arrival[f.job] \in Nat /\ arrival[e.job] \in Nat
    BY <1>1, <1>2
  <2>2. e.phase \in Nat
    BY <1>1 DEF QueuedEvent, EventPhase, RELEASE, ARRIVAL, TIMER, DISPATCH
  <2> QED BY <1>1, <1>3, <1>5, <1>6, <2>1, <2>2 DEF Before
<1>8. S(f.job) \subseteq S(e.job)
  <2> SUFFICES ASSUME NEW i \in Job, arrival[i] < arrival[f.job]
                        \/ (arrival[i] = arrival[f.job] /\ i < f.job)
               PROVE  arrival[i] < arrival[e.job]
                        \/ (arrival[i] = arrival[e.job] /\ i < e.job)
    OBVIOUS
  <2>1. i \in Nat
    BY RunnerAssumption
  <2> QED BY <1>2, <1>4, <1>7, <2>1
<1>9. Place(f.job) <= Place(e.job)
  <2>1. IsFiniteSet(S(e.job))
    BY FS_Subset, RunnerAssumption
  <2>2. Cardinality(S(f.job)) <= Cardinality(S(e.job))
    BY <1>8, <2>1, FS_Subset
  <2> QED BY <2>2 DEF Place
<1> QED BY <1>2, <1>7, <1>9, PlaceType

(* The candidates of a FIFO: its head and its suspended jobs, which stand  *)
(* at its front.                                                           *)
LEMMA CandidatesReach ==
  IInv /\ QueuesTyped /\ Lines /\ (running \cap preempted = {}) =>
    \A d \in Candidates : Cls(d).policy = "fifo" =>
      /\ Queued(d)
      /\ \A b \in Job : Queued(b) /\ ClassOf[b] = ClassOf[d] /\ Precedes(b, d) =>
           b \in Candidates
<1> SUFFICES ASSUME IInv, QueuesTyped, Lines, running \cap preempted = {},
                    NEW d \in Candidates, Cls(d).policy = "fifo"
             PROVE  /\ Queued(d)
                    /\ \A b \in Job :
                         Queued(b) /\ ClassOf[b] = ClassOf[d] /\ Precedes(b, d) =>
                           b \in Candidates
  OBVIOUS
<1>1. /\ d \in Job /\ arrival \in [Job -> Nat] /\ preempted \subseteq Job
      /\ \A c \in ClassId : fifo[c] \in Seq(Job)
  BY CandidatesAreJobs DEF IInv, TypeOK, KernelTypeOK, ExecutionTypeOK, QueueTypeOK
<1>2. CASE d \in preempted
  <2>1. Queued(d)
    BY <1>2 DEF Lines
  <2>2. \A b \in Job : Queued(b) /\ ClassOf[b] = ClassOf[d] /\ Precedes(b, d) =>
          b \in preempted
    BY <1>1, <1>2, <2>1 DEF Lines
  <2> QED BY <2>1, <2>2 DEF Candidates
<1>3. CASE d \notin preempted
  <2>1. PICK c \in ClassId : fifo[c] # <<>> /\ d = Head(fifo[c])
    BY <1>3, RunnerAssumption DEF Candidates, QueuesTyped
  <2>2. In(fifo[c], d) /\ \A i : In(fifo[c], i) /\ i # d => Order(arrival, d, i)
    BY <1>1, <2>1, InTail, HeadFirst DEF Lines
  <2>3. c = ClassOf[d] /\ Queued(d)
    BY <2>1, <2>2, QueuesTypedIn, QueuedIn
  <2>4. \A b \in Job : Queued(b) /\ ClassOf[b] = ClassOf[d] /\ Precedes(b, d) => b = d
    BY <1>1, <2>2, <2>3, QueuedIn, PrecedesIsOrder, PrecedesIsTotal
  <2> QED BY <2>3, <2>4
<1> QED BY <1>2, <1>3

(* The same in the next state. *)
LEMMA CandidatesReachNext ==
  (IInv /\ QueuesTyped /\ Lines /\ (running \cap preempted = {}) =>
     \A d \in Candidates : Cls(d).policy = "fifo" =>
       /\ Queued(d)
       /\ \A b \in Job : Queued(b) /\ ClassOf[b] = ClassOf[d] /\ Precedes(b, d) =>
            b \in Candidates)'
BY CandidatesReach, PTL

(* What holds of every job in a state that is not the last one.            *)
LEMMA OrderlyFacts ==
  ASSUME IInv, BooksInv, OrderlyInv
  PROVE  /\ arrival \in [Job -> Nat] /\ running \subseteq Job /\ todo \subseteq Job
         /\ preempted \subseteq Job /\ running \cap preempted = {}
         /\ \A c \in ClassId : fifo[c] \in Seq(Job)
         /\ \A i \in Job : Queued(i) => Cls(i).policy = "fifo"
         /\ \A i \in Job : Pending(i) => Cls(i).policy = "mailbox_latest"
         /\ \A i \in Job : i \in running \/ i \in todo \/ Waits(i) =>
              outcome[i] # "absent"
<1>1. /\ arrival \in [Job -> Nat] /\ running \subseteq Job /\ todo \subseteq Job
      /\ preempted \subseteq Job /\ running \cap preempted = {}
      /\ \A c \in ClassId : fifo[c] \in Seq(Job)
  BY DEF IInv, TypeOK, KernelTypeOK, ExecutionTypeOK, QueueTypeOK, KernelAgrees
<1>2. /\ \A i \in Job : Queued(i) => Cls(i).policy = "fifo"
      /\ \A i \in Job : Pending(i) => Cls(i).policy = "mailbox_latest"
  BY ClassTypes, RunnerAssumption DEF BooksInv, QueuesTyped, Queued, Pending
<1> QED BY <1>1, <1>2 DEF BooksInv, Known

(* An arrival joins the end of its queue, or takes its mailbox. *)
LEMMA ArriveLines ==
  ASSUME IdsInOrder, Inv, NEW e \in events, NEW j \in Job, Arrive(e, j)
  PROVE  Lines'
<1>1. /\ IInv /\ BooksInv /\ OrderlyInv /\ ReleasesInOrder /\ QueuesTyped
      /\ ArrivalEvents
  BY DEF Inv, OrderlyInv, BooksInv
<1>2. /\ e.kind = "arrival" /\ e.job = j /\ status = "events" /\ Takes(e)
      /\ running' = running /\ preempted' = preempted /\ arrival' = arrival
      /\ ReplaceByDispatch(e)
      /\ j \notin running /\ ~ Waits(j)
      /\ \A i \in Job : outcome'[i] # "absent" => outcome[i] # "absent" \/ i = j
  BY <1>1, ArriveFacts DEF executionVars, BooksInv, Known, Waits
<1>3. Lines
  BY <1>1, <1>2 DEF OrderlyInv
<1>4. /\ arrival \in [Job -> Nat] /\ running \subseteq Job /\ preempted \subseteq Job
      /\ \A c \in ClassId : fifo[c] \in Seq(Job)
      /\ \A i \in Job : i \in running \/ Waits(i) => outcome[i] # "absent"
  BY <1>1, OrderlyFacts
<1>5. ASSUME NEW i \in Job, i \in running \/ Waits(i), ClassOf[i] = ClassOf[j]
      PROVE  Precedes(i, j) /\ ~ Precedes(j, i)
  <2>1. i < j
    BY <1>2, <1>3, <1>4, <1>5 DEF Lines
  <2> QED BY <1>1, <1>4, <1>5, <2>1, ClassOrder, PrecedesIsTotal
<1>6. \A i, k : Precedes(i, k)' <=> Precedes(i, k)
  BY <1>2, PrecedesUnchanged
<1>7. \A i \in Job : Queued(i)' <=> Queued(i) \/ (i = j /\ ArriveQueued(e, j))
  BY <1>1, ArriveQueues
<1>8. ASSUME NEW c \in ClassId PROVE Sorted(arrival', fifo'[c])
  <2>1. CASE ArriveQueued(e, j) /\ c = ClassOf[j]
    <3>1. fifo'[c] = Append(fifo[c], j)
      BY <2>1 DEF ArriveQueued, IInv, TypeOK, QueueTypeOK, Inv
    <3>2. \A i : In(fifo[c], i) => Order(arrival, i, j)
      <4> SUFFICES ASSUME NEW i, In(fifo[c], i) PROVE Order(arrival, i, j)
        OBVIOUS
      <4>1. i \in Job /\ ClassOf[i] = c
        BY <1>1, <1>4, QueuesTypedIn DEF In
      <4>2. Queued(i)
        BY <4>1, QueuedIn
      <4> QED BY <1>5, <2>1, <4>1, <4>2, PrecedesIsOrder DEF Waits
    <3>3. Sorted(arrival, fifo[c])
      BY <1>3 DEF Lines
    <3> QED BY <1>2, <1>4, <3>1, <3>2, <3>3, SortedAppend
  <2>2. CASE ~ (ArriveQueued(e, j) /\ c = ClassOf[j])
    <3>1. fifo'[c] = fifo[c]
      BY <2>2 DEF Arrive, ArriveQueued, ArriveRejected, ArriveDropped, ArrivePosted,
                  ArriveReplacing, queueVars, IInv, TypeOK, QueueTypeOK, Inv
    <3> QED BY <1>2, <1>3, <3>1 DEF Lines
  <2> QED BY <2>1, <2>2
<1>9. ASSUME NEW b \in Job, NEW d \in Job, Queued(b)', Queued(d)',
             ClassOf[b] = ClassOf[d], Precedes(b, d), d \in preempted
      PROVE  b \in preempted
  <2>1. d # j /\ Queued(d) /\ Waits(d)
    BY <1>2, <1>7, <1>9 DEF Waits
  <2>2. b # j
    BY <1>5, <1>9, <2>1
  <2> QED BY <1>3, <1>7, <1>9, <2>1, <2>2 DEF Lines
<1>10. \A i \in preempted : Cls(i).policy = "fifo" => Queued(i)'
  BY <1>3, <1>4, <1>7 DEF Lines
<1>11. ASSUME NEW k \in running, NEW i \in Job, Queued(i)', ClassOf[i] = ClassOf[k]
       PROVE  Precedes(k, i)
  BY <1>3, <1>4, <1>5, <1>7, <1>11 DEF Lines
<1>12. ASSUME NEW f \in events', NEW i \in Job, f.kind = "arrival",
              outcome'[i] # "absent", ClassOf[i] = ClassOf[f.job]
       PROVE  i < f.job
  <2>1. f \in events /\ f # e
    BY <1>2, <1>12 DEF ReplaceByDispatch, Event
  <2>2. CASE i = j
    BY <1>1, <1>2, <1>12, <2>1, <2>2, FirstArrival
  <2> QED BY <1>2, <1>3, <1>12, <2>1, <2>2 DEF Lines
<1> QED BY <1>2, <1>6, <1>8, <1>9, <1>10, <1>11, <1>12 DEF Lines

(* An arrival gets one place, and the job it displaces loses its own. *)
LEMMA ArrivePlaces ==
  ASSUME Inv, NEW e \in events, NEW j \in Job, Arrive(e, j)
  PROVE  Places'
<1> DEFINE old == mailbox[Stream(j)]
<1>1. /\ IInv /\ BooksInv /\ OrderlyInv /\ QueuesTyped
  BY DEF Inv, OrderlyInv, BooksInv
<1>2. /\ status = "events" /\ Takes(e)
      /\ running' = running /\ preempted' = preempted /\ resume' = resume
      /\ completeTime' = completeTime
      /\ todo' = Candidates' /\ AdvanceKernel(e.time, {})
      /\ j \notin running /\ ~ Waits(j) /\ outcome[j] = "absent"
      /\ ArriveReplacing(e, j) => old \in Job /\ Pending(old) /\ old # j
      /\ \A i \in Job : outcome'[i] =
           IF i = j
           THEN IF ArriveRejected(e, j) THEN "REJECTED"
                ELSE IF ArriveDropped(e, j) THEN "DROPPED" ELSE "COMPLETED"
           ELSE IF ArriveReplacing(e, j) /\ i = old
                THEN "REPLACED" ELSE outcome[i]
  BY <1>1, ArriveFacts DEF executionVars
<1>3. Places
  BY <1>1, <1>2 DEF OrderlyInv
<1>4. /\ \A i \in Job : Queued(i)' <=> Queued(i) \/ (i = j /\ ArriveQueued(e, j))
      /\ \A i \in Job :
           Pending(i)' <=>
             \/ Pending(i) /\ ~ (ArriveReplacing(e, j) /\ i = old)
             \/ i = j /\ (ArrivePosted(e, j) \/ ArriveReplacing(e, j))
      /\ QueuesTyped'
  BY <1>1, ArriveQueues
<1>5. \A i \in Job : i \in todo' => Waits(i)'
  <2>1. QueueTypeOK'
    BY <1>1, ArriveInv DEF IInv, TypeOK
  <2> QED BY <1>2, <1>4, <2>1, CandidatesWaitNext
<1>6. \A i \in Job : jobState[i] = "absent" => jobState'[i] = "absent"
  BY <1>1, <1>2, AdvanceIdle
<1>7. Pending(old) /\ old \in Job => ~ Queued(old)
  BY <1>1, OrderlyFacts
<1>8. /\ ArriveQueued(e, j) \/ ArrivePosted(e, j) \/ ArriveReplacing(e, j) =>
           ~ ArriveRejected(e, j) /\ ~ ArriveDropped(e, j)
  <2>1. Len(fifo[ClassOf[j]]) \in Nat /\ Cls(j).queueCapacity \in Nat
    BY <1>1, ClassTypes DEF IInv, TypeOK, QueueTypeOK
  <2> QED BY <2>1 DEF ArriveRejected, ArriveDropped, ArriveQueued, ArrivePosted,
             ArriveReplacing
<1> HIDE DEF old
<1>9. \A i \in Job : Waits(i)' =>
        \/ Waits(i) /\ i # j /\ ~ (ArriveReplacing(e, j) /\ i = old)
        \/ i = j /\ ~ ArriveRejected(e, j) /\ ~ ArriveDropped(e, j)
  BY <1>2, <1>3, <1>4, <1>7, <1>8 DEF Waits, Places
<1> SUFFICES ASSUME NEW i \in Job
             PROVE  /\ i \in running \/ Waits(i)' =>
                         outcome'[i] = "COMPLETED" /\ completeTime[i] = NoTime
                    /\ i \in running => ~ Waits(i)'
                    /\ Pending(i)' => i \notin preempted
                    /\ completeTime[i] # NoTime => outcome'[i] = "COMPLETED"
                    /\ Pending(i)' \/ outcome'[i] = "absent" =>
                         jobState'[i] = "absent" /\ resume[i] = Work(i)
  BY <1>2, <1>5 DEF Places
<1>10. CASE i = j
  BY <1>2, <1>3, <1>4, <1>6, <1>9, <1>10 DEF Places, Waits
<1>11. CASE i # j /\ ArriveReplacing(e, j) /\ i = old
  BY <1>2, <1>3, <1>4, <1>6, <1>9, <1>11 DEF Places, Waits
<1>12. CASE i # j /\ ~ (ArriveReplacing(e, j) /\ i = old)
  BY <1>2, <1>3, <1>4, <1>6, <1>9, <1>12 DEF Places, Waits
<1> QED BY <1>10, <1>11, <1>12

(* _handle_arrival keeps the scenario orderly. *)
LEMMA ArriveOrderly ==
  ASSUME IdsInOrder, Inv, NEW e \in events, NEW j \in Job, Arrive(e, j)
  PROVE  OrderlyInv'
<1>1. /\ IInv /\ BooksInv /\ OrderlyInv
  BY DEF Inv
<1>2. /\ status = "events" /\ Takes(e) /\ status' = "dispatch" /\ todo' = Candidates'
      /\ AdvanceKernel(e.time, {})
      /\ UNCHANGED <<arrival, running, startTime, preempted, resume, completeTime, busy>>
      /\ \A i \in Job : outcome'[i] \in {"DROPPED", "REPLACED", "REJECTED"}
                          \/ outcome'[i] = outcome[i] \/ i = j
      /\ outcome[j] = "absent" /\ j \notin running
  BY <1>1, ArriveFacts DEF executionVars
<1>3. Lines' /\ Places'
  BY ArriveLines, ArrivePlaces
<1>4. Reach'
  <2>1. IInv' /\ QueuesTyped'
    BY <1>1, ArriveInv, ArriveQueues DEF BooksInv
  <2>2. (running \cap preempted = {})'
    BY <1>1, <1>2, OrderlyFacts
  <2>3. \A d \in todo' : Cls(d).policy = "fifo" =>
          /\ Queued(d)'
          /\ \A b \in Job : Queued(b)' /\ ClassOf[b] = ClassOf[d] /\ Precedes(b, d)' =>
               b \in todo'
    BY <1>2, <1>3, <2>1, <2>2, CandidatesReachNext
  <2> QED BY <1>2, <2>3 DEF Reach
<1>5. ServiceConserved'
  <2> SUFFICES ASSUME NEW i \in Job
               PROVE  /\ i \in running => busy[i] + (now' - startTime[i]) + remaining'[i] = Work(i)
                      /\ i \notin running /\ ~ Settled(i)' => busy[i] + resume[i] = Work(i)
                      /\ completeTime[i] # NoTime => busy[i] = Work(i)
    BY <1>2 DEF ServiceConserved
  <2>1. /\ i \in running => busy[i] + (now - startTime[i]) + remaining[i] = Work(i)
        /\ i \notin running /\ ~ Settled(i) => busy[i] + resume[i] = Work(i)
        /\ completeTime[i] # NoTime => busy[i] = Work(i)
    BY <1>1 DEF OrderlyInv, ServiceConserved
  <2>2. i \in running =>
          (now' - startTime[i]) + remaining'[i] = (now - startTime[i]) + remaining[i]
    BY <1>1, <1>2, AdvanceIdle
  <2>3. /\ busy[i] \in Nat /\ startTime[i] \in Int /\ remaining[i] \in Nat /\ now \in Nat
        /\ now' \in Nat /\ remaining'[i] \in Nat
    BY <1>1, <1>2, AdvanceIdle
       DEF IInv, TypeOK, KernelTypeOK, ExecutionTypeOK, MetricTypeOK, NoTime
  <2>4. ~ Settled(i)' => ~ Settled(i)
    <3>1. completeTime[j] = NoTime
      BY <1>1, <1>2 DEF OrderlyInv, Places
    <3> QED BY <1>2, <3>1 DEF Settled
  <2> QED BY <2>1, <2>2, <2>3, <2>4
<1> QED BY <1>1, <1>2, <1>3, <1>4, <1>5 DEF OrderlyInv, ReleasesInOrder

(* The queues stay in line when nothing enters them and nothing starts.    *)
LEMMA LinesUnchanged ==
  ASSUME Lines, UNCHANGED <<arrival, fifo, preempted>>, running' \subseteq running,
         \A e \in events' : e.kind = "arrival" => e \in events,
         \A j \in Job : outcome'[j] # "absent" => outcome[j] # "absent"
  PROVE  Lines'
<1>1. \A i, k : Precedes(i, k)' <=> Precedes(i, k)
  BY PrecedesUnchanged
<1>2. \A i : Queued(i)' <=> Queued(i)
  BY DEF Queued
<1> QED BY <1>1, <1>2 DEF Lines

(* A dispatch event keeps the scenario orderly. *)
LEMMA DispatchEventOrderly ==
  ASSUME Inv, NEW e \in events, DispatchEvent(e)
  PROVE  OrderlyInv'
<1>1. /\ IInv /\ BooksInv /\ OrderlyInv /\ QueuesTyped
  BY DEF Inv, BooksInv
<1>2. /\ Takes(e) /\ status = "events" /\ AdvanceKernel(e.time, {})
      /\ events' = events \ {e} /\ status' = "dispatch" /\ todo' = Candidates
      /\ UNCHANGED <<arrival, running, startTime, preempted, resume, queueVars,
                     fifo, mailbox, outcome, completeTime, busy>>
  BY DEF DispatchEvent, Takes, executionVars, queueVars, metricVars
<1>3. Lines /\ Places /\ (running \cap preempted = {})
  BY <1>1, <1>2, OrderlyFacts DEF OrderlyInv
<1>4. Lines'
  BY <1>2, <1>3, LinesUnchanged
<1>5. \A i \in Job : (Queued(i)' <=> Queued(i)) /\ (Pending(i)' <=> Pending(i))
  BY <1>2, QueuesUnchanged
<1>6. /\ \A i \in Job : jobState[i] = "absent" => jobState'[i] = "absent"
      /\ \A i \in running :
           (now' - startTime[i]) + remaining'[i] = (now - startTime[i]) + remaining[i]
      /\ now' \in Nat /\ remaining' \in [Job -> Nat]
  BY <1>1, <1>2, AdvanceIdle
<1>7. Places'
  <2>1. \A i \in todo' : Waits(i)
    BY <1>1, <1>2, CandidatesWait DEF IInv, TypeOK
  <2>2. \A i \in Job : Waits(i)' <=> Waits(i)
    BY <1>2, <1>5 DEF Waits
  <2> SUFFICES ASSUME NEW i \in Job
               PROVE  /\ i \in running \/ Waits(i) =>
                           outcome[i] = "COMPLETED" /\ completeTime[i] = NoTime
                      /\ i \in running => ~ Waits(i)
                      /\ Pending(i) => i \notin preempted
                      /\ completeTime[i] # NoTime => outcome[i] = "COMPLETED"
                      /\ Pending(i) \/ outcome[i] = "absent" =>
                           jobState'[i] = "absent" /\ resume[i] = Work(i)
    BY <1>2, <1>5, <2>1, <2>2 DEF Places
  <2> QED BY <1>3, <1>6 DEF Places
<1>8. Reach'
  <2>1. \A d \in Candidates : Cls(d).policy = "fifo" =>
          /\ Queued(d)
          /\ \A b \in Job : Queued(b) /\ ClassOf[b] = ClassOf[d] /\ Precedes(b, d) =>
               b \in Candidates
    BY <1>1, <1>3, CandidatesReach
  <2>2. \A i, k : Precedes(i, k)' <=> Precedes(i, k)
    BY <1>2, PrecedesUnchanged
  <2>3. Candidates \subseteq Job
    BY <1>1, CandidatesAreJobs DEF IInv, TypeOK
  <2> QED BY <1>2, <1>5, <2>1, <2>2, <2>3 DEF Reach
<1>9. ServiceConserved'
  <2> SUFFICES ASSUME NEW i \in Job
               PROVE  /\ i \in running => busy[i] + (now' - startTime[i]) + remaining'[i] = Work(i)
                      /\ i \notin running /\ ~ Settled(i) => busy[i] + resume[i] = Work(i)
                      /\ completeTime[i] # NoTime => busy[i] = Work(i)
    BY <1>2 DEF ServiceConserved, Settled
  <2>1. /\ i \in running => busy[i] + (now - startTime[i]) + remaining[i] = Work(i)
        /\ i \notin running /\ ~ Settled(i) => busy[i] + resume[i] = Work(i)
        /\ completeTime[i] # NoTime => busy[i] = Work(i)
    BY <1>1 DEF OrderlyInv, ServiceConserved
  <2>2. /\ busy[i] \in Nat /\ startTime[i] \in Int /\ remaining[i] \in Nat /\ now \in Nat
        /\ now' \in Nat /\ remaining'[i] \in Nat
    BY <1>1, <1>6
       DEF IInv, TypeOK, KernelTypeOK, ExecutionTypeOK, MetricTypeOK, NoTime
  <2> QED BY <1>6, <2>1, <2>2
<1> QED BY <1>1, <1>2, <1>4, <1>7, <1>8, <1>9 DEF OrderlyInv, ReleasesInOrder

(* _handle_completion keeps the scenario orderly, and credits the service  *)
(* rendered.                                                               *)
LEMMA CompleteOrderly ==
  ASSUME Inv, NEW e \in events, Complete(e)
  PROVE  OrderlyInv'
<1> DEFINE j == e.job
           ended == IF jobState[j] = "RUNNING" THEN {j} ELSE {}
<1>1. /\ IInv /\ BooksInv /\ OrderlyInv
  BY DEF Inv
<1>2. /\ Takes(e) /\ status = "events" /\ e.kind = "complete"
      /\ AdvanceKernel(e.time, ended) /\ ReplaceByDispatch(e)
      /\ running' = running \ {j}
      /\ busy' = [busy EXCEPT ![j] = @ + (e.time - startTime[j])]
      /\ startTime' = [startTime EXCEPT ![j] = NoTime]
      /\ outcome' = [outcome EXCEPT ![j] = "COMPLETED"]
      /\ completeTime' = [completeTime EXCEPT ![j] = e.time]
      /\ UNCHANGED <<arrival, preempted, resume, queueVars, fifo, mailbox, todo>>
  BY DEF Complete, Takes, queueVars
<1>3. /\ j \in running /\ j \in Job /\ e.time = now + remaining[j]
      /\ now' = e.time /\ running \subseteq Job
  <2>1. j \in running /\ j \in Job /\ running \subseteq Job
    BY <1>1, <1>2 DEF IInv, CompletionDue, TypeOK, ExecutionTypeOK
  <2>2. e.time = now + remaining[j]
    BY <1>1, <1>2, <2>1 DEF IInv, CompletionDue, CompletionsOf
  <2> QED BY <1>2, <2>1, <2>2 DEF AdvanceKernel
<1>4. /\ ended \in SUBSET Job /\ ended \subseteq {i \in Job : jobState[i] = "RUNNING"}
      /\ ended \subseteq {j}
  BY <1>3
<1> HIDE DEF ended
<1>5. /\ \A i \in running \ {j} :
           (now' - startTime[i]) + remaining'[i] = (now - startTime[i]) + remaining[i]
      /\ \A i \in Job : jobState[i] = "absent" => jobState'[i] = "absent"
      /\ now' \in Nat /\ remaining' \in [Job -> Nat]
  BY <1>1, <1>2, <1>4, AdvanceService, AdvanceFacts
<1>6. Lines /\ Places /\ todo = {}
  BY <1>1, <1>2 DEF OrderlyInv, Reach
<1>7. /\ outcome \in [Job -> {"absent", "COMPLETED", "DROPPED", "REPLACED", "REJECTED"}]
      /\ completeTime \in [Job -> Nat \cup {NoTime}] /\ busy \in [Job -> Nat]
      /\ startTime \in [Job -> Nat \cup {NoTime}] /\ remaining \in [Job -> Nat]
      /\ now \in Nat /\ e.time \in Nat
  BY <1>1 DEF IInv, TypeOK, KernelTypeOK, ExecutionTypeOK, OutcomeTypeOK, MetricTypeOK,
              QueuedEvent
<1>8. \A i \in Job :
        /\ outcome'[i] = IF i = j THEN "COMPLETED" ELSE outcome[i]
        /\ completeTime'[i] = IF i = j THEN e.time ELSE completeTime[i]
        /\ busy'[i] = IF i = j THEN busy[j] + (e.time - startTime[j]) ELSE busy[i]
        /\ startTime'[i] = IF i = j THEN NoTime ELSE startTime[i]
  BY <1>2, <1>7
<1>9. outcome[j] = "COMPLETED" /\ completeTime[j] = NoTime /\ ~ Waits(j)
  BY <1>3, <1>6 DEF Places
<1> HIDE DEF j
<1>10. Lines'
  <2>1. \A f \in events' : f.kind = "arrival" => f \in events
    BY <1>2 DEF ReplaceByDispatch, Event
  <2>2. \A i \in Job : outcome'[i] # "absent" => outcome[i] # "absent"
    BY <1>8, <1>9
  <2> QED BY <1>2, <1>6, <2>1, <2>2, LinesUnchanged
<1>11. Places'
  <2>1. \A i \in Job : (Pending(i)' <=> Pending(i)) /\ (Waits(i)' <=> Waits(i))
    BY <1>2, QueuesUnchanged DEF Waits
  <2> SUFFICES ASSUME NEW i \in Job
               PROVE  /\ (i \in running /\ i # j) \/ Waits(i) =>
                           outcome'[i] = "COMPLETED" /\ completeTime'[i] = NoTime
                      /\ i \in running => ~ Waits(i)
                      /\ Pending(i) => i \notin preempted
                      /\ completeTime'[i] # NoTime => outcome'[i] = "COMPLETED"
                      /\ Pending(i) \/ outcome'[i] = "absent" =>
                           jobState'[i] = "absent" /\ resume[i] = Work(i)
    BY <1>2, <1>6, <2>1 DEF Places
  <2>2. Pending(i) => Waits(i)
    BY DEF Waits
  <2> QED BY <1>5, <1>6, <1>8, <1>9, <2>2 DEF Places
<1>12. Reach'
  BY <1>2, <1>6 DEF Reach
<1>13. ServiceConserved'
  <2> SUFFICES ASSUME NEW i \in Job
               PROVE  /\ i \in running /\ i # j =>
                           busy'[i] + (now' - startTime'[i]) + remaining'[i] = Work(i)
                      /\ (i \notin running \/ i = j) /\ ~ Settled(i)' =>
                           busy'[i] + resume[i] = Work(i)
                      /\ completeTime'[i] # NoTime => busy'[i] = Work(i)
    BY <1>2 DEF ServiceConserved
  <2>1. /\ i \in running => busy[i] + (now - startTime[i]) + remaining[i] = Work(i)
        /\ i \notin running /\ ~ Settled(i) => busy[i] + resume[i] = Work(i)
        /\ completeTime[i] # NoTime => busy[i] = Work(i)
    BY <1>1 DEF OrderlyInv, ServiceConserved
  <2>2. /\ busy[i] \in Nat /\ startTime[i] \in Int /\ remaining[i] \in Nat /\ now \in Nat
        /\ now' \in Nat /\ remaining'[i] \in Nat /\ e.time \in Nat
    BY <1>5, <1>7 DEF NoTime
  <2>3. CASE i = j
    <3>1. busy'[i] = Work(i)
      BY <1>3, <1>8, <2>1, <2>2, <2>3
    <3>2. Settled(i)'
      BY <1>7, <1>8, <2>3 DEF Settled, NoTime
    <3> QED BY <2>3, <3>1, <3>2
  <2>4. CASE i # j
    BY <1>5, <1>8, <2>1, <2>2, <2>4 DEF Settled
  <2> QED BY <2>3, <2>4
<1> QED BY <1>1, <1>2, <1>10, <1>11, <1>12, <1>13 DEF OrderlyInv, ReleasesInOrder

(* The steps after which nothing is left to consider. *)
LEMMA OtherOrderly ==
  ASSUME Inv, EndDispatch \/ Finish \/ Terminated \/ UNCHANGED vars
  PROVE  OrderlyInv'
<1> USE DEF vars, kernelVars, executionVars, queueVars, metricVars
<1>1. /\ IInv /\ BooksInv /\ OrderlyInv
  BY DEF Inv
<1>2. /\ UNCHANGED <<arrival, now, events, jobState, remaining, running, startTime,
                     preempted, resume, mailbox, completeTime, busy, todo>>
      /\ \/ UNCHANGED <<fifo, outcome>> /\ (status' # "done" => status # "done")
         \/ status' = "done" /\ Finish
  BY DEF EndDispatch, Terminated, Finish
<1>3. status' # "done" => Lines' /\ Places'
  <2> SUFFICES ASSUME status' # "done" PROVE Lines' /\ Places'
    OBVIOUS
  <2>1. Lines /\ Places /\ UNCHANGED <<fifo, outcome>>
    BY <1>1, <1>2 DEF OrderlyInv
  <2>2. Lines'
    BY <1>2, <2>1, LinesUnchanged
  <2>3. \A i \in Job : (Pending(i)' <=> Pending(i)) /\ (Waits(i)' <=> Waits(i))
    BY <1>2, <2>1, QueuesUnchanged DEF Waits
  <2>4. Places'
    BY <1>2, <2>1, <2>3 DEF Places
  <2> QED BY <2>2, <2>4
<1>4. Reach'
  <2>1. CASE EndDispatch \/ Finish
    BY <1>1, <2>1 DEF EndDispatch, Finish, OrderlyInv, Reach
  <2>2. CASE Terminated \/ UNCHANGED vars
    <3>1. UNCHANGED vars
      BY <2>2 DEF Terminated
    <3>2. /\ \A i, k : Precedes(i, k)' <=> Precedes(i, k)
          /\ \A i : Queued(i)' <=> Queued(i)
          /\ \A i, k : MayPreempt(i, k)' <=> MayPreempt(i, k)
      BY <3>1, PrecedesUnchanged DEF Queued, MayPreempt
    <3>3. \A d : Stuck(d)' <=> Stuck(d)
      BY <3>1, <3>2 DEF Stuck, Room, Leads, Need
    <3> QED BY <1>1, <3>1, <3>2, <3>3 DEF OrderlyInv, Reach
  <2> QED BY <2>1, <2>2
<1>5. ServiceConserved'
  <2>1. \A i \in Job : Settled(i) => Settled(i)'
    BY <1>2 DEF Settled, Finish
  <2> QED BY <1>1, <1>2, <2>1 DEF OrderlyInv, ServiceConserved
<1> QED BY <1>1, <1>2, <1>3, <1>4, <1>5 DEF OrderlyInv, ReleasesInOrder

(* The room after a start, and after a suspension. *)
LEMMA RoomAfterStart ==
  ASSUME UniformNeeds, ExecutionTypeOK, NEW c \in Job, used' = Allocated(c), NEW k \in Int
  PROVE  Room(k)' <=> Room(k + 1)
<1>1. \A r \in Resource : /\ used'[r] = used[r] + Need(r) /\ Need(r) \in Nat
                          /\ used[r] \in Nat /\ Scenario.capacity[r] \in Nat
  BY NeedIsShared, RunnerAssumption DEF Allocated, ExecutionTypeOK, ScenarioLimits
<1>2. ASSUME NEW r \in Resource
      PROVE  Scenario.capacity[r] - used'[r] >= k * Need(r)
               <=> Scenario.capacity[r] - used[r] >= (k + 1) * Need(r)
  <2>1. ASSUME NEW n \in Int, NEW u \in Int, NEW a \in Int
        PROVE  a - (u + n) >= k * n <=> a - u >= (k + 1) * n
    BY <2>1
  <2> QED BY <1>1, <2>1
<1> QED BY <1>2 DEF Room, Need

(* A release makes one more place. *)
LEMMA RoomAfterRelease ==
  ASSUME UniformNeeds, ExecutionTypeOK, UsedIsHeld, NEW v \in running,
         used' = Released(v), running' = running \ {v}, NEW k \in Int
  PROVE  Room(k)' <=> Room(k - 1)
<1>1. v \in Job
  BY DEF ExecutionTypeOK
<1>2. \A r \in Resource : used'[r] = used[r] - Cls(v).needs[r]
  BY ReleasedIsHeld
<1>3. \A r \in Resource : /\ used'[r] = used[r] - Need(r) /\ Need(r) \in Nat
                          /\ used[r] \in Nat /\ Scenario.capacity[r] \in Nat
  BY <1>1, <1>2, NeedIsShared, RunnerAssumption DEF ExecutionTypeOK, ScenarioLimits
<1>4. ASSUME NEW r \in Resource
      PROVE  Scenario.capacity[r] - used'[r] >= k * Need(r)
               <=> Scenario.capacity[r] - used[r] >= (k - 1) * Need(r)
  <2>1. ASSUME NEW n \in Int, NEW u \in Int, NEW a \in Int
        PROVE  a - (u - n) >= k * n <=> a - u >= (k - 1) * n
    BY <2>1
  <2> QED BY <1>3, <2>1
<1> QED BY <1>4 DEF Room, Need

(* Room for more is room for less. *)
LEMMA RoomShrinks ==
  ASSUME UniformNeeds, ExecutionTypeOK, Job # {}, NEW k \in Int, NEW m \in Int, k <= m,
         Room(m)
  PROVE  Room(k)
<1>1. \A r \in Resource : /\ Need(r) \in Nat /\ used[r] \in Nat
                          /\ Scenario.capacity[r] \in Nat
  BY NeedIsShared, RunnerAssumption DEF ExecutionTypeOK, ScenarioLimits
<1>2. ASSUME NEW r \in Resource
      PROVE  Scenario.capacity[r] - used[r] >= k * Need(r)
  <2>1. ASSUME NEW n \in Nat PROVE k * n <= m * n
    BY <2>1
  <2>2. \A n \in Nat : k * n \in Int /\ m * n \in Int
    OBVIOUS
  <2> QED BY <1>1, <2>1, <2>2 DEF Room
<1> QED BY <1>2 DEF Room

(* A candidate that is passed over leaves only stuck candidates behind.    *)
LEMMA PassOrderly ==
  ASSUME UniformNeeds, Inv, NEW c \in todo, Pass(c)
  PROVE  OrderlyInv'
<1> USE DEF kernelVars, executionVars, queueVars, metricVars
<1>1. /\ IInv /\ BooksInv /\ OrderlyInv
  BY DEF Inv
<1>2. /\ status = "dispatch" /\ Leads(c) /\ todo' = todo \ {c}
      /\ \/ c \in running
         \/ ~ CanAllocate(c) /\ \A v \in running : ~ MayPreempt(c, v)
      /\ UNCHANGED <<arrival, now, events, remaining, used, running, startTime, jobState,
                     preempted, resume, fifo, mailbox, outcome, completeTime, busy, status>>
  BY DEF Pass, Considers, Leads
<1>3. /\ Lines /\ Places /\ c \in Job /\ running \subseteq Job /\ todo \subseteq Job
      /\ arrival \in [Job -> Nat]
  BY <1>1, <1>2, OrderlyFacts DEF OrderlyInv
<1>4. Lines'
  BY <1>2, <1>3, LinesUnchanged
<1>5. \A i \in Job : /\ Queued(i)' <=> Queued(i)
                     /\ Pending(i)' <=> Pending(i)
                     /\ Waits(i)' <=> Waits(i)
  BY <1>2, QueuesUnchanged DEF Waits
<1>6. Places'
  BY <1>2, <1>3, <1>5 DEF Places
<1>7. ASSUME NEW d \in todo' PROVE Stuck(d)'
  <2>1. Precedes(c, d) /\ d \in Job
    BY <1>2, <1>3 DEF Leads
  <2>2. ~ CanAllocate(c) /\ \A w \in running : ~ MayPreempt(c, w)
    BY <1>2, <1>3 DEF Places
  <2>3. \A w \in running : ~ MayPreempt(d, w)
    BY <1>3, <2>1, <2>2, PrecedesIsTotal DEF MayPreempt
  <2>4. ~ Room(1)
    BY <1>3, <2>2, NeedIsShared
  <2>5. Room(1)' <=> Room(1)
    BY <1>2 DEF Room, Need
  <2>6. \A i, k : MayPreempt(i, k)' <=> MayPreempt(i, k)
    BY <1>2, PrecedesUnchanged DEF MayPreempt
  <2> QED BY <1>2, <2>3, <2>4, <2>5, <2>6 DEF Stuck
<1>8. Reach'
  BY <1>1, <1>2, <1>3, <1>5, <1>7 DEF Reach, OrderlyInv
<1>9. ServiceConserved'
  BY <1>1, <1>2 DEF OrderlyInv, ServiceConserved, Settled
<1> QED BY <1>1, <1>2, <1>4, <1>6, <1>8, <1>9 DEF OrderlyInv, ReleasesInOrder

(* A candidate of a FIFO that is started is its head. *)
LEMMA StartsHead ==
  ASSUME UniformNeeds, Inv, NEW c \in todo, Start(c), Cls(c).policy = "fifo"
  PROVE  /\ fifo[ClassOf[c]] # <<>> /\ Head(fifo[ClassOf[c]]) = c
         /\ \A i : In(Tail(fifo[ClassOf[c]]), i) => i # c /\ Order(arrival, c, i)
<1> DEFINE q == fifo[ClassOf[c]]
<1>1. /\ IInv /\ BooksInv /\ OrderlyInv /\ QueuesTyped
  BY DEF Inv, BooksInv
<1>2. status = "dispatch" /\ Leads(c) /\ CanAllocate(c)
  BY DEF Start, Considers, Leads
<1>3. /\ Lines /\ Reach /\ c \in Job /\ todo \subseteq Job
      /\ arrival \in [Job -> Nat] /\ ClassOf[c] \in ClassId
      /\ \A k \in ClassId : fifo[k] \in Seq(Job)
  BY <1>1, <1>2, OrderlyFacts, RunnerAssumption DEF OrderlyInv
<1>4. q \in Seq(Job) /\ Sorted(arrival, q)
  BY <1>3 DEF Lines
<1>5. Queued(c) /\ ~ Stuck(c)
  <2>1. Room(1)
    BY <1>2, <1>3, NeedIsShared
  <2>2. \A b \in todo : Leads(b) => ~ Precedes(b, c)
    BY <1>2, <1>3, PrecedesIsTotal DEF Leads
  <2> QED BY <1>3, <2>1, <2>2 DEF Reach, Stuck
<1>6. \A b \in Job : Queued(b) /\ ClassOf[b] = ClassOf[c] => ~ Precedes(b, c)
  <2> SUFFICES ASSUME NEW b \in Job, Queued(b), ClassOf[b] = ClassOf[c], Precedes(b, c)
               PROVE  FALSE
    OBVIOUS
  <2>1. b \in todo
    BY <1>3, <1>5 DEF Reach
  <2> QED BY <1>2, <1>3, <2>1, PrecedesIsTotal DEF Leads
<1>7. In(q, c)
  BY <1>5, QueuedIn
<1>8. q # <<>>
  BY <1>7 DEF In
<1> HIDE DEF q
<1>9. /\ Head(q) \in Job /\ In(q, Head(q)) /\ ~ In(Tail(q), Head(q))
      /\ \A i : In(q, i) /\ i # Head(q) => Order(arrival, Head(q), i)
      /\ \A i : In(Tail(q), i) => In(q, i)
  BY <1>3, <1>4, <1>8, HeadFirst, InTail
<1>10. ClassOf[Head(q)] = ClassOf[c] /\ Queued(Head(q))
  BY <1>1, <1>3, <1>9, QueuesTypedIn, QueuedIn DEF q
<1>11. Head(q) = c
  BY <1>6, <1>7, <1>9, <1>10, PrecedesIsOrder
<1> QED BY <1>8, <1>9, <1>11 DEF q

(* _dequeue removes the started job and no other. *)
LEMMA StartLines ==
  ASSUME UniformNeeds, Inv, NEW c \in todo, Start(c)
  PROVE  Lines' /\ ~ Queued(c)'
<1> DEFINE q == fifo[ClassOf[c]]
<1>1. /\ IInv /\ BooksInv /\ OrderlyInv /\ QueuesTyped
  BY DEF Inv, BooksInv
<1>2. /\ status = "dispatch" /\ Dequeue(c) /\ arrival' = arrival /\ outcome' = outcome
      /\ running' = running \cup {c} /\ preempted' = preempted \ {c}
      /\ \A e \in events' : e.kind = "arrival" => e \in events
  BY DEF Start, Considers, Event, metricVars
<1>3. /\ Lines /\ c \in Job /\ arrival \in [Job -> Nat] /\ ClassOf[c] \in ClassId
      /\ running \subseteq Job /\ preempted \subseteq Job
      /\ fifo \in [ClassId -> Seq(Job)] /\ q \in Seq(Job)
      /\ \A i \in Job : Queued(i) => Cls(i).policy = "fifo"
  <2>1. fifo \in [ClassId -> Seq(Job)]
    BY <1>1 DEF IInv, TypeOK, QueueTypeOK
  <2> QED BY <1>1, <1>2, <2>1, OrderlyFacts, RunnerAssumption DEF OrderlyInv
<1>4. /\ QueuesTyped'
      /\ \A i \in Job : Queued(i)' => Queued(i)
      /\ \A i \in Job : Queued(i) /\ i # c => Queued(i)'
  BY <1>1, StartQueues
<1>5. Cls(c).policy = "fifo" =>
        /\ q # <<>> /\ Head(q) = c /\ fifo' = [fifo EXCEPT ![ClassOf[c]] = Tail(q)]
        /\ \A i : In(Tail(q), i) => i # c /\ Order(arrival, c, i)
  BY <1>2, StartsHead DEF Dequeue
<1>6. Cls(c).policy # "fifo" => fifo' = fifo
  BY <1>2 DEF Dequeue
<1>7. ASSUME NEW i \in Job, Queued(i)', ClassOf[i] = ClassOf[c]
      PROVE  i # c /\ Precedes(c, i)
  <2>1. Cls(c).policy = "fifo"
    BY <1>3, <1>4, <1>7 DEF Cls
  <2>2. In(Tail(q), i)
    BY <1>3, <1>5, <1>7, <2>1, QueuedInNext
  <2> QED BY <1>5, <2>1, <2>2, PrecedesIsOrder
<1>8. \A i, k : Precedes(i, k)' <=> Precedes(i, k)
  BY <1>2, PrecedesUnchanged
<1>9. ASSUME NEW k \in ClassId PROVE Sorted(arrival', fifo'[k])
  <2>1. CASE Cls(c).policy = "fifo" /\ k = ClassOf[c]
    <3>1. fifo'[k] = Tail(q) /\ Sorted(arrival, q) /\ q # <<>>
      BY <1>3, <1>5, <2>1 DEF Lines
    <3> HIDE DEF q
    <3> QED BY <1>2, <1>3, <3>1, SortedTail
  <2>2. CASE ~ (Cls(c).policy = "fifo" /\ k = ClassOf[c])
    <3>1. fifo'[k] = fifo[k]
      BY <1>3, <1>5, <1>6, <2>2
    <3> QED BY <1>2, <1>3, <3>1 DEF Lines
  <2> QED BY <2>1, <2>2
<1>10. ~ Queued(c)'
  BY <1>3, <1>7
<1>11. ASSUME NEW b \in Job, NEW d \in Job, Queued(b)', Queued(d)',
              ClassOf[b] = ClassOf[d], Precedes(b, d), d \in preempted'
       PROVE  b \in preempted'
  BY <1>2, <1>3, <1>4, <1>10, <1>11 DEF Lines
<1>12. ASSUME NEW i \in preempted', Cls(i).policy = "fifo" PROVE Queued(i)'
  BY <1>2, <1>3, <1>4, <1>12 DEF Lines
<1>13. ASSUME NEW k \in running', NEW i \in Job, Queued(i)', ClassOf[i] = ClassOf[k]
       PROVE  Precedes(k, i)
  <2>1. CASE k = c
    BY <1>7, <1>13, <2>1
  <2>2. CASE k # c
    BY <1>2, <1>3, <1>4, <1>13, <2>2 DEF Lines
  <2> QED BY <2>1, <2>2
<1>14. \A e \in events', i \in Job :
         e.kind = "arrival" /\ outcome'[i] # "absent" /\ ClassOf[i] = ClassOf[e.job] =>
           i < e.job
  BY <1>2, <1>3 DEF Lines
<1>15. Lines'
  BY <1>8, <1>9, <1>11, <1>12, <1>13, <1>14 DEF Lines
<1> QED BY <1>10, <1>15

(* Starting a candidate keeps the scenario orderly. *)
LEMMA StartOrderly ==
  ASSUME UniformNeeds, Inv, NEW c \in todo, Start(c)
  PROVE  OrderlyInv'
<1>1. /\ IInv /\ BooksInv /\ OrderlyInv /\ QueuesTyped /\ ExecutionTypeOK
  BY DEF Inv, BooksInv, IInv, TypeOK
<1>2. /\ status = "dispatch" /\ Leads(c) /\ c \notin running /\ CanAllocate(c)
      /\ used' = Allocated(c) /\ preempted' = preempted \ {c}
      /\ resume' = [resume EXCEPT ![c] = Work(c)]
      /\ jobState' = [jobState EXCEPT ![c] = "RUNNING"]
      /\ remaining' = [remaining EXCEPT ![c] = resume[c]]
      /\ startTime' = [startTime EXCEPT ![c] = now]
      /\ running' = running \cup {c} /\ todo' = todo \ {c}
      /\ UNCHANGED <<arrival, now, outcome, completeTime, busy, status>>
  BY DEF Start, Considers, Leads, metricVars
<1>3. /\ Lines /\ Places /\ Reach /\ c \in Job /\ running \subseteq Job
      /\ todo \subseteq Job /\ arrival \in [Job -> Nat]
  BY <1>1, <1>2, OrderlyFacts DEF OrderlyInv
<1>4. Lines' /\ ~ Queued(c)'
  BY StartLines
<1>5. /\ \A i \in Job : Queued(i)' => Queued(i)
      /\ \A i \in Job : Queued(i) /\ i # c => Queued(i)'
      /\ \A i \in Job : Pending(i)' => Pending(i) /\ i # c
  BY <1>1, StartQueues
<1>6. \A i \in Job : Waits(i)' => Waits(i) /\ i # c
  BY <1>2, <1>4, <1>5 DEF Waits
<1>7. outcome[c] = "COMPLETED" /\ completeTime[c] = NoTime
  BY <1>3 DEF Places
<1>8. /\ \A i \in Job :
           /\ i # c => resume'[i] = resume[i] /\ jobState'[i] = jobState[i]
                       /\ remaining'[i] = remaining[i] /\ startTime'[i] = startTime[i]
      /\ remaining'[c] = resume[c] /\ startTime'[c] = now
  BY <1>1, <1>2, <1>3 DEF IInv, TypeOK, KernelTypeOK, ExecutionTypeOK
<1>9. Places'
  <2> SUFFICES ASSUME NEW i \in Job
               PROVE  /\ i \in running \cup {c} \/ i \in todo \ {c} \/ Waits(i)' =>
                           outcome[i] = "COMPLETED" /\ completeTime[i] = NoTime
                      /\ i \in running \cup {c} => ~ Waits(i)' /\ i \notin todo \ {c}
                      /\ Pending(i)' => i \notin preempted \ {c}
                      /\ completeTime[i] # NoTime => outcome[i] = "COMPLETED"
                      /\ Pending(i)' \/ outcome[i] = "absent" =>
                           jobState'[i] = "absent" /\ resume'[i] = Work(i)
    BY <1>2 DEF Places
  <2> QED BY <1>3, <1>5, <1>6, <1>7, <1>8 DEF Places
<1>10. Reach'
  <2>1. \A i, k : MayPreempt(i, k)' <=> MayPreempt(i, k)
    BY <1>2, PrecedesUnchanged DEF MayPreempt
  <2>2. \A i, k : Precedes(i, k)' <=> Precedes(i, k)
    BY <1>2, PrecedesUnchanged
  <2>3. Room(1)' => Room(1) /\ Room(2)
    <3>1. Room(1)' <=> Room(1 + 1)
      BY <1>1, <1>2, <1>3, RoomAfterStart
    <3>2. Room(2) => Room(1)
      BY <1>1, <1>3, RoomShrinks
    <3> QED BY <3>1, <3>2
  <2> SUFFICES ASSUME NEW d \in todo \ {c}, Cls(d).policy = "fifo"
               PROVE  /\ Queued(d)'
                      /\ \/ Stuck(d)'
                         \/ \A b \in Job :
                              Queued(b)' /\ ClassOf[b] = ClassOf[d] /\ Precedes(b, d) =>
                                b \in todo \ {c}
    BY <1>2, <2>2 DEF Reach
  <2>4. Queued(d)'
    BY <1>3, <1>5 DEF Reach
  <2>5. CASE Stuck(d)
    <3>1. Precedes(c, d)
      BY <1>2 DEF Leads
    <3>2. ~ MayPreempt(d, c)
      BY <1>3, <3>1, PrecedesIsTotal DEF MayPreempt
    <3>3. \A w \in running \cup {c} : ~ MayPreempt(d, w)
      BY <2>5, <3>2 DEF Stuck
    <3>4. ~ Room(1)'
      BY <2>3, <2>5 DEF Stuck
    <3>5. Stuck(d)'
      BY <1>2, <2>1, <3>3, <3>4 DEF Stuck
    <3> QED BY <2>4, <3>5
  <2>6. CASE ~ Stuck(d)
    BY <1>3, <1>4, <1>5, <2>4, <2>6 DEF Reach
  <2> QED BY <2>5, <2>6
<1>11. ServiceConserved'
  <2> SUFFICES ASSUME NEW i \in Job
               PROVE  /\ i \in running \/ i = c =>
                           busy[i] + (now - startTime'[i]) + remaining'[i] = Work(i)
                      /\ i \notin running /\ i # c /\ ~ Settled(i) =>
                           busy[i] + resume'[i] = Work(i)
                      /\ completeTime[i] # NoTime => busy[i] = Work(i)
    BY <1>2 DEF ServiceConserved, Settled
  <2>1. /\ i \in running => busy[i] + (now - startTime[i]) + remaining[i] = Work(i)
        /\ i \notin running /\ ~ Settled(i) => busy[i] + resume[i] = Work(i)
        /\ completeTime[i] # NoTime => busy[i] = Work(i)
    BY <1>1 DEF OrderlyInv, ServiceConserved
  <2>2. busy[i] \in Nat /\ resume[i] \in Nat /\ now \in Nat
    BY <1>1 DEF IInv, TypeOK, KernelTypeOK, ExecutionTypeOK, MetricTypeOK
  <2>3. ~ Settled(c)
    BY <1>7 DEF Settled
  <2>4. CASE i = c
    BY <1>2, <1>8, <2>1, <2>2, <2>3, <2>4
  <2>5. CASE i # c
    BY <1>8, <2>1, <2>5
  <2> QED BY <2>4, <2>5
<1> QED BY <1>1, <1>2, <1>4, <1>9, <1>10, <1>11 DEF OrderlyInv, ReleasesInOrder

(* The suspended job precedes all that is queued in its class.             *)
LEMMA PreemptLines ==
  ASSUME Inv, NEW c \in todo, NEW v \in running, Preempt(c, v)
  PROVE  Lines'
<1> DEFINE q == fifo[ClassOf[v]]
<1>1. /\ IInv /\ BooksInv /\ OrderlyInv /\ QueuesTyped
  BY DEF Inv, BooksInv
<1>2. /\ status = "dispatch" /\ fifo' = Reinserted(v) /\ arrival' = arrival
      /\ outcome' = outcome /\ running' = running \ {v} /\ preempted' = preempted \cup {v}
      /\ \A w \in running \ {v} : Precedes(w, v)
      /\ events' \subseteq events
  BY DEF Preempt, Considers, Uncompleted
<1>3. /\ Lines /\ v \in Job /\ arrival \in [Job -> Nat] /\ ClassOf[v] \in ClassId
      /\ running \subseteq Job /\ preempted \subseteq Job
      /\ fifo \in [ClassId -> Seq(Job)] /\ q \in Seq(Job)
      /\ \A i \in Job : Queued(i) => Cls(i).policy = "fifo"
  <2>1. fifo \in [ClassId -> Seq(Job)]
    BY <1>1 DEF IInv, TypeOK, QueueTypeOK
  <2> QED BY <1>1, <1>2, <2>1, OrderlyFacts, RunnerAssumption DEF OrderlyInv
<1>4. \A i \in Job : Queued(i)' <=> Queued(i) \/ (i = v /\ Cls(v).policy = "fifo")
  BY <1>1, PreemptQueues
<1>5. \A i \in Job : Queued(i) /\ ClassOf[i] = ClassOf[v] => Precedes(v, i) /\ ~ Precedes(i, v)
  BY <1>3, PrecedesIsTotal DEF Lines
<1>6. \A i, k : Precedes(i, k)' <=> Precedes(i, k)
  BY <1>2, PrecedesUnchanged
<1>7. ASSUME NEW k \in ClassId PROVE Sorted(arrival', fifo'[k])
  <2>1. CASE Cls(v).policy = "fifo" /\ k = ClassOf[v]
    <3>1. fifo'[k] = <<v>> \o q /\ Sorted(arrival, q)
      BY <1>2, <1>3, <2>1 DEF Lines, Reinserted
    <3>2. \A i : In(q, i) => Order(arrival, v, i)
      <4> SUFFICES ASSUME NEW i, In(q, i) PROVE Order(arrival, v, i)
        OBVIOUS
      <4>1. i \in Job /\ ClassOf[i] = ClassOf[v]
        BY <1>1, <1>3, QueuesTypedIn DEF In
      <4>2. Queued(i)
        BY <4>1, QueuedIn
      <4> QED BY <1>5, <4>1, <4>2, PrecedesIsOrder
    <3> HIDE DEF q
    <3> QED BY <1>2, <1>3, <3>1, <3>2, SortedCons
  <2>2. CASE ~ (Cls(v).policy = "fifo" /\ k = ClassOf[v])
    <3>1. fifo'[k] = fifo[k]
      BY <1>2, <1>3, <2>2 DEF Reinserted
    <3> QED BY <1>2, <1>3, <3>1 DEF Lines
  <2> QED BY <2>1, <2>2
<1>8. ASSUME NEW b \in Job, NEW d \in Job, Queued(b)', Queued(d)',
             ClassOf[b] = ClassOf[d], Precedes(b, d), d \in preempted'
      PROVE  b \in preempted'
  <2>1. CASE b = v
    BY <1>2, <2>1
  <2>2. CASE b # v
    <3>1. Queued(b)
      BY <1>4, <2>2, <1>8
    <3>2. d # v
      BY <1>5, <1>8, <3>1
    <3> QED BY <1>2, <1>3, <1>4, <1>8, <3>1, <3>2 DEF Lines
  <2> QED BY <2>1, <2>2
<1>9. ASSUME NEW i \in preempted', Cls(i).policy = "fifo" PROVE Queued(i)'
  BY <1>2, <1>3, <1>4, <1>9 DEF Lines
<1>10. ASSUME NEW k \in running', NEW i \in Job, Queued(i)', ClassOf[i] = ClassOf[k]
       PROVE  Precedes(k, i)
  BY <1>2, <1>3, <1>4, <1>10 DEF Lines
<1>11. \A e \in events', i \in Job :
         e.kind = "arrival" /\ outcome'[i] # "absent" /\ ClassOf[i] = ClassOf[e.job] =>
           i < e.job
  BY <1>2, <1>3 DEF Lines
<1> QED BY <1>6, <1>7, <1>8, <1>9, <1>10, <1>11 DEF Lines

(* A preemption keeps the scenario orderly: the victim returns to the      *)
(* front, and still has all the service it needs.                          *)
LEMMA PreemptOrderly ==
  ASSUME UniformNeeds, Inv, NEW c \in todo, NEW v \in running, Preempt(c, v)
  PROVE  OrderlyInv'
<1>1. /\ IInv /\ BooksInv /\ OrderlyInv /\ QueuesTyped /\ ExecutionTypeOK /\ UsedIsHeld
  BY DEF Inv, BooksInv, IInv, TypeOK
<1>2. /\ status = "dispatch" /\ Leads(c) /\ ~ CanAllocate(c) /\ MayPreempt(c, v)
      /\ \A w \in running \ {v} : Precedes(w, v)
      /\ used' = Released(v) /\ running' = running \ {v} /\ preempted' = preempted \cup {v}
      /\ jobState' = Hidden(v)
      /\ busy' = [busy EXCEPT ![v] = @ + (now - startTime[v])]
      /\ startTime' = [startTime EXCEPT ![v] = NoTime]
      /\ resume' = [resume EXCEPT ![v] = remaining[v]]
      /\ UNCHANGED <<arrival, now, remaining, outcome, completeTime, todo, status>>
  BY DEF Preempt, Considers, Leads
<1>3. /\ Lines /\ Places /\ Reach /\ c \in Job /\ v \in Job /\ running \subseteq Job
      /\ todo \subseteq Job /\ arrival \in [Job -> Nat]
      /\ \A i \in Job : i \in running => outcome[i] # "absent"
  BY <1>1, <1>2, OrderlyFacts DEF OrderlyInv
<1>4. Lines'
  BY PreemptLines
<1>5. /\ \A i \in Job : Queued(i)' <=> Queued(i) \/ (i = v /\ Cls(v).policy = "fifo")
      /\ \A i \in Job : Pending(i)' <=> Pending(i)
  BY <1>1, PreemptQueues
<1>6. \A i \in Job : Waits(i)' => Waits(i) \/ i = v
  BY <1>2, <1>5 DEF Waits
<1>7. /\ \A i \in Job :
           i # v => resume'[i] = resume[i] /\ jobState'[i] = jobState[i]
                    /\ busy'[i] = busy[i] /\ startTime'[i] = startTime[i]
      /\ busy'[v] = busy[v] + (now - startTime[v]) /\ resume'[v] = remaining[v]
  BY <1>1, <1>2, <1>3
     DEF IInv, TypeOK, KernelTypeOK, ExecutionTypeOK, MetricTypeOK, Hidden
<1>8. Places'
  <2> SUFFICES ASSUME NEW i \in Job
               PROVE  /\ i \in running \ {v} \/ i \in todo \/ Waits(i)' =>
                           outcome[i] = "COMPLETED" /\ completeTime[i] = NoTime
                      /\ i \in running \ {v} => ~ Waits(i)' /\ i \notin todo
                      /\ Pending(i)' => i \notin preempted \cup {v}
                      /\ completeTime[i] # NoTime => outcome[i] = "COMPLETED"
                      /\ Pending(i)' \/ outcome[i] = "absent" =>
                           jobState'[i] = "absent" /\ resume'[i] = Work(i)
    BY <1>2 DEF Places
  <2>1. Pending(i) => Waits(i)
    BY DEF Waits
  <2> QED BY <1>3, <1>5, <1>6, <1>7, <2>1 DEF Places
<1>9. Reach'
  <2>1. \A i, k : MayPreempt(i, k)' <=> MayPreempt(i, k)
    BY <1>2, PrecedesUnchanged DEF MayPreempt
  <2>2. \A i, k : Precedes(i, k)' <=> Precedes(i, k)
    BY <1>2, PrecedesUnchanged
  <2>3. ~ Room(2)'
    <3>1. Room(2)' <=> Room(2 - 1)
      BY <1>1, <1>2, RoomAfterRelease
    <3>2. ~ Room(1)
      BY <1>2, <1>3, NeedIsShared
    <3> QED BY <3>1, <3>2
  <2>4. Leads(c)'
    BY <1>2, <2>2 DEF Leads
  <2> SUFFICES ASSUME NEW d \in todo, Cls(d).policy = "fifo"
               PROVE  /\ Queued(d)'
                      /\ \/ Stuck(d)'
                         \/ \A b \in Job :
                              Queued(b)' /\ ClassOf[b] = ClassOf[d] /\ Precedes(b, d) =>
                                b \in todo
    BY <1>2, <2>2 DEF Reach
  <2>5. Queued(d)' /\ d \in Job
    BY <1>3, <1>5 DEF Reach
  <2>6. ASSUME Precedes(c, d), \A w \in running \ {v} : ~ MayPreempt(d, w)
        PROVE  Stuck(d)'
    BY <1>2, <2>1, <2>2, <2>3, <2>4, <2>6 DEF Stuck
  <2>7. CASE Stuck(d)
    <3>1. d # c /\ \A w \in running \ {v} : ~ MayPreempt(d, w)
      BY <1>2, <2>7 DEF Stuck
    <3>2. Precedes(c, d)
      BY <1>2, <3>1 DEF Leads
    <3> QED BY <2>5, <2>6, <3>1, <3>2
  <2>8. CASE Precedes(v, d)
    <3>1. Precedes(c, d)
      BY <1>2, <1>3, <2>5, <2>8, PrecedesIsTotal DEF MayPreempt
    <3>2. \A w \in running \ {v} : ~ MayPreempt(d, w)
      BY <1>2, <1>3, <2>5, <2>8, PrecedesIsTotal DEF MayPreempt
    <3> QED BY <2>5, <2>6, <3>1, <3>2
  <2>9. CASE ~ Stuck(d) /\ ~ Precedes(v, d)
    BY <1>3, <1>5, <2>5, <2>9 DEF Reach
  <2> QED BY <2>7, <2>8, <2>9
<1>10. ServiceConserved'
  <2> SUFFICES ASSUME NEW i \in Job
               PROVE  /\ i \in running /\ i # v =>
                           busy'[i] + (now - startTime'[i]) + remaining[i] = Work(i)
                      /\ (i \notin running \/ i = v) /\ ~ Settled(i) =>
                           busy'[i] + resume'[i] = Work(i)
                      /\ completeTime[i] # NoTime => busy'[i] = Work(i)
    BY <1>2 DEF ServiceConserved, Settled
  <2>1. /\ i \in running => busy[i] + (now - startTime[i]) + remaining[i] = Work(i)
        /\ i \notin running /\ ~ Settled(i) => busy[i] + resume[i] = Work(i)
        /\ completeTime[i] # NoTime => busy[i] = Work(i)
    BY <1>1 DEF OrderlyInv, ServiceConserved
  <2>2. CASE i = v
    <3>1. completeTime[v] = NoTime
      BY <1>3 DEF Places
    <3> QED BY <1>7, <2>1, <2>2, <3>1
  <2>3. CASE i # v
    BY <1>7, <2>1, <2>3
  <2> QED BY <2>2, <2>3
<1> QED BY <1>1, <1>2, <1>4, <1>8, <1>9, <1>10 DEF OrderlyInv, ReleasesInOrder

(* Every step keeps the scenario orderly. *)
LEMMA NextOrderly ==
  ASSUME UniformNeeds, IdsInOrder, Inv, [Next]_vars
  PROVE  OrderlyInv'
<1>1. ASSUME NEW e \in events, NEW j \in Job, Arrive(e, j) PROVE OrderlyInv'
  BY <1>1, ArriveOrderly
<1>2. ASSUME NEW e \in events, DispatchEvent(e) PROVE OrderlyInv'
  BY <1>2, DispatchEventOrderly
<1>3. ASSUME NEW e \in events, Complete(e) PROVE OrderlyInv'
  BY <1>3, CompleteOrderly
<1>4. ASSUME NEW c \in todo, Start(c) PROVE OrderlyInv'
  BY <1>4, StartOrderly
<1>5. ASSUME NEW c \in todo, NEW v \in running, Preempt(c, v) PROVE OrderlyInv'
  BY <1>5, PreemptOrderly
<1>6. ASSUME NEW c \in todo, Pass(c) PROVE OrderlyInv'
  BY <1>6, PassOrderly
<1>7. CASE EndDispatch \/ Finish \/ Terminated \/ UNCHANGED vars
  BY <1>7, OtherOrderly
<1> QED BY <1>1, <1>2, <1>3, <1>4, <1>5, <1>6, <1>7 DEF Next, Dispatch

(* The whole invariant holds in every run. *)
LEMMA InvHolds ==
  ASSUME UniformNeeds, IdsInOrder
  PROVE  Spec => []Inv
<1>1. Init => Inv
  BY InitIInv, InitBooks, InitOrderly DEF Inv
<1>2. Inv /\ [Next]_vars => Inv'
  BY NextIInv, NextBooks, NextOrderly DEF Inv
<1> QED BY <1>1, <1>2, PTL DEF Spec

(* In an orderly scenario, suspended jobs stand before the fresh jobs of   *)
(* their class, and every FIFO is in the canonical order, until the run    *)
(* ends: appending at the tail and putting suspended jobs back at the head *)
(* need no sorting.                                                        *)
THEOREM QueuesStayInOrder ==
  ASSUME UniformNeeds, IdsInOrder
  PROVE  Spec => []FifoInOrder
<1>1. Inv => FifoInOrder
  <2> SUFFICES ASSUME Inv, status # "done" PROVE FifoInOrder
    BY DEF FifoInOrder
  <2>1. /\ Lines /\ arrival \in [Job -> Nat] /\ QueuesTyped
        /\ \A c \in ClassId : fifo[c] \in Seq(Job)
    BY OrderlyFacts DEF Inv, OrderlyInv, BooksInv
  <2>2. ASSUME NEW c \in ClassId, NEW i \in DOMAIN fifo[c], NEW k \in DOMAIN fifo[c], i < k
        PROVE  /\ Precedes(fifo[c][i], fifo[c][k])
               /\ fifo[c][k] \in preempted => fifo[c][i] \in preempted
    <3>1. Precedes(fifo[c][i], fifo[c][k])
      BY <2>1, <2>2, PrecedesIsOrder DEF Lines, Sorted
    <3>2. /\ fifo[c][i] \in Job /\ ClassOf[fifo[c][i]] = c
          /\ fifo[c][k] \in Job /\ ClassOf[fifo[c][k]] = c
      BY <2>1 DEF QueuesTyped
    <3>3. Queued(fifo[c][i]) /\ Queued(fifo[c][k])
      BY <3>2 DEF Queued
    <3> QED BY <2>1, <3>1, <3>2, <3>3 DEF Lines
  <2> QED BY <2>1, <2>2 DEF FifoInOrder, Lines
<1> QED BY <1>1, InvHolds, PTL

(* However often a job is suspended and resumed, what was charged to it,   *)
(* what it is being served and what is left add up to its work.            *)
THEOREM ServiceAddsUp ==
  ASSUME UniformNeeds, IdsInOrder
  PROVE  Spec => []ServiceConserved
<1>1. Inv => ServiceConserved
  BY DEF Inv, OrderlyInv
<1> QED BY <1>1, InvHolds, PTL

(* Until the run is over a job is at most at one place, and at none once   *)
(* it has met its fate.                                                    *)
THEOREM JobsHaveOnePlace ==
  ASSUME UniformNeeds, IdsInOrder
  PROVE  Spec => []OnePlace
<1>1. Inv => OnePlace
  <2> SUFFICES ASSUME Inv, status # "done", NEW j \in Job
               PROVE  /\ ~ (j \in running /\ j \in preempted)
                      /\ j \in running => ~ Queued(j)
                      /\ Pending(j) => j \notin running \cup preempted
                      /\ Settled(j) => j \notin running \cup preempted
                                       /\ ~ Queued(j) /\ ~ Pending(j)
    BY DEF OnePlace
  <2>1. Places /\ (running \cap preempted = {})
    BY OrderlyFacts DEF Inv, OrderlyInv
  <2> QED BY <2>1 DEF Places, Waits, Settled
<1> QED BY <1>1, InvHolds, PTL

(* A pending mailbox job was never started, so that the branches of        *)
(* _on_arrival for a replaced job that runs or is suspended are dead.      *)
THEOREM PendingJobsAreFresh ==
  ASSUME UniformNeeds, IdsInOrder
  PROVE  Spec => []PendingIsFresh
<1>1. Inv => PendingIsFresh
  <2> SUFFICES ASSUME Inv, status # "done", NEW s \in StreamId, mailbox[s] # NoJob
               PROVE  jobState[mailbox[s]] = "absent" /\ resume[mailbox[s]] = Work(mailbox[s])
    BY DEF PendingIsFresh
  <2>1. Places /\ mailbox[s] \in Job
    BY DEF Inv, OrderlyInv, IInv, TypeOK, QueueTypeOK
  <2>2. Pending(mailbox[s])
    BY DEF Pending
  <2> QED BY <2>1, <2>2 DEF Places
<1> QED BY <1>1, InvHolds, PTL

-----------------------------------------------------------------------------
(* An orderly run implements JobLifecycle. *)

(* Where a job stands, by cases. *)
LEMMA PhaseCases ==
  \A j \in Job :
    LET gone == status = "done" /\ outcome[j] = "DROPPED"
    IN  /\ j \in running => Phase(j) = "running"
        /\ j \notin running /\ j \in preempted /\ ~ gone => Phase(j) = "suspended"
        /\ j \notin running /\ (j \notin preempted \/ gone) =>
             /\ outcome[j] = "absent" => Phase(j) = "future"
             /\ outcome[j] = "REJECTED" => Phase(j) = "rejected"
             /\ outcome[j] = "DROPPED" => Phase(j) = "dropped"
             /\ outcome[j] = "REPLACED" => Phase(j) = "replaced"
             /\ outcome[j] = "COMPLETED" =>
                  Phase(j) = IF completeTime[j] # NoTime THEN "completed" ELSE "waiting"
BY DEF Phase

(* The same in the next state. *)
LEMMA PhaseCasesNext ==
  (\A j \in Job :
    LET gone == status = "done" /\ outcome[j] = "DROPPED"
    IN  /\ j \in running => Phase(j) = "running"
        /\ j \notin running /\ j \in preempted /\ ~ gone => Phase(j) = "suspended"
        /\ j \notin running /\ (j \notin preempted \/ gone) =>
             /\ outcome[j] = "absent" => Phase(j) = "future"
             /\ outcome[j] = "REJECTED" => Phase(j) = "rejected"
             /\ outcome[j] = "DROPPED" => Phase(j) = "dropped"
             /\ outcome[j] = "REPLACED" => Phase(j) = "replaced"
             /\ outcome[j] = "COMPLETED" =>
                  Phase(j) = IF completeTime[j] # NoTime THEN "completed" ELSE "waiting")'
BY PhaseCases, PTL

(* A step of JobLifecycle for a job of w units of work, from phase p with  *)
(* s units served to phase q with t units served.                          *)
Moves(p, q, s, t, w) ==
  \/ p = q /\ t = s
  \/ <<p, q>> \in Lifecycle!Steps /\ q \notin {"suspended", "completed"} /\ t = s
  \/ p = "running" /\ q = "suspended" /\ t \in s .. w - 1
  \/ p = "running" /\ q = "completed" /\ t = w

Moved(j) == Moves(Phase(j), Phase(j)', busy[j], busy'[j], Work(j))

(* A job nothing happens to. *)
LEMMA Unmoved ==
  ASSUME NEW i \in Job, busy'[i] = busy[i], outcome'[i] = outcome[i],
         completeTime'[i] = completeTime[i], i \in running' <=> i \in running,
         i \in preempted' <=> i \in preempted,
         (status' = "done" /\ outcome[i] = "DROPPED") => i \notin preempted \/ status = "done",
         status = "done" => status' = "done"
  PROVE  Moved(i)
BY DEF Moved, Moves, Phase

(* An arrival is queued or lost, and a displaced job is lost. *)
LEMMA ArriveMoves ==
  ASSUME Inv, NEW e \in events, NEW j \in Job, Arrive(e, j), NEW i \in Job
  PROVE  Moved(i)
<1> DEFINE old == mailbox[Stream(j)]
<1>1. /\ status = "events" /\ status' = "dispatch"
      /\ UNCHANGED <<running, preempted, completeTime, busy>>
      /\ outcome[j] = "absent" /\ j \notin running /\ ~ Waits(j)
      /\ ArriveReplacing(e, j) => old \in Job /\ Pending(old) /\ old # j
      /\ outcome'[i] =
           IF i = j
           THEN IF ArriveRejected(e, j) THEN "REJECTED"
                ELSE IF ArriveDropped(e, j) THEN "DROPPED" ELSE "COMPLETED"
           ELSE IF ArriveReplacing(e, j) /\ i = old
                THEN "REPLACED" ELSE outcome[i]
  BY ArriveFacts DEF Inv, executionVars
<1>2. Places
  BY <1>1 DEF Inv, OrderlyInv
<1> HIDE DEF old
<1>3. CASE i = j
  <2>1. /\ Phase(i) = "future" /\ Phase(i)' \in {"rejected", "dropped", "waiting"}
        /\ busy'[i] = busy[i]
    BY <1>1, <1>2, <1>3, PhaseCases, PhaseCasesNext DEF Places, Waits
  <2> QED BY <2>1 DEF Moved, Moves, Lifecycle!Steps
<1>4. CASE i # j /\ ArriveReplacing(e, j) /\ i = old
  <2>1. Phase(i) = "waiting" /\ Phase(i)' = "replaced" /\ busy'[i] = busy[i]
    BY <1>1, <1>2, <1>4, PhaseCases, PhaseCasesNext DEF Places, Waits
  <2> QED BY <2>1 DEF Moved, Moves, Lifecycle!Steps
<1>5. CASE i # j /\ ~ (ArriveReplacing(e, j) /\ i = old)
  BY <1>1, <1>5, Unmoved
<1> QED BY <1>3, <1>4, <1>5

(* A completion moves its job from running to completed. *)
LEMMA CompleteMoves ==
  ASSUME Inv, ServiceConserved', NEW e \in events, Complete(e), NEW i \in Job
  PROVE  Moved(i)
<1> DEFINE j == e.job
<1>1. /\ status = "events" /\ status' # "done" /\ j \in running /\ j \in Job
      /\ running' = running \ {j} /\ preempted' = preempted
      /\ busy' = [busy EXCEPT ![j] = @ + (e.time - startTime[j])]
      /\ outcome' = [outcome EXCEPT ![j] = "COMPLETED"]
      /\ completeTime' = [completeTime EXCEPT ![j] = e.time]
  BY DEF Complete, Takes, Inv, IInv, CompletionDue, TypeOK, ExecutionTypeOK
<1>2. /\ outcome \in [Job -> {"absent", "COMPLETED", "DROPPED", "REPLACED", "REJECTED"}]
      /\ completeTime \in [Job -> Nat \cup {NoTime}] /\ busy \in [Job -> Nat]
      /\ e.time \in Nat /\ running \cap preempted = {}
  BY OrderlyFacts
     DEF Inv, IInv, TypeOK, OutcomeTypeOK, MetricTypeOK, KernelTypeOK, QueuedEvent
<1> HIDE DEF j
<1>3. CASE i = j
  <2>1. completeTime'[i] # NoTime /\ outcome'[i] = "COMPLETED"
    BY <1>1, <1>2, <1>3 DEF NoTime
  <2>2. Phase(i) = "running" /\ Phase(i)' = "completed" /\ busy'[i] = Work(i)
    BY <1>1, <1>2, <1>3, <2>1, PhaseCases, PhaseCasesNext DEF ServiceConserved
  <2> QED BY <2>2 DEF Moved, Moves
<1>4. CASE i # j
  BY <1>1, <1>2, <1>4, Unmoved
<1> QED BY <1>3, <1>4

(* A start moves its job to running. *)
LEMMA StartMoves ==
  ASSUME Inv, NEW c \in todo, Start(c), NEW i \in Job
  PROVE  Moved(i)
<1>1. /\ status = "dispatch" /\ c \notin running /\ running' = running \cup {c}
      /\ preempted' = preempted \ {c}
      /\ UNCHANGED <<outcome, completeTime, busy, status>>
  BY DEF Start, Considers, metricVars
<1>2. Places /\ c \in Job
  BY <1>1, OrderlyFacts DEF Inv, OrderlyInv
<1>3. CASE i = c
  <2>1. outcome[i] = "COMPLETED" /\ completeTime[i] = NoTime
    BY <1>2, <1>3 DEF Places
  <2>2. /\ Phase(i) \in {"waiting", "suspended"} /\ Phase(i)' = "running"
        /\ busy'[i] = busy[i]
    BY <1>1, <1>3, <2>1, PhaseCases, PhaseCasesNext
  <2> QED BY <2>2 DEF Moved, Moves, Lifecycle!Steps
<1>4. CASE i # c
  BY <1>1, <1>4, Unmoved
<1> QED BY <1>3, <1>4

(* A job is suspended with work left: its completion was due, and would    *)
(* have been taken before the dispatch.                                    *)
LEMMA PreemptMoves ==
  ASSUME Inv, IInv', OrderlyInv', NEW c \in todo, NEW v \in running, Preempt(c, v),
         NEW i \in Job
  PROVE  Moved(i)
<1>1. /\ status = "dispatch" /\ v \in Job /\ running' = running \ {v}
      /\ preempted' = preempted \cup {v}
      /\ busy' = [busy EXCEPT ![v] = @ + (now - startTime[v])]
      /\ UNCHANGED <<outcome, completeTime, status>>
  BY DEF Preempt, Considers, Inv, IInv, TypeOK, ExecutionTypeOK
<1>2. /\ busy \in [Job -> Nat] /\ now \in Nat /\ startTime[v] \in Int
      /\ startTime[v] <= now /\ resume'[v] \in Nat /\ resume'[v] > 0
      /\ Work(v) \in Nat
  BY <1>1, ClassTypes
     DEF Inv, IInv, TypeOK, KernelTypeOK, ExecutionTypeOK, MetricTypeOK, NoTime,
         StartedBefore, ResumePositive
<1>3. CASE i = v
  <2>1. outcome[v] = "COMPLETED" /\ completeTime[v] = NoTime
    BY <1>1 DEF Inv, OrderlyInv, Places
  <2>2. busy'[v] + resume'[v] = Work(v)
    BY <1>1, <2>1 DEF OrderlyInv, ServiceConserved, Settled
  <2>3. busy'[v] = busy[v] + (now - startTime[v])
    BY <1>1, <1>2
  <2>4. busy'[v] \in busy[v] .. Work(v) - 1
    BY <1>1, <1>2, <2>2, <2>3
  <2>5. Phase(v) = "running" /\ Phase(v)' = "suspended"
    BY <1>1, PhaseCases, PhaseCasesNext
  <2> QED BY <1>3, <2>4, <2>5 DEF Moved, Moves
<1>4. CASE i # v
  BY <1>1, <1>2, <1>4, Unmoved
<1> QED BY <1>3, <1>4

(* No other step moves a job, but the end of the run, which closes those   *)
(* that were dropped.                                                      *)
LEMMA OtherMoves ==
  ASSUME Inv, NEW i \in Job,
         \/ \E e \in events : DispatchEvent(e)
         \/ \E c \in todo : Pass(c)
         \/ EndDispatch \/ Finish \/ Terminated \/ UNCHANGED vars
  PROVE  Moved(i)
<1> USE DEF vars, kernelVars, executionVars, queueVars, metricVars
<1>1. CASE \/ \E e \in events : DispatchEvent(e)
           \/ \E c \in todo : Pass(c)
           \/ EndDispatch \/ Terminated \/ UNCHANGED vars
  <2>1. /\ UNCHANGED <<busy, outcome, completeTime, running, preempted>>
        /\ status' = status \/ (status' # "done" /\ status # "done")
    BY <1>1 DEF DispatchEvent, Takes, Pass, EndDispatch, Terminated
  <2> QED BY <2>1, Unmoved
<1>2. CASE Finish
  <2>1. /\ status = "events" /\ status' = "done"
        /\ UNCHANGED <<busy, completeTime, running, preempted>>
        /\ outcome'[i] = IF Queued(i) THEN "DROPPED" ELSE outcome[i]
    BY <1>2 DEF Finish
  <2>2. Places
    BY <2>1 DEF Inv, OrderlyInv
  <2>3. CASE Queued(i)
    <3>1. /\ outcome[i] = "COMPLETED" /\ completeTime[i] = NoTime /\ i \notin running
          /\ outcome'[i] = "DROPPED"
      BY <2>1, <2>2, <2>3 DEF Places, Waits
    <3>2. /\ Phase(i) \in {"waiting", "suspended"} /\ Phase(i)' = "dropped"
          /\ busy'[i] = busy[i]
      BY <2>1, <3>1, PhaseCases, PhaseCasesNext
    <3> QED BY <3>2 DEF Moved, Moves, Lifecycle!Steps
  <2>4. CASE ~ Queued(i)
    <3>1. outcome[i] = "DROPPED" => i \notin preempted
      BY <2>2 DEF Places, Waits
    <3> QED BY <2>1, <2>4, <3>1, Unmoved
  <2> QED BY <2>3, <2>4
<1> QED BY <1>1, <1>2

(* Every step moves every job as the life cycle allows. *)
LEMMA NextMoves ==
  ASSUME Inv, Inv', [Next]_vars, NEW i \in Job
  PROVE  Moved(i)
<1>1. ASSUME NEW e \in events, NEW j \in Job, Arrive(e, j) PROVE Moved(i)
  BY <1>1, ArriveMoves
<1>2. ASSUME NEW e \in events, DispatchEvent(e) PROVE Moved(i)
  BY <1>2, OtherMoves
<1>3. ASSUME NEW e \in events, Complete(e) PROVE Moved(i)
  BY <1>3, CompleteMoves DEF Inv, OrderlyInv
<1>4. ASSUME NEW c \in todo, Start(c) PROVE Moved(i)
  BY <1>4, StartMoves
<1>5. ASSUME NEW c \in todo, NEW v \in running, Preempt(c, v) PROVE Moved(i)
  BY <1>5, PreemptMoves DEF Inv
<1>6. ASSUME NEW c \in todo, Pass(c) PROVE Moved(i)
  BY <1>6, OtherMoves
<1>7. CASE EndDispatch \/ Finish \/ Terminated \/ UNCHANGED vars
  BY <1>7, OtherMoves
<1> QED BY <1>1, <1>2, <1>3, <1>4, <1>5, <1>6, <1>7 DEF Next, Dispatch

(* Each job takes one path from its arrival to a single final fate, is     *)
(* suspended only with work left, and leaves the processor completed only  *)
(* with exactly its work charged to it.                                    *)
THEOREM RunsImplementLifecycle ==
  ASSUME UniformNeeds, IdsInOrder
  PROVE  Spec => ImplementsLifecycle
<1>1. Init => Lifecycle!Init
  <2> SUFFICES ASSUME Init PROVE Lifecycle!Init
    OBVIOUS
  <2>1. \A j \in Job : Phase(j) = "future"
    BY PhaseCases DEF Init
  <2> QED BY <2>1 DEF Init, Lifecycle!Init
<1>2. Inv /\ Inv' /\ [Next]_vars => [Lifecycle!Next]_(Lifecycle!vars)
  <2> SUFFICES ASSUME Inv, Inv', [Next]_vars, NEW j \in Job
               PROVE  /\ \/ Phase(j)' = Phase(j)
                         \/ <<Phase(j), Phase(j)'>> \in Lifecycle!Steps
                      /\ \/ busy'[j] = busy[j] /\ Phase(j)' \notin {"suspended", "completed"}
                         \/ busy'[j] = busy[j] /\ Phase(j)' = Phase(j)
                         \/ /\ Phase(j) = "running" /\ Phase(j)' = "suspended"
                            /\ busy'[j] \in busy[j] .. Work(j) - 1
                         \/ /\ Phase(j) = "running" /\ Phase(j)' = "completed"
                            /\ busy'[j] = Work(j)
    BY DEF Lifecycle!Next, Lifecycle!Charge
  <2>1. Moved(j)
    BY NextMoves
  <2> QED BY <2>1 DEF Moved, Moves, Lifecycle!Steps
<1> QED BY <1>1, <1>2, InvHolds, PTL DEF Spec, ImplementsLifecycle, Lifecycle!Spec

-----------------------------------------------------------------------------
(* Nothing waits in vain.                                                  *)
(*                                                                         *)
(* Between two events there is at most one free place for each dispatch    *)
(* that is still due now, counting for a waiting job the places of the     *)
(* running jobs that may be suspended for it as free.  The loop of         *)
(* _dispatch starts at most one job more than such an event allows for,    *)
(* and that one is the best of those it considers.                         *)

(* The dispatches that are due now. *)
Due == {e \in events : e.kind = "dispatch" /\ e.time = now}

(* The running jobs that may be suspended for j, and how many they are. *)
Inferior(j) == {v \in running : MayPreempt(j, v)}
Worse(j) == Cardinality(Inferior(j))

(* With u in use, the needs of a job fit k times into what is free. *)
RoomIn(u, k) == \A r \in Resource : Scenario.capacity[r] - u[r] >= k * Need(r)

(* With u in use there are fewer than k places, n that can be made so      *)
(* included.                                                               *)
ShortIn(u, n, k) == ~ RoomIn(u, k - n)

(* Job j could get fewer than k places. *)
Short(j, k) == ShortIn(used, Worse(j), k)

(* Beyond the dispatches due, no waiting job could get k places ... *)
AllShort(k) == \A j \in Job : Waits(j) => Short(j, Cardinality(Due) + k)

(* ... or only candidate c could. *)
ShortBut(c) ==
  \A j \in Job \ {c} :
    Waits(j) => Short(j, Cardinality(Due) + (IF Precedes(j, c) THEN 1 ELSE 2))

(* Each waiting job is a candidate or stands behind one. *)
Covered == \A j \in Job : Waits(j) => \E d \in todo : d = j \/ Precedes(d, j)

Owed ==
  /\ IsFiniteSet(events)
  /\ status = "events" => AllShort(1)
  /\ status = "dispatch" =>
       \/ AllShort(1)
       \/ \E c \in todo : Leads(c) /\ ShortBut(c)
       \/ AllShort(2) /\ Covered

(* Room is RoomIn of the current resources, now and in the next state. *)
LEMMA RoomIsRoomIn ==
  \A k : (Room(k) <=> RoomIn(used, k)) /\ (Room(k)' <=> RoomIn(used', k))
BY DEF Room, RoomIn, Need

(* Fewer places stay fewer when the resources change by s places, and a    *)
(* job can make n instead of m.                                            *)
LEMMA ShortInStep ==
  ASSUME UniformNeeds, Job # {}, NEW u \in [Resource -> Nat], NEW v,
         NEW s \in Int, \A k \in Int : RoomIn(v, k) <=> RoomIn(u, k + s),
         NEW m \in Nat, NEW n \in Nat, NEW a \in Int, NEW b \in Int,
         ShortIn(u, m, a), a - m <= b - n + s
  PROVE  ShortIn(v, n, b)
<1>1. \A r \in Resource : /\ Need(r) \in Nat /\ u[r] \in Nat
                          /\ Scenario.capacity[r] \in Nat
  BY NeedIsShared, RunnerAssumption DEF ScenarioLimits
<1>2. ASSUME RoomIn(u, b - n + s) PROVE RoomIn(u, a - m)
  <2> SUFFICES ASSUME NEW r \in Resource
               PROVE  Scenario.capacity[r] - u[r] >= (a - m) * Need(r)
    BY DEF RoomIn
  <2>1. ASSUME NEW x \in Nat, NEW k \in Int, NEW l \in Int, k <= l PROVE k * x <= l * x
    BY <2>1
  <2> DEFINE k == a - m
             l == b - n + s
             x == Need(r)
             c == Scenario.capacity[r]
             y == u[r]
  <2>2. k \in Int /\ l \in Int /\ k <= l
    OBVIOUS
  <2>3. x \in Nat /\ y \in Nat /\ c \in Nat /\ c - y >= l * x
    BY <1>1, <1>2 DEF RoomIn
  <2> HIDE DEF k, l, x, c, y
  <2>4. c - y >= k * x
    <3>1. k * x <= l * x /\ k * x \in Int /\ l * x \in Int
      BY <2>1, <2>2, <2>3
    <3> QED BY <2>3, <3>1
  <2> QED BY <2>4 DEF k, x, c, y
<1>3. b - n \in Int
  OBVIOUS
<1> QED BY <1>2, <1>3 DEF ShortIn

(* The same when nothing changes. *)
LEMMA ShortWeakens ==
  ASSUME UniformNeeds, Job # {}, NEW u \in [Resource -> Nat],
         NEW m \in Nat, NEW n \in Nat, NEW a \in Int, NEW b \in Int,
         ShortIn(u, m, a), a - m <= b - n
  PROVE  ShortIn(u, n, b)
<1>1. \A k \in Int : RoomIn(u, k) <=> RoomIn(u, k + 0)
  OBVIOUS
<1>2. a - m <= b - n + 0 /\ 0 \in Int
  OBVIOUS
<1> QED BY <1>1, <1>2, ShortInStep

(* The jobs that may be suspended for j may be for what precedes it.       *)
LEMMA InferiorFinite ==
  ASSUME IInv
  PROVE  \A j \in Job :
           /\ IsFiniteSet(Inferior(j)) /\ Worse(j) \in Nat
           /\ \A d \in Job : Precedes(d, j) => Worse(j) <= Worse(d)
<1>1. /\ running \subseteq Job /\ IsFiniteSet(running) /\ arrival \in [Job -> Nat]
  BY FS_Subset, RunnerAssumption DEF IInv, TypeOK, ExecutionTypeOK, KernelTypeOK
<1>2. \A j \in Job : IsFiniteSet(Inferior(j)) /\ Worse(j) \in Nat
  BY <1>1, FS_Subset, FS_CardinalityType DEF Inferior, Worse
<1>3. ASSUME NEW j \in Job, NEW d \in Job, Precedes(d, j)
      PROVE  Worse(j) <= Worse(d)
  <2>1. Inferior(j) \subseteq Inferior(d)
    BY <1>1, <1>3, PrecedesIsTotal DEF Inferior, MayPreempt
  <2> QED BY <1>2, <2>1, FS_Subset DEF Worse
<1> QED BY <1>2, <1>3

(* The same in the next state. *)
LEMMA InferiorFiniteNext ==
  (IInv => \A j \in Job :
           /\ IsFiniteSet(Inferior(j)) /\ Worse(j) \in Nat
           /\ \A d \in Job : Precedes(d, j) => Worse(j) <= Worse(d))'
BY InferiorFinite, PTL

(* Finitely many dispatches are due. *)
LEMMA DueFinite ==
  IsFiniteSet(events) => IsFiniteSet(Due) /\ Cardinality(Due) \in Nat
<1>1. Due \subseteq events
  BY DEF Due
<1> QED BY <1>1, FS_Subset, FS_CardinalityType

(* An event that asks for a dispatch makes one more due; those that were   *)
(* due before are still, or there were none.                               *)
LEMMA DueMore ==
  ASSUME IInv, SeqFresh, IsFiniteSet(events), NEW e \in events, Takes(e),
         e.kind # "dispatch", ReplaceByDispatch(e), now' = e.time
  PROVE  /\ IsFiniteSet(events') /\ Cardinality(Due') \in Nat
         /\ Cardinality(Due') >= Cardinality(Due) + 1
<1> DEFINE d == Event(e.time, DISPATCH, nextSeq, "dispatch", NoJob)
<1>1. /\ events' = (events \ {e}) \cup {d}
      /\ d.kind = "dispatch" /\ d.time = e.time /\ d.seq = nextSeq
  BY DEF ReplaceByDispatch, Event
<1>2. d \notin events
  <2>1. nextSeq \in Nat
    BY DEF IInv, TypeOK, KernelTypeOK
  <2> QED BY <1>1, <2>1 DEF SeqFresh
<1> HIDE DEF d
<1>3. IsFiniteSet(events')
  BY <1>1, FS_RemoveElement, FS_AddElement
<1>4. IsFiniteSet(Due) /\ Cardinality(Due) \in Nat
  BY DueFinite
<1>5. IsFiniteSet(Due') /\ Cardinality(Due') \in Nat
  <2>1. Due' \subseteq events'
    BY DEF Due
  <2> QED BY <1>3, <2>1, FS_Subset, FS_CardinalityType
<1>6. Due \cup {d} \subseteq Due'
  <2>1. Due \subseteq {f \in events : f.time = e.time /\ f.kind = "dispatch"}
    <3> SUFFICES ASSUME NEW f \in Due PROVE f.time = e.time
      BY DEF Due
    <3>1. /\ f \in events /\ f.time = now /\ e.time >= now
          /\ e.time \in Nat /\ f.time \in Nat /\ now \in Nat
      BY DEF Due, IInv, CompletionDue, TypeOK, KernelTypeOK, QueuedEvent
    <3>2. e.time <= f.time
      BY <3>1 DEF Takes, IsFirst, Before
    <3> QED BY <3>1, <3>2
  <2> QED BY <1>1, <2>1 DEF Due
<1>7. Cardinality(Due \cup {d}) = Cardinality(Due) + 1
  <2>1. d \notin Due
    BY <1>2 DEF Due
  <2> QED BY <1>4, <2>1, FS_AddElement
<1> QED BY <1>3, <1>4, <1>5, <1>6, <1>7, FS_Subset

(* A dispatch uses up at most one of those due. *)
LEMMA DueLess ==
  ASSUME IInv, IsFiniteSet(events), NEW e \in events, Takes(e), e.kind = "dispatch",
         events' = events \ {e}, now' = e.time
  PROVE  /\ IsFiniteSet(events') /\ Cardinality(Due') \in Nat
         /\ Cardinality(Due') + 1 >= Cardinality(Due)
<1>1. IsFiniteSet(events')
  BY FS_RemoveElement
<1>2. IsFiniteSet(Due) /\ Cardinality(Due) \in Nat
  BY DueFinite
<1>3. IsFiniteSet(Due') /\ Cardinality(Due') \in Nat
  <2>1. Due' \subseteq events'
    BY DEF Due
  <2> QED BY <1>1, <2>1, FS_Subset, FS_CardinalityType
<1>4. Due \ {e} \subseteq Due'
  <2> SUFFICES ASSUME NEW f \in Due, f # e PROVE f.time = e.time
    BY DEF Due
  <2>1. /\ f \in events /\ f.time = now /\ e.time >= now
        /\ e.time \in Nat /\ f.time \in Nat /\ now \in Nat
    BY DEF Due, IInv, CompletionDue, TypeOK, KernelTypeOK, QueuedEvent
  <2>2. e.time <= f.time
    BY <2>1 DEF Takes, IsFirst, Before
  <2> QED BY <2>1, <2>2
<1>5. Cardinality(Due \ {e}) <= Cardinality(Due')
  BY <1>3, <1>4, FS_Subset
<1>6. /\ IsFiniteSet(Due \ {e})
      /\ Cardinality(Due \ {e}) =
           IF e \in Due THEN Cardinality(Due) - 1 ELSE Cardinality(Due)
  BY <1>2, FS_RemoveElement
<1> DEFINE k == Cardinality(Due)
           l == Cardinality(Due \ {e})
           m == Cardinality(Due')
<1>7. k \in Nat /\ m \in Nat /\ l <= m /\ (l = k - 1 \/ l = k)
  BY <1>2, <1>3, <1>5, <1>6
<1> HIDE DEF k, l, m
<1>8. m + 1 >= k
  BY <1>7
<1> QED BY <1>1, <1>3, <1>8 DEF k, m

(* Nothing waits when the run begins. *)
LEMMA InitOwed == Init => Owed
<1> SUFFICES ASSUME Init PROVE Owed
  OBVIOUS
<1>1. IsFiniteSet(events)
  <2> DEFINE A == {Event(arrival[j], DISPATCH, Place(j), "arrival", j) : j \in Job}
             f == [j \in Job |-> Event(arrival[j], DISPATCH, Place(j), "arrival", j)]
  <2>1. f \in Surjection(Job, A)
    BY DEF Surjection
  <2>2. IsFiniteSet(A)
    BY <2>1, FS_Surjection, RunnerAssumption
  <2>3. events = A \cup {Event(0, DISPATCH, Cardinality(Job), "dispatch", NoJob)}
    BY DEF Init
  <2> HIDE DEF A
  <2> QED BY <2>2, <2>3, FS_AddElement
<1>2. \A j \in Job : ~ Waits(j)
  BY ClassTypes, RunnerAssumption DEF Init, Waits, Queued, Pending
<1> QED BY <1>1, <1>2 DEF Init, Owed, AllShort

(* Each waiting job is a candidate or stands behind one of its class.      *)
LEMMA CandidatesCover ==
  IInv /\ QueuesTyped /\ Lines /\ Places =>
    \A j \in Job : Waits(j) => \E d \in Candidates : d = j \/ Precedes(d, j)
<1> SUFFICES ASSUME IInv, QueuesTyped, Lines, Places, NEW j \in Job, Waits(j)
             PROVE  \E d \in Candidates : d = j \/ Precedes(d, j)
  OBVIOUS
<1>1. /\ arrival \in [Job -> Nat] /\ \A c \in ClassId : fifo[c] \in Seq(Job)
  BY DEF IInv, TypeOK, KernelTypeOK, QueueTypeOK
<1>2. CASE j \in preempted
  <2>1. j \notin running
    BY <1>2 DEF Places, Waits
  <2> QED BY <1>2, <2>1 DEF Candidates
<1>3. CASE Pending(j)
  <2>1. PICK s \in StreamId : mailbox[s] = j
    BY <1>3 DEF Pending
  <2>2. j # NoJob
    BY RunnerAssumption
  <2> QED BY <2>1, <2>2 DEF Candidates
<1>4. CASE Queued(j)
  <2> DEFINE q == fifo[ClassOf[j]]
  <2>1. ClassOf[j] \in ClassId /\ q \in Seq(Job) /\ Sorted(arrival, q) /\ In(q, j)
    BY <1>1, <1>4, ClassTypes, QueuedIn DEF Lines
  <2>2. q # <<>>
    BY <2>1 DEF In
  <2>3. Head(q) \in Candidates
    BY <2>1, <2>2 DEF Candidates
  <2>4. Head(q) = j \/ Order(arrival, Head(q), j)
    <3> HIDE DEF q
    <3> QED BY <1>1, <2>1, <2>2, HeadFirst
  <2> HIDE DEF q
  <2> QED BY <2>3, <2>4, PrecedesIsOrder
<1> QED BY <1>2, <1>3, <1>4 DEF Waits

(* The same in the next state. *)
LEMMA CandidatesCoverNext ==
  (IInv /\ QueuesTyped /\ Lines /\ Places =>
    \A j \in Job : Waits(j) => \E d \in Candidates : d = j \/ Precedes(d, j))'
BY CandidatesCover, PTL

(* A step that neither starts nor stops a job changes no count. *)
LEMMA WorseUnchanged ==
  UNCHANGED <<arrival, running>> => \A j : Worse(j)' = Worse(j)
<1>1. UNCHANGED arrival => \A j, v : MayPreempt(j, v)' <=> MayPreempt(j, v)
  BY PrecedesUnchanged DEF MayPreempt
<1> QED BY <1>1 DEF Worse, Inferior

(* A started job counts as one more for those that may preempt it. *)
LEMMA WorseAfterStart ==
  ASSUME IInv, NEW c \in Job, c \notin running, running' = running \cup {c},
         arrival' = arrival, NEW j \in Job
  PROVE  Worse(j)' = Worse(j) + (IF MayPreempt(j, c) THEN 1 ELSE 0)
<1>1. \A v : MayPreempt(j, v)' <=> MayPreempt(j, v)
  BY PrecedesUnchanged DEF MayPreempt
<1>2. IsFiniteSet(Inferior(j)) /\ Worse(j) \in Nat
  BY InferiorFinite
<1>3. CASE MayPreempt(j, c)
  <2>1. Inferior(j)' = Inferior(j) \cup {c} /\ c \notin Inferior(j)
    BY <1>1, <1>3 DEF Inferior
  <2>2. Worse(j)' = Worse(j) + 1
    BY <1>2, <2>1, FS_AddElement DEF Worse
  <2> QED BY <1>3, <2>2
<1>4. CASE ~ MayPreempt(j, c)
  <2>1. Inferior(j)' = Inferior(j)
    BY <1>1, <1>4 DEF Inferior
  <2> QED BY <1>2, <1>4, <2>1 DEF Worse
<1> QED BY <1>3, <1>4

(* A job that stops counts as one less for those that may preempt it. *)
LEMMA WorseAfterRelease ==
  ASSUME IInv, NEW v \in running, running' = running \ {v}, arrival' = arrival,
         NEW j \in Job
  PROVE  Worse(j)' = Worse(j) - (IF MayPreempt(j, v) THEN 1 ELSE 0)
<1>1. \A w : MayPreempt(j, w)' <=> MayPreempt(j, w)
  BY PrecedesUnchanged DEF MayPreempt
<1>2. IsFiniteSet(Inferior(j)) /\ Worse(j) \in Nat
  BY InferiorFinite
<1>3. CASE MayPreempt(j, v)
  <2>1. Inferior(j)' = Inferior(j) \ {v} /\ v \in Inferior(j)
    BY <1>1, <1>3 DEF Inferior
  <2>2. Worse(j)' = Worse(j) - 1
    BY <1>2, <2>1, FS_RemoveElement DEF Worse
  <2> QED BY <1>3, <2>2
<1>4. CASE ~ MayPreempt(j, v)
  <2>1. Inferior(j)' = Inferior(j)
    BY <1>1, <1>4 DEF Inferior
  <2> QED BY <1>2, <1>4, <2>1 DEF Worse
<1> QED BY <1>3, <1>4

(* An arrival opens a dispatch over every waiting job and asks for         *)
(* another one.                                                            *)
LEMMA ArriveOwed ==
  ASSUME UniformNeeds, Inv, Inv', Owed, NEW e \in events, NEW j \in Job, Arrive(e, j)
  PROVE  Owed'
<1> DEFINE n == Cardinality(Due)
           m == Cardinality(Due')
<1>1. /\ status = "events" /\ Takes(e) /\ e.kind = "arrival" /\ ReplaceByDispatch(e)
      /\ status' = "dispatch" /\ todo' = Candidates' /\ now' = e.time
      /\ UNCHANGED <<arrival, used, running, preempted>>
  BY ArriveFacts DEF Inv, executionVars, AdvanceKernel
<1>2. /\ n \in Nat /\ m \in Nat /\ m >= n + 1 /\ IsFiniteSet(events')
  BY <1>1, DueFinite, DueMore DEF Owed, Inv, BooksInv
<1>3. /\ \A i \in Job : Waits(i)' => Waits(i) \/ i = j
      /\ \A d \in Candidates' : Waits(d)'
      /\ \A i \in Job : Waits(i)' => \E d \in Candidates' : d = i \/ Precedes(d, i)'
      /\ Candidates' \subseteq Job
      /\ arrival \in [Job -> Nat]
  <2>1. \A i \in Job : Waits(i)' => Waits(i) \/ i = j
    BY <1>1, ArriveQueues DEF Inv, BooksInv, Waits
  <2>2. (IInv /\ QueuesTyped /\ Lines /\ Places /\ QueueTypeOK /\ ExecutionTypeOK)'
    BY <1>1 DEF Inv, BooksInv, OrderlyInv, IInv, TypeOK
  <2>3. arrival \in [Job -> Nat]
    BY DEF Inv, IInv, TypeOK, KernelTypeOK
  <2> QED BY <2>1, <2>2, <2>3, CandidatesWaitNext, CandidatesCoverNext, CandidatesAreJobsNext
<1>4. \A i, k : Precedes(i, k)' <=> Precedes(i, k)
  BY <1>1, PrecedesUnchanged
<1>5. /\ \A i \in Job : Worse(i)' = Worse(i) /\ Worse(i) \in Nat
      /\ used' = used /\ used \in [Resource -> Nat]
      /\ \A d \in Job : Precedes(d, j) => Worse(j) <= Worse(d)
  BY <1>1, WorseUnchanged, InferiorFinite DEF Inv, IInv, TypeOK, ExecutionTypeOK
<1>6. \A i \in Job : Waits(i) => ShortIn(used, Worse(i), n + 1)
  BY <1>1 DEF Owed, AllShort, Short
<1> HIDE DEF n, m
<1>7. ASSUME NEW i \in Job, Waits(i), NEW k \in {1, 2}
      PROVE  ShortIn(used', Worse(i)', m + k)
  <2>1. n + 1 - Worse(i) <= m + k - Worse(i)
    BY <1>2, <1>5, <1>7
  <2> QED BY <1>2, <1>5, <1>6, <1>7, <2>1, ShortWeakens
<1>8. CASE ~ Waits(j)'
  <2>1. AllShort(1)'
    BY <1>3, <1>7, <1>8 DEF AllShort, Short, m
  <2> QED BY <1>1, <1>2, <2>1 DEF Owed
<1>9. CASE Waits(j)' /\ \E d \in Candidates' : Precedes(d, j)
  <2>1. PICK d \in Candidates' : Precedes(d, j)
    BY <1>9
  <2>2. d # j /\ d \in Job
    BY <1>3, <2>1, PrecedesIsTotal
  <2>3. Waits(d)
    BY <1>3, <2>2
  <2>4. ShortIn(used', Worse(j)', m + 1)
    <3>1. n + 1 - Worse(d) <= m + 1 - Worse(j)
      BY <1>2, <1>5, <2>1, <2>2
    <3> QED BY <1>2, <1>5, <1>6, <2>2, <2>3, <3>1, ShortWeakens
  <2>5. AllShort(1)'
    BY <1>3, <1>7, <2>4 DEF AllShort, Short, m
  <2> QED BY <1>1, <1>2, <2>5 DEF Owed
<1>10. CASE Waits(j)' /\ \A d \in Candidates' : ~ Precedes(d, j)
  <2>1. j \in Candidates'
    BY <1>3, <1>4, <1>10
  <2>2. Leads(j)'
    BY <1>1, <1>3, <1>4, <1>10, <2>1, PrecedesIsTotal DEF Leads
  <2>3. ShortBut(j)'
    BY <1>3, <1>7 DEF ShortBut, Short, m
  <2> QED BY <1>1, <1>2, <2>1, <2>2, <2>3 DEF Owed
<1> QED BY <1>8, <1>9, <1>10

(* A dispatch event uses up one dispatch and considers every candidate. *)
LEMMA DispatchEventOwed ==
  ASSUME UniformNeeds, Inv, Inv', Owed, NEW e \in events, DispatchEvent(e)
  PROVE  Owed'
<1> DEFINE n == Cardinality(Due)
           m == Cardinality(Due')
<1>1. /\ status = "events" /\ Takes(e) /\ e.kind = "dispatch" /\ events' = events \ {e}
      /\ status' = "dispatch" /\ todo' = Candidates /\ now' = e.time
      /\ UNCHANGED <<arrival, used, running, preempted, queueVars>>
  BY DEF DispatchEvent, Takes, executionVars, AdvanceKernel
<1>2. /\ n \in Nat /\ m \in Nat /\ m + 1 >= n /\ IsFiniteSet(events')
  BY <1>1, DueFinite, DueLess DEF Owed, Inv
<1>3. /\ \A i \in Job : Waits(i)' <=> Waits(i)
      /\ \A i, k : Precedes(i, k)' <=> Precedes(i, k)
  BY <1>1, QueuesUnchanged, PrecedesUnchanged DEF Waits
<1>4. Covered'
  <2>1. Lines /\ Places /\ IInv /\ QueuesTyped
    BY <1>1 DEF Inv, BooksInv, OrderlyInv
  <2> QED BY <1>1, <1>3, <2>1, CandidatesCover DEF Covered
<1>5. /\ \A i \in Job : Worse(i)' = Worse(i) /\ Worse(i) \in Nat
      /\ used' = used /\ used \in [Resource -> Nat]
  BY <1>1, WorseUnchanged, InferiorFinite DEF Inv, IInv, TypeOK, ExecutionTypeOK
<1>6. \A i \in Job : Waits(i) => ShortIn(used, Worse(i), n + 1)
  BY <1>1 DEF Owed, AllShort, Short
<1> HIDE DEF n, m
<1>7. ASSUME NEW i \in Job, Waits(i) PROVE ShortIn(used', Worse(i)', m + 2)
  <2>1. n + 1 - Worse(i) <= m + 2 - Worse(i)
    BY <1>2, <1>5, <1>7
  <2> QED BY <1>2, <1>5, <1>6, <1>7, <2>1, ShortWeakens
<1>8. AllShort(2)'
  BY <1>3, <1>7 DEF AllShort, Short, m
<1> QED BY <1>1, <1>2, <1>4, <1>8 DEF Owed

(* A completion frees one place and asks for one dispatch. *)
LEMMA CompleteOwed ==
  ASSUME UniformNeeds, Inv, Inv', Owed, NEW e \in events, Complete(e)
  PROVE  Owed'
<1> DEFINE n == Cardinality(Due)
           m == Cardinality(Due')
           v == e.job
<1>1. /\ status = "events" /\ Takes(e) /\ e.kind = "complete" /\ ReplaceByDispatch(e)
      /\ status' \in {"events", "raised"} /\ now' = e.time
      /\ v \in running /\ v \in Job /\ running' = running \ {v} /\ used' = Released(v)
      /\ UNCHANGED <<arrival, preempted, queueVars>>
  BY DEF Complete, Takes, AdvanceKernel, Inv, IInv, CompletionDue, TypeOK, ExecutionTypeOK
<1>2. /\ n \in Nat /\ m \in Nat /\ m >= n + 1 /\ IsFiniteSet(events')
  BY <1>1, DueFinite, DueMore DEF Owed, Inv, BooksInv
<1>3. \A i \in Job : Waits(i)' <=> Waits(i)
  BY <1>1, QueuesUnchanged DEF Waits
<1> HIDE DEF v
<1>4. /\ \A i \in Job : Worse(i) \in Nat /\ Worse(i)' \in Nat /\ Worse(i)' <= Worse(i)
      /\ used \in [Resource -> Nat]
  <2>1. \A i \in Job : Worse(i) \in Nat /\ Worse(i)' \in Nat
    BY InferiorFinite, InferiorFiniteNext DEF Inv
  <2>2. \A i \in Job : Worse(i)' = Worse(i) - (IF MayPreempt(i, v) THEN 1 ELSE 0)
    BY <1>1, WorseAfterRelease DEF Inv
  <2> QED BY <2>1, <2>2 DEF Inv, IInv, TypeOK, ExecutionTypeOK
<1>5. \A k \in Int : RoomIn(used', k) <=> RoomIn(used, k + (-1))
  <2> TAKE k \in Int
  <2>1. Room(k)' <=> Room(k - 1)
    BY <1>1, RoomAfterRelease DEF Inv, IInv, TypeOK, BooksInv
  <2>2. k - 1 = k + (-1)
    OBVIOUS
  <2> QED BY <2>1, <2>2, RoomIsRoomIn
<1>6. \A i \in Job : Waits(i) => ShortIn(used, Worse(i), n + 1)
  BY <1>1 DEF Owed, AllShort, Short
<1> HIDE DEF n, m
<1>7. ASSUME NEW i \in Job, Waits(i) PROVE ShortIn(used', Worse(i)', m + 1)
  <2> DEFINE s == -1
             a == n + 1
             b == m + 1
             p == Worse(i)
             q == Worse(i)'
  <2>1. /\ a - p <= b - q + s /\ s \in Int /\ a \in Int /\ b \in Int
        /\ p \in Nat /\ q \in Nat /\ Job # {}
    BY <1>2, <1>4
  <2>2. \A k \in Int : RoomIn(used', k) <=> RoomIn(used, k + s)
    BY <1>5
  <2>3. ShortIn(used, p, a) /\ used \in [Resource -> Nat]
    BY <1>4, <1>6, <1>7
  <2> SUFFICES ShortIn(used', q, b)
    OBVIOUS
  <2> HIDE DEF s, a, b, p, q
  <2> QED BY <2>1, <2>2, <2>3, ShortInStep
<1>8. AllShort(1)'
  BY <1>3, <1>7 DEF AllShort, Short, m
<1> QED BY <1>1, <1>2, <1>8 DEF Owed

(* In the loop, at most the candidate considered next gets what is free.   *)
LEMMA LeaderShort ==
  ASSUME UniformNeeds, Inv, Owed, status = "dispatch", NEW c \in todo, Leads(c)
  PROVE  ShortBut(c)
<1> DEFINE n == Cardinality(Due)
<1>1. n \in Nat /\ used \in [Resource -> Nat] /\ arrival \in [Job -> Nat] /\ todo \subseteq Job
  BY DueFinite DEF Owed, Inv, IInv, TypeOK, ExecutionTypeOK, KernelTypeOK
<1>2. \A i \in Job : Worse(i) \in Nat
  BY InferiorFinite DEF Inv
<1>3. SUFFICES ASSUME NEW j \in Job \ {c}, Waits(j)
               PROVE  ShortIn(used, Worse(j), n + (IF Precedes(j, c) THEN 1 ELSE 2))
  BY DEF ShortBut, Short
<1>4. CASE AllShort(1)
  <2>1. ShortIn(used, Worse(j), n + 1)
    BY <1>3, <1>4 DEF AllShort, Short
  <2> HIDE DEF n
  <2>2. n + 1 - Worse(j) <= n + 2 - Worse(j)
    BY <1>1, <1>2
  <2>3. ShortIn(used, Worse(j), n + 2)
    BY <1>1, <1>2, <2>1, <2>2, ShortWeakens
  <2> QED BY <2>1, <2>3
<1>5. CASE \E d \in todo : Leads(d) /\ ShortBut(d)
  <2>1. PICK d \in todo : Leads(d) /\ ShortBut(d)
    BY <1>5
  <2>2. d = c
    BY <1>1, <2>1, PrecedesIsTotal DEF Leads
  <2> QED BY <1>3, <2>1, <2>2 DEF ShortBut, Short
<1>6. CASE AllShort(2) /\ Covered
  <2>1. PICK d \in todo : d = j \/ Precedes(d, j)
    BY <1>3, <1>6 DEF Covered
  <2>2. ~ Precedes(j, c)
    BY <1>1, <1>3, <2>1, PrecedesIsTotal DEF Leads
  <2> QED BY <1>3, <1>6, <2>2 DEF AllShort, Short
<1> QED BY <1>4, <1>5, <1>6 DEF Owed

(* A start takes one place, and what remains owed to the others is         *)
(* covered.                                                                *)
LEMMA StartOwed ==
  ASSUME UniformNeeds, Inv, Owed, NEW c \in todo, Start(c)
  PROVE  Owed'
<1> DEFINE n == Cardinality(Due)
           d == Event(now + resume[c], TIMER, nextSeq, "complete", c)
<1>1. /\ status = "dispatch" /\ status' = status /\ Leads(c) /\ c \notin running
      /\ used' = Allocated(c) /\ running' = running \cup {c} /\ now' = now
      /\ events' = events \cup {d} /\ arrival' = arrival /\ d.kind = "complete"
      /\ preempted' = preempted \ {c}
  BY DEF Start, Considers, Leads, Event
<1> HIDE DEF d
<1>2. IsFiniteSet(events') /\ Due' = Due
  BY <1>1, FS_AddElement DEF Owed, Due
<1>3. n \in Nat /\ used \in [Resource -> Nat] /\ c \in Job /\ arrival \in [Job -> Nat]
  BY DueFinite DEF Owed, Inv, IInv, TypeOK, ExecutionTypeOK, KernelTypeOK
<1>4. \A i \in Job : /\ Worse(i) \in Nat
                     /\ Worse(i)' = Worse(i) + (IF MayPreempt(i, c) THEN 1 ELSE 0)
  BY <1>1, <1>3, InferiorFinite, WorseAfterStart DEF Inv
<1>5. \A i \in Job : Waits(i)' => Waits(i) /\ i # c
  <2>1. ~ Queued(c)'
    BY StartLines
  <2> QED BY <1>1, <2>1, StartQueues DEF Waits, Inv, BooksInv
<1>6. \A k \in Int : RoomIn(used', k) <=> RoomIn(used, k + 1)
  BY <1>1, <1>3, RoomAfterStart, RoomIsRoomIn DEF Inv, IInv, TypeOK
<1>7. ASSUME NEW j \in Job, Waits(j)'
      PROVE  ShortIn(used', Worse(j)', n + 1)
  <2> DEFINE a == n + (IF Precedes(j, c) THEN 1 ELSE 2)
             b == n + 1
             p == Worse(j)
             q == Worse(j)'
  <2>1. ShortIn(used, p, a)
    BY <1>1, <1>5, <1>7, LeaderShort DEF ShortBut, Short
  <2>2. MayPreempt(j, c) => Precedes(j, c)
    BY DEF MayPreempt
  <2>3. /\ a - p <= b - q + 1 /\ a \in Int /\ b \in Int /\ p \in Nat /\ q \in Nat
        /\ Job # {} /\ 1 \in Int
    <3> HIDE DEF n
    <3> QED BY <1>3, <1>4, <2>2
  <2> SUFFICES ShortIn(used', q, b)
    OBVIOUS
  <2> HIDE DEF a, b, p, q
  <2> QED BY <1>3, <1>6, <2>1, <2>3, ShortInStep
<1>8. AllShort(1)'
  BY <1>2, <1>7 DEF AllShort, Short
<1> QED BY <1>1, <1>2, <1>8 DEF Owed

(* What is passed over gets nothing, and what stands behind it neither.    *)
LEMMA PassOwed ==
  ASSUME UniformNeeds, Inv, Owed, NEW c \in todo, Pass(c)
  PROVE  Owed'
<1> DEFINE n == Cardinality(Due)
<1> USE DEF kernelVars, executionVars
<1>1. /\ status = "dispatch" /\ status' = status /\ Leads(c)
      /\ \/ c \in running
         \/ ~ CanAllocate(c) /\ \A v \in running : ~ MayPreempt(c, v)
      /\ UNCHANGED <<arrival, now, events, used, running, preempted, queueVars>>
  BY DEF Pass, Considers, Leads
<1>2. Due' = Due /\ IsFiniteSet(events')
  BY <1>1 DEF Owed, Due
<1>3. n \in Nat /\ used \in [Resource -> Nat] /\ c \in Job /\ arrival \in [Job -> Nat]
  BY DueFinite DEF Owed, Inv, IInv, TypeOK, ExecutionTypeOK, KernelTypeOK
<1>4. ~ CanAllocate(c) /\ Inferior(c) = {}
  BY <1>1, <1>3 DEF Inv, OrderlyInv, Places, Inferior
<1>5. ~ RoomIn(used, 1) /\ Worse(c) = 0
  BY <1>3, <1>4, NeedIsShared, RoomIsRoomIn, FS_EmptySet DEF Worse
<1>6. \A i \in Job : /\ Worse(i) \in Nat /\ Worse(i)' = Worse(i)
                     /\ Precedes(c, i) => Worse(i) <= Worse(c)
  BY <1>1, <1>3, InferiorFinite, WorseUnchanged DEF Inv
<1>7. ASSUME NEW j \in Job, Waits(j)
      PROVE  ShortIn(used, Worse(j), n + 1)
  <2>1. CASE Precedes(j, c)
    <3>1. j # c
      BY <1>3, <2>1, PrecedesIsTotal
    <3> QED BY <1>1, <1>7, <2>1, <3>1, LeaderShort DEF ShortBut, Short
  <2>2. CASE ~ Precedes(j, c)
    <3>1. Worse(j) = 0
      BY <1>3, <1>5, <1>6, <2>2, PrecedesIsTotal
    <3>2. ShortIn(used, 0, 1)
      BY <1>5 DEF ShortIn
    <3>3. 1 - 0 <= n + 1 - 0 /\ n + 1 \in Int /\ 1 \in Int /\ 0 \in Nat
      BY <1>3
    <3> QED BY <1>3, <3>1, <3>2, <3>3, ShortWeakens
  <2> QED BY <2>1, <2>2
<1>8. \A i \in Job : Waits(i)' <=> Waits(i)
  BY <1>1, QueuesUnchanged DEF Waits
<1>9. AllShort(1)'
  BY <1>1, <1>2, <1>6, <1>7, <1>8 DEF AllShort, Short
<1> QED BY <1>1, <1>2, <1>9 DEF Owed

(* The suspended job's place is free, for the candidate.                   *)
LEMMA PreemptOwed ==
  ASSUME UniformNeeds, Inv, Owed, NEW c \in todo, NEW v \in running, Preempt(c, v)
  PROVE  Owed'
<1> DEFINE n == Cardinality(Due)
<1>1. /\ status = "dispatch" /\ status' = status /\ Leads(c) /\ ~ CanAllocate(c)
      /\ MayPreempt(c, v) /\ \A w \in running \ {v} : Precedes(w, v)
      /\ running' = running \ {v} /\ used' = Released(v) /\ preempted' = preempted \cup {v}
      /\ events' = Uncompleted(v)
      /\ UNCHANGED <<arrival, now, todo>>
  BY DEF Preempt, Considers, Leads
<1>2. Due' = Due /\ IsFiniteSet(events')
  <2>1. Uncompleted(v) \subseteq events
    BY DEF Uncompleted
  <2>2. IsFiniteSet(events')
    BY <1>1, <2>1, FS_Subset DEF Owed
  <2>3. Due' = Due
    BY <1>1 DEF Uncompleted, Due
  <2> QED BY <2>2, <2>3
<1>3. /\ n \in Nat /\ used \in [Resource -> Nat] /\ c \in Job /\ arrival \in [Job -> Nat]
      /\ v \in Job /\ running \subseteq Job
  BY DueFinite DEF Owed, Inv, IInv, TypeOK, ExecutionTypeOK, KernelTypeOK
<1>4. \A i \in Job : /\ Worse(i) \in Nat
                     /\ Worse(i)' = Worse(i) - (IF MayPreempt(i, v) THEN 1 ELSE 0)
  BY <1>1, <1>3, InferiorFinite, WorseAfterRelease DEF Inv
<1>5. \A i \in Job : Waits(i)' => Waits(i) \/ i = v
  BY <1>1, PreemptQueues DEF Waits, Inv, BooksInv
<1>6. \A k \in Int : RoomIn(used', k) <=> RoomIn(used, k + (-1))
  <2> TAKE k \in Int
  <2>1. Room(k)' <=> Room(k - 1)
    BY <1>1, RoomAfterRelease DEF Inv, IInv, TypeOK, BooksInv
  <2>2. k - 1 = k + (-1)
    OBVIOUS
  <2> QED BY <2>1, <2>2, RoomIsRoomIn
<1>7. ShortIn(used, 0, 1) /\ Precedes(c, v)
  BY <1>1, <1>3, NeedIsShared, RoomIsRoomIn DEF ShortIn, MayPreempt
<1>8. ASSUME NEW j \in Job, j # c, Waits(j) \/ j = v
      PROVE  ShortIn(used', Worse(j)', n + (IF Precedes(j, c) THEN 1 ELSE 2))
  <2> DEFINE s == -1
             b == n + (IF Precedes(j, c) THEN 1 ELSE 2)
             p == Worse(j)
             q == Worse(j)'
  <2> SUFFICES ShortIn(used', q, b)
    OBVIOUS
  <2>1. /\ s \in Int /\ b \in Int /\ p \in Nat /\ Job # {}
        /\ q = p - (IF MayPreempt(j, v) THEN 1 ELSE 0)
        /\ \A k \in Int : RoomIn(used', k) <=> RoomIn(used, k + s)
    BY <1>3, <1>4, <1>6
  <2>2. CASE MayPreempt(j, v)
    <3>1. Waits(j)
      BY <1>3, <1>8, <2>2, PrecedesIsTotal DEF MayPreempt
    <3>2. ShortIn(used, p, b)
      BY <1>1, <1>8, <3>1, LeaderShort DEF ShortBut, Short
    <3>3. q \in Nat
      <4>1. IsFiniteSet(Inferior(j)) /\ Inferior(j) # {}
        BY <2>2, InferiorFinite DEF Inferior, Inv
      <4>2. p # 0
        BY <4>1, FS_EmptySet DEF Worse
      <4> HIDE DEF p, q
      <4> QED BY <2>1, <2>2, <4>2
    <3>4. b - p <= b - q + s
      <4> HIDE DEF b, p, q
      <4> QED BY <2>1, <2>2, <3>3
    <3> HIDE DEF s, b, p, q
    <3> QED BY <1>3, <2>1, <3>2, <3>3, <3>4, ShortInStep
  <2>3. CASE ~ MayPreempt(j, v)
    <3>1. Inferior(j) = {}
      <4>1. ~ Precedes(j, v)
        BY <1>1, <2>3 DEF MayPreempt
      <4>2. \A w \in running : ~ Precedes(j, w)
        BY <1>1, <1>3, <4>1, PrecedesIsTotal
      <4> QED BY <4>2 DEF Inferior, MayPreempt
    <3>2. p = 0 /\ q = 0 /\ ~ Precedes(j, c)
      <4>1. ~ Precedes(j, c)
        BY <1>1, <1>3, <1>7, <2>3, PrecedesIsTotal DEF MayPreempt
      <4> QED BY <2>1, <2>3, <3>1, <4>1, FS_EmptySet DEF Worse
    <3>3. b = n + 2
      BY <3>2
    <3>4. 1 - 0 <= b - q + s /\ 0 \in Nat /\ 1 \in Int
      <4> HIDE DEF n, b, q
      <4> QED BY <1>3, <3>2, <3>3
    <3> HIDE DEF s, b, p, q
    <3> QED BY <1>3, <1>7, <2>1, <3>2, <3>4, ShortInStep
  <2> QED BY <2>2, <2>3
<1>9. Leads(c)' /\ ShortBut(c)'
  <2>1. \A i, k : Precedes(i, k)' <=> Precedes(i, k)
    BY <1>1, PrecedesUnchanged
  <2>2. Leads(c)'
    BY <1>1, <2>1 DEF Leads
  <2>3. ShortBut(c)'
    BY <1>2, <1>5, <1>8, <2>1 DEF ShortBut, Short
  <2> QED BY <2>2, <2>3
<1> QED BY <1>1, <1>2, <1>9 DEF Owed

(* No other step touches what is owed. *)
LEMMA OtherOwed ==
  ASSUME Owed, EndDispatch \/ Finish \/ Terminated \/ UNCHANGED vars
  PROVE  Owed'
<1> USE DEF vars, kernelVars, executionVars, queueVars
<1>1. /\ UNCHANGED <<arrival, now, events, used, running, preempted, mailbox, todo>>
      /\ \/ Finish
         \/ UNCHANGED fifo /\ EndDispatch
         \/ UNCHANGED fifo /\ status' = status
  BY DEF EndDispatch, Terminated, Finish
<1>2. /\ \A i, k : Precedes(i, k)' <=> Precedes(i, k)
      /\ \A i : Worse(i)' = Worse(i)
      /\ Due' = Due
      /\ \A c : Leads(c)' <=> Leads(c)
  BY <1>1, PrecedesUnchanged, WorseUnchanged DEF Due, Leads
<1>3. CASE Finish
  BY <1>1, <1>3 DEF Finish, Owed
<1>4. CASE UNCHANGED fifo
  <2>1. \A i \in Job : Waits(i)' <=> Waits(i)
    BY <1>1, <1>4, QueuesUnchanged DEF Waits
  <2>2. /\ AllShort(1)' <=> AllShort(1)
        /\ AllShort(2)' <=> AllShort(2)
        /\ \A c : ShortBut(c)' <=> ShortBut(c)
        /\ Covered' <=> Covered
    BY <1>1, <1>2, <2>1 DEF AllShort, ShortBut, Covered, Short
  <2>3. CASE EndDispatch
    <3>1. todo = {} /\ status = "dispatch" /\ status' = "events"
      BY <2>3 DEF EndDispatch
    <3>2. Covered => AllShort(1)
      BY <3>1 DEF Covered, AllShort
    <3> QED BY <1>1, <2>2, <3>1, <3>2 DEF Owed
  <2>4. CASE status' = status
    BY <1>1, <1>2, <2>2, <2>4 DEF Owed
  <2> QED BY <1>1, <1>3, <2>3, <2>4
<1> QED BY <1>1, <1>3, <1>4

(* Every step keeps the whole invariant. *)
LEMMA NextInv ==
  ASSUME UniformNeeds, IdsInOrder, Inv, [Next]_vars
  PROVE  Inv'
BY NextIInv, NextBooks, NextOrderly DEF Inv

(* Every step keeps what is owed. *)
LEMMA NextOwed ==
  ASSUME UniformNeeds, Inv, Inv', Owed, [Next]_vars
  PROVE  Owed'
<1>1. ASSUME NEW e \in events, NEW j \in Job, Arrive(e, j) PROVE Owed'
  BY <1>1, ArriveOwed
<1>2. ASSUME NEW e \in events, DispatchEvent(e) PROVE Owed'
  BY <1>2, DispatchEventOwed
<1>3. ASSUME NEW e \in events, Complete(e) PROVE Owed'
  BY <1>3, CompleteOwed
<1>4. ASSUME NEW c \in todo, Start(c) PROVE Owed'
  BY <1>4, StartOwed
<1>5. ASSUME NEW c \in todo, NEW v \in running, Preempt(c, v) PROVE Owed'
  BY <1>5, PreemptOwed
<1>6. ASSUME NEW c \in todo, Pass(c) PROVE Owed'
  BY <1>6, PassOwed
<1>7. CASE EndDispatch \/ Finish \/ Terminated \/ UNCHANGED vars
  BY <1>7, OtherOwed
<1> QED BY <1>1, <1>2, <1>3, <1>4, <1>5, <1>6, <1>7 DEF Next, Dispatch

(* What is owed is covered in every run. *)
LEMMA OwedHolds ==
  ASSUME UniformNeeds, IdsInOrder
  PROVE  Spec => []Owed
<1>1. Inv /\ Inv' /\ Owed /\ [Next]_vars => Owed'
  BY NextOwed
<1> QED BY <1>1, InitOwed, InvHolds, PTL DEF Spec

(* When no dispatch is due, no waiting job can get a place. *)
LEMMA NoneDue ==
  ASSUME UniformNeeds, Inv, Owed, Quiescent, NEW j \in Job, Waits(j)
  PROVE  ~ RoomIn(used, 1 - Worse(j))
<1>1. status = "events" /\ Due = {}
  <2> SUFFICES ASSUME NEW e \in events, e.time = now PROVE FALSE
    BY DEF Quiescent, Due
  <2>1. e.time > now /\ now \in Nat
    BY DEF Quiescent, Inv, IInv, TypeOK, KernelTypeOK
  <2> QED BY <2>1
<1>2. Cardinality(Due) = 0
  BY <1>1, FS_EmptySet
<1>3. ShortIn(used, Worse(j), 0 + 1)
  BY <1>1, <1>2 DEF Owed, AllShort, Short
<1> QED BY <1>3 DEF ShortIn

(* When nothing more happens at this time, no candidate fits into what is  *)
(* free: the arrivals, completions and dispatches of an instant leave no   *)
(* place a waiting job could take, although each of them starts its loop   *)
(* from the candidates at its own time only.                               *)
THEOREM NoPlaceIsWasted ==
  ASSUME UniformNeeds, IdsInOrder
  PROVE  Spec => []WorkConserving
<1>1. Inv /\ Owed => WorkConserving
  <2> SUFFICES ASSUME Inv, Owed, Quiescent, NEW c \in Candidates \ running, CanAllocate(c)
               PROVE  FALSE
    BY DEF WorkConserving
  <2>1. c \in Job /\ Waits(c) /\ used \in [Resource -> Nat]
    BY CandidatesWait, CandidatesAreJobs
       DEF Inv, BooksInv, IInv, TypeOK, ExecutionTypeOK
  <2>2. ~ RoomIn(used, 1 - Worse(c)) /\ Worse(c) \in Nat
    BY <2>1, NoneDue, InferiorFinite DEF Inv
  <2>3. ShortIn(used, Worse(c), 1)
    BY <2>2 DEF ShortIn
  <2>4. 1 - Worse(c) <= 1 - 0 /\ 0 \in Nat /\ 1 \in Int
    BY <2>2
  <2>5. ShortIn(used, 0, 1)
    BY <2>1, <2>2, <2>3, <2>4, ShortWeakens
  <2>6. RoomIn(used, 1 - 0)
    BY <2>1, NeedIsShared, RoomIsRoomIn
  <2> QED BY <2>5, <2>6 DEF ShortIn
<1> QED BY <1>1, InvHolds, OwedHolds, PTL

(* ... and none could take the place of a running job it precedes. *)
THEOREM NoPriorityIsInverted ==
  ASSUME UniformNeeds, IdsInOrder
  PROVE  Spec => []NoPriorityInversion
<1>1. Inv /\ Owed /\ CapacityRespected => NoPriorityInversion
  <2> SUFFICES ASSUME Inv, Owed, CapacityRespected, Quiescent, Preemption,
                      NEW c \in Candidates \ running, NEW v \in running, Precedes(c, v)
               PROVE  FALSE
    BY DEF NoPriorityInversion
  <2>1. c \in Job /\ Waits(c) /\ used \in [Resource -> Nat]
    BY CandidatesWait, CandidatesAreJobs
       DEF Inv, BooksInv, IInv, TypeOK, ExecutionTypeOK
  <2>2. ~ RoomIn(used, 1 - Worse(c)) /\ Worse(c) \in Nat /\ IsFiniteSet(Inferior(c))
    BY <2>1, NoneDue, InferiorFinite DEF Inv
  <2>3. Inferior(c) # {}
    BY DEF Inferior, MayPreempt
  <2>4. Worse(c) # 0
    BY <2>2, <2>3, FS_EmptySet DEF Worse
  <2>5. ShortIn(used, Worse(c), 1)
    BY <2>2 DEF ShortIn
  <2>6. 1 - Worse(c) <= 0 - 0 /\ 0 \in Nat /\ 1 \in Int /\ 0 \in Int
    BY <2>2, <2>4
  <2>7. ShortIn(used, 0, 0)
    BY <2>1, <2>2, <2>5, <2>6, ShortWeakens
  <2>8. RoomIn(used, 0 - 0)
    <3>1. \A r \in Resource : /\ Need(r) \in Nat /\ used[r] \in Nat
                              /\ Scenario.capacity[r] \in Nat
                              /\ used[r] <= Scenario.capacity[r]
      BY <2>1, NeedIsShared, RunnerAssumption DEF CapacityRespected, ScenarioLimits
    <3>2. \A r \in Resource : (0 - 0) * Need(r) = 0
      BY <3>1
    <3> QED BY <3>1, <3>2 DEF RoomIn
  <2> QED BY <2>7, <2>8 DEF ShortIn
<1> QED BY <1>1, InvHolds, OwedHolds, NeverOverAllocated, PTL

-----------------------------------------------------------------------------
(* No job is lost.                                                         *)
(*                                                                         *)
(* A suspended mailbox job is at no place _collect_candidates or a later   *)
(* arrival on its stream would find it waiting, and starting any job of    *)
(* the stream empties the mailbox.  Where the mailbox class has the        *)
(* highest priority, or nothing is suspended, this cannot happen.          *)
Kept ==
  status # "done" =>
    /\ \A j \in Job :
         (outcome[j] = "COMPLETED" /\ completeTime[j] = NoTime) \/ j \in admitted =>
           j \in running \/ Waits(j)
    /\ \A j \in preempted : Cls(j).policy = "fifo"
    /\ \A j \in running, i \in Job :
         Pending(i) /\ ClassOf[i] = ClassOf[j] => Precedes(j, i)
    /\ \A j \in todo : Waits(j)

(* No job is admitted when the run begins. *)
LEMMA InitKept == Init => Kept
BY DEF Init, Kept

(* What Reserve leaves of the set of admitted jobs. *)
LEMMA ReserveAdmitted ==
  ASSUME NEW old, NEW new, Reserve(old, new)
  PROVE  /\ admitted' \subseteq (admitted \ {old}) \cup {new}
         /\ new = NoJob => admitted' = admitted \ {old}
BY DEF Reserve

(* An arrival is queued, pending or refused; the job it displaces gives    *)
(* up its reservation.                                                     *)
LEMMA ArriveKept ==
  ASSUME IdsInOrder, Inv, Inv', Kept, NEW e \in events, NEW j \in Job, Arrive(e, j)
  PROVE  Kept'
<1> DEFINE old == mailbox[Stream(j)]
<1>1. /\ status = "events" /\ status' = "dispatch" /\ todo' = Candidates'
      /\ e.kind = "arrival" /\ e.job = j
      /\ UNCHANGED <<arrival, running, preempted, completeTime>>
      /\ j \notin running /\ j \notin admitted
      /\ ArriveReplacing(e, j) => old \in Job /\ Pending(old) /\ old # j
      /\ \A i \in Job : outcome'[i] =
           IF i = j
           THEN IF ArriveRejected(e, j) THEN "REJECTED"
                ELSE IF ArriveDropped(e, j) THEN "DROPPED" ELSE "COMPLETED"
           ELSE IF ArriveReplacing(e, j) /\ i = old
                THEN "REPLACED" ELSE outcome[i]
  BY ArriveFacts DEF Inv, executionVars
<1>2. /\ \A i \in Job : Queued(i)' <=> Queued(i) \/ (i = j /\ ArriveQueued(e, j))
      /\ \A i \in Job :
           Pending(i)' <=>
             \/ Pending(i) /\ ~ (ArriveReplacing(e, j) /\ i = old)
             \/ i = j /\ (ArrivePosted(e, j) \/ ArriveReplacing(e, j))
  BY ArriveQueues DEF Inv, BooksInv
<1>3. /\ Lines /\ ReleasesInOrder /\ arrival \in [Job -> Nat] /\ running \subseteq Job
      /\ \A i \in running : outcome[i] # "absent"
      /\ \A i \in Job : NoJob # i
  BY <1>1, OrderlyFacts, RunnerAssumption DEF Inv, OrderlyInv
<1>4. /\ ArriveRejected(e, j) \/ ArriveDropped(e, j) => admitted' = admitted
      /\ ArriveQueued(e, j) \/ ArrivePosted(e, j) => admitted' \subseteq admitted \cup {j}
      /\ ArriveReplacing(e, j) => admitted' \subseteq (admitted \ {old}) \cup {j}
  BY ReserveAdmitted
     DEF ArriveRejected, ArriveDropped, ArriveQueued, ArrivePosted, ArriveReplacing,
         admissionVars
<1> HIDE DEF old
<1>5. \A i \in Job : Waits(i)' <=>
        \/ Waits(i) /\ ~ (ArriveReplacing(e, j) /\ i = old /\ ~ Queued(i) /\ i \notin preempted)
        \/ i = j /\ (ArriveQueued(e, j) \/ ArrivePosted(e, j) \/ ArriveReplacing(e, j))
  BY <1>1, <1>2 DEF Waits
<1>6. ASSUME NEW i \in Job,
             (outcome'[i] = "COMPLETED" /\ completeTime[i] = NoTime) \/ i \in admitted'
      PROVE  i \in running \/ Waits(i)'
  <2>1. CASE i = j
    BY <1>1, <1>4, <1>5, <1>6, <2>1 DEF Arrive
  <2>2. CASE i # j /\ ArriveReplacing(e, j) /\ i = old
    BY <1>1, <1>4, <1>6, <2>2
  <2>3. CASE i # j /\ ~ (ArriveReplacing(e, j) /\ i = old)
    <3>1. (outcome[i] = "COMPLETED" /\ completeTime[i] = NoTime) \/ i \in admitted
      BY <1>1, <1>4, <1>6, <2>3 DEF Arrive
    <3> QED BY <1>1, <1>5, <2>3, <3>1 DEF Kept
  <2> QED BY <2>1, <2>2, <2>3
<1>7. ASSUME NEW k \in running, NEW i \in Job, Pending(i)', ClassOf[i] = ClassOf[k]
      PROVE  Precedes(k, i)
  <2>1. CASE i = j
    <3>1. k < j
      BY <1>1, <1>3, <1>7, <2>1 DEF Lines
    <3> QED BY <1>3, <1>7, <2>1, <3>1, ClassOrder
  <2>2. CASE i # j
    BY <1>1, <1>2, <1>7, <2>2 DEF Kept
  <2> QED BY <2>1, <2>2
<1>8. \A i \in todo' : Waits(i)'
  BY <1>1, CandidatesWaitNext DEF Inv, BooksInv, IInv, TypeOK
<1>9. \A i, k : Precedes(i, k)' <=> Precedes(i, k)
  BY <1>1, PrecedesUnchanged
<1> QED BY <1>1, <1>6, <1>7, <1>8, <1>9 DEF Kept

(* A completed job gives up its reservation. *)
LEMMA CompleteKept ==
  ASSUME Inv, Kept, NEW e \in events, Complete(e)
  PROVE  Kept'
<1> DEFINE j == e.job
<1>1. /\ status = "events" /\ j \in running /\ j \in Job
      /\ running' = running \ {j} /\ Reserve(j, NoJob)
      /\ outcome' = [outcome EXCEPT ![j] = "COMPLETED"]
      /\ completeTime' = [completeTime EXCEPT ![j] = e.time]
      /\ UNCHANGED <<arrival, preempted, queueVars, todo>>
  BY DEF Complete, Takes, Inv, IInv, CompletionDue, TypeOK, ExecutionTypeOK
<1>2. admitted' = admitted \ {j}
  BY <1>1, ReserveAdmitted
<1>3. /\ outcome \in [Job -> {"absent", "COMPLETED", "DROPPED", "REPLACED", "REJECTED"}]
      /\ completeTime \in [Job -> Nat \cup {NoTime}] /\ e.time \in Nat
  BY DEF Inv, IInv, TypeOK, OutcomeTypeOK, MetricTypeOK, KernelTypeOK, QueuedEvent
<1> HIDE DEF j
<1>4. \A i \in Job : (Waits(i)' <=> Waits(i)) /\ (Pending(i)' <=> Pending(i))
  BY <1>1, QueuesUnchanged DEF Waits
<1>5. \A i, k : Precedes(i, k)' <=> Precedes(i, k)
  BY <1>1, PrecedesUnchanged
<1>6. ASSUME NEW i \in Job,
             (outcome'[i] = "COMPLETED" /\ completeTime'[i] = NoTime) \/ i \in admitted'
      PROVE  i \in running' \/ Waits(i)'
  <2>1. i # j
    BY <1>1, <1>2, <1>3, <1>6 DEF NoTime
  <2>2. i \in running \/ Waits(i)
    BY <1>1, <1>2, <1>3, <1>6, <2>1 DEF Kept
  <2> QED BY <1>1, <1>4, <2>1, <2>2
<1>7. todo' = {}
  BY <1>1 DEF Inv, OrderlyInv, Reach
<1> QED BY <1>1, <1>4, <1>5, <1>6, <1>7 DEF Kept

(* A job that starts is the one that waited, and no other is taken away.   *)
LEMMA StartKept ==
  ASSUME UniformNeeds, Inv, Kept, NEW c \in todo, Start(c)
  PROVE  Kept'
<1>1. /\ status = "dispatch" /\ running' = running \cup {c} /\ preempted' = preempted \ {c}
      /\ todo' = todo \ {c} /\ Dequeue(c)
      /\ UNCHANGED <<arrival, admitted, outcome, completeTime, status>>
  BY DEF Start, Considers, metricVars, admissionVars
<1>2. /\ c \in Job /\ todo \subseteq Job
      /\ \A i \in Job : Queued(i)' => Queued(i)
      /\ \A i \in Job : Queued(i) /\ i # c => Queued(i)'
      /\ \A i \in Job : Pending(i)' => Pending(i) /\ i # c
      /\ \A i \in Job : Pending(i) /\ i # c =>
           Pending(i)' \/ (Cls(c).policy # "fifo" /\ Stream(i) = Stream(c))
  BY StartQueues, OrderlyFacts DEF Inv, BooksInv
<1>3. Cls(c).policy # "fifo" => mailbox[Stream(c)] = c
  <2>1. Cls(c).policy # "fifo" => Pending(c)
    BY <1>1, <1>2, OrderlyFacts DEF Kept, Waits, Inv
  <2> QED BY <1>2, <2>1, PendingAt DEF Inv, BooksInv
<1>4. \A i \in Job : Pending(i) /\ i # c => Pending(i)'
  <2>1. \A i \in Job : Pending(i) => mailbox[Stream(i)] = i
    BY PendingAt DEF Inv, BooksInv
  <2> QED BY <1>2, <1>3, <2>1
<1>5. \A i \in Job : Waits(i) /\ i # c => Waits(i)'
  BY <1>1, <1>2, <1>4 DEF Waits
<1>6. ASSUME NEW k \in running', NEW i \in Job, Pending(i)', ClassOf[i] = ClassOf[k]
      PROVE  Precedes(k, i)
  <2>1. CASE k = c
    <3>1. Cls(i) = Cls(c) /\ Stream(i) = Stream(c) /\ Pending(i) /\ i # c
      BY <1>2, <1>6, <2>1 DEF Cls, Stream
    <3>2. Cls(c).policy # "fifo" /\ mailbox[Stream(i)] = i
      BY <3>1, OrderlyFacts, PendingAt DEF Inv, BooksInv
    <3> QED BY <1>3, <3>1, <3>2
  <2>2. CASE k # c
    BY <1>1, <1>2, <1>6, <2>2 DEF Kept
  <2> QED BY <2>1, <2>2
<1>7. \A i, k : Precedes(i, k)' <=> Precedes(i, k)
  BY <1>1, PrecedesUnchanged
<1> QED BY <1>1, <1>2, <1>5, <1>6, <1>7 DEF Kept

(* A mailbox job is not suspended. *)
LEMMA PreemptKept ==
  ASSUME MailboxOnTop, Inv, Kept, NEW c \in todo, NEW v \in running, Preempt(c, v)
  PROVE  Kept'
<1>1. /\ status = "dispatch" /\ running' = running \ {v} /\ preempted' = preempted \cup {v}
      /\ MayPreempt(c, v)
      /\ UNCHANGED <<arrival, admitted, outcome, completeTime, todo, status>>
  BY DEF Preempt, Considers, admissionVars
<1>2. /\ c \in Job /\ v \in Job /\ arrival \in [Job -> Nat] /\ running \subseteq Job
      /\ todo \subseteq Job
  BY OrderlyFacts DEF Inv
<1>3. /\ \A i \in Job :
           Queued(i)' <=> Queued(i) \/ (i = v /\ Cls(v).policy = "fifo")
      /\ \A i \in Job : Pending(i)' <=> Pending(i)
  BY PreemptQueues DEF Inv, BooksInv
<1>4. Cls(v).policy = "fifo"
  <2> SUFFICES ASSUME Cls(v).policy # "fifo" PROVE FALSE
    OBVIOUS
  <2>1. /\ Precedes(c, v) /\ Preemption /\ ~ Precedes(v, c)
        /\ Cls(v).policy = "mailbox_latest"
    BY <1>1, <1>2, PrecedesIsTotal, RunnerAssumption DEF MayPreempt, Cls, WorkloadClass
  <2>2. ClassOf[c] = ClassOf[v]
    <3> SUFFICES ASSUME ClassOf[c] # ClassOf[v] PROVE FALSE
      OBVIOUS
    <3>1. Cls(c).priority < Cls(v).priority
      BY <1>2, <2>1 DEF MailboxOnTop
    <3>2. Precedes(v, c)
      BY <3>1, <1>2, RunnerAssumption DEF Precedes, Cls, WorkloadClass
    <3> QED BY <2>1, <3>2
  <2>3. Cls(c).policy # "fifo"
    BY <2>2 DEF Cls
  <2>4. Pending(c)
    BY <1>1, <1>2, <2>3, OrderlyFacts DEF Kept, Waits, Inv
  <2> QED BY <1>1, <1>2, <2>1, <2>2, <2>4 DEF Kept
<1>5. \A i \in Job : Waits(i) \/ i = v => Waits(i)'
  BY <1>1, <1>3 DEF Waits
<1>6. \A i, k : Precedes(i, k)' <=> Precedes(i, k)
  BY <1>1, PrecedesUnchanged
<1> QED BY <1>1, <1>2, <1>3, <1>4, <1>5, <1>6 DEF Kept

(* No other step touches reservations or places. *)
LEMMA OtherKept ==
  ASSUME Inv, Kept,
         \/ \E e \in events : DispatchEvent(e)
         \/ \E c \in todo : Pass(c)
         \/ EndDispatch \/ Finish \/ Terminated \/ UNCHANGED vars
  PROVE  Kept'
<1> USE DEF vars, kernelVars, executionVars, queueVars, metricVars, admissionVars
<1>1. CASE Finish
  BY <1>1 DEF Finish, Kept
<1>2. CASE ~ Finish
  <2>1. /\ UNCHANGED <<arrival, running, preempted, fifo, mailbox, admitted, outcome,
                       completeTime>>
        /\ todo' \subseteq todo \/ (todo' = Candidates)
        /\ status' # "done" => status # "done"
    BY <1>2 DEF DispatchEvent, Takes, Pass, Considers, EndDispatch, Terminated
  <2>2. \A i \in Job : (Waits(i)' <=> Waits(i)) /\ (Pending(i)' <=> Pending(i))
    BY <2>1, QueuesUnchanged DEF Waits
  <2>3. \A i, k : Precedes(i, k)' <=> Precedes(i, k)
    BY <2>1, PrecedesUnchanged
  <2>4. /\ \A i \in Candidates : Waits(i)
        /\ Candidates \subseteq Job /\ todo \subseteq Job
    BY CandidatesWait, CandidatesAreJobs DEF Inv, BooksInv, IInv, TypeOK
  <2> QED BY <2>1, <2>2, <2>3, <2>4 DEF Kept
<1> QED BY <1>1, <1>2

(* Every step keeps every admitted job. *)
LEMMA NextKept ==
  ASSUME UniformNeeds, IdsInOrder, MailboxOnTop, Inv, Inv', Kept, [Next]_vars
  PROVE  Kept'
<1>1. ASSUME NEW e \in events, NEW j \in Job, Arrive(e, j) PROVE Kept'
  BY <1>1, ArriveKept
<1>2. ASSUME NEW e \in events, DispatchEvent(e) PROVE Kept'
  BY <1>2, OtherKept
<1>3. ASSUME NEW e \in events, Complete(e) PROVE Kept'
  BY <1>3, CompleteKept
<1>4. ASSUME NEW c \in todo, Start(c) PROVE Kept'
  BY <1>4, StartKept
<1>5. ASSUME NEW c \in todo, NEW v \in running, Preempt(c, v) PROVE Kept'
  BY <1>5, PreemptKept
<1>6. ASSUME NEW c \in todo, Pass(c) PROVE Kept'
  BY <1>6, OtherKept
<1>7. CASE EndDispatch \/ Finish \/ Terminated \/ UNCHANGED vars
  BY <1>7, OtherKept
<1> QED BY <1>1, <1>2, <1>3, <1>4, <1>5, <1>6, <1>7 DEF Next, Dispatch

(* Between events a job that was accepted and has not met its fate runs or *)
(* waits, and so does a job that holds a reservation: no reservation is    *)
(* kept for a job that is nowhere.  The hypothesis on the mailbox class is *)
(* needed: without it the run runner_drain loses a suspended job.          *)
THEOREM NoJobIsLost ==
  ASSUME UniformNeeds, IdsInOrder, MailboxOnTop
  PROVE  Spec => []NothingLost
<1>1. Inv /\ Inv' /\ Kept /\ [Next]_vars => Kept'
  BY NextKept
<1>2. Kept => NothingLost
  BY DEF Kept, NothingLost, Waits
<1> QED BY <1>1, <1>2, InitKept, InvHolds, PTL DEF Spec
=============================================================================
