----------------------------- MODULE KernelProofs -----------------------------
(***************************************************************************)
(* Proofs about Kernel, for every dependency graph, every work and release *)
(* times, and every dispatcher of the kind it describes.                   *)
(***************************************************************************)
EXTENDS Kernel, FiniteSetTheorems, TLAPS

(* The events that complete jobs have one shape: the running jobs of D are *)
(* completed, pending jobs W whose predecessors are done get ready, and    *)
(* other jobs move between ready and running.                              *)
StateStep(D, W) ==
  /\ D \subseteq In("READY") \cup In("RUNNING")
  /\ W \subseteq In("PENDING")
  /\ \A i \in W : DependsOn[i] \subseteq Done \cup D
  /\ state' \in [Job -> JobState \cup {"absent"}]
  /\ \A i \in D : state'[i] = "COMPLETED"
  /\ \A i \in W : state'[i] = "READY"
  /\ \A i \in Job \ (D \cup W) :
       \/ state'[i] = state[i]
       \/ state[i] = "READY" /\ state'[i] = "RUNNING"
       \/ state[i] = "RUNNING" /\ state'[i] = "READY"

StateOK == state \in [Job -> JobState \cup {"absent"}]

DInv == StateOK /\ DependenciesRespected /\ CyclesNeverRun

-----------------------------------------------------------------------------
(* Dependencies.                                                           *)

(* Jobs made ready by a completion had their predecessors done. *)
LEMMA WokenFacts ==
  ASSUME NEW D, NEW t, NEW i \in Woken(D, t)
  PROVE  i \in In("PENDING") /\ DependsOn[i] \subseteq Done \cup D
BY DEF Woken, Satisfied

LEMMA SettleStep ==
  ASSUME StateOK, NEW e, NEW D \in SUBSET In("RUNNING"),
         NEW W \in SUBSET In("PENDING"),
         \A i \in W : DependsOn[i] \subseteq Done \cup D, Settle(e, D, W)
  PROVE  StateStep(D, W)
BY DEF StateStep, Settle, StateOK, JobState, In

LEMMA ReleaseStep ==
  ASSUME StateOK, NEW e \in events, ReleaseEvent(e)
  PROVE  \E D, W \in SUBSET Job : StateStep(D, W)
<1> DEFINE D == RunsOut(e.time)
           W == Woken(D, e.time) \cup
                  {i \in In("PENDING") : i = e.job /\ Satisfied(i, Done \cup D)}
<1>1. Settle(e, D, W)
  BY DEF ReleaseEvent
<1>2. D \subseteq In("RUNNING")
  BY DEF RunsOut
<1>3. \A i \in W : i \in In("PENDING") /\ DependsOn[i] \subseteq Done \cup D
  BY WokenFacts DEF Satisfied
<1> HIDE DEF D, W
<1>4. StateStep(D, W)
  BY <1>1, <1>2, <1>3, SettleStep
<1> QED BY <1>2, <1>3, <1>4 DEF In

LEMMA CompletionStep ==
  ASSUME StateOK, NEW e \in events, CompletionEvent(e)
  PROVE  \E D, W \in SUBSET Job : StateStep(D, W)
<1> DEFINE D == RunsOut(e.time) \cup (In("RUNNING") \cap {e.job})
           W == Woken(D, e.time)
<1>1. Settle(e, D, W)
  BY DEF CompletionEvent
<1>2. D \subseteq In("RUNNING")
  BY DEF RunsOut
<1>3. \A i \in W : i \in In("PENDING") /\ DependsOn[i] \subseteq Done \cup D
  BY WokenFacts
<1> HIDE DEF D, W
<1>4. StateStep(D, W)
  BY <1>1, <1>2, <1>3, SettleStep
<1> QED BY <1>2, <1>3, <1>4 DEF In

LEMMA DispatchStep ==
  ASSUME StateOK, NEW e \in events, NEW P \in SUBSET In("RUNNING"),
         NEW S \in SUBSET In("READY"), NEW F \in SUBSET (In("READY") \ S),
         DispatchEvent(e, P, S, F)
  PROVE  StateStep(F, Woken(F, e.time)) /\ F \subseteq Job
<1> DEFINE W == Woken(F, e.time)
           ready == (In("READY") \ (S \cup F)) \cup P \cup W
<1>1. state' = [i \in Job |-> IF i \in F THEN "COMPLETED"
                              ELSE IF i \in S THEN "RUNNING"
                              ELSE IF i \in ready THEN "READY" ELSE state[i]]
  BY DEF DispatchEvent
<1>2. \A i \in W : i \in In("PENDING") /\ DependsOn[i] \subseteq Done \cup F
  BY WokenFacts
<1> HIDE DEF W
<1>3. StateStep(F, W)
  BY <1>1, <1>2 DEF StateStep, StateOK, JobState, In
<1> QED BY <1>3 DEF W, In

LEMMA StepIsStateStep ==
  ASSUME StateOK, Step
  PROVE  \E D, W \in SUBSET Job : StateStep(D, W)
<1>1. PICK e \in events :
        \/ ReleaseEvent(e)
        \/ CompletionEvent(e)
        \/ \E P \in SUBSET In("RUNNING"), S \in SUBSET In("READY") :
             \E F \in SUBSET (In("READY") \ S) : DispatchEvent(e, P, S, F)
  BY DEF Step
<1>2. CASE ReleaseEvent(e)
  BY <1>2, ReleaseStep
<1>3. CASE CompletionEvent(e)
  BY <1>3, CompletionStep
<1>4. ASSUME NEW P \in SUBSET In("RUNNING"), NEW S \in SUBSET In("READY"),
             NEW F \in SUBSET (In("READY") \ S), DispatchEvent(e, P, S, F)
      PROVE  \E D, W \in SUBSET Job : StateStep(D, W)
  <2>1. StateStep(F, Woken(F, e.time)) /\ F \subseteq Job
    BY <1>4, DispatchStep
  <2>2. Woken(F, e.time) \subseteq Job
    BY DEF Woken, In
  <2> QED BY <2>1, <2>2
<1> QED BY <1>1, <1>2, <1>3, <1>4

(* Done jobs stay done and predecessors of what gets ready are done, so    *)
(* that the done jobs are closed under predecessors.  A job that leaves    *)
(* PENDING is therefore on no cycle, and a done job is on no cycle closed  *)
(* by jobs registered later.                                               *)
LEMMA StepDependencies ==
  ASSUME DInv, NEW D \in SUBSET Job, NEW W \in SUBSET Job, StateStep(D, W)
  PROVE  DInv'
<1>1. StateOK'
  BY DEF StateStep, StateOK
<1>2. Done' = Done \cup D
  BY DEF StateStep, StateOK, DInv, Done, In
<1>3. Registered' = Registered
  BY DEF StateStep, StateOK, DInv, Registered, In
<1>4. DependenciesRespected'
  BY <1>2 DEF DInv, DependenciesRespected, StateStep, In
<1>5. ASSUME NEW j \in Registered, OnCycle(j, Registered)
      PROVE  state'[j] \in {"PENDING", "REJECTED"}
  <2>1. j \in Job /\ state[j] \in {"PENDING", "REJECTED"}
    BY <1>5 DEF DInv, CyclesNeverRun, Registered
  <2>2. j \notin D
    BY <2>1 DEF StateStep, In
  <2>3. j \notin W
    <3>1. SUFFICES ASSUME j \in W PROVE FALSE
      OBVIOUS
    <3>2. DependsOn[j] \subseteq Done \cup D
      BY <3>1 DEF StateStep
    <3>3. \A i \in Done \cup D : DependsOn[i] \subseteq Done \cup D
      BY DEF DInv, DependenciesRespected, StateStep, Done, In
    <3>4. Done \cup D \in SUBSET Job
      BY DEF Done, In
    <3>5. j \in Done \cup D
      BY <1>5, <3>2, <3>3, <3>4 DEF OnCycle
    <3> QED BY <2>1, <2>2, <3>5 DEF Done, In
  <2> QED BY <2>1, <2>2, <2>3 DEF StateStep
<1>6. CyclesNeverRun'
  BY <1>3, <1>5 DEF CyclesNeverRun, OnCycle
<1> QED BY <1>1, <1>4, <1>6 DEF DInv

(* A job that is registered is not on a cycle if it gets ready at once;    *)
(* and it cannot close a cycle through a done job.                         *)
LEMMA RegisterDependencies ==
  ASSUME DInv, NEW j \in Job, NEW r \in ReleaseTimes, Register(j, r)
  PROVE  DInv'
<1> DEFINE cyclic == OnCycle(j, Registered)
           ready  == ~ cyclic /\ r = now /\ Satisfied(j, Done)
<1>1. /\ state[j] = "absent"
      /\ state' = [state EXCEPT ![j] = IF ready THEN "READY" ELSE "PENDING"]
  BY DEF Register
<1>2. Done' = Done /\ Registered' = Registered \cup {j}
  BY <1>1 DEF Done, Registered, In, DInv, StateOK
<1>3. StateOK'
  BY <1>1 DEF DInv, StateOK, JobState
<1>4. DependenciesRespected'
  BY <1>1, <1>2 DEF DInv, StateOK, DependenciesRespected, Satisfied
<1>5. Done \in SUBSET Job /\ j \notin Done
  BY <1>1 DEF Done, In
<1>6. \A i \in Done : DependsOn[i] \subseteq Done
  BY DEF DInv, DependenciesRespected, Done, In
<1>7. ASSUME NEW i \in Registered', OnCycle(i, Registered')
      PROVE  state'[i] \in {"PENDING", "REJECTED"}
  <2>1. CASE i = j
    <3>1. OnCycle(j, Registered)
      BY <1>2, <1>7, <2>1 DEF OnCycle
    <3> QED BY <1>1, <2>1, <3>1 DEF DInv, StateOK
  <2>2. CASE i # j
    <3>1. i \in Registered /\ i \in Job /\ state'[i] = state[i]
      BY <1>1, <1>2, <1>7, <2>2 DEF DInv, StateOK, Registered
    <3>2. SUFFICES ASSUME state[i] \notin {"PENDING", "REJECTED"} PROVE FALSE
      BY <3>1
    <3>3. DependsOn[i] \subseteq Done
      BY <3>1, <3>2 DEF DInv, StateOK, JobState, DependenciesRespected,
                        Registered, In
    <3>4. ~ OnCycle(i, Registered)
      BY <3>1, <3>2 DEF DInv, CyclesNeverRun
    <3>5. PICK C \in SUBSET Job :
            /\ DependsOn[i] \subseteq C /\ i \notin C
            /\ \A k \in C \cap Registered : DependsOn[k] \subseteq C
      BY <3>4 DEF OnCycle
    <3>6. Done \subseteq Registered
      BY DEF Done, Registered, In
    <3>7. \A k \in (C \cap Done) \cap Registered' :
            DependsOn[k] \subseteq C \cap Done
      BY <1>6, <3>5, <3>6
    <3>8. i \in C \cap Done
      BY <1>5, <1>7, <3>3, <3>5, <3>7 DEF OnCycle
    <3> QED BY <3>5, <3>8
  <2> QED BY <2>1, <2>2
<1>8. CyclesNeverRun'
  BY <1>7 DEF CyclesNeverRun, OnCycle
<1> QED BY <1>3, <1>4, <1>8 DEF DInv

LEMMA RejectDependencies ==
  ASSUME DInv, NEW j \in Job, Reject(j)
  PROVE  DInv'
<1>1. /\ state[j] \in {"PENDING", "READY"}
      /\ state' = [state EXCEPT ![j] = "REJECTED"]
  BY DEF Reject
<1>2. StateOK'
  BY <1>1 DEF DInv, StateOK, JobState
<1>3. Done' = Done /\ Registered' = Registered
  BY <1>1 DEF Done, Registered, In, DInv, StateOK
<1>4. DependenciesRespected'
  BY <1>1, <1>3 DEF DInv, StateOK, DependenciesRespected
<1>5. CyclesNeverRun'
  BY <1>1, <1>3 DEF DInv, StateOK, CyclesNeverRun, OnCycle, Registered
<1> QED BY <1>2, <1>4, <1>5 DEF DInv

LEMMA NextDependencies == DInv /\ [Next]_vars => DInv'
<1> SUFFICES ASSUME DInv, [Next]_vars PROVE DInv'
  OBVIOUS
<1>1. StateOK
  BY DEF DInv
<1>2. ASSUME Step PROVE DInv'
  BY <1>1, <1>2, StepIsStateStep, StepDependencies
<1>3. ASSUME Client PROVE DInv'
  BY <1>3, RejectDependencies, RegisterDependencies DEF Client
<1>4. CASE Stopped \/ UNCHANGED vars
  BY <1>4 DEF Stopped, vars, DInv, StateOK, DependenciesRespected,
              CyclesNeverRun, OnCycle, Registered, Done, In
<1> QED BY <1>2, <1>3, <1>4 DEF Next

LEMMA InitDependencies == Init => DInv
BY DEF Init, DInv, StateOK, DependenciesRespected, CyclesNeverRun, Registered, In

(* Whoever wakes a job (registration, release event or the completion of a *)
(* predecessor), it runs only after all its predecessors.                  *)
THEOREM DependenciesAreRespected == Spec => []DependenciesRespected
<1>1. DInv => DependenciesRespected
  BY DEF DInv
<1> QED BY <1>1, InitDependencies, NextDependencies, PTL DEF Spec

(* No job of a dependency cycle ever gets ready, in whatever order the     *)
(* jobs of the cycle are registered.                                       *)
THEOREM CyclesAreHarmless == Spec => []CyclesNeverRun
<1>1. DInv => CyclesNeverRun
  BY DEF DInv
<1> QED BY <1>1, InitDependencies, NextDependencies, PTL DEF Spec

-----------------------------------------------------------------------------
(* Refinement of the task graph.                                           *)
open == In("READY") \cup In("RUNNING")

LEMMA StepAdvances ==
  ASSUME DInv, NEW D \in SUBSET Job, NEW W \in SUBSET Job, StateStep(D, W)
  PROVE  Tasks!Advance(D, W)
<1>1. D \subseteq open
  BY DEF StateStep, open
<1>2. W \cap (open \cup Done \cup In("REJECTED")) = {}
  BY DEF StateStep, open, Done, In
<1>3. Done' = Done \cup D
  BY DEF StateStep, StateOK, DInv, Done, In
<1>4. open' = (open \ D) \cup W
  BY DEF StateStep, StateOK, DInv, open, In
<1>5. In("REJECTED")' = In("REJECTED")
  BY DEF StateStep, StateOK, DInv, In
<1> QED BY <1>1, <1>2, <1>3, <1>4, <1>5 DEF Tasks!Advance, StateStep, open

LEMMA RegisterAdvances ==
  ASSUME DInv, NEW j \in Job, NEW r \in ReleaseTimes, Register(j, r)
  PROVE  Tasks!Advance({}, {j}) \/ UNCHANGED <<open, Done, In("REJECTED")>>
<1> DEFINE ready == ~ OnCycle(j, Registered) /\ r = now /\ Satisfied(j, Done)
<1>1. /\ state[j] = "absent"
      /\ state' = [state EXCEPT ![j] = IF ready THEN "READY" ELSE "PENDING"]
  BY DEF Register
<1>2. Done' = Done /\ In("REJECTED")' = In("REJECTED")
  BY <1>1 DEF Done, In, DInv, StateOK
<1>3. CASE ready
  <2>1. open' = open \cup {j} /\ j \notin open \cup Done \cup In("REJECTED")
    BY <1>1, <1>3 DEF open, Done, In, DInv, StateOK
  <2>2. DependsOn[j] \subseteq Done
    BY <1>3 DEF Satisfied
  <2> QED BY <1>2, <2>1, <2>2 DEF Tasks!Advance, open
<1>4. CASE ~ ready
  <2>1. open' = open
    BY <1>1, <1>4 DEF open, In, DInv, StateOK
  <2> QED BY <1>2, <2>1
<1> QED BY <1>3, <1>4

LEMMA RejectRefuses ==
  ASSUME DInv, NEW j \in Job, Reject(j)
  PROVE  Tasks!Refuse(j)
<1>1. /\ state[j] \in {"PENDING", "READY"}
      /\ state' = [state EXCEPT ![j] = "REJECTED"]
  BY DEF Reject
<1>2. j \notin Done /\ Done' = Done
  BY <1>1 DEF Done, In, DInv, StateOK
<1>3. In("REJECTED")' = In("REJECTED") \cup {j} /\ open' = open \ {j}
  BY <1>1 DEF open, In, DInv, StateOK
<1> QED BY <1>2, <1>3 DEF Tasks!Refuse, open

LEMMA NextAdvances ==
  DInv /\ [Next]_vars => [Tasks!Next]_<<open, Done, In("REJECTED")>>
<1> SUFFICES ASSUME DInv, [Next]_vars
             PROVE  [Tasks!Next]_<<open, Done, In("REJECTED")>>
  OBVIOUS
<1>1. ASSUME NEW D \in SUBSET Job, NEW W \in SUBSET Job, StateStep(D, W)
      PROVE  Tasks!Next
  <2>1. Tasks!Advance(D, W) /\ D \in SUBSET open
    BY <1>1, StepAdvances DEF StateStep, open
  <2> QED BY <2>1 DEF Tasks!Next, open
<1>2. ASSUME Step PROVE Tasks!Next
  BY <1>1, <1>2, StepIsStateStep DEF DInv
<1>3. ASSUME NEW j \in Job, NEW r \in ReleaseTimes, Register(j, r)
      PROVE  [Tasks!Next]_<<open, Done, In("REJECTED")>>
  <2>1. CASE Tasks!Advance({}, {j})
    BY <2>1 DEF Tasks!Next
  <2>2. CASE UNCHANGED <<open, Done, In("REJECTED")>>
    BY <2>2
  <2> QED BY <1>3, <2>1, <2>2, RegisterAdvances
<1>4. ASSUME NEW j \in Job, Reject(j) PROVE Tasks!Next
  BY <1>4, RejectRefuses DEF Tasks!Next
<1>5. CASE Stopped \/ UNCHANGED vars
  BY <1>5 DEF Stopped, vars, open, Done, In
<1> QED BY <1>2, <1>3, <1>4, <1>5 DEF Next, Client

(* The kernel offers jobs to its dispatcher as the task graph allows, and  *)
(* done and refused are for ever (the property ImplementsTaskGraph).       *)
THEOREM KernelImplementsTaskGraph == Spec => ImplementsTaskGraph
<1>1. ASSUME Init PROVE Tasks!Init
  BY <1>1 DEF Init, Tasks!Init, Done, In
<1> QED BY <1>1, InitDependencies, NextDependencies, NextAdvances, PTL
        DEF Spec, ImplementsTaskGraph, Tasks!Spec, Tasks!vars, open

-----------------------------------------------------------------------------
(* The clock and the event queue.                                          *)

(* A queue at time t: well-typed events, none of them overdue. *)
QueueAt(Q, t) ==
  /\ Q \subseteq QueuedEvent
  /\ \A f \in Q : f.kind = "dispatch" <=> f.job = NoJob
  /\ \A f \in Q : f.time >= t

(* At most one dispatch is queued at time t, the one d remembers. *)
Coalesced(Q, d, t) ==
  /\ \A f, g \in Q : f.kind = "dispatch" /\ g.kind = "dispatch" => f = g
  /\ d # NoTime <=> \E f \in Q : f.kind = "dispatch"
  /\ \A f \in Q : f.kind = "dispatch"
                    => f.time = d /\ f.time = t /\ f.phase = DISPATCH

NotPast == \A e \in events : e.time >= now

IInv == TypeOK /\ NotPast /\ CompletionDue /\ CoalescedDispatch

LEMMA QueueOfIInv ==
  IInv => QueueAt(events, now) /\ Coalesced(events, nextDispatch, now)
BY DEF IInv, TypeOK, NotPast, CoalescedDispatch, QueueAt, Coalesced

LEMMA CoalescedIs ==
  ASSUME Coalesced(events, nextDispatch, now)'
  PROVE  CoalescedDispatch'
BY DEF Coalesced, CoalescedDispatch

(* _schedule_dispatch adds at most a dispatch event, and none to another.  *)
LEMMA ScheduleFacts ==
  ASSUME NEW Q, NEW n \in Nat, NEW d \in Nat \cup {NoTime}, NEW t \in Nat,
         NEW wanted \in BOOLEAN, QueueAt(Q, t), Coalesced(Q, d, t),
         ScheduleDispatch(Q, n, d, t, wanted)
  PROVE  /\ nextSeq' \in Nat /\ nextDispatch' \in Nat \cup {NoTime}
         /\ QueueAt(events', t)
         /\ Coalesced(events', nextDispatch', t)
         /\ Q \subseteq events'
         /\ \A f \in events' : f.kind # "dispatch" => f \in Q
         /\ wanted => \E f \in events' : f.kind = "dispatch"
<1> DEFINE new == Event(t, DISPATCH, n, "dispatch", NoJob)
<1>1. new \in QueuedEvent /\ new.kind = "dispatch" /\ new.job = NoJob
        /\ new.time = t /\ new.phase = DISPATCH
  BY DEF Event, QueuedEvent, EventPhase, DISPATCH
<1>2. t # NoTime
  BY DEF NoTime
<1> HIDE DEF new
<1>3. CASE wanted /\ ~ Asked(d, t)
  <2>1. events' = Q \cup {new} /\ nextSeq' = n + 1 /\ nextDispatch' = t
    BY <1>3 DEF ScheduleDispatch, new
  <2>2. \A f \in Q : f.kind # "dispatch"
    BY <1>3 DEF Coalesced, Asked
  <2>3. QueueAt(events', t)
    BY <1>1, <2>1 DEF QueueAt
  <2>4. Coalesced(events', nextDispatch', t)
    BY <1>1, <1>2, <2>1, <2>2 DEF Coalesced
  <2> QED BY <1>1, <2>1, <2>3, <2>4
<1>4. CASE ~ (wanted /\ ~ Asked(d, t))
  <2>1. events' = Q /\ nextSeq' = n /\ nextDispatch' = d
    BY <1>4 DEF ScheduleDispatch
  <2>2. wanted => d # NoTime
    BY <1>4 DEF Asked
  <2> QED BY <2>1, <2>2 DEF Coalesced
<1> QED BY <1>3, <1>4

(* What the clock does to the running jobs: the next event is not after    *)
(* the completion of any of them, so that no job is overcharged and those  *)
(* that are not completed keep their due time.                             *)
LEMMA ClockFacts ==
  ASSUME IInv, NEW e \in events, IsFirst(e, events), NEW i \in In("RUNNING")
  PROVE  \E f \in CompletionsOf(i) :
           /\ CompletionsOf(i) = {f}
           /\ f.time = now + remaining[i] /\ e.time <= f.time
           /\ Charged(i, e.time) \in Nat
           /\ f.time = e.time + Charged(i, e.time)
           /\ i \notin RunsOut(e.time) => e.time = now \/ e.time < f.time
<1>1. PICK f \in CompletionsOf(i) :
        f.time = now + remaining[i] /\ CompletionsOf(i) = {f}
  BY DEF IInv, CompletionDue
<1>2. /\ f \in events /\ f.time \in Nat /\ e.time \in Nat /\ now \in Nat
      /\ e.time >= now /\ i \in Job /\ remaining[i] \in Nat
      /\ state[i] = "RUNNING"
  BY DEF CompletionsOf, IInv, TypeOK, QueuedEvent, NotPast, In
<1>3. e.time <= f.time
  BY <1>2 DEF IsFirst, Before
<1>4. Charged(i, e.time) = remaining[i] - (e.time - now)
  BY <1>2 DEF Charged
<1>5. i \notin RunsOut(e.time) => e.time = now \/ e.time < f.time
  BY <1>1, <1>2 DEF RunsOut, In
<1> QED BY <1>1, <1>2, <1>3, <1>4, <1>5

(* Without the event that is taken, the queue is one of that event's time. *)
LEMMA TakenQueue ==
  ASSUME IInv, NEW e \in events, IsFirst(e, events), e.kind # "dispatch"
  PROVE  /\ e.time \in Nat /\ e.time >= now /\ now \in Nat
         /\ QueueAt(events \ {e}, e.time)
         /\ Coalesced(events \ {e}, nextDispatch, e.time)
<1>1. /\ \A f \in events : f.time \in Nat /\ f.time >= now
      /\ now \in Nat
  BY DEF IInv, TypeOK, QueuedEvent, NotPast
<1>2. \A f \in events \ {e} : f.time >= e.time
  BY <1>1 DEF IsFirst, Before
<1>3. QueueAt(events \ {e}, e.time)
  BY <1>2, QueueOfIInv DEF QueueAt
<1>4. Coalesced(events \ {e}, nextDispatch, e.time)
  BY <1>1, <1>2, QueueOfIInv DEF Coalesced
<1> QED BY <1>1, <1>3, <1>4

LEMMA SettleQueue ==
  ASSUME IInv, NEW e \in events, IsFirst(e, events), e.kind # "dispatch",
         NEW D, NEW W, Settle(e, D, W)
  PROVE  /\ nextSeq' \in Nat /\ nextDispatch' \in Nat \cup {NoTime}
         /\ QueueAt(events', e.time)
         /\ Coalesced(events', nextDispatch', e.time)
         /\ events \ {e} \subseteq events'
         /\ \A f \in events' : f.kind # "dispatch" => f \in events \ {e}
         /\ W # {} \/ (D # {} /\ In("READY") # {})
              => \E f \in events' : f.kind = "dispatch"
<1> DEFINE wanted == W # {} \/ (D # {} /\ In("READY") # {})
<1>1. ScheduleDispatch(events \ {e}, nextSeq, nextDispatch, e.time, wanted)
  BY DEF Settle
<1>2. wanted \in BOOLEAN /\ nextSeq \in Nat
        /\ nextDispatch \in Nat \cup {NoTime}
  BY DEF IInv, TypeOK
<1> HIDE DEF wanted
<1>3. /\ nextSeq' \in Nat /\ nextDispatch' \in Nat \cup {NoTime}
      /\ QueueAt(events', e.time)
      /\ Coalesced(events', nextDispatch', e.time)
      /\ events \ {e} \subseteq events'
      /\ \A f \in events' : f.kind # "dispatch" => f \in events \ {e}
      /\ wanted => \E f \in events' : f.kind = "dispatch"
  BY <1>1, <1>2, TakenQueue, ScheduleFacts
<1> QED BY <1>3 DEF wanted

(* A release or completion event. *)
LEMMA SettleKeeps ==
  ASSUME IInv, NEW e \in events, Takes(e), e.kind # "dispatch",
         NEW D \in SUBSET In("RUNNING"), RunsOut(e.time) \subseteq D,
         \A i \in D : i \in RunsOut(e.time)
                        \/ (i = e.job /\ e.kind = "complete"),
         e.kind = "complete" /\ e.job \in In("RUNNING") => e.job \in D,
         NEW W \in SUBSET In("PENDING"), Settle(e, D, W)
  PROVE  IInv'
<1>1. IsFirst(e, events) /\ now' = e.time
  BY DEF Takes
<1>2. /\ e.time \in Nat /\ e.time >= now /\ now \in Nat
      /\ QueueAt(events \ {e}, e.time)
      /\ Coalesced(events \ {e}, nextDispatch, e.time)
  BY <1>1, TakenQueue
<1>3. /\ state' = [i \in Job |-> IF i \in D THEN "COMPLETED"
                                 ELSE IF i \in W THEN "READY" ELSE state[i]]
      /\ remaining' = [i \in Job |-> IF i \in D THEN 0
                                     ELSE Charged(i, e.time)]
      /\ status' \in {"events", "raised"}
      /\ release' = release
  BY DEF Settle
<1>4. /\ nextSeq' \in Nat /\ nextDispatch' \in Nat \cup {NoTime}
      /\ QueueAt(events', e.time)
      /\ Coalesced(events', nextDispatch', e.time)
      /\ events \ {e} \subseteq events'
      /\ \A f \in events' : f.kind # "dispatch" => f \in events \ {e}
  BY <1>1, SettleQueue
<1>5. state \in [Job -> JobState \cup {"absent"}] /\ remaining \in [Job -> Nat]
  BY DEF IInv, TypeOK
<1>6. \A i \in Job \ D : Charged(i, e.time) \in Nat
  BY <1>1, <1>5, ClockFacts DEF Charged, In
<1>7. TypeOK'
  <2>1. state' \in [Job -> JobState \cup {"absent"}]
    BY <1>3, <1>5 DEF JobState
  <2>2. remaining' \in [Job -> Nat]
    BY <1>3, <1>6
  <2> QED BY <1>1, <1>2, <1>3, <1>4, <2>1, <2>2 DEF IInv, TypeOK, QueueAt
<1>8. NotPast' /\ CoalescedDispatch'
  BY <1>1, <1>4 DEF NotPast, QueueAt, Coalesced, CoalescedDispatch
<1>9. In("RUNNING")' = In("RUNNING") \ D
  BY <1>3 DEF In
<1>10. Done' = Done \cup D
  BY <1>3 DEF Done, In
<1>11. ASSUME NEW i \in In("RUNNING")'
       PROVE  \E f \in CompletionsOf(i)' :
                f.time = now' + remaining'[i] /\ CompletionsOf(i)' = {f}
  <2>1. i \in In("RUNNING") /\ i \notin D /\ i \in Job
    BY <1>9, <1>11 DEF In
  <2>2. PICK f \in CompletionsOf(i) :
          CompletionsOf(i) = {f} /\ f.time = e.time + Charged(i, e.time)
    BY <1>1, <2>1, ClockFacts
  <2>3. f # e
    BY <2>1, <2>2 DEF CompletionsOf
  <2>4. CompletionsOf(i)' = {f}
    BY <1>4, <2>2, <2>3 DEF CompletionsOf
  <2> QED BY <1>1, <1>3, <2>1, <2>2, <2>4
<1>12. ASSUME NEW g \in events', g.kind = "complete", g.job \notin In("RUNNING")'
       PROVE  g.job \in Done' /\ g.time = now'
  <2>1. g \in events /\ g # e
    BY <1>4, <1>12
  <2>2. CASE g.job \in In("RUNNING")
    <3>1. g.job \in D
      BY <1>9, <1>12, <2>2
    <3>2. g \in CompletionsOf(g.job)
      BY <1>12, <2>1 DEF CompletionsOf
    <3>3. PICK f \in CompletionsOf(g.job) :
            /\ CompletionsOf(g.job) = {f}
            /\ f.time = now + remaining[g.job] /\ e.time <= f.time
      BY <1>1, <2>2, ClockFacts
    <3>4. ~ (g.job = e.job /\ e.kind = "complete")
      BY <2>1, <3>2, <3>3 DEF CompletionsOf
    <3>5. g.job \in RunsOut(e.time)
      BY <3>1, <3>4
    <3>6. g.time = e.time
      BY <1>2, <1>5, <3>2, <3>3, <3>5 DEF RunsOut, In
    <3> QED BY <1>1, <1>10, <3>1, <3>6
  <2>3. CASE g.job \notin In("RUNNING")
    <3>1. g.job \in Done /\ g.time = now
      BY <1>12, <2>1, <2>3 DEF IInv, CompletionDue
    <3>2. g.time >= e.time
      BY <1>2, <2>1 DEF QueueAt
    <3> QED BY <1>1, <1>2, <1>10, <3>1, <3>2
  <2> QED BY <2>2, <2>3
<1>13. CompletionDue'
  BY <1>11, <1>12 DEF CompletionDue
<1> QED BY <1>7, <1>8, <1>13 DEF IInv

LEMMA ReleaseKeeps ==
  ASSUME IInv, NEW e \in events, ReleaseEvent(e)
  PROVE  IInv'
<1> DEFINE D == RunsOut(e.time)
           W == Woken(D, e.time) \cup
                  {i \in In("PENDING") : i = e.job /\ Satisfied(i, Done \cup D)}
<1>1. Takes(e) /\ e.kind = "release" /\ Settle(e, D, W)
  BY DEF ReleaseEvent
<1>2. D \in SUBSET In("RUNNING") /\ W \in SUBSET In("PENDING")
  BY DEF RunsOut, Woken
<1>3. RunsOut(e.time) = D
  OBVIOUS
<1> HIDE DEF D, W
<1> QED BY <1>1, <1>2, <1>3, SettleKeeps

LEMMA CompletionKeeps ==
  ASSUME IInv, NEW e \in events, CompletionEvent(e)
  PROVE  IInv'
<1> DEFINE D == RunsOut(e.time) \cup (In("RUNNING") \cap {e.job})
           W == Woken(D, e.time)
<1>1. Takes(e) /\ e.kind = "complete" /\ Settle(e, D, W)
  BY DEF CompletionEvent
<1>2. D \in SUBSET In("RUNNING") /\ W \in SUBSET In("PENDING")
  BY DEF RunsOut, Woken
<1>3. /\ RunsOut(e.time) \subseteq D
      /\ \A i \in D : i \in RunsOut(e.time) \/ i = e.job
      /\ e.job \in In("RUNNING") => e.job \in D
  OBVIOUS
<1> HIDE DEF D, W
<1> QED BY <1>1, <1>2, <1>3, SettleKeeps

(* Completions of the jobs a dispatcher starts. *)
LEMMA CompletionsFacts ==
  ASSUME IInv, NEW S \in SUBSET In("READY")
  PROVE  /\ \A f \in Completions(S) :
              /\ f \in QueuedEvent /\ f.kind = "complete" /\ f.job \in S
              /\ f.time = now + remaining[f.job] /\ f.time >= now
              /\ f.job # NoJob
         /\ \A j \in S : \E f \in Completions(S) :
              \A g \in Completions(S) : g.job = j <=> g = f
<1>1. S \subseteq Job /\ NoJob \notin S
  BY KernelAssumption DEF In
<1>2. \A j \in S : Cardinality({i \in S : i < j}) \in Nat
  <2> TAKE j \in S
  <2>1. IsFiniteSet({i \in S : i < j})
    BY <1>1, FS_Subset, KernelAssumption
  <2> QED BY <2>1, FS_CardinalityType
<1>3. now \in Nat /\ nextSeq \in Nat /\ remaining \in [Job -> Nat]
  BY DEF IInv, TypeOK
<1> DEFINE c(j) == Event(now + remaining[j], TIMER,
                     nextSeq + Cardinality({i \in S : i < j}), "complete", j)
<1>4. \A j \in S : /\ c(j) \in QueuedEvent
                   /\ c(j).kind = "complete" /\ c(j).job = j
                   /\ c(j).time = now + remaining[j]
  BY <1>1, <1>2, <1>3 DEF Event, QueuedEvent, EventPhase, TIMER
<1>5. Completions(S) = {c(j) : j \in S}
  BY DEF Completions
<1> HIDE DEF c
<1>6. ASSUME NEW f \in Completions(S)
      PROVE  /\ f \in QueuedEvent /\ f.kind = "complete" /\ f.job \in S
             /\ f.time = now + remaining[f.job] /\ f.time >= now
             /\ f.job # NoJob
  <2>1. PICK j \in S : f = c(j)
    BY <1>5
  <2> QED BY <1>1, <1>3, <1>4, <2>1
<1>7. ASSUME NEW j \in S
      PROVE  \E f \in Completions(S) :
               \A g \in Completions(S) : g.job = j <=> g = f
  BY <1>4, <1>5
<1> QED BY <1>6, <1>7

LEMMA DispatchKeeps ==
  ASSUME IInv, NEW e \in events, NEW P \in SUBSET In("RUNNING"),
         NEW S \in SUBSET In("READY"), NEW F \in SUBSET (In("READY") \ S),
         DispatchEvent(e, P, S, F)
  PROVE  IInv'
<1> DEFINE W      == Woken(F, e.time)
           ready  == (In("READY") \ (S \cup F)) \cup P \cup W
           wanted == F # {} /\ (Cardinality(F) > 1 \/ ready # {})
           Q      == (Uncompleted(P) \ {e}) \cup Completions(S)
           n      == nextSeq + Cardinality(S)
<1>1. /\ Takes(e) /\ e.kind = "dispatch"
      /\ state' = [i \in Job |-> IF i \in F THEN "COMPLETED"
                                 ELSE IF i \in S THEN "RUNNING"
                                 ELSE IF i \in ready THEN "READY" ELSE state[i]]
      /\ remaining' = [i \in Job |-> IF i \in F THEN 0 ELSE remaining[i]]
      /\ ScheduleDispatch(Q, n, NoTime, e.time, wanted)
      /\ status' \in {"events", "raised"} /\ release' = release
  BY DEF DispatchEvent, Forgotten
<1>2. W \subseteq In("PENDING") /\ wanted \in BOOLEAN
  BY DEF Woken
<1> HIDE DEF W, wanted
<1>3. /\ e.time = now /\ now' = now /\ now \in Nat
      /\ state \in [Job -> JobState \cup {"absent"}]
      /\ remaining \in [Job -> Nat] /\ release \in [Job -> Nat]
  BY <1>1 DEF Takes, IInv, TypeOK, CoalescedDispatch
<1>4. n \in Nat
  <2>1. S \subseteq Job
    BY DEF In
  <2>2. Cardinality(S) \in Nat
    BY <2>1, FS_Subset, FS_CardinalityType, KernelAssumption
  <2> QED BY <2>2 DEF IInv, TypeOK
<1>5. \A f \in Uncompleted(P) \ {e} : f \in events /\ f.kind # "dispatch"
  BY <1>1, QueueOfIInv DEF Uncompleted, Coalesced
<1>6. QueueAt(Q, now)
  BY <1>5, CompletionsFacts, QueueOfIInv DEF QueueAt
<1>7. Coalesced(Q, NoTime, now)
  BY <1>5, CompletionsFacts DEF Coalesced
<1>8. /\ nextSeq' \in Nat /\ nextDispatch' \in Nat \cup {NoTime}
      /\ QueueAt(events', now)
      /\ Coalesced(events', nextDispatch', now)
      /\ Q \subseteq events'
      /\ \A f \in events' : f.kind # "dispatch" => f \in Q
  <2> HIDE DEF Q, n, ready
  <2>1. ScheduleDispatch(Q, n, NoTime, now, wanted)
    BY <1>1, <1>3
  <2>2. NoTime \in Nat \cup {NoTime}
    OBVIOUS
  <2>3. now \in Nat /\ wanted \in BOOLEAN
    BY <1>2, <1>3
  <2>4. \A d \in Nat \cup {NoTime} : \A t \in Nat : \A w \in BOOLEAN :
          QueueAt(Q, t) /\ Coalesced(Q, d, t) /\ ScheduleDispatch(Q, n, d, t, w)
          => /\ nextSeq' \in Nat /\ nextDispatch' \in Nat \cup {NoTime}
             /\ QueueAt(events', t)
             /\ Coalesced(events', nextDispatch', t)
             /\ Q \subseteq events'
             /\ \A f \in events' : f.kind # "dispatch" => f \in Q
    BY <1>4, ScheduleFacts
  <2> QED BY <1>6, <1>7, <2>1, <2>2, <2>3, <2>4
<1>9. TypeOK'
  <2>1. state' \in [Job -> JobState \cup {"absent"}]
    BY <1>1, <1>3 DEF JobState
  <2>2. remaining' \in [Job -> Nat]
    BY <1>1, <1>3
  <2> QED BY <1>1, <1>3, <1>8, <2>1, <2>2 DEF TypeOK, QueueAt
<1>10. NotPast' /\ CoalescedDispatch'
  BY <1>3, <1>8 DEF NotPast, QueueAt, Coalesced, CoalescedDispatch
<1>11. In("RUNNING")' = (In("RUNNING") \ P) \cup S
  BY <1>1, <1>2 DEF In
<1>12. Done \subseteq Done'
  BY <1>1, <1>2 DEF Done, In
<1>13. \A i \in S : CompletionsOf(i) = {}
  BY DEF CompletionsOf, IInv, CompletionDue, In, Done
<1>14. ASSUME NEW i \in In("RUNNING")'
       PROVE  \E f \in CompletionsOf(i)' :
                f.time = now' + remaining'[i] /\ CompletionsOf(i)' = {f}
  <2>1. i \in Job /\ remaining'[i] = remaining[i]
    BY <1>1, <1>11, <1>14 DEF In
  <2>2. CASE i \in S
    <3>1. PICK f \in Completions(S) :
            \A g \in Completions(S) : g.job = i <=> g = f
      BY <2>2, CompletionsFacts
    <3>2. /\ f.kind = "complete" /\ f.job = i
          /\ f.time = now + remaining[i]
      BY <3>1, CompletionsFacts
    <3>3. CompletionsOf(i)' = {f}
      BY <1>5, <1>8, <1>13, <2>2, <3>1, <3>2 DEF CompletionsOf
    <3> QED BY <1>3, <2>1, <3>2, <3>3
  <2>3. CASE i \in In("RUNNING") \ P /\ i \notin S
    <3>1. PICK f \in CompletionsOf(i) :
            f.time = now + remaining[i] /\ CompletionsOf(i) = {f}
      BY <2>3 DEF IInv, CompletionDue
    <3>2. f \in Uncompleted(P) \ {e}
      BY <1>1, <2>3, <3>1 DEF CompletionsOf, Uncompleted
    <3>3. CompletionsOf(i)' = {f}
      BY <1>5, <1>8, <2>3, <3>1, <3>2, CompletionsFacts DEF CompletionsOf
    <3> QED BY <1>3, <2>1, <3>1, <3>3
  <2> QED BY <1>11, <1>14, <2>2, <2>3
<1>15. ASSUME NEW g \in events', g.kind = "complete", g.job \notin In("RUNNING")'
       PROVE  g.job \in Done' /\ g.time = now'
  <2>1. g \in Uncompleted(P)
    BY <1>8, <1>11, <1>15, CompletionsFacts
  <2>2. g \in events /\ g.job \notin In("RUNNING")
    BY <1>11, <1>15, <2>1 DEF Uncompleted
  <2> QED BY <1>3, <1>12, <1>15, <2>2 DEF IInv, CompletionDue
<1>16. CompletionDue'
  BY <1>14, <1>15 DEF CompletionDue
<1> QED BY <1>9, <1>10, <1>16 DEF IInv

LEMMA RegisterKeeps ==
  ASSUME IInv, NEW j \in Job, NEW r \in ReleaseTimes, Register(j, r)
  PROVE  IInv'
<1> DEFINE cyclic == OnCycle(j, Registered)
           ready  == ~ cyclic /\ r = now /\ Satisfied(j, Done)
           later  == ~ cyclic /\ r > now
           new    == Event(r, RELEASE, nextSeq, "release", j)
<1>1. /\ state[j] = "absent" /\ r >= now
      /\ release' = [release EXCEPT ![j] = r]
      /\ remaining' = [remaining EXCEPT ![j] = Work[j]]
      /\ state' = [state EXCEPT ![j] = IF ready THEN "READY" ELSE "PENDING"]
      /\ IF later THEN /\ events' = events \cup {new}
                       /\ nextSeq' = nextSeq + 1
                       /\ nextDispatch' = nextDispatch
                  ELSE ScheduleDispatch(events, nextSeq, nextDispatch, r, ready)
      /\ now' = now /\ status' = status
  BY DEF Register
<1>2. /\ r \in Nat /\ now \in Nat /\ nextSeq \in Nat /\ j # NoJob
      /\ nextDispatch \in Nat \cup {NoTime} /\ Work[j] \in Nat
      /\ state \in [Job -> JobState \cup {"absent"}]
      /\ remaining \in [Job -> Nat] /\ release \in [Job -> Nat]
  BY KernelAssumption DEF IInv, TypeOK
<1>3. QueueAt(events, now) /\ Coalesced(events, nextDispatch, now)
  BY QueueOfIInv
<1>4. ready => r = now
  OBVIOUS
<1> HIDE DEF ready, later
<1>5. /\ nextSeq' \in Nat /\ nextDispatch' \in Nat \cup {NoTime}
      /\ QueueAt(events', now)
      /\ Coalesced(events', nextDispatch', now)
      /\ events \subseteq events'
      /\ \A f \in events' : f.kind = "complete" => f \in events
  <2>1. CASE later
    <3>1. /\ new \in QueuedEvent /\ new.kind = "release" /\ new.job = j
          /\ new.time = r
      BY <1>2 DEF Event, QueuedEvent, EventPhase, RELEASE
    <3>2. events' = events \cup {new} /\ nextSeq' = nextSeq + 1
            /\ nextDispatch' = nextDispatch
      BY <1>1, <2>1
    <3> HIDE DEF new
    <3>3. QueueAt(events', now)
      BY <1>1, <1>2, <1>3, <3>1, <3>2 DEF QueueAt
    <3>4. Coalesced(events', nextDispatch', now)
      BY <1>3, <3>1, <3>2 DEF Coalesced
    <3> QED BY <1>2, <3>1, <3>2, <3>3, <3>4
  <2>2. CASE ~ later /\ ready
    <3>1. ScheduleDispatch(events, nextSeq, nextDispatch, now, TRUE)
      BY <1>1, <1>4, <2>2
    <3> QED BY <1>2, <1>3, <3>1, ScheduleFacts
  <2>3. CASE ~ later /\ ~ ready
    <3>1. events' = events /\ nextSeq' = nextSeq
            /\ nextDispatch' = nextDispatch
      BY <1>1, <2>3 DEF ScheduleDispatch
    <3> QED BY <1>2, <1>3, <3>1
  <2> QED BY <2>1, <2>2, <2>3
<1>6. TypeOK'
  BY <1>1, <1>2, <1>5 DEF IInv, TypeOK, QueueAt, JobState
<1>7. NotPast' /\ CoalescedDispatch'
  BY <1>1, <1>5 DEF NotPast, QueueAt, Coalesced, CoalescedDispatch
<1>8. In("RUNNING")' = In("RUNNING") /\ Done' = Done
  BY <1>1, <1>2 DEF In, Done
<1>9. \A i \in Job : CompletionsOf(i)' = CompletionsOf(i)
  BY <1>5 DEF CompletionsOf
<1>10. \A i \in In("RUNNING") : i \in Job /\ remaining'[i] = remaining[i]
  BY <1>1, <1>2 DEF In
<1>11. CompletionDue'
  BY <1>1, <1>5, <1>8, <1>9, <1>10 DEF IInv, CompletionDue
<1> QED BY <1>6, <1>7, <1>11 DEF IInv

LEMMA RejectKeeps ==
  ASSUME IInv, NEW j \in Job, Reject(j)
  PROVE  IInv'
<1>1. /\ state[j] \in {"PENDING", "READY"}
      /\ state' = [state EXCEPT ![j] = "REJECTED"]
      /\ UNCHANGED <<now, events, nextSeq, release, remaining, nextDispatch,
                     status>>
  BY DEF Reject
<1>2. TypeOK'
  BY <1>1 DEF IInv, TypeOK, JobState, QueuedEvent
<1>3. In("RUNNING")' = In("RUNNING") /\ Done' = Done
  BY <1>1 DEF In, Done, IInv, TypeOK
<1>4. CompletionDue' /\ NotPast' /\ CoalescedDispatch'
  BY <1>1, <1>3 DEF IInv, CompletionDue, CompletionsOf, NotPast,
                    CoalescedDispatch
<1> QED BY <1>2, <1>4 DEF IInv

LEMMA InitIInv == Init => IInv
BY DEF Init, IInv, TypeOK, NotPast, CompletionDue, CompletionsOf,
       CoalescedDispatch, In, JobState, NoTime, QueuedEvent

LEMMA NextIInv == IInv /\ [Next]_vars => IInv'
<1> SUFFICES ASSUME IInv, [Next]_vars PROVE IInv'
  OBVIOUS
<1>1. ASSUME Step PROVE IInv'
  BY <1>1, ReleaseKeeps, CompletionKeeps, DispatchKeeps DEF Step
<1>2. ASSUME Client PROVE IInv'
  BY <1>2, RegisterKeeps, RejectKeeps DEF Client
<1>3. CASE Stopped \/ UNCHANGED vars
  BY <1>3 DEF Stopped, vars, IInv, TypeOK, QueuedEvent, NotPast,
              CompletionDue, CompletionsOf, CoalescedDispatch, Done, In
<1> QED BY <1>1, <1>2, <1>3 DEF Next

LEMMA IInvHolds == Spec => []IInv
BY InitIInv, NextIInv, PTL DEF Spec

(* In particular the remaining work of a job never gets negative.          *)
THEOREM KernelTypeCorrect == Spec => []TypeOK
<1>1. IInv => TypeOK
  BY DEF IInv
<1> QED BY <1>1, IInvHolds, PTL

(* The elapsed work the kernel charges and the completion events of its    *)
(* client agree, over any suspensions and coincidences.                    *)
THEOREM KernelCompletionsAreDue == Spec => []CompletionDue
<1>1. IInv => CompletionDue
  BY DEF IInv
<1> QED BY <1>1, IInvHolds, PTL

(* _next_dispatch_time is right about the queue in every state. *)
THEOREM DispatchesAreCoalesced == Spec => []CoalescedDispatch
<1>1. IInv => CoalescedDispatch
  BY DEF IInv
<1> QED BY <1>1, IInvHolds, PTL

-----------------------------------------------------------------------------
(* Nobody waits for nothing.                                               *)

(* A pending job that is not released yet has its release event queued,    *)
(* unless it was refused for closing a cycle.                              *)
ReleaseAhead ==
  \A j \in In("PENDING") :
    \/ OnCycle(j, Registered)
    \/ release[j] <= now
    \/ \E e \in events : e.kind = "release" /\ e.job = j /\ e.time = release[j]

WInv == IInv /\ DInv /\ ReleaseAhead /\ NoSleeper

(* After a step, a pending job with all predecessors done is on no cycle.  *)
LEMMA OffCycle ==
  ASSUME DInv', NEW j \in In("PENDING")', DependsOn[j] \subseteq Done'
  PROVE  ~ OnCycle(j, Registered')
<1>1. Done' \in SUBSET Job /\ j \notin Done'
  BY DEF Done, In
<1>2. \A i \in Done' : DependsOn[i] \subseteq Done'
  BY DEF DInv, DependenciesRespected, Done, In
<1> QED BY <1>1, <1>2 DEF OnCycle

(* The events that complete the jobs of D and wake W at their time. *)
LEMMA WakeKeeps ==
  ASSUME WInv, DInv', NEW e \in events, now' = e.time, e.time >= now,
         NEW D \in SUBSET Job, NEW W \in SUBSET Job, StateStep(D, W),
         release' = release,
         \A f \in events \ {e} : f.kind = "release" => f \in events',
         Woken(D, e.time) \subseteq W,
         \A i \in In("PENDING") :
           e.kind = "release" /\ e.job = i /\ Satisfied(i, Done \cup D) => i \in W
  PROVE  ReleaseAhead' /\ NoSleeper'
<1>1. /\ now \in Nat /\ e.time \in Nat /\ release \in [Job -> Nat]
      /\ state \in [Job -> JobState \cup {"absent"}]
  BY DEF WInv, IInv, TypeOK, QueuedEvent
<1>2. \A j \in In("PENDING")' : j \in In("PENDING") /\ j \notin W /\ j \in Job
  BY <1>1 DEF StateStep, In
<1>3. Registered' = Registered /\ Done' = Done \cup D
  BY <1>1 DEF StateStep, Registered, Done, In
<1>4. ASSUME NEW j \in In("PENDING")'
      PROVE  \/ OnCycle(j, Registered')
             \/ release'[j] <= now'
             \/ \E f \in events' : f.kind = "release" /\ f.job = j
                                     /\ f.time = release'[j]
  BY <1>1, <1>2, <1>3, <1>4 DEF WInv, ReleaseAhead
<1>5. ReleaseAhead'
  BY <1>4 DEF ReleaseAhead, OnCycle
<1>6. ASSUME NEW j \in In("PENDING")', DependsOn[j] \subseteq Done'
      PROVE  \E f \in events' : f.kind = "release" /\ f.job = j
                                  /\ f.time = release'[j]
  <2>1. j \in In("PENDING") /\ j \notin W /\ j \in Job
    BY <1>2, <1>6
  <2>2. Satisfied(j, Done \cup D)
    BY <1>3, <1>6 DEF Satisfied
  <2>3. CASE DependsOn[j] \subseteq Done
    <3>1. PICK f \in events : f.kind = "release" /\ f.job = j
                                /\ f.time = release[j]
      BY <2>1, <2>3 DEF WInv, NoSleeper
    <3>2. f # e
      BY <2>1, <2>2, <3>1
    <3> QED BY <3>1, <3>2
  <2>4. CASE ~ DependsOn[j] \subseteq Done
    <3>1. D # {}
      BY <1>3, <1>6, <2>4
    <3>2. ~ (release[j] <= e.time)
      BY <2>1, <2>2, <3>1 DEF Woken
    <3>3. ~ (release[j] <= now)
      BY <1>1, <2>1, <3>2
    <3>4. ~ OnCycle(j, Registered)
      <4>1. ~ OnCycle(j, Registered')
        BY <1>6, OffCycle
      <4> QED BY <1>3, <4>1
    <3>5. PICK f \in events : f.kind = "release" /\ f.job = j
                                /\ f.time = release[j]
      BY <2>1, <3>3, <3>4 DEF WInv, ReleaseAhead
    <3>6. f # e
      BY <1>1, <2>1, <3>2, <3>5
    <3> QED BY <3>5, <3>6
  <2> QED BY <2>3, <2>4
<1>7. NoSleeper'
  BY <1>6 DEF NoSleeper
<1> QED BY <1>5, <1>7

(* A release or completion event. *)
LEMMA SettleWakes ==
  ASSUME WInv, DInv', NEW e \in events, Takes(e), e.kind # "dispatch",
         NEW D \in SUBSET In("RUNNING"), NEW W \in SUBSET In("PENDING"),
         \A i \in W : DependsOn[i] \subseteq Done \cup D,
         Settle(e, D, W), Woken(D, e.time) \subseteq W,
         \A i \in In("PENDING") :
           e.kind = "release" /\ e.job = i /\ Satisfied(i, Done \cup D) => i \in W
  PROVE  ReleaseAhead' /\ NoSleeper'
<1>1. IsFirst(e, events) /\ now' = e.time /\ release' = release
  BY DEF Takes, Settle
<1>2. StateStep(D, W)
  BY SettleStep DEF WInv, DInv
<1>3. e.time >= now /\ events \ {e} \subseteq events'
  BY <1>1, TakenQueue, SettleQueue DEF WInv
<1>4. D \in SUBSET Job /\ W \in SUBSET Job
  BY DEF In
<1> QED BY <1>1, <1>2, <1>3, <1>4, WakeKeeps

LEMMA ReleaseWakes ==
  ASSUME WInv, DInv', NEW e \in events, ReleaseEvent(e)
  PROVE  ReleaseAhead' /\ NoSleeper'
<1> DEFINE D == RunsOut(e.time)
           W == Woken(D, e.time) \cup
                  {i \in In("PENDING") : i = e.job /\ Satisfied(i, Done \cup D)}
<1>1. Takes(e) /\ e.kind = "release" /\ Settle(e, D, W)
  BY DEF ReleaseEvent
<1>2. D \in SUBSET In("RUNNING") /\ W \in SUBSET In("PENDING")
  BY DEF RunsOut, Woken
<1>3. \A i \in W : DependsOn[i] \subseteq Done \cup D
  BY WokenFacts DEF Satisfied
<1>4. /\ Woken(D, e.time) \subseteq W
      /\ \A i \in In("PENDING") :
           e.job = i /\ Satisfied(i, Done \cup D) => i \in W
  OBVIOUS
<1> HIDE DEF D, W
<1> QED BY <1>1, <1>2, <1>3, <1>4, SettleWakes

LEMMA CompletionWakes ==
  ASSUME WInv, DInv', NEW e \in events, CompletionEvent(e)
  PROVE  ReleaseAhead' /\ NoSleeper'
<1> DEFINE D == RunsOut(e.time) \cup (In("RUNNING") \cap {e.job})
           W == Woken(D, e.time)
<1>1. Takes(e) /\ e.kind = "complete" /\ Settle(e, D, W)
  BY DEF CompletionEvent
<1>2. D \in SUBSET In("RUNNING") /\ W \in SUBSET In("PENDING")
  BY DEF RunsOut, Woken
<1>3. \A i \in W : DependsOn[i] \subseteq Done \cup D
  BY WokenFacts
<1>4. Woken(D, e.time) \subseteq W
  OBVIOUS
<1> HIDE DEF D, W
<1> QED BY <1>1, <1>2, <1>3, <1>4, SettleWakes

LEMMA DispatchWakes ==
  ASSUME WInv, DInv', NEW e \in events, NEW P \in SUBSET In("RUNNING"),
         NEW S \in SUBSET In("READY"), NEW F \in SUBSET (In("READY") \ S),
         DispatchEvent(e, P, S, F)
  PROVE  ReleaseAhead' /\ NoSleeper'
<1> DEFINE Q == (Uncompleted(P) \ {e}) \cup Completions(S)
<1>1. /\ Takes(e) /\ e.kind = "dispatch" /\ release' = release
      /\ \E n, wanted : ScheduleDispatch(Q, n, NoTime, e.time, wanted)
  BY DEF DispatchEvent, Forgotten
<1>2. now' = e.time /\ e.time >= now
  BY <1>1 DEF Takes, WInv, IInv, NotPast
<1>3. StateStep(F, Woken(F, e.time)) /\ F \subseteq Job
  BY DispatchStep DEF WInv, DInv
<1>4. Woken(F, e.time) \subseteq Job
  BY DEF Woken, In
<1>5. \A f \in events \ {e} : f.kind = "release" => f \in events'
  BY <1>1 DEF Uncompleted, ScheduleDispatch
<1> QED BY <1>1, <1>2, <1>3, <1>4, <1>5, WakeKeeps

LEMMA RegisterWakes ==
  ASSUME WInv, DInv', NEW j \in Job, NEW r \in ReleaseTimes, Register(j, r)
  PROVE  ReleaseAhead' /\ NoSleeper'
<1> DEFINE cyclic == OnCycle(j, Registered)
           ready  == ~ cyclic /\ r = now /\ Satisfied(j, Done)
           later  == ~ cyclic /\ r > now
           new    == Event(r, RELEASE, nextSeq, "release", j)
           Has(Q, i) == \E f \in Q : f.kind = "release" /\ f.job = i
                                       /\ f.time = release'[i]
<1>1. /\ state[j] = "absent" /\ r >= now /\ now' = now
      /\ release' = [release EXCEPT ![j] = r]
      /\ state' = [state EXCEPT ![j] = IF ready THEN "READY" ELSE "PENDING"]
      /\ later => events' = events \cup {new}
      /\ events \subseteq events'
  BY DEF Register, ScheduleDispatch
<1>2. /\ r \in Nat /\ now \in Nat
      /\ state \in [Job -> JobState \cup {"absent"}]
      /\ release \in [Job -> Nat]
  BY KernelAssumption DEF WInv, IInv, TypeOK
<1>3. Registered' = Registered \cup {j} /\ Done' = Done
  BY <1>1, <1>2 DEF Registered, Done, In
<1>4. \A i \in In("PENDING")' : i = j \/ (i # j /\ i \in In("PENDING")
                                           /\ i \in Job /\ release'[i] = release[i])
  BY <1>1, <1>2 DEF In
<1>5. \A i \in Job : OnCycle(i, Registered) => OnCycle(i, Registered')
  BY <1>3 DEF OnCycle
<1>6. cyclic => OnCycle(j, Registered')
  BY <1>5
<1>7. later => Has(events', j)
  <2>1. new.kind = "release" /\ new.job = j /\ new.time = r
    BY DEF Event
  <2>2. release'[j] = r
    BY <1>1, <1>2
  <2> HIDE DEF new
  <2> QED BY <1>1, <2>1, <2>2
<1>8. j \in In("PENDING")' => ~ ready /\ release'[j] = r
  BY <1>1, <1>2 DEF In
<1> HIDE DEF new
<1>9. ASSUME NEW i \in In("PENDING")'
      PROVE  OnCycle(i, Registered') \/ release'[i] <= now' \/ Has(events', i)
  <2>1. CASE i = j
    <3>1. cyclic \/ later \/ r = now
      BY <1>1, <1>2
    <3> QED BY <1>1, <1>2, <1>6, <1>7, <1>8, <1>9, <2>1, <3>1
  <2>2. CASE i # j
    BY <1>1, <1>4, <1>5, <1>9, <2>2 DEF WInv, ReleaseAhead
  <2> QED BY <2>1, <2>2
<1>10. ASSUME NEW i \in In("PENDING")', DependsOn[i] \subseteq Done'
       PROVE  Has(events', i)
  <2>1. CASE i = j
    <3>1. ~ cyclic
      BY <1>6, <1>10, <2>1, OffCycle
    <3>2. later
      BY <1>1, <1>2, <1>3, <1>8, <1>10, <2>1, <3>1 DEF Satisfied
    <3> QED BY <1>7, <2>1, <3>2
  <2>2. CASE i # j
    BY <1>1, <1>3, <1>4, <1>10, <2>2 DEF WInv, NoSleeper
  <2> QED BY <2>1, <2>2
<1>11. ReleaseAhead'
  BY <1>9 DEF ReleaseAhead, OnCycle
<1>12. NoSleeper'
  BY <1>10 DEF NoSleeper
<1> QED BY <1>11, <1>12

LEMMA RejectWakes ==
  ASSUME WInv, NEW j \in Job, Reject(j)
  PROVE  ReleaseAhead' /\ NoSleeper'
<1>1. /\ state[j] \in {"PENDING", "READY"}
      /\ state' = [state EXCEPT ![j] = "REJECTED"]
      /\ UNCHANGED <<now, events, release>>
  BY DEF Reject
<1>2. /\ In("PENDING")' \subseteq In("PENDING")
      /\ Registered' = Registered /\ Done' = Done
  BY <1>1 DEF Registered, Done, In, WInv, IInv, TypeOK
<1>3. ReleaseAhead'
  BY <1>1, <1>2 DEF WInv, ReleaseAhead, OnCycle
<1>4. NoSleeper'
  BY <1>1, <1>2 DEF WInv, NoSleeper
<1> QED BY <1>3, <1>4

LEMMA NextWInv == WInv /\ [Next]_vars => WInv'
<1> SUFFICES ASSUME WInv, [Next]_vars PROVE WInv'
  OBVIOUS
<1>1. IInv' /\ DInv'
  BY NextIInv, NextDependencies DEF WInv
<1>2. ASSUME Step PROVE ReleaseAhead' /\ NoSleeper'
  BY <1>1, <1>2, ReleaseWakes, CompletionWakes, DispatchWakes DEF Step
<1>3. ASSUME Client PROVE ReleaseAhead' /\ NoSleeper'
  BY <1>1, <1>3, RegisterWakes, RejectWakes DEF Client
<1>4. ASSUME Stopped \/ UNCHANGED vars PROVE ReleaseAhead' /\ NoSleeper'
  BY <1>4 DEF Stopped, vars, WInv, ReleaseAhead, NoSleeper, OnCycle,
              Registered, Done, In
<1>5. ReleaseAhead' /\ NoSleeper'
  BY <1>2, <1>3, <1>4 DEF Next
<1> QED BY <1>1, <1>5 DEF WInv

(* No wake-up is lost: what is pending with its predecessors done has its  *)
(* release event queued.                                                   *)
THEOREM NobodySleeps == Spec => []NoSleeper
<1>1. Init => WInv
  <2>1. ASSUME Init PROVE ReleaseAhead /\ NoSleeper
    BY <2>1 DEF Init, ReleaseAhead, NoSleeper, In
  <2> QED BY <2>1, InitIInv, InitDependencies DEF WInv
<1>2. WInv => NoSleeper
  BY DEF WInv
<1> QED BY <1>1, <1>2, NextWInv, PTL DEF Spec

-----------------------------------------------------------------------------
(* Ready jobs are served.                                                  *)
LEMMA SettleServes ==
  ASSUME IInv, ReadyIsServed, NEW e \in events, Takes(e), e.kind # "dispatch",
         NEW D \in SUBSET In("RUNNING"), NEW W \in SUBSET In("PENDING"),
         Settle(e, D, W)
  PROVE  ReadyIsServed'
<1>1. IsFirst(e, events) /\ status = "events"
  BY DEF Takes
<1>2. /\ events \ {e} \subseteq events'
      /\ W # {} \/ (D # {} /\ In("READY") # {})
           => \E f \in events' : f.kind = "dispatch"
  BY <1>1, SettleQueue
<1>3. state' = [i \in Job |-> IF i \in D THEN "COMPLETED"
                              ELSE IF i \in W THEN "READY" ELSE state[i]]
  BY DEF Settle
<1>4. CASE W # {} \/ (D # {} /\ In("READY") # {})
  BY <1>2, <1>4 DEF ReadyIsServed
<1>5. CASE W = {} /\ (D = {} \/ In("READY") = {})
  <2>1. In("READY")' = In("READY")
    BY <1>3, <1>5 DEF In
  <2>2. D = {} => In("RUNNING")' = In("RUNNING")
    BY <1>3, <1>5 DEF In
  <2> QED BY <1>1, <1>2, <1>5, <2>1, <2>2 DEF ReadyIsServed
<1> QED BY <1>4, <1>5

(* The dispatcher leaves a job ready only if the slots are taken, or if it *)
(* became ready by a completion within the callback, which asks again.     *)
LEMMA DispatchServes ==
  ASSUME IInv, NEW e \in events, NEW P \in SUBSET In("RUNNING"),
         NEW S \in SUBSET In("READY"), NEW F \in SUBSET (In("READY") \ S),
         DispatchEvent(e, P, S, F)
  PROVE  ReadyIsServed'
<1> DEFINE W     == Woken(F, e.time)
           ready == (In("READY") \ (S \cup F)) \cup P \cup W
           busy  == (In("RUNNING") \ P) \cup S
<1>1. /\ state' = [i \in Job |-> IF i \in F THEN "COMPLETED"
                                 ELSE IF i \in S THEN "RUNNING"
                                 ELSE IF i \in ready THEN "READY" ELSE state[i]]
      /\ IF In("READY") = {} THEN P = {} /\ S = {} /\ F = {}
                             ELSE Dispatches(P, S, F)
  BY DEF DispatchEvent
<1>2. ASSUME F # {}, ready # {} PROVE \E f \in events' : f.kind = "dispatch"
  <2> DEFINE Q      == (Uncompleted(P) \ {e}) \cup Completions(S)
             n      == nextSeq + Cardinality(S)
             wanted == F # {} /\ (Cardinality(F) > 1 \/ ready # {})
             new    == Event(e.time, DISPATCH, n, "dispatch", NoJob)
  <2>1. ScheduleDispatch(Q, n, NoTime, e.time, wanted)
    BY DEF DispatchEvent, Forgotten
  <2>2. wanted
    BY <1>2
  <2>3. new.kind = "dispatch"
    BY DEF Event
  <2> HIDE DEF Q, n, wanted
  <2>4. events' = Q \cup {new}
    BY <2>1, <2>2 DEF ScheduleDispatch, Asked
  <2> HIDE DEF new
  <2> QED BY <2>3, <2>4
<1>3. W \subseteq In("PENDING") /\ (W # {} => F # {})
  BY DEF Woken
<1> HIDE DEF W
<1>4. In("READY")' = ready /\ In("RUNNING")' = busy
  BY <1>1, <1>3 DEF In
<1>5. CASE In("READY") = {}
  BY <1>1, <1>3, <1>4, <1>5 DEF ReadyIsServed
<1>6. CASE In("READY") # {} /\ Cardinality(busy) < Slots
  <2>1. P = {} /\ S \cup F = In("READY")
    BY <1>1, <1>6 DEF Dispatches
  <2>2. ready = W
    BY <2>1
  <2> QED BY <1>2, <1>3, <1>4, <2>2 DEF ReadyIsServed
<1>7. CASE In("READY") # {} /\ ~ (Cardinality(busy) < Slots)
  <2>1. Cardinality(busy) <= Slots
    BY <1>1, <1>7 DEF Dispatches
  <2>2. Cardinality(busy) \in Nat
    <3>1. busy \subseteq Job
      BY DEF In
    <3> QED BY <3>1, FS_Subset, FS_CardinalityType, KernelAssumption
  <2>3. Cardinality(busy) = Slots
    BY <1>7, <2>1, <2>2, KernelAssumption
  <2> QED BY <1>4, <2>3 DEF ReadyIsServed
<1> QED BY <1>5, <1>6, <1>7

LEMMA RegisterServes ==
  ASSUME IInv, ReadyIsServed, NEW j \in Job, NEW r \in ReleaseTimes,
         Register(j, r)
  PROVE  ReadyIsServed'
<1> DEFINE cyclic == OnCycle(j, Registered)
           ready  == ~ cyclic /\ r = now /\ Satisfied(j, Done)
           later  == ~ cyclic /\ r > now
<1>1. /\ state[j] = "absent" /\ status = "events"
      /\ state' = [state EXCEPT ![j] = IF ready THEN "READY" ELSE "PENDING"]
      /\ events \subseteq events'
      /\ ~ later => ScheduleDispatch(events, nextSeq, nextDispatch, r, ready)
  BY DEF Register, ScheduleDispatch
<1>2. /\ state \in [Job -> JobState \cup {"absent"}]
      /\ r \in Nat /\ now \in Nat /\ nextSeq \in Nat
      /\ nextDispatch \in Nat \cup {NoTime}
  BY KernelAssumption DEF IInv, TypeOK
<1>3. In("RUNNING")' = In("RUNNING")
  BY <1>1, <1>2 DEF In
<1>4. CASE ready
  <2>1. ScheduleDispatch(events, nextSeq, nextDispatch, now, TRUE)
    <3>1. r = now /\ ~ later
      BY <1>2, <1>4
    <3> HIDE DEF ready, later
    <3> QED BY <1>1, <1>4, <3>1
  <2>2. \E f \in events' : f.kind = "dispatch"
    BY <1>2, <2>1, QueueOfIInv, ScheduleFacts
  <2> QED BY <2>2 DEF ReadyIsServed
<1>5. CASE ~ ready
  <2>1. In("READY")' = In("READY")
    BY <1>1, <1>2, <1>5 DEF In
  <2> QED BY <1>1, <1>3, <2>1 DEF ReadyIsServed
<1> QED BY <1>4, <1>5

LEMMA NextServes == IInv /\ ReadyIsServed /\ [Next]_vars => ReadyIsServed'
<1> SUFFICES ASSUME IInv, ReadyIsServed, [Next]_vars PROVE ReadyIsServed'
  OBVIOUS
<1>1. ASSUME NEW e \in events, ReleaseEvent(e) PROVE ReadyIsServed'
  <2> DEFINE D == RunsOut(e.time)
             W == Woken(D, e.time) \cup
                    {i \in In("PENDING") : i = e.job /\ Satisfied(i, Done \cup D)}
  <2>1. /\ Takes(e) /\ e.kind = "release" /\ Settle(e, D, W)
        /\ D \in SUBSET In("RUNNING") /\ W \in SUBSET In("PENDING")
    BY <1>1 DEF ReleaseEvent, RunsOut, Woken
  <2> HIDE DEF D, W
  <2> QED BY <2>1, SettleServes
<1>2. ASSUME NEW e \in events, CompletionEvent(e) PROVE ReadyIsServed'
  <2> DEFINE D == RunsOut(e.time) \cup (In("RUNNING") \cap {e.job})
             W == Woken(D, e.time)
  <2>1. /\ Takes(e) /\ e.kind = "complete" /\ Settle(e, D, W)
        /\ D \in SUBSET In("RUNNING") /\ W \in SUBSET In("PENDING")
    BY <1>2 DEF CompletionEvent, RunsOut, Woken
  <2> HIDE DEF D, W
  <2> QED BY <2>1, SettleServes
<1>3. ASSUME NEW j \in Job, Reject(j) PROVE ReadyIsServed'
  <2>1. /\ state[j] \in {"PENDING", "READY"}
        /\ state' = [state EXCEPT ![j] = "REJECTED"]
        /\ UNCHANGED <<events, status>>
    BY <1>3 DEF Reject
  <2>2. In("READY")' \subseteq In("READY") /\ In("RUNNING")' = In("RUNNING")
    BY <2>1 DEF In, IInv, TypeOK
  <2> QED BY <2>1, <2>2 DEF ReadyIsServed
<1>4. CASE Stopped \/ UNCHANGED vars
  BY <1>4 DEF Stopped, vars, ReadyIsServed, In
<1> QED BY <1>1, <1>2, <1>3, <1>4, DispatchServes, RegisterServes
        DEF Next, Step, Client

(* While a job is ready, a dispatch is on its way or no slot is free: no   *)
(* event frees a slot or makes a job ready without asking for a dispatch.  *)
THEOREM ReadyJobsAreServed == Spec => []ReadyIsServed
<1>1. Init => ReadyIsServed
  BY DEF Init, ReadyIsServed, In
<1> QED BY <1>1, NextServes, IInvHolds, PTL DEF Spec
=============================================================================
