-------------------------------- MODULE Kernel --------------------------------
(***************************************************************************)
(* The discrete-event kernel of sim/scheduler/kernel.py on its own: jobs   *)
(* with predecessors and release times, release and dispatch events,       *)
(* elapsed work, rejection, and the progress check of run_until.  (The     *)
(* scenario runner drives it without these: see ScenarioRunner.)           *)
(*                                                                         *)
(* The client is what the kernel's tests are: it registers and rejects     *)
(* jobs between events, and its dispatch callback starts ready jobs on a   *)
(* number of slots, queueing their completions as TIMER events; it may     *)
(* suspend running jobs, and complete jobs within the callback.            *)
(***************************************************************************)
EXTENDS EventOrder, FiniteSets

CONSTANTS
  Job,            \* job ids, in their order
  NoJob,          \* what is not a job
  Work,           \* work_ps
  DependsOn,      \* depends_on, of jobs registered or not
  ReleaseTimes,   \* release times the client registers jobs with
  Rejectable,     \* the jobs the client may reject
  Slots,          \* jobs the dispatcher runs at a time
  Preemptive,     \* whether it suspends running jobs
  FinishAtOnce    \* whether it completes jobs within the callback

ASSUME KernelAssumption ==
  /\ Job \subseteq Nat /\ IsFiniteSet(Job) /\ NoJob \notin Job
  /\ Work \in [Job -> Nat]
  /\ DependsOn \in [Job -> SUBSET Job]
  /\ \A j \in Job : j \notin DependsOn[j]
  /\ ReleaseTimes \subseteq Nat /\ Rejectable \subseteq Job
  /\ Slots \in Nat \ {0}
  /\ Preemptive \in BOOLEAN /\ FinishAtOnce \in BOOLEAN

VARIABLES
  now,            \* now_ps
  events,         \* the queued events
  nextSeq,        \* insertion number of the next event
  state,          \* jobs[...].state, "absent" before register_job
  release,        \* jobs[...].release_ps
  remaining,      \* jobs[...].remaining_ps
  nextDispatch,   \* _next_dispatch_time
  status          \* "events", or "raised" after a SchedulerError

vars == <<now, events, nextSeq, state, release, remaining, nextDispatch, status>>

NoTime == -1

JobState == {"PENDING", "READY", "RUNNING", "COMPLETED", "REJECTED"}

In(s) == {j \in Job : state[j] = s}
Done  == In("COMPLETED")
Registered == Job \ In("absent")

Event(t, p, n, k, j) ==
  [time |-> t, phase |-> p, seq |-> n, kind |-> k, job |-> j]

-----------------------------------------------------------------------------
(* Faulty: a predecessor that is not registered is no obstacle. *)
SatisfiedIfKnown(j, done) == DependsOn[j] \cap Registered \subseteq done

(* _dependencies_satisfied, when the jobs in done are completed: a         *)
(* predecessor that is not registered (or was rejected) is not completed.  *)
Satisfied(j, done) == DependsOn[j] \subseteq done

(* _detect_cycle, when job j joins the registered ones: j is reached again *)
(* from its predecessors, so it is in every set closed under them.         *)
OnCycle(j, registered) ==
  \A C \in SUBSET Job :
    (DependsOn[j] \subseteq C
       /\ \A i \in C \cap registered : DependsOn[i] \subseteq C) => j \in C

(* Faulty: the release must lie in the past. *)
WokenLater(D, t) ==
  {i \in In("PENDING") : D # {} /\ release[i] < t /\ Satisfied(i, Done \cup D)}

(* Faulty: nobody looks at the dependents. *)
NoneWoken(D, t) == {}

(* _complete_job_internal for the jobs of D: their dependents get ready.   *)
Woken(D, t) ==
  {i \in In("PENDING") : D # {} /\ release[i] <= t /\ Satisfied(i, Done \cup D)}

(* A dispatch at time t is on its way already. *)
Asked(pending, t) == pending # NoTime /\ pending <= t

(* _schedule_dispatch at time t, if wanted, on top of the queue Q, whose   *)
(* next insertion number is n; pending is the dispatch asked for before.   *)
ScheduleDispatch(Q, n, pending, t, wanted) ==
  IF wanted /\ ~ Asked(pending, t)
  THEN /\ events' = Q \cup {Event(t, DISPATCH, n, "dispatch", NoJob)}
       /\ nextSeq' = n + 1
       /\ nextDispatch' = t
  ELSE events' = Q /\ nextSeq' = n /\ nextDispatch' = pending

-----------------------------------------------------------------------------
(* register_job: a job released now is ready if its predecessors are done, *)
(* and else is woken by their completion; a later one by its release event.*)
(* A job that closes a cycle is refused, but stays in the job table.       *)
Register(j, r) ==
  LET cyclic == OnCycle(j, Registered)
      ready  == ~ cyclic /\ r = now /\ Satisfied(j, Done)
      later  == ~ cyclic /\ r > now
  IN  /\ status = "events"
      /\ state[j] = "absent" /\ r >= now
      /\ release' = [release EXCEPT ![j] = r]
      /\ remaining' = [remaining EXCEPT ![j] = Work[j]]
      /\ state' = [state EXCEPT ![j] = IF ready THEN "READY" ELSE "PENDING"]
      /\ IF later
         THEN /\ events' = events \cup {Event(r, RELEASE, nextSeq, "release", j)}
              /\ nextSeq' = nextSeq + 1
              /\ UNCHANGED nextDispatch
         ELSE ScheduleDispatch(events, nextSeq, nextDispatch, r, ready)
      /\ UNCHANGED <<now, status>>

(* reject_job, of a pending or ready job as its comment says; it does not  *)
(* look at the state, and leaves the job's release event in the queue.     *)
Reject(j) ==
  /\ status = "events"
  /\ j \in Rejectable /\ state[j] \in {"PENDING", "READY"}
  /\ state' = [state EXCEPT ![j] = "REJECTED"]
  /\ UNCHANGED <<now, events, nextSeq, release, remaining, nextDispatch, status>>

-----------------------------------------------------------------------------
(* run_until takes e out of the queue and sets the clock to its time. *)
Takes(e) == status = "events" /\ IsFirst(e, events) /\ now' = e.time

(* _consume_elapsed_work: the running jobs whose work runs out by time t.  *)
RunsOut(t) ==
  {j \in In("RUNNING") : t > now /\ remaining[j] <= t - now}

Charged(j, t) ==
  IF state[j] = "RUNNING" THEN remaining[j] - (t - now) ELSE remaining[j]

(* The end of an event whose clock and payload complete the jobs of D and  *)
(* make those of W ready: a dispatch is asked for if a job is ready.  An   *)
(* event that neither advances the clock nor completes a job is taken for  *)
(* a livelock.                                                             *)
Settle(e, D, W) ==
  /\ state' = [i \in Job |-> IF i \in D THEN "COMPLETED"
                             ELSE IF i \in W THEN "READY" ELSE state[i]]
  /\ remaining' = [i \in Job |-> IF i \in D THEN 0 ELSE Charged(i, e.time)]
  /\ ScheduleDispatch(events \ {e}, nextSeq, nextDispatch, e.time,
                      W # {} \/ (D # {} /\ In("READY") # {}))
  /\ status' = IF e.time > now \/ D # {} THEN "events" ELSE "raised"
  /\ UNCHANGED release

(* The payload of _release_payload: nothing for a job that is not pending. *)
ReleaseEvent(e) ==
  LET D == RunsOut(e.time)
  IN  /\ Takes(e) /\ e.kind = "release"
      /\ Settle(e, D,
           Woken(D, e.time) \cup
             {i \in In("PENDING") : i = e.job /\ Satisfied(i, Done \cup D)})

(* The client's completion event calls complete_job, which the clock may   *)
(* have forestalled.  (It raises for a job that is neither running nor     *)
(* completed: never, by CompletionDue.)                                    *)
CompletionEvent(e) ==
  LET D == RunsOut(e.time) \cup (In("RUNNING") \cap {e.job})
  IN  /\ Takes(e) /\ e.kind = "complete"
      /\ Settle(e, D, Woken(D, e.time))

-----------------------------------------------------------------------------
(* Faulty: a suspended job's completion stays in the queue. *)
StillDue(P) == events

(* cancel_event of the completions of the suspended jobs. *)
Uncompleted(P) == {e \in events : ~ (e.kind = "complete" /\ e.job \in P)}

(* Completion events of the jobs in S, started in the order of their ids.  *)
Completions(S) ==
  {Event(now + remaining[j], TIMER,
         nextSeq + Cardinality({i \in S : i < j}), "complete", j) : j \in S}

(* The dispatcher fills its slots: it suspends P, starts S, completes F.   *)
Dispatches(P, S, F) ==
  LET busy == (In("RUNNING") \ P) \cup S
  IN  /\ P # {} => Preemptive
      /\ F # {} => FinishAtOnce
      /\ Cardinality(busy) <= Slots
      /\ Cardinality(busy) < Slots => P = {} /\ S \cup F = In("READY")

(* Faulty: the request is still noted while the callback runs. *)
StillPending == nextDispatch

(* _dispatch forgets the request before it calls the callback. *)
Forgotten == NoTime

(* The payload of _dispatch_payload.  It runs at the time it was asked for *)
(* (CoalescedDispatch), so that no work is charged; the callback gets the  *)
(* ready jobs, and is not called if there are none.                        *)
DispatchEvent(e, P, S, F) ==
  LET W     == Woken(F, e.time)
      ready == (In("READY") \ (S \cup F)) \cup P \cup W
  IN  /\ Takes(e) /\ e.kind = "dispatch"
      /\ IF In("READY") = {} THEN P = {} /\ S = {} /\ F = {}
                             ELSE Dispatches(P, S, F)
      /\ state' = [i \in Job |-> IF i \in F THEN "COMPLETED"
                                 ELSE IF i \in S THEN "RUNNING"
                                 ELSE IF i \in ready THEN "READY" ELSE state[i]]
      /\ remaining' = [i \in Job |-> IF i \in F THEN 0 ELSE remaining[i]]
      /\ ScheduleDispatch((Uncompleted(P) \ {e}) \cup Completions(S),
                          nextSeq + Cardinality(S), Forgotten, e.time,
                          F # {} /\ (Cardinality(F) > 1 \/ ready # {}))
      /\ status' = IF e.time > now \/ S \cup F # {} \/ In("READY") = {}
                   THEN "events" ELSE "raised"
      /\ UNCHANGED release

-----------------------------------------------------------------------------
Init ==
  /\ now = 0 /\ events = {} /\ nextSeq = 0
  /\ state = [j \in Job |-> "absent"]
  /\ release = [j \in Job |-> 0]
  /\ remaining = [j \in Job |-> 0]
  /\ nextDispatch = NoTime
  /\ status = "events"

Step ==
  \E e \in events :
    \/ ReleaseEvent(e)
    \/ CompletionEvent(e)
    \/ \E P \in SUBSET In("RUNNING"), S \in SUBSET In("READY") :
         \E F \in SUBSET (In("READY") \ S) : DispatchEvent(e, P, S, F)

Client ==
  \E j \in Job : Reject(j) \/ \E r \in ReleaseTimes : Register(j, r)

(* run_until_complete ends when the queue is empty or an error is raised.  *)
Stopped == (events = {} \/ status = "raised") /\ UNCHANGED vars

Next == Step \/ Client \/ Stopped

(* run_until handles events as long as there are any; the client need not  *)
(* do anything.                                                            *)
Spec == Init /\ [][Next]_vars /\ WF_vars(Step)

-----------------------------------------------------------------------------
(* Properties.                                                             *)
QueuedEvent ==
  [time : Nat, phase : EventPhase, seq : Nat,
   kind : {"release", "dispatch", "complete"}, job : Job \cup {NoJob}]

(* The types of all variables; what is charged never exceeds the work, and *)
(* release and completion events name their job.                           *)
TypeOK ==
  /\ now \in Nat /\ nextSeq \in Nat
  /\ events \subseteq QueuedEvent
  /\ \A e \in events : e.kind = "dispatch" <=> e.job = NoJob
  /\ state \in [Job -> JobState \cup {"absent"}]
  /\ release \in [Job -> Nat]
  /\ remaining \in [Job -> Nat]
  /\ nextDispatch \in Nat \cup {NoTime}
  /\ status \in {"events", "raised"}

(* Jobs are offered to the dispatcher, done and refused as the abstract    *)
(* task graph allows: in particular only with all predecessors done,       *)
(* whoever wakes them (registration, release event or completion).         *)
Tasks == INSTANCE TaskGraph
           WITH open <- In("READY") \cup In("RUNNING"), done <- Done,
                refused <- In("REJECTED")

ImplementsTaskGraph == Tasks!Spec

(* What is offered, running or done has all its predecessors done. *)
DependenciesRespected ==
  \A j \in Job : state[j] \in {"READY", "RUNNING", "COMPLETED"}
                   => DependsOn[j] \subseteq Done

(* Nobody waits for nothing: a pending job whose predecessors are done has *)
(* its release event ahead, so that the wake-up is neither lost between    *)
(* register_job and a completion nor between a completion and the release. *)
NoSleeper ==
  \A j \in In("PENDING") :
    DependsOn[j] \subseteq Done
      => \E e \in events : e.kind = "release" /\ e.job = j /\ e.time = release[j]

(* At most one dispatch event is queued: the one _next_dispatch_time       *)
(* remembers, at the current time.                                         *)
CoalescedDispatch ==
  LET queued == {e \in events : e.kind = "dispatch"}
  IN  /\ \A e, f \in queued : e = f
      /\ nextDispatch # NoTime <=> queued # {}
      /\ \A e \in queued : e.time = nextDispatch /\ e.time = now
                             /\ e.phase = DISPATCH

(* A ready job is not forgotten: a dispatch is on its way, or the slots    *)
(* are taken and a completion will ask for one.                            *)
ReadyIsServed ==
  In("READY") # {} /\ status = "events"
    => \/ \E e \in events : e.kind = "dispatch"
       \/ Cardinality(In("RUNNING")) = Slots

(* Every running job has exactly one completion event, due when its        *)
(* remaining work runs out; other jobs have none, but a job the clock      *)
(* completed at this very instant.                                         *)
CompletionsOf(j) == {e \in events : e.kind = "complete" /\ e.job = j}

CompletionDue ==
  /\ \A j \in In("RUNNING") :
       \E e \in CompletionsOf(j) :
         e.time = now + remaining[j] /\ CompletionsOf(j) = {e}
  /\ \A e \in events :
       e.kind = "complete" /\ e.job \notin In("RUNNING")
         => e.job \in Done /\ e.time = now

(* The jobs of a dependency cycle never run, though the refused job stays  *)
(* in the job table and the others were registered without complaint.      *)
CyclesNeverRun ==
  \A j \in Registered :
    OnCycle(j, Registered) => state[j] \in {"PENDING", "REJECTED"}

(* Job j waits, itself or through others, for a job that is not registered *)
(* or rejected, or for itself.                                             *)
Blocked(j) ==
  \/ OnCycle(j, Registered)
  \/ \A C \in SUBSET Job :
       (DependsOn[j] \subseteq C /\ \A i \in C : DependsOn[i] \subseteq C)
         => \E i \in C : \/ state[i] \in {"absent", "REJECTED"}
                         \/ OnCycle(i, Registered)

(* Every registered job is eventually completed or rejected for good,      *)
(* unless a predecessor keeps it from it or the kernel raises an error.    *)
EventuallySettled ==
  \A j \in Job :
    <>[](state[j] \in {"absent", "COMPLETED", "REJECTED"}
           \/ Blocked(j) \/ status = "raised")

=============================================================================
