----------------------------- MODULE JobLifecycle -----------------------------
(***************************************************************************)
(* What a scenario run promises about each job: one path from arrival to a *)
(* single final fate, and exactly its service time of execution on the     *)
(* way.  A job waits until it is started; it may be suspended and resumed; *)
(* the fates are completed, rejected (admission control), dropped (a full  *)
(* FIFO, or still queued when the run ends) and replaced (mailbox_latest). *)
(***************************************************************************)
EXTENDS Integers

CONSTANTS Job,
          Service          \* Service[j]: the service time of job j

VARIABLES phase,           \* phase[j]: where job j is on its path
          served           \* served[j]: execution time charged to job j

vars == <<phase, served>>

Fates  == {"completed", "rejected", "dropped", "replaced"}
Alive  == {"waiting", "running", "suspended"}
Phases == {"future"} \cup Alive \cup Fates

(* The steps a job may take; fates are final. *)
Steps ==
  {<<"future", "waiting">>, <<"future", "rejected">>, <<"future", "dropped">>,
   <<"waiting", "running">>, <<"waiting", "replaced">>,
   <<"waiting", "dropped">>,
   <<"running", "suspended">>, <<"running", "completed">>,
   <<"suspended", "running">>, <<"suspended", "dropped">>}

Init ==
  /\ phase = [j \in Job |-> "future"]
  /\ served = [j \in Job |-> 0]

(* Execution time is charged when a job leaves the processor, and is the   *)
(* whole service time exactly when the job leaves it completed.            *)
Charge(j) ==
  \/ served'[j] = served[j] /\ phase'[j] \notin {"suspended", "completed"}
  \/ served'[j] = served[j] /\ phase'[j] = phase[j]
  \/ /\ phase[j] = "running" /\ phase'[j] = "suspended"
     /\ served'[j] \in served[j] .. Service[j] - 1
  \/ /\ phase[j] = "running" /\ phase'[j] = "completed"
     /\ served'[j] = Service[j]

(* One event moves any number of jobs, each by one step of its own. *)
Next ==
  \A j \in Job :
    /\ phase'[j] = phase[j] \/ <<phase[j], phase'[j]>> \in Steps
    /\ Charge(j)

Spec == Init /\ [][Next]_vars
=============================================================================
