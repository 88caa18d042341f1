------------------------------ MODULE TaskGraph ------------------------------
(***************************************************************************)
(* What the kernel of sim/scheduler/kernel.py promises about jobs that     *)
(* depend on each other: a job is offered to the dispatcher only when all  *)
(* its predecessors are done; done and refused are for ever, and a refused *)
(* job is not offered again.                                               *)
(***************************************************************************)
CONSTANTS Job,
          DependsOn        \* DependsOn[j]: the predecessors of job j

VARIABLES open,            \* the jobs offered to the dispatcher and not done
          done,
          refused

vars == <<open, done, refused>>

Init == open = {} /\ done = {} /\ refused = {}

(* The jobs of D are done, which may open the jobs of W. *)
Advance(D, W) ==
  /\ D \subseteq open
  /\ W \cap (open \cup done \cup refused) = {}
  /\ done' = done \cup D
  /\ open' = (open \ D) \cup W
  /\ \A w \in W : DependsOn[w] \subseteq done'
  /\ UNCHANGED refused

Refuse(j) ==
  /\ j \notin done
  /\ refused' = refused \cup {j}
  /\ open' = open \ {j}
  /\ UNCHANGED done

Next ==
  \/ \E D \in SUBSET open, W \in SUBSET Job : Advance(D, W)
  \/ \E j \in Job : Refuse(j)

Spec == Init /\ [][Next]_vars
=============================================================================
