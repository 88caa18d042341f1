--------------------------- MODULE MCScenarioRunner ---------------------------
(***************************************************************************)
(* Model-checking instances of ScenarioRunner: small scenarios, one per    *)
(* configuration file.                                                     *)
(***************************************************************************)
EXTENDS ScenarioRunner, TLC

(* Workload classes.  fixed are the fields most of them share. *)
fixed == [relDeadline |-> 4, queueCapacity |-> 2, stream |-> "s",
          memory |-> 0, bandwidth |-> 0, admissionExcluded |-> TRUE]

Fifo(priority, work, units) ==
  [priority |-> priority, work |-> work, policy |-> "fifo",
   needs |-> ("compute" :> units)] @@ fixed

Latest(priority, work, units) ==
  [priority |-> priority, work |-> work, policy |-> "mailbox_latest",
   needs |-> ("compute" :> units)] @@ fixed

Limits(engines, preemption, maxTime) ==
  [capacity |-> ("compute" :> engines), preemptionEnabled |-> preemption,
   memoryAvailable |-> 2, maxInflight |-> 3, maxBandwidth |-> 2,
   maxTime |-> maxTime, recoveryStart |-> 3]

(* The string order of job ids is that of the release numbers. *)
IdOrder == [j \in Job |-> j]

(* The instances below are scenarios the proofs speak about. *)
ASSUME InstanceIsOrderly == UniformNeeds /\ IdsInOrder

-----------------------------------------------------------------------------
(* Two FIFO classes on one or two engines; every job needs one engine.  No *)
(* run lasts until 30; CutShort stops some runs with work left.            *)
TwoLevels == ("hi" :> Fifo(1, 2, 1)) @@ ("lo" :> Fifo(0, 3, 1))
TwoThree  == [j \in Job |-> IF j <= 2 THEN "hi" ELSE "lo"]
OneEngine  == Limits(1, TRUE, 30)
TwoEngines == Limits(2, TRUE, 30)
CutShort   == Limits(2, TRUE, 6)

(* A mailbox class and a FIFO class that ask for admission: the FIFO class *)
(* uses memory, the mailbox class bandwidth, two jobs of a class exhaust   *)
(* its limit, and three jobs the limit of jobs inflight.  The FIFO holds   *)
(* one job, so that an admissible job may still be dropped.                *)
ByMemory(c)    == [memory |-> 1, admissionExcluded |-> FALSE, queueCapacity |-> 1] @@ c
ByBandwidth(c) == [bandwidth |-> 1, admissionExcluded |-> FALSE] @@ c
ThreeThree == [j \in Job |-> IF j <= 3 THEN "hi" ELSE "lo"]

(* The mailbox class above the FIFO class, which it preempts. *)
HighMailbox ==
  ("hi" :> ByBandwidth(Latest(1, 2, 1))) @@ ("lo" :> ByMemory(Fifo(0, 3, 1)))

(* The mailbox class below the FIFO class. *)
LowMailbox ==
  ("hi" :> ByMemory(Fifo(1, 2, 1))) @@ ("lo" :> ByBandwidth(Latest(0, 3, 1)))
=============================================================================
