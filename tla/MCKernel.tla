------------------------------- MODULE MCKernel -------------------------------
(***************************************************************************)
(* Model-checking instances of Kernel: small dependency graphs, one per    *)
(* configuration file.                                                     *)
(***************************************************************************)
EXTENDS Kernel, TLC

(* 1 and 2 wait for each other, and 2 for 3; 3 and 4 before 5, which has   *)
(* no work.                                                                *)
CycleAndJoin == 1 :> {2} @@ 2 :> {1, 3} @@ 3 :> {} @@ 4 :> {} @@ 5 :> {3, 4}
Works        == 1 :> 1 @@ 2 :> 1 @@ 3 :> 2 @@ 4 :> 3 @@ 5 :> 0

=============================================================================
