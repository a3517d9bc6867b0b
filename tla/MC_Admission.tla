----------------------------- MODULE MC_Admission -----------------------------
(* AdmissionController on five requests and a limit of two: enough for one    *)
(* task's exit to wake two others (one is granted and has not run, two slots  *)
(* are free by the time it does, two more queue meanwhile).  No symmetry:     *)
(* the run checks liveness as well.                                           *)
EXTENDS AdmissionPool

=============================================================================
