---------------------------- MODULE MC_Kernels ----------------------------
(***************************************************************************)
(* Three variants, the last one a protected repeat of the first: enough    *)
(* for an engine that outlives its own release to meet the next two.       *)
(* Their slugs sort in the opposite order of the plan.                     *)
(***************************************************************************)
EXTENDS Kernels

MCEngines == 1..3
MCSlugOrder == <<3, 2, 1>>

=============================================================================
