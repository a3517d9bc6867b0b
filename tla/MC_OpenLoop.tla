----------------------------- MODULE MC_OpenLoop -----------------------------
(* Schedules with a gap, with requests due together, and with none at all. *)
EXTENDS OpenLoop

MCSchedules == {<<>>, <<1, 1, 3>>, <<2, 2>>, <<1, 3>>}

=============================================================================
