------------------------------ MODULE MC_Sweep ------------------------------
(* A ladder of two rates that send one and two requests, and, for the ladder's *)
(* early stop, one of three whose draws leave a long gap before the second     *)
(* arrival: they offer 1, 9 and 2.  The lowest rate offers least, so an early  *)
(* stop after it changes nothing: a counterexample measures it healthy first.  *)
EXTENDS Sweep

MCRates == <<1, 2>>
MCDraws == <<1, 2>>

GapRates == <<1, 9, 10>>
GapDraws == <<1, 10>>

=============================================================================
