------------------------------- MODULE Source -------------------------------
(***************************************************************************)
(* What an open-loop load generator promises (bench/arrivals.py): requests *)
(* leave in the order of a schedule fixed beforehand, none before it is    *)
(* due, and every due request does leave, whatever the server does.  The   *)
(* server does not appear here: that is the point.                         *)
(***************************************************************************)
EXTENDS Naturals, Sequences

CONSTANT Schedules

VARIABLES offsets, clock, sent

vars == <<offsets, clock, sent>>

Init == offsets \in Schedules /\ clock = 0 /\ sent = <<>>

Send ==
  /\ Len(sent) < Len(offsets)
  /\ offsets[Len(sent) + 1] <= clock
  /\ sent' = Append(sent, clock)
  /\ UNCHANGED <<offsets, clock>>

Tick == clock' = clock + 1 /\ UNCHANGED <<offsets, sent>>

Next == Send \/ Tick

Spec == Init /\ [][Next]_vars /\ WF_vars(Send)

=============================================================================
