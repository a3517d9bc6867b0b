---------------------------- MODULE AdmissionPool ----------------------------
(***************************************************************************)
(* The pool a reader of gateway/limits.py has in mind, and how the         *)
(* admission control implements it: a slot belongs to who holds it or was  *)
(* granted it, and the line is the pending waiters in deque order.         *)
(***************************************************************************)
EXTENDS AdmissionController

\* S in the order of the numbers `place` gives its elements, no two the same one.
InOrder(S, place) ==
  LET rank(r) == Cardinality({q \in S : place[q] <= place[r]})
  IN  [k \in 1..Cardinality(S) |-> CHOOSE r \in S : rank(r) = k]

\* Where a request stands in the deque.
PlaceOf(r) == CHOOSE i \in DOMAIN waiters : waiters[i] = r

\* The requests somebody may still grant a slot, oldest first.
Line == InOrder(Pending, [r \in Pending |-> PlaceOf(r)])

Owners == In("holding") \cup Granted

Pool == INSTANCE SlotPool WITH owners <- Owners, line <- Line

\* limits.py implements the slot pool: FIFO hand-over and no slot with two
\* owners, through every race of grant, timer and cancellation; and the event
\* loop running every ready task is enough for a free slot never to be kept
\* from a line that has somebody in it.
ImplementsSlotPool == Pool!Spec

=============================================================================
