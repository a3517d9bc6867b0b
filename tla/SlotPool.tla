------------------------------- MODULE SlotPool -------------------------------
(***************************************************************************)
(* What admission control promises, without the semaphore: a pool of       *)
(* Capacity slots and a line in front of it.  A slot has one owner; a slot *)
(* given up goes to the head of the line; nobody overtakes; and a free     *)
(* slot is not kept from a line that has somebody in it.                   *)
(***************************************************************************)
EXTENDS Integers, FiniteSets, SequencesExt

CONSTANTS Requests, Limits

VARIABLES capacity,  \* how many slots this pool has
          owners,    \* who has a slot, or was promised one
          line       \* who waits for one, in order

pool == <<capacity, owners, line>>

Init == capacity \in Limits /\ owners = {} /\ line = << >>

\* Give slots to the first k of the line, `staying` being who keeps theirs.
Serve(k, staying) ==
  /\ k <= Len(line)
  /\ owners' = staying \cup {line[i] : i \in 1..k}
  /\ Cardinality(owners') <= capacity
  /\ line' = SubSeq(line, k + 1, Len(line))

\* A newcomer takes a slot at once only if nobody waits.
Enter(r) ==
  /\ r \notin owners
  /\ line = << >>
  /\ owners' = owners \cup {r}
  /\ Cardinality(owners') <= capacity
  /\ UNCHANGED <<capacity, line>>

JoinLine(r) ==
  /\ r \notin owners \cup ToSet(line)
  /\ line' = Append(line, r)
  /\ UNCHANGED <<capacity, owners>>

GiveUp(r) ==
  /\ \E i \in DOMAIN line : line[i] = r /\ line' = RemoveAt(line, i)
  /\ UNCHANGED <<capacity, owners>>

\* An owner leaves; its slot may be handed on in the same step.
Leave(r) ==
  /\ r \in owners
  /\ \E k \in 0..Len(line) : Serve(k, owners \ {r})
  /\ UNCHANGED capacity

\* A free slot goes to the line.
Advance ==
  /\ \E k \in 1..Len(line) : Serve(k, owners)
  /\ UNCHANGED capacity

Next ==
  \/ \E r \in Requests : Enter(r) \/ JoinLine(r) \/ GiveUp(r) \/ Leave(r)
  \/ Advance

Steps == Init /\ [][Next]_pool

Spec == Steps /\ WF_pool(Advance)

=============================================================================
