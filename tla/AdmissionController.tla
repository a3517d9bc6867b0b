------------------------- MODULE AdmissionController -------------------------
(***************************************************************************)
(* The gateway's admission control (gateway/limits.py): a counter of       *)
(* requests in flight in front of an asyncio.Semaphore, with a bounded     *)
(* wait for a slot.  One event loop runs everything, so a coroutine is     *)
(* atomic between two awaits; what interleaves is the order in which the   *)
(* loop resumes the waiters, fires their timers and delivers cancellations.*)
(*                                                                         *)
(* The semaphore is CPython 3.12's (the version the repository pins): a    *)
(* value and a deque of futures, one per blocked acquire().  A future is   *)
(* granted by whoever wakes it, and its task runs only later: between the  *)
(* two, its timer may still fire.                                          *)
(***************************************************************************)
EXTENDS Integers, FiniteSets, SequencesExt

CONSTANTS Requests,   \* the calls of acquire(); each is made once
          Limits      \* the values max_concurrent_requests may have

ASSUME RequestsFinite == IsFiniteSet(Requests)
\* AdmissionController.__init__ refuses a limit below one (ValueError).
ASSUME LimitsPositive == Limits \subseteq Nat \ {0}

VARIABLES
  capacity,        \* self.capacity, fixed when the gateway is built
  may_queue,       \* self.max_queue_wait_s > 0, fixed likewise
  value,           \* Semaphore._value
  waiters,         \* Semaphore._waiters: the requests, oldest first
  fut,             \* the future a request waits on
  interrupt,       \* the exception its task gets when it next runs
  call,            \* how far the request's acquire()/release() got
  in_flight, waiting, admitted_total, rejected_total

settings == <<capacity, may_queue>>
semaphore == <<value, waiters, fut>>
counters == <<in_flight, waiting, admitted_total, rejected_total>>
vars == <<settings, semaphore, interrupt, call, counters>>

Calls == {"idle", "waiting", "holding", "returned", "refused", "cancelled"}
In(state) == {r \in Requests : call[r] = state}
Pending == {r \in Requests : fut[r] = "pending"}
Granted == {r \in Requests : fut[r] = "granted"}

\* Semaphore.locked(): no value left, or somebody live is already in the deque.
locked == value = 0 \/ Pending \cup Granted # {}

TypeOK ==
  /\ capacity \in Limits
  /\ may_queue \in BOOLEAN
  /\ value \in Nat
  /\ waiters \in Seq(Requests)
  /\ fut \in [Requests -> {"none", "pending", "granted", "cancelled"}]
  /\ interrupt \in [Requests -> {"none", "timeout", "cancel"}]
  /\ call \in [Requests -> Calls]
  /\ in_flight \in Nat /\ waiting \in Nat
  /\ admitted_total \in Nat /\ rejected_total \in Nat

Init ==
  /\ capacity \in Limits
  /\ may_queue \in BOOLEAN
  /\ value = capacity
  /\ waiters = << >>
  /\ fut = [r \in Requests |-> "none"]
  /\ interrupt = [r \in Requests |-> "none"]
  /\ call = [r \in Requests |-> "idle"]
  /\ in_flight = 0 /\ waiting = 0
  /\ admitted_total = 0 /\ rejected_total = 0

------------------------------------------------------------------------------
(* The semaphore's wake-ups. *)

\* W is a prefix of the pending waiters, in deque order.
FirstOfLine(W) ==
  \A i, j \in DOMAIN waiters :
    i < j /\ waiters[i] \in Pending /\ waiters[j] \in W => waiters[i] \in W

\* With v in hand, grant the futures of the first n pending waiters, or of all
\* of them when there are fewer.  f is fut as the caller leaves it; it must not
\* touch a pending one.
Wake(v, n, f) ==
  \E W \in SUBSET Pending :
    /\ Cardinality(W) <= n
    /\ Cardinality(W) < n => W = Pending
    /\ FirstOfLine(W)
    /\ value' = v - Cardinality(W)
    /\ fut' = [r \in Requests |-> IF r \in W THEN "granted" ELSE f[r]]

\* n calls of release() with nothing in between.  Each wakes one waiter; a call
\* that finds in_flight at zero returns at once.
ReleaseCalls(n) ==
  LET effective == IF n <= in_flight THEN n ELSE in_flight
  IN  /\ in_flight' = in_flight - effective
      /\ Wake(value + effective, effective, fut)

------------------------------------------------------------------------------
(* acquire(), up to its first await. *)

\* Mutant of AcquireFree: looks at the count of holders, not at the semaphore,
\* and overtakes a waiter whose slot is granted but not yet taken.
AcquireFree_ByCount(r) ==
  /\ call[r] = "idle"
  /\ in_flight < capacity
  /\ value' = value - 1
  /\ in_flight' = in_flight + 1
  /\ admitted_total' = admitted_total + 1
  /\ call' = [call EXCEPT ![r] = "holding"]
  /\ UNCHANGED <<settings, waiters, fut, interrupt, waiting, rejected_total>>

AcquireFree(r) ==
  /\ call[r] = "idle"
  /\ ~locked
  /\ value' = value - 1
  /\ in_flight' = in_flight + 1
  /\ admitted_total' = admitted_total + 1
  /\ call' = [call EXCEPT ![r] = "holding"]
  /\ UNCHANGED <<settings, waiters, fut, interrupt, waiting, rejected_total>>

\* Mutant of AcquireRefused: a zero budget refuses without looking.
AcquireRefused_Always(r) ==
  /\ call[r] = "idle"
  /\ ~may_queue
  /\ rejected_total' = rejected_total + 1
  /\ call' = [call EXCEPT ![r] = "refused"]
  /\ UNCHANGED <<settings, semaphore, interrupt, in_flight, waiting, admitted_total>>

\* Mutant of AcquireRefused: the refusal skips `waiting -= 1`.
AcquireRefused_NoFinally(r) ==
  /\ call[r] = "idle"
  /\ ~may_queue
  /\ locked
  /\ rejected_total' = rejected_total + 1
  /\ waiting' = waiting + 1
  /\ call' = [call EXCEPT ![r] = "refused"]
  /\ UNCHANGED <<settings, semaphore, interrupt, in_flight, admitted_total>>

\* A zero wait budget: refuse at once.
AcquireRefused(r) ==
  /\ call[r] = "idle"
  /\ ~may_queue
  /\ locked
  /\ rejected_total' = rejected_total + 1
  /\ call' = [call EXCEPT ![r] = "refused"]
  /\ UNCHANGED <<settings, semaphore, interrupt, in_flight, waiting, admitted_total>>

AcquireQueued(r) ==
  /\ call[r] = "idle"
  /\ may_queue
  /\ locked
  /\ waiters' = Append(waiters, r)
  /\ fut' = [fut EXCEPT ![r] = "pending"]
  /\ waiting' = waiting + 1
  /\ call' = [call EXCEPT ![r] = "waiting"]
  /\ UNCHANGED <<settings, value, interrupt, in_flight, admitted_total, rejected_total>>

------------------------------------------------------------------------------
(* What reaches a waiting task from outside.  Task.cancel() cancels the     *)
(* future if nobody granted it; otherwise it leaves the future granted and  *)
(* the task finds the cancellation when it runs.                            *)

Interrupt(r, cause) ==
  /\ interrupt' = [interrupt EXCEPT ![r] = cause]
  /\ fut' = [fut EXCEPT ![r] = IF @ = "pending" THEN "cancelled" ELSE @]
  /\ UNCHANGED <<settings, value, waiters, call, counters>>

\* The wait_for timer fires.
TimerFires(r) ==
  /\ call[r] = "waiting"
  /\ interrupt[r] = "none"
  /\ Interrupt(r, "timeout")

\* Somebody cancels the task: that wins over a timer, fired or not.
CancelWaiter(r) ==
  /\ call[r] = "waiting"
  /\ interrupt[r] # "cancel"
  /\ Interrupt(r, "cancel")

------------------------------------------------------------------------------
(* The waiting task runs again. *)

\* Mutant of LeaveDeque: a slot that comes back wakes nobody.
LeaveDeque_NoWake(r, v) ==
  /\ \E i \in DOMAIN waiters : waiters[i] = r /\ waiters' = RemoveAt(waiters, i)
  /\ Wake(v, 0, [fut EXCEPT ![r] = "none"])
  /\ waiting' = waiting - 1

\* Mutant of LeaveDeque: the future stays in the deque.
LeaveDeque_StaysInLine(r, v) ==
  /\ Wake(v, v, [fut EXCEPT ![r] = "none"])
  /\ waiting' = waiting - 1
  /\ UNCHANGED waiters

\* The finally blocks: leave the deque, hand what is left of the value to
\* those who queued meanwhile, and count one waiter less.
LeaveDeque(r, v) ==
  /\ \E i \in DOMAIN waiters : waiters[i] = r /\ waiters' = RemoveAt(waiters, i)
  /\ Wake(v, v, [fut EXCEPT ![r] = "none"])
  /\ waiting' = waiting - 1

ResumeAdmitted(r) ==
  /\ call[r] = "waiting"
  /\ fut[r] = "granted"
  /\ interrupt[r] = "none"
  /\ LeaveDeque(r, value)
  /\ in_flight' = in_flight + 1
  /\ admitted_total' = admitted_total + 1
  /\ call' = [call EXCEPT ![r] = "holding"]
  /\ UNCHANGED <<settings, interrupt, rejected_total>>

\* Mutant of ResumeInterrupted: a granted slot dies with the task that timed out.
ResumeInterrupted_KeepsGrant(r) ==
  /\ call[r] = "waiting"
  /\ interrupt[r] # "none"
  /\ LeaveDeque(r, value)
  /\ IF interrupt[r] = "timeout"
       THEN /\ rejected_total' = rejected_total + 1
            /\ call' = [call EXCEPT ![r] = "refused"]
       ELSE /\ call' = [call EXCEPT ![r] = "cancelled"]
            /\ UNCHANGED rejected_total
  /\ interrupt' = [interrupt EXCEPT ![r] = "none"]
  /\ UNCHANGED <<settings, in_flight, admitted_total>>

\* A slot granted to a task that is no longer there to take it goes back.
ResumeInterrupted(r) ==
  /\ call[r] = "waiting"
  /\ interrupt[r] # "none"
  /\ LeaveDeque(r, IF fut[r] = "granted" THEN value + 1 ELSE value)
  /\ IF interrupt[r] = "timeout"
       THEN /\ rejected_total' = rejected_total + 1
            /\ call' = [call EXCEPT ![r] = "refused"]
       ELSE /\ call' = [call EXCEPT ![r] = "cancelled"]
            /\ UNCHANGED rejected_total
  /\ interrupt' = [interrupt EXCEPT ![r] = "none"]
  /\ UNCHANGED <<settings, in_flight, admitted_total>>

\* The holder's one call of release().
Release(r) ==
  /\ call[r] = "holding"
  /\ ReleaseCalls(1)
  /\ call' = [call EXCEPT ![r] = "returned"]
  /\ UNCHANGED <<settings, waiters, interrupt, waiting, admitted_total, rejected_total>>

Resume(r) == ResumeAdmitted(r) \/ ResumeInterrupted(r)

\* Every call has ended: the model has no more requests to make.
Finished ==
  /\ \A r \in Requests : call[r] \in {"returned", "refused", "cancelled"}
  /\ UNCHANGED vars

Next ==
  \/ \E r \in Requests :
       \/ AcquireFree(r) \/ AcquireRefused(r) \/ AcquireQueued(r)
       \/ TimerFires(r) \/ CancelWaiter(r)
       \/ ResumeAdmitted(r) \/ ResumeInterrupted(r)
       \/ Release(r)
  \/ Finished

\* The event loop runs every ready task, and a holder gives its slot back: each
\* upstream call is bounded by request_timeout_s.  Timers are NOT assumed to
\* fire: a waiter must be served even if its budget never runs out.
Fairness == \A r \in Requests : WF_vars(Resume(r)) /\ WF_vars(Release(r))

Spec == Init /\ [][Next]_vars
FairSpec == Spec /\ Fairness

------------------------------------------------------------------------------
(* Properties. *)

\* Every unit of capacity is in exactly one place: free in the semaphore,
\* granted to a task that has not run yet, or held by a request that in_flight
\* counts.  A cancellation that lands on a granted future, or a release that
\* forgets a waiter, loses a unit or makes one.
SlotsConserved ==
  /\ value + Cardinality(Granted) + in_flight = capacity
  /\ in_flight = Cardinality(In("holding"))

\* /metrics and /ready read `waiting`, `admitted` and `rejected` as facts about
\* requests: the counters agree with what became of every request, through
\* every timeout and cancellation.
CountersTellTheTruth ==
  /\ waiting = Cardinality(In("waiting"))
  /\ admitted_total = Cardinality(In("holding")) + Cardinality(In("returned"))
  /\ rejected_total = Cardinality(In("refused"))

\* No lost wake-up: when a slot is free while somebody waits for one, a waiter
\* that will pass it on is already due to run.
NoLostWakeup ==
  value > 0 /\ Pending # {} => \E r \in In("waiting") : fut[r] # "pending"

\* A call waits exactly while it has a future; a cancelled future has its
\* exception on the way, a pending one has not, and no exception outlives the
\* wait it was meant for.
FuturesMatchCalls ==
  \A r \in Requests :
    /\ call[r] = "waiting" <=> fut[r] # "none"
    /\ fut[r] = "cancelled" => interrupt[r] # "none"
    /\ fut[r] = "pending" => interrupt[r] = "none"
    /\ interrupt[r] # "none" => call[r] = "waiting"

\* The deque is the set of blocked calls: every waiter is in it once, and
\* nobody who left is still there to be granted a slot nobody will return.
DequeIsTheWaiters ==
  /\ \A i, j \in DOMAIN waiters : waiters[i] = waiters[j] => i = j
  /\ \A r \in Requests :
       call[r] = "waiting" <=> \E i \in DOMAIN waiters : waiters[i] = r
  /\ FuturesMatchCalls

\* A request refused without a wait was refused because every slot was held:
\* with a zero budget there is never a slot free that a refused caller missed.
ShedOnlyWhenFull ==
  [][\A r \in Requests :
       call[r] = "idle" /\ call'[r] = "refused" => in_flight = capacity]_vars

\* A request that waits is eventually served, refused or cancelled, although no
\* timer need ever fire: the line moves as long as holders return slots.
WaitersAreServed ==
  \A r \in Requests : call[r] = "waiting" ~> call[r] # "waiting"

=============================================================================
