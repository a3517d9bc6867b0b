--------------------------- MODULE OpenLoop_proofs ---------------------------
(***************************************************************************)
(* For every set of schedules, every drain timeout and every clock: the    *)
(* load generator is an open-loop source, its in-flight counter is exact,  *)
(* what it returned is not touched afterwards, every request is accounted  *)
(* for once, and what a replay computes from the records agrees with it.   *)
(***************************************************************************)
EXTENDS OpenLoop, Orders_proofs, FiniteSetTheorems, SequenceTheorems, TLAPS

TaskStates == {"awaiting", "recorded", "cancelling", "gone"}

Out == {i \in DOMAIN task : task[i] \in {"awaiting", "cancelling"}}

ScheduleInv ==
  /\ offsets \in Schedules /\ clock \in Nat
  /\ launched \in 0..Len(offsets)
  /\ sent \in Seq(Nat) /\ Len(sent) <= launched
  /\ task \in Seq(TaskStates) /\ Len(task) = Len(sent)
  /\ main = "asleep" => ~AllLaunched
  /\ \A i \in 1..launched : offsets[i] <= clock
  /\ \A i \in 1..Len(sent) : offsets[i] <= sent[i]

CountInv ==
  /\ current \in Nat /\ peak \in Nat
  /\ current = Cardinality(Out)
  /\ current <= peak

FinalInv ==
  /\ main = "woken" => AllBegun
  /\ main = "returned" => AllBegun /\ \A i \in DOMAIN task : task[i] # "awaiting"

LoopInv == ScheduleInv /\ CountInv /\ FinalInv

------------------------------------------------------------------------------
\* A schedule is a sequence of natural numbers.
LEMMA ScheduleTypes ==
  ASSUME ScheduleInv
  PROVE  /\ offsets \in Seq(Nat) /\ Len(offsets) \in Nat /\ launched \in Nat
         /\ \A i \in 1..Len(offsets) : offsets[i] \in Nat
         /\ DOMAIN sent = 1..Len(sent) /\ DOMAIN task = 1..Len(task)
         /\ Len(sent) \in Nat
<1>1. offsets \in Seq(Nat) /\ Len(offsets) \in Nat /\ DOMAIN offsets = 1..Len(offsets)
  BY SchedulesAscend DEF ScheduleInv
<1>2. QED
  BY <1>1 DEF ScheduleInv

\* The tasks that are out are finitely many.
LEMMA OutIsFinite ==
  ASSUME ScheduleInv
  PROVE  IsFiniteSet(Out) /\ Cardinality(Out) \in Nat
<1>1. IsFiniteSet(1..Len(task)) /\ DOMAIN task = 1..Len(task)
  BY FS_Interval DEF ScheduleInv
<1>2. Out \subseteq 1..Len(task)
  BY <1>1 DEF Out
<1>3. QED
  BY <1>1, <1>2, FS_Subset, FS_CardinalityType

------------------------------------------------------------------------------
(* One lemma for each kind of step. *)

LEMMA InitEstablishes == Init => LoopInv
<1> SUFFICES ASSUME Init PROVE LoopInv
  OBVIOUS
<1>1. offsets \in Seq(Nat) /\ Len(offsets) \in Nat
  BY SchedulesAscend DEF Init
<1>2. Out = {} /\ Cardinality(Out) = 0
  BY FS_EmptySet DEF Init, Out
<1>3. QED
  BY <1>1, <1>2 DEF Init, LoopInv, ScheduleInv, CountInv, FinalInv

\* A step of the main coroutine leaves the tasks alone, but for Collect.
LEMMA LaunchPreserves ==
  ASSUME LoopInv, LaunchOverdue \/ WakeAndLaunch
  PROVE  LoopInv'
<1> USE DEF LoopInv
<1>1. launched < Len(offsets) /\ launched' = launched + 1
      /\ offsets[launched + 1] <= clock
  BY ScheduleTypes DEF LaunchOverdue, WakeAndLaunch, Launch, ScheduleInv, AllLaunched
<1>2. UNCHANGED <<offsets, clock, sent, task, current, peak>> /\ main' = "running"
  BY DEF LaunchOverdue, WakeAndLaunch, Launch
<1>3. ScheduleInv'
  <2>1. \A i \in 1..launched' : i \in 1..launched \/ i = launched + 1
    BY <1>1, ScheduleTypes
  <2>2. \A i \in 1..launched' : offsets[i] <= clock
    BY <1>1, <2>1 DEF ScheduleInv
  <2>3. launched' \in 0..Len(offsets) /\ Len(sent) <= launched'
    BY <1>1, ScheduleTypes DEF ScheduleInv
  <2>4. QED
    BY <1>2, <2>2, <2>3 DEF ScheduleInv
<1>4. Out' = Out
  BY <1>2 DEF Out
<1>5. QED
  BY <1>2, <1>3, <1>4 DEF CountInv, FinalInv

LEMMA MainPreserves ==
  ASSUME LoopInv, Sleep \/ StartDrain \/ WaitEnds
  PROVE  LoopInv'
<1> USE DEF LoopInv
<1>1. UNCHANGED <<offsets, clock, launched, sent, task, current, peak>>
  BY DEF Sleep, StartDrain, WaitEnds
<1>2. /\ main' # "returned"
      /\ main' = "asleep" => ~AllLaunched
      /\ main' = "woken" => AllBegun
  BY DEF Sleep, StartDrain, WaitEnds
<1>3. ScheduleInv'
  BY <1>1, <1>2 DEF ScheduleInv, AllLaunched
<1>4. Out' = Out
  BY <1>1 DEF Out
<1>5. QED
  BY <1>1, <1>2, <1>3, <1>4 DEF CountInv, FinalInv, AllBegun

LEMMA ReturnPreserves ==
  ASSUME LoopInv, Collect \/ ReturnEmpty
  PROVE  LoopInv'
<1> USE DEF LoopInv
<1>1. UNCHANGED <<offsets, clock, launched, sent, current, peak>> /\ main' = "returned"
  BY DEF Collect, ReturnEmpty, Return
<1>2. /\ task' \in Seq(TaskStates) /\ Len(task') = Len(task)
      /\ DOMAIN task' = DOMAIN task
      /\ \A i \in DOMAIN task :
           /\ task'[i] # "awaiting"
           /\ task'[i] \in {"awaiting", "cancelling"}
                <=> task[i] \in {"awaiting", "cancelling"}
  <2>1. CASE Collect
    <3>1. task' = [i \in 1..Len(task) |->
                     IF task[i] = "awaiting" THEN "cancelling" ELSE task[i]]
      BY <2>1, ScheduleTypes DEF Collect, CancelPending
    <3>2. \A i \in 1..Len(task) : task[i] \in TaskStates
      BY DEF ScheduleInv
    <3>3. \A i \in 1..Len(task) : task'[i] \in TaskStates
      BY <3>1, <3>2 DEF TaskStates
    <3>4. Len(task) \in Nat
      BY ScheduleTypes DEF ScheduleInv
    <3>5. task' \in Seq(TaskStates)
      BY <3>1, <3>3, <3>4, SeqDef
    <3>6. QED
      BY <3>1, <3>4, <3>5, ScheduleTypes
  <2>2. CASE ReturnEmpty
    <3>1. Len(task) = 0 /\ task' = task
      BY <2>2, ScheduleTypes DEF ReturnEmpty, ScheduleInv
    <3>2. QED
      BY <3>1, ScheduleTypes DEF ScheduleInv
  <2>3. QED
    BY <2>1, <2>2
<1>3. ScheduleInv'
  BY <1>1, <1>2 DEF ScheduleInv
<1>4. Out' = Out
  BY <1>2 DEF Out
<1>5. AllBegun
  <2>1. CASE Collect
    BY <2>1 DEF Collect, FinalInv
  <2>2. CASE ReturnEmpty
    BY <2>2, ScheduleTypes DEF ReturnEmpty, ScheduleInv, AllBegun
  <2>3. QED
    BY <2>1, <2>2
<1>6. QED
  BY <1>1, <1>2, <1>3, <1>4, <1>5 DEF CountInv, FinalInv, AllBegun

LEMMA BeginPreserves ==
  ASSUME LoopInv, Begin
  PROVE  LoopInv'
<1> USE DEF LoopInv
<1> DEFINE n == Len(sent) + 1
<1>1. n \in 1..launched /\ Len(task) + 1 = n /\ n \in Nat
  BY ScheduleTypes DEF Begin, ScheduleInv, AllBegun
<1>2. /\ sent' \in Seq(Nat) /\ Len(sent') = n
      /\ \A i \in 1..Len(sent) : sent'[i] = sent[i]
      /\ sent'[n] = clock
  BY ScheduleTypes DEF Begin, ScheduleInv
<1>3. /\ task' \in Seq(TaskStates) /\ Len(task') = n
      /\ \A i \in 1..Len(task) : task'[i] = task[i]
      /\ task'[n] = "awaiting"
  BY <1>1 DEF Begin, ScheduleInv, TaskStates
<1>4. UNCHANGED <<offsets, clock, main, launched>>
  BY DEF Begin
<1>5. ScheduleInv'
  <2>1. ASSUME NEW i \in 1..Len(sent') PROVE offsets[i] <= sent'[i]
    <3>1. i \in 1..Len(sent) \/ i = n
      BY <1>2, <2>1, ScheduleTypes DEF ScheduleInv
    <3>2. offsets[n] <= clock
      BY <1>1 DEF ScheduleInv
    <3>3. CASE i = n
      BY <1>2, <3>2, <3>3
    <3>4. CASE i \in 1..Len(sent)
      BY <1>2, <3>4 DEF ScheduleInv
    <3>5. QED
      BY <3>1, <3>3, <3>4
  <2>2. n <= launched
    BY <1>1, ScheduleTypes DEF ScheduleInv
  <2>3. QED
    BY <1>2, <1>3, <1>4, <2>1, <2>2 DEF ScheduleInv, AllLaunched
<1>6. Out' = Out \cup {n} /\ n \notin Out
  <2>1. DOMAIN task' = 1..n
    BY <1>3
  <2>2. DOMAIN task = 1..(n - 1) /\ Len(task) = n - 1
    BY <1>1, ScheduleTypes DEF ScheduleInv
  <2>3. QED
    BY <1>1, <1>3, <2>1, <2>2 DEF Out
<1>7. Cardinality(Out') = Cardinality(Out) + 1
  BY <1>6, OutIsFinite, FS_AddElement
<1>8. CountInv'
  BY <1>7, OutIsFinite DEF Begin, Enter, CountInv
<1>9. FinalInv'
  BY <1>4 DEF Begin, FinalInv, AllBegun
<1>10. QED
  BY <1>5, <1>8, <1>9

\* A task that leaves, with a record or without one.
LEMMA LeavePreserves ==
  ASSUME LoopInv, NEW i \in DOMAIN task, NEW s \in {"recorded", "gone"},
         task[i] \in {"awaiting", "cancelling"},
         task' = [task EXCEPT ![i] = s],
         Exit,
         UNCHANGED <<offsets, clock, main, launched, sent>>
  PROVE  LoopInv'
<1> USE DEF LoopInv
<1>1. /\ task' \in Seq(TaskStates) /\ Len(task') = Len(task)
      /\ DOMAIN task' = DOMAIN task
      /\ \A j \in DOMAIN task : task'[j] = IF j = i THEN s ELSE task[j]
  BY DEF ScheduleInv, TaskStates
<1>2. ScheduleInv'
  BY <1>1 DEF ScheduleInv, AllLaunched
<1>3. Out' = Out \ {i} /\ i \in Out
  BY <1>1 DEF Out
<1>4. Cardinality(Out') = Cardinality(Out) - 1
  BY <1>3, OutIsFinite, FS_RemoveElement
<1>5. IsFiniteSet(Out') /\ Cardinality(Out') \in Nat
  BY <1>3, OutIsFinite, FS_RemoveElement, FS_CardinalityType
<1>6. CountInv'
  BY <1>4, <1>5 DEF Exit, CountInv
<1>7. FinalInv'
  BY <1>1 DEF FinalInv, AllBegun
<1>8. QED
  BY <1>2, <1>6, <1>7

LEMMA TaskPreserves ==
  ASSUME LoopInv, NEW i \in DOMAIN task, Answered(i) \/ Raised(i) \/ Unwind(i)
  PROVE  LoopInv'
<1>1. CASE Answered(i) \/ Raised(i)
  BY <1>1, LeavePreserves DEF Answered, Raised, Finish
<1>2. CASE Unwind(i)
  BY <1>2, LeavePreserves DEF Unwind
<1>3. QED
  BY <1>1, <1>2

LEMMA TickPreserves ==
  ASSUME LoopInv, Tick
  PROVE  LoopInv'
<1> USE DEF LoopInv
<1>1. /\ clock' = clock + 1
      /\ UNCHANGED <<offsets, main, launched, sent, task, current, peak>>
  BY DEF Tick
<1>2. \A i \in 1..launched : offsets[i] <= clock + 1
  BY ScheduleTypes DEF ScheduleInv
<1>3. ScheduleInv'
  BY <1>1, <1>2 DEF ScheduleInv, AllLaunched
<1>4. Out' = Out
  BY <1>1 DEF Out
<1>5. QED
  BY <1>1, <1>3, <1>4 DEF CountInv, FinalInv, AllBegun

------------------------------------------------------------------------------
\* The inductive invariant: the schedule's account, the in-flight count, and
\* what holds once the run has returned.
THEOREM LoopInvariant == Spec => []LoopInv
<1>1. LoopInv /\ [Next]_vars => LoopInv'
  <2> SUFFICES ASSUME LoopInv, [Next]_vars PROVE LoopInv'
    OBVIOUS
  <2>1. CASE Main
    BY <2>1, LaunchPreserves, MainPreserves, ReturnPreserves DEF Main
  <2>2. CASE Begin
    BY <2>2, BeginPreserves
  <2>3. CASE \E i \in DOMAIN task : Answered(i) \/ Raised(i) \/ Unwind(i)
    BY <2>3, TaskPreserves
  <2>4. CASE Tick
    BY <2>4, TickPreserves
  <2>5. CASE UNCHANGED vars
    BY <2>5 DEF vars, LoopInv, ScheduleInv, CountInv, FinalInv, Out, AllLaunched, AllBegun
  <2>6. CASE Finished
    BY <2>5, <2>6 DEF Finished
  <2>7. QED
    BY <2>1, <2>2, <2>3, <2>4, <2>5, <2>6 DEF Next
<1>2. QED
  BY <1>1, InitEstablishes, PTL DEF Spec

\* No request leaves before it is due, for every schedule: a latency measured
\* from the schedule never comes out shorter than the one measured from the send.
NeverEarly == \A i \in DOMAIN sent : offsets[i] <= sent[i]

THEOREM RequestsAreNeverEarly == Spec => []NeverEarly
<1>1. LoopInv => NeverEarly
  BY ScheduleTypes DEF LoopInv, ScheduleInv, NeverEarly
<1>2. QED
  BY <1>1, LoopInvariant, PTL

\* _InFlight is exact (load.py:199): the counter is the number of tasks that
\* have begun and not left, and the peak is never below it.
CountIsExact ==
  /\ current = Cardinality({i \in DOMAIN task : task[i] \in {"awaiting", "cancelling"}})
  /\ current <= peak

THEOREM InFlightIsExact == Spec => []CountIsExact
<1>1. LoopInv => CountIsExact
  BY DEF LoopInv, CountInv, CountIsExact, Out
<1>2. QED
  BY <1>1, LoopInvariant, PTL

\* What run_open_loop returned is final: no task of the run touches it.
THEOREM ReturnedRecordsAreFinal == Spec => RecordsAreFinal
<1>1. LoopInv /\ [Next]_vars
        => [main = "returned" => UNCHANGED <<records, peak, wall>>]_vars
  <2> SUFFICES ASSUME LoopInv, Next, main = "returned"
               PROVE  UNCHANGED <<records, peak, wall>>
    BY DEF vars
  <2>1. AllBegun /\ \A i \in DOMAIN task : task[i] # "awaiting"
    BY DEF LoopInv, FinalInv
  <2>2. ~Main /\ ~Begin /\ ~Tick
    BY <2>1 DEF Main, LaunchOverdue, Sleep, WakeAndLaunch, StartDrain, WaitEnds,
                Collect, ReturnEmpty, Begin, Tick
  <2>3. ASSUME NEW i \in DOMAIN task, Answered(i) \/ Raised(i) \/ Unwind(i)
        PROVE  UNCHANGED <<records, peak, wall>>
    BY <2>1, <2>3 DEF Answered, Raised, Finish, Unwind, Exit
  <2>4. CASE Finished
    BY <2>4 DEF Finished, vars
  <2>5. QED
    BY <2>2, <2>3, <2>4 DEF Next
<1>2. QED
  BY <1>1, LoopInvariant, PTL DEF Spec, RecordsAreFinal

\* Every step of the generator is a step of the open-loop source or none: what
\* is sent, and when it may be, does not depend on any answer.
THEOREM SendsByTheSchedule == Spec => S!Init /\ [][S!Next]_(S!vars)
<1>1. Init => S!Init
  BY DEF Init, S!Init
<1>2. LoopInv /\ [Next]_vars => [S!Next]_(S!vars)
  <2> SUFFICES ASSUME LoopInv, [Next]_vars PROVE [S!Next]_(S!vars)
    OBVIOUS
  <2> USE DEF S!vars
  <2>1. CASE Begin
    <3>1. Len(sent) + 1 \in 1..launched
      BY <2>1, ScheduleTypes DEF Begin, LoopInv, ScheduleInv, AllBegun
    <3>2. offsets[Len(sent) + 1] <= clock /\ Len(sent) < Len(offsets)
      BY <3>1, ScheduleTypes DEF LoopInv, ScheduleInv
    <3>3. S!Send
      BY <2>1, <3>2 DEF Begin, S!Send
    <3>4. QED
      BY <3>3 DEF S!Next
  <2>2. CASE Tick
    BY <2>2 DEF Tick, S!Tick, S!Next
  <2>3. CASE Main
    BY <2>3 DEF Main, LaunchOverdue, Launch, Sleep, WakeAndLaunch, StartDrain,
                WaitEnds, Collect, ReturnEmpty, Return
  <2>4. CASE \E i \in DOMAIN task : Answered(i) \/ Raised(i) \/ Unwind(i)
    BY <2>4 DEF Answered, Raised, Finish, Unwind
  <2>5. CASE Finished \/ UNCHANGED vars
    BY <2>5 DEF Finished, vars
  <2>6. QED
    BY <2>1, <2>2, <2>3, <2>4, <2>5 DEF Next
<1>3. QED
  BY <1>1, <1>2, LoopInvariant, PTL DEF Spec

------------------------------------------------------------------------------
(* What the records say.  A record is a task's own, or the placeholder of a *)
(* request given up on.                                                     *)

Rows1 == 1..Len(records)
Live == main # "returned"

OfTask(rec) ==
  /\ rec.index \in 1..Len(task) /\ task[rec.index] = "recorded"
  /\ rec.scheduled = offsets[rec.index] /\ rec.sent = sent[rec.index]
  /\ rec.sent <= rec.finished /\ rec.finished <= clock
  /\ rec.ok => rec.e2e = rec.finished - rec.sent

GivenUp(rec) == rec.index = -1 /\ ~rec.ok

TimeInv ==
  /\ deadline \in Nat /\ wall \in Nat
  /\ main \in {"running", "asleep", "draining", "woken", "returned"}
  /\ main \in {"draining", "woken", "returned"} => AllLaunched
  /\ \A i \in 1..Len(sent) : sent[i] <= clock

RowsInv ==
  /\ records \in Seq(Record)
  /\ \A k \in Rows1 : OfTask(records[k]) \/ (~Live /\ GivenUp(records[k]))

Recorded == {i \in DOMAIN task : task[i] = "recorded"}

OnceInv ==
  /\ \A k, l \in Rows1 : records[k].index = records[l].index => k = l \/ GivenUp(records[k])
  /\ \A i \in 1..Len(task) : task[i] = "recorded" => \E k \in Rows1 : records[k].index = i

AccountInv ==
  IF Live
  THEN /\ Len(records) = Cardinality(Recorded)
       /\ \A i \in 1..Len(task) : task[i] \in {"awaiting", "recorded"}
  ELSE /\ Len(records) = Len(offsets)
       /\ Cardinality(RecordsFor(-1)) = Cardinality({i \in DOMAIN task : Gone(i)})
       /\ \A k, l \in Rows1 : k < l => records[k].index <= records[l].index

\* The requests open at t, by the records so far: sent by then, and not finished.
OpenAt(t) ==
  {i \in 1..Len(sent) :
     sent[i] <= t /\ ~ \E k \in Rows1 : records[k].index = i /\ records[k].finished <= t}

PeakInv == \A t \in Nat : Cardinality(OpenAt(t)) <= peak

RecordInv == TimeInv /\ RowsInv /\ OnceInv /\ AccountInv /\ PeakInv

\* The lists have the lengths and the elements that the invariants say.
LEMMA Shapes ==
  ASSUME LoopInv, RecordInv
  PROVE  /\ offsets \in Seq(Nat) /\ Len(offsets) \in Nat /\ DOMAIN offsets = 1..Len(offsets)
         /\ sent \in Seq(Nat) /\ task \in Seq(TaskStates)
         /\ Len(task) \in Nat /\ Len(task) = Len(sent) /\ Len(task) <= Len(offsets)
         /\ DOMAIN task = 1..Len(task) /\ DOMAIN sent = 1..Len(task)
         /\ records \in Seq(Record) /\ Len(records) \in Nat /\ DOMAIN records = Rows1
         /\ clock \in Nat /\ peak \in Nat
         /\ \A i \in 1..Len(task) : sent[i] \in Nat /\ offsets[i] \in Nat /\ task[i] \in TaskStates
         /\ \A k \in Rows1 : records[k] \in Record
<1>1. /\ offsets \in Seq(Nat) /\ Len(offsets) \in Nat /\ DOMAIN offsets = 1..Len(offsets)
      /\ Len(sent) \in Nat /\ launched \in Nat
  BY ScheduleTypes DEF LoopInv, ScheduleInv
<1>2. /\ sent \in Seq(Nat) /\ task \in Seq(TaskStates) /\ Len(task) = Len(sent)
      /\ Len(sent) <= launched /\ launched <= Len(offsets)
      /\ DOMAIN task = 1..Len(task) /\ DOMAIN sent = 1..Len(task)
  BY <1>1 DEF LoopInv, ScheduleInv
<1>3. \A i \in 1..Len(task) : sent[i] \in Nat /\ offsets[i] \in Nat /\ task[i] \in TaskStates
  BY <1>1, <1>2
<1>4. /\ records \in Seq(Record) /\ Len(records) \in Nat /\ DOMAIN records = Rows1
      /\ \A k \in Rows1 : records[k] \in Record
  BY DEF RecordInv, RowsInv, Rows1
<1>5. QED
  BY <1>1, <1>2, <1>3, <1>4 DEF LoopInv, ScheduleInv, CountInv

\* The set of the requests open at t is finite.
LEMMA OpenIsFinite ==
  ASSUME LoopInv, RecordInv, NEW t
  PROVE  IsFiniteSet(OpenAt(t))
<1>1. IsFiniteSet(1..Len(sent))
  <2>1. 1 \in Int /\ Len(sent) \in Int
    BY Shapes
  <2>2. QED
    BY <2>1, FS_Interval, Zenon
<1>2. OpenAt(t) \in SUBSET (1..Len(sent))
  BY DEF OpenAt
<1>3. QED
  BY <1>1, <1>2, FS_Subset

\* Of two finite sets of requests, the smaller has no more elements.
LEMMA Fewer ==
  ASSUME NEW T, IsFiniteSet(T), NEW R \in SUBSET T, NEW p \in Nat, NEW q \in Nat,
         Cardinality(T) <= p, p <= q
  PROVE  Cardinality(R) <= q
<1>1. Cardinality(R) <= Cardinality(T) /\ Cardinality(R) \in Nat /\ Cardinality(T) \in Nat
  BY FS_Subset, FS_CardinalityType
<1>2. QED
  BY <1>1

\* A list to which an element is added.
LEMMA Added ==
  ASSUME NEW R, NEW s \in Seq(R), NEW e \in R
  PROVE  LET m == Len(s) + 1
         IN  /\ Append(s, e) \in Seq(R) /\ Len(Append(s, e)) = m /\ m \in Nat
             /\ \A k \in 1..Len(s) : Append(s, e)[k] = s[k]
             /\ Append(s, e)[m] = e
             /\ m \in 1..m
             /\ \A k \in 1..m : k \in 1..Len(s) \/ k = m
             /\ \A k \in 1..Len(s) : k \in 1..m /\ k # m
OBVIOUS

\* Nothing is recorded when the run begins.
LEMMA InitRecords == Init => RecordInv
<1> SUFFICES ASSUME Init PROVE RecordInv
  OBVIOUS
<1>1. /\ Len(records) = 0 /\ Len(task) = 0 /\ Len(sent) = 0 /\ records \in Seq(Record)
      /\ Rows1 = {} /\ 1..Len(sent) = {} /\ 1..Len(task) = {} /\ DOMAIN task = {}
      /\ clock = 0 /\ main = "running" /\ deadline = 0 /\ wall = 0 /\ peak = 0 /\ Live
  BY DEF Init, Rows1, Live
<1>2. Recorded = {} /\ Cardinality(Recorded) = 0
  BY <1>1, FS_EmptySet DEF Recorded
<1>3. TimeInv /\ RowsInv /\ OnceInv
  BY <1>1 DEF TimeInv, RowsInv, OnceInv
<1>4. AccountInv
  BY <1>1, <1>2 DEF AccountInv
<1>5. PeakInv
  <2>1. ASSUME NEW t \in Nat PROVE Cardinality(OpenAt(t)) = 0
    <3>1. OpenAt(t) = {}
      BY <1>1 DEF OpenAt
    <3>2. QED
      BY <3>1, FS_EmptySet
  <2>2. QED
    BY <1>1, <2>1 DEF PeakInv
<1>6. QED
  BY <1>3, <1>4, <1>5 DEF RecordInv

\* The steps of the main coroutine before it returns leave the records alone.
LEMMA MainKeepsRecords ==
  ASSUME LoopInv, RecordInv,
         LaunchOverdue \/ WakeAndLaunch \/ Sleep \/ StartDrain \/ WaitEnds
  PROVE  RecordInv'
<1>1. /\ UNCHANGED <<offsets, clock, sent, task, records, peak, wall>>
      /\ main # "returned" /\ main' # "returned" /\ Live /\ Live'
  BY DEF LaunchOverdue, WakeAndLaunch, Launch, Sleep, StartDrain, WaitEnds, Live
<1>2. TimeInv'
  <2>1. deadline' \in Nat
    BY Shapes, TimesNatural
       DEF RecordInv, TimeInv, LaunchOverdue, WakeAndLaunch, Launch, Sleep, StartDrain, WaitEnds
  <2>2. /\ main' \in {"running", "asleep", "draining", "woken", "returned"}
        /\ main' \in {"draining", "woken", "returned"} => AllLaunched'
    BY DEF RecordInv, TimeInv, AllLaunched, LaunchOverdue, WakeAndLaunch, Launch, Sleep,
           StartDrain, WaitEnds
  <2>3. QED
    BY <1>1, <2>1, <2>2 DEF RecordInv, TimeInv
<1>3. RowsInv'
  BY <1>1 DEF RecordInv, RowsInv, Rows1, OfTask, GivenUp, Live
<1>4. OnceInv'
  BY <1>1 DEF RecordInv, OnceInv, Rows1, GivenUp
<1>5. AccountInv'
  BY <1>1 DEF RecordInv, AccountInv, Recorded
<1>6. PeakInv'
  BY <1>1 DEF RecordInv, PeakInv, OpenAt, Rows1
<1>7. QED
  BY <1>2, <1>3, <1>4, <1>5, <1>6 DEF RecordInv

\* Time passes: what was recorded by then stays recorded by then.
LEMMA TickKeepsRecords ==
  ASSUME LoopInv, RecordInv, Tick
  PROVE  RecordInv'
<1>1. /\ UNCHANGED <<offsets, main, launched, deadline, sent, task, records, peak, wall>>
      /\ clock' = clock + 1 /\ Live /\ Live'
  BY DEF Tick, Live
<1>2. TimeInv'
  <2>1. \A i \in 1..Len(sent) : sent[i] <= clock + 1
    BY Shapes DEF RecordInv, TimeInv
  <2>2. QED
    BY <1>1, <2>1 DEF RecordInv, TimeInv, AllLaunched
<1>3. RowsInv'
  <2>1. ASSUME NEW k \in Rows1 PROVE OfTask(records[k])'
    <3>1. OfTask(records[k])
      BY <1>1 DEF RecordInv, RowsInv
    <3>2. records[k].finished <= clock + 1
      <4>1. records[k].finished \in Nat /\ clock \in Nat /\ records[k].finished <= clock
        BY <3>1, Shapes DEF OfTask, Record
      <4>2. QED
        BY <4>1
    <3>3. QED
      BY <1>1, <3>1, <3>2 DEF OfTask
  <2>2. QED
    BY <1>1, <2>1 DEF RecordInv, RowsInv, Rows1
<1>4. OnceInv'
  BY <1>1 DEF RecordInv, OnceInv, Rows1, GivenUp
<1>5. AccountInv'
  BY <1>1 DEF RecordInv, AccountInv, Recorded
<1>6. PeakInv'
  BY <1>1 DEF RecordInv, PeakInv, OpenAt, Rows1
<1>7. QED
  BY <1>2, <1>3, <1>4, <1>5, <1>6 DEF RecordInv

\* A request that begins has no record yet; the requests that are out are those
\* without one.
LEMMA BeginKeepsRecords ==
  ASSUME LoopInv, RecordInv, Begin
  PROVE  RecordInv'
<1> DEFINE n == Len(sent) + 1
<1>1. /\ UNCHANGED <<offsets, clock, main, launched, deadline, records, wall>>
      /\ Live /\ Live'
  BY DEF Begin, Live, LoopInv, FinalInv
<1>2. /\ n \in Nat /\ Len(task) + 1 = n /\ Len(sent') = n /\ Len(task') = n
      /\ DOMAIN task' = 1..n
      /\ \A i \in 1..Len(task) : sent'[i] = sent[i] /\ task'[i] = task[i]
      /\ sent'[n] = clock /\ task'[n] = "awaiting"
      /\ \A i \in 1..n : i \in 1..Len(task) \/ i = n
      /\ \A i \in 1..Len(task) : i \in 1..n
  BY Shapes DEF Begin
<1>3. TimeInv'
  <2>1. ASSUME NEW i \in 1..n PROVE sent'[i] <= clock
    <3>1. CASE i = n
      BY <1>2, <3>1, Shapes
    <3>2. CASE i \in 1..Len(task)
      BY <1>2, <3>2, Shapes DEF RecordInv, TimeInv
    <3>3. QED
      BY <1>2, <3>1, <3>2
  <2>2. QED
    BY <1>1, <1>2, <2>1 DEF RecordInv, TimeInv, AllLaunched
<1>4. \A k \in Rows1 : OfTask(records[k]) /\ records[k].index \in 1..Len(task)
  BY <1>1 DEF RecordInv, RowsInv, OfTask
<1>5. RowsInv'
  <2>1. ASSUME NEW k \in Rows1 PROVE OfTask(records[k])'
    BY <1>1, <1>2, <1>4 DEF OfTask
  <2>2. QED
    BY <1>1, <2>1 DEF RecordInv, RowsInv, Rows1
<1>6. OnceInv'
  <2>1. ASSUME NEW i \in 1..n, task'[i] = "recorded"
        PROVE  \E k \in Rows1 : records[k].index = i
    <3>1. i \in 1..Len(task) /\ task[i] = "recorded"
      BY <1>2, <2>1
    <3>2. QED
      BY <3>1 DEF RecordInv, OnceInv
  <2>2. QED
    BY <1>1, <1>2, <2>1 DEF RecordInv, OnceInv, Rows1, GivenUp
<1>7. AccountInv'
  <2>1. Recorded' = Recorded
    BY <1>2, Shapes DEF Recorded
  <2>2. \A i \in 1..n : task'[i] \in {"awaiting", "recorded"}
    BY <1>1, <1>2 DEF RecordInv, AccountInv
  <2>3. QED
    BY <1>1, <1>2, <2>1, <2>2 DEF RecordInv, AccountInv
<1>8. PeakInv'
  <2>1. ScheduleInv' /\ CountInv' /\ CountInv /\ peak <= peak'
    BY BeginPreserves, Shapes DEF LoopInv, Begin, Enter, CountInv
  <2>2. ASSUME NEW t \in Nat, t < clock PROVE Cardinality(OpenAt(t)') <= peak'
    <3>1. OpenAt(t)' = OpenAt(t)
      <4>1. ~(sent'[n] <= t)
        BY <1>2, <2>2, Shapes
      <4>2. QED
        BY <1>1, <1>2, <4>1, Shapes DEF OpenAt, Rows1
    <3>2. Cardinality(OpenAt(t)) <= peak
      BY DEF RecordInv, PeakInv
    <3>3. peak' \in Nat
      BY <2>1 DEF CountInv
    <3>4. QED
      BY <2>1, <3>1, <3>2, <3>3, OpenIsFinite, Shapes, Fewer
  <2>3. ASSUME NEW t \in Nat, ~(t < clock) PROVE Cardinality(OpenAt(t)') <= peak'
    <3>1. ASSUME NEW i \in OpenAt(t)' PROVE i \in Out'
      <4>1. i \in 1..n /\ ~ \E k \in Rows1 : records[k].index = i /\ records[k].finished <= t
        BY <1>1, <1>2, <3>1 DEF OpenAt, Rows1
      <4>2. \A k \in Rows1 : records[k].finished <= t
        BY <1>4, <2>3, Shapes DEF OfTask, Record
      <4>3. task'[i] # "recorded"
        BY <1>1, <1>2, <1>6, <4>1, <4>2 DEF OnceInv, Rows1
      <4>4. task'[i] = "awaiting"
        BY <1>1, <1>2, <1>7, <4>1, <4>3 DEF AccountInv
      <4>5. QED
        BY <1>2, <4>1, <4>4 DEF Out
    <3>2. IsFiniteSet(Out')
      <4>1. 1 \in Int /\ n \in Int
        BY <1>2
      <4>2. IsFiniteSet(1..n)
        BY <4>1, FS_Interval, Zenon
      <4>3. Out' \in SUBSET (1..n)
        BY <1>2 DEF Out
      <4>4. QED
        BY <4>2, <4>3, FS_Subset
    <3>3. /\ current' \in Nat /\ peak' \in Nat
          /\ Cardinality(Out') <= current' /\ current' <= peak'
      BY <2>1 DEF CountInv
    <3>4. OpenAt(t)' \in SUBSET Out'
      BY <3>1
    <3>5. QED
      BY <3>2, <3>3, <3>4, Fewer
  <2>4. QED
    BY <2>2, <2>3 DEF PeakInv
<1>9. QED
  BY <1>3, <1>5, <1>6, <1>7, <1>8 DEF RecordInv

\* An answer, or an exception, adds the record of its own request.
LEMMA FinishKeepsRecords ==
  ASSUME LoopInv, RecordInv, NEW i \in DOMAIN task, NEW e2e \in Nat, NEW ok \in BOOLEAN,
         ok => e2e = clock - sent[i],
         Finish(i, e2e, ok)
  PROVE  RecordInv'
<1> DEFINE m == Len(records) + 1
           rec == RecordOf(i, e2e, ok)
<1>1. /\ UNCHANGED <<offsets, clock, main, launched, deadline, sent, wall, peak>>
      /\ task[i] = "awaiting" /\ Live /\ Live'
  BY DEF Finish, Exit, Live, LoopInv, FinalInv
<1>2. /\ i \in 1..Len(task) /\ Len(task') = Len(task) /\ DOMAIN task' = DOMAIN task
      /\ \A j \in 1..Len(task) : task'[j] = IF j = i THEN "recorded" ELSE task[j]
  BY Shapes DEF Finish
<1>3. /\ rec.index = i /\ rec.scheduled = offsets[i] /\ rec.sent = sent[i]
      /\ rec.finished = clock /\ rec.e2e = e2e /\ rec.ok = ok
      /\ sent[i] \in Nat /\ offsets[i] \in Nat /\ i \in Nat
  BY <1>2, Shapes DEF RecordOf
<1>4. rec \in Record
  BY <1>2, Shapes DEF RecordOf, Record
<1>5. records' = Append(records, rec)
  BY DEF Finish
<1>6. /\ records' \in Seq(Record) /\ Len(records') = m /\ m \in Nat
      /\ \A k \in Rows1 : records'[k] = records[k]
      /\ records'[m] = rec /\ m \in 1..m
      /\ \A k \in 1..m : k \in Rows1 \/ k = m
      /\ \A k \in Rows1 : k \in 1..m /\ k # m
  <2> HIDE DEF rec
  <2>1. records \in Seq(Record)
    BY Shapes
  <2>2. QED
    BY <1>4, <1>5, <2>1, Added DEF Rows1
<1>7. Rows1' = 1..m
  BY <1>6 DEF Rows1
<1>8. \A k \in Rows1 : OfTask(records[k]) /\ records[k].index \in 1..Len(task)
                       /\ task[records[k].index] = "recorded" /\ records[k].index # i
  BY <1>1 DEF RecordInv, RowsInv, OfTask
<1>9. TimeInv'
  BY <1>1 DEF RecordInv, TimeInv, AllLaunched
<1>10. RowsInv'
  <2>1. ASSUME NEW k \in 1..m PROVE OfTask(records[k])'
    <3>1. CASE k \in Rows1
      BY <1>1, <1>2, <1>6, <1>8, <3>1 DEF OfTask
    <3>2. CASE k = m
      <4>1. sent[i] <= clock
        BY <1>2, Shapes DEF RecordInv, TimeInv
      <4>2. clock <= clock
        BY Shapes
      <4>3. records[k]' = rec
        BY <1>6, <3>2
      <4>4. QED
        BY <1>1, <1>2, <1>3, <4>1, <4>2, <4>3 DEF OfTask
    <3>3. QED
      BY <1>6, <3>1, <3>2
  <2>2. QED
    BY <1>6, <1>7, <2>1 DEF RowsInv
<1>11. OnceInv'
  <2>1. ASSUME NEW k \in 1..m, NEW l \in 1..m, records'[k].index = records'[l].index
        PROVE  k = l
    <3>1. CASE k \in Rows1 /\ l \in Rows1
      <4>1. records[k].index = records[l].index /\ ~GivenUp(records[k])
        <5>1. records'[k] = records[k] /\ records'[l] = records[l]
          BY <1>6, <3>1
        <5>2. records[k].index \in 1..Len(task)
          BY <1>8, <3>1
        <5>3. QED
          BY <2>1, <5>1, <5>2 DEF GivenUp
      <4>2. QED
        BY <3>1, <4>1 DEF RecordInv, OnceInv
    <3>2. CASE k = m \/ l = m
      BY <1>3, <1>6, <1>8, <2>1, <3>2
    <3>3. QED
      BY <1>6, <3>1, <3>2
  <2>2. ASSUME NEW j \in 1..Len(task), task'[j] = "recorded"
        PROVE  \E k \in 1..m : records'[k].index = j
    <3>1. CASE j = i
      BY <1>3, <1>6, <3>1
    <3>2. CASE j # i
      <4>1. task[j] = "recorded"
        BY <1>2, <2>2, <3>2
      <4>2. PICK k \in Rows1 : records[k].index = j
        BY <4>1 DEF RecordInv, OnceInv
      <4>3. QED
        BY <1>6, <4>2
    <3>3. QED
      BY <3>1, <3>2
  <2>3. QED
    BY <1>2, <1>7, <2>1, <2>2 DEF OnceInv
<1>12. AccountInv'
  <2>1. Recorded' = Recorded \cup {i} /\ i \notin Recorded
    BY <1>1, <1>2, Shapes DEF Recorded
  <2>2. IsFiniteSet(Recorded)
    <3>1. 1 \in Int /\ Len(task) \in Int
      BY Shapes
    <3>2. IsFiniteSet(1..Len(task))
      BY <3>1, FS_Interval, Zenon
    <3>3. Recorded \in SUBSET (1..Len(task))
      BY Shapes DEF Recorded
    <3>4. QED
      BY <3>2, <3>3, FS_Subset
  <2>3. Cardinality(Recorded') = Cardinality(Recorded) + 1
    BY <2>1, <2>2, FS_AddElement
  <2>4. Len(records) = Cardinality(Recorded)
        /\ \A j \in 1..Len(task) : task[j] \in {"awaiting", "recorded"}
    BY <1>1 DEF RecordInv, AccountInv
  <2>5. \A j \in 1..Len(task) : task'[j] \in {"awaiting", "recorded"}
    BY <1>2, <2>4
  <2>6. QED
    BY <1>1, <1>2, <1>6, <2>3, <2>4, <2>5 DEF AccountInv
<1>13. PeakInv'
  <2>1. ASSUME NEW t \in Nat PROVE Cardinality(OpenAt(t)') <= peak'
    <3>1. OpenAt(t)' \in SUBSET OpenAt(t)
      BY <1>1, <1>6, <1>7 DEF OpenAt
    <3>2. Cardinality(OpenAt(t)) <= peak /\ peak <= peak /\ peak \in Nat /\ peak' = peak
      BY <1>1, Shapes DEF RecordInv, PeakInv
    <3>3. QED
      BY <3>1, <3>2, OpenIsFinite, Fewer
  <2>2. QED
    BY <2>1 DEF PeakInv
<1>14. QED
  BY <1>9, <1>10, <1>11, <1>12, <1>13 DEF RecordInv

\* A cancelled task leaves no record; the run has returned by then.
LEMMA UnwindKeepsRecords ==
  ASSUME LoopInv, RecordInv, NEW i \in DOMAIN task, Unwind(i)
  PROVE  RecordInv'
<1>1. /\ UNCHANGED <<offsets, clock, main, launched, deadline, sent, records, wall, peak>>
      /\ task[i] = "cancelling" /\ ~Live /\ ~Live'
  BY Shapes DEF Unwind, Exit, Live, RecordInv, AccountInv
<1>2. /\ i \in 1..Len(task) /\ Len(task') = Len(task) /\ DOMAIN task' = DOMAIN task
      /\ \A j \in 1..Len(task) : task'[j] = IF j = i THEN "gone" ELSE task[j]
  BY Shapes DEF Unwind
<1>3. \A j \in 1..Len(task) : task'[j] = "recorded" <=> task[j] = "recorded"
  BY <1>1, <1>2
<1>4. TimeInv'
  BY <1>1 DEF RecordInv, TimeInv, AllLaunched
<1>5. RowsInv'
  BY <1>1, <1>2, <1>3 DEF RecordInv, RowsInv, Rows1, OfTask, GivenUp
<1>6. OnceInv'
  BY <1>1, <1>2, <1>3 DEF RecordInv, OnceInv, Rows1, GivenUp
<1>7. AccountInv'
  <2>1. {j \in DOMAIN task' : Gone(j)'} = {j \in DOMAIN task : Gone(j)}
    BY <1>1, <1>2, Shapes DEF Gone
  <2>2. RecordsFor(-1)' = RecordsFor(-1)
    BY <1>1 DEF RecordsFor
  <2>3. QED
    BY <1>1, <2>1, <2>2 DEF RecordInv, AccountInv, Rows1
<1>8. PeakInv'
  BY <1>1 DEF RecordInv, PeakInv, OpenAt, Rows1
<1>9. QED
  BY <1>4, <1>5, <1>6, <1>7, <1>8 DEF RecordInv

\* What the sort does to a list of records.
LEMMA Sorted ==
  ASSUME NEW recs \in Seq(Record)
  PROVE  LET n == Len(recs)
             r == Order(Indices(recs))
         IN  /\ n \in Nat /\ r \in Bijection(1..n, 1..n)
             /\ \A k \in 1..n : r[k] \in 1..n /\ ByIndex(recs)[k] = recs[r[k]]
             /\ \A k, l \in 1..n : r[k] = r[l] => k = l
             /\ \A j \in 1..n : \E k \in 1..n : r[k] = j
             /\ ByIndex(recs) \in Seq(Record) /\ Len(ByIndex(recs)) = n
             /\ \A k, l \in 1..n : k < l => recs[r[k]].index <= recs[r[l]].index
<1> DEFINE n == Len(recs)
           r == Order(Indices(recs))
<1>1. n \in Nat /\ DOMAIN recs = 1..n /\ \A k \in 1..n : recs[k] \in Record
  OBVIOUS
<1>2. Keys(Indices(recs), n)
  BY <1>1 DEF Keys, Indices, Record
<1>3. /\ r \in Bijection(1..n, 1..n)
      /\ ByIndex(recs) = [k \in 1..n |-> recs[r[k]]]
      /\ \A k, l \in 1..n : k < l => Before(Indices(recs), r[k], r[l])
  BY <1>1, <1>2, SortingMovesRows DEF ByIndex
<1> HIDE DEF r, n
<1>4. /\ r \in [1..n -> 1..n]
      /\ \A k, l \in 1..n : r[k] = r[l] => k = l
      /\ \A j \in 1..n : \E k \in 1..n : r[k] = j
  BY <1>3 DEF Bijection, Injection, Surjection, IsInjective
<1>5. \A k \in 1..n : r[k] \in 1..n /\ ByIndex(recs)[k] = recs[r[k]]
  BY <1>3, <1>4
<1>6. ByIndex(recs) \in Seq(Record) /\ Len(ByIndex(recs)) = n
  <2>1. ByIndex(recs) \in [1..n -> Record]
    BY <1>1, <1>3, <1>4
  <2>2. QED
    BY <1>1, <2>1, SeqDef
<1>7. \A k, l \in 1..n : k < l => recs[r[k]].index <= recs[r[l]].index
  <2>1. SUFFICES ASSUME NEW k \in 1..n, NEW l \in 1..n, k < l
                 PROVE  recs[r[k]].index <= recs[r[l]].index
    OBVIOUS
  <2>2. Before(Indices(recs), r[k], r[l]) /\ r[k] \in 1..n /\ r[l] \in 1..n
    BY <1>3, <1>5, <2>1
  <2>3. /\ Indices(recs)[r[k]] = recs[r[k]].index /\ Indices(recs)[r[l]] = recs[r[l]].index
        /\ Indices(recs)[r[k]] \in Int /\ Indices(recs)[r[l]] \in Int
    BY <1>1, <1>2, <2>2 DEF Keys, Indices
  <2>4. QED
    BY <2>2, <2>3 DEF Before
<1>8. QED
  BY <1>1, <1>3, <1>4, <1>5, <1>6, <1>7 DEF r, n

\* As many rows are in T after the sort as before it.
LEMMA SameNumber ==
  ASSUME NEW n \in Nat, NEW r \in Bijection(1..n, 1..n), NEW T \in SUBSET (1..n)
  PROVE  Cardinality({k \in 1..n : r[k] \in T}) = Cardinality(T)
<1> DEFINE R == {k \in 1..n : r[k] \in T}
           b == [k \in R |-> r[k]]
<1>1. /\ r \in [1..n -> 1..n]
      /\ \A k, l \in 1..n : r[k] = r[l] => k = l
      /\ \A j \in 1..n : \E k \in 1..n : r[k] = j
  BY DEF Bijection, Injection, Surjection, IsInjective
<1>2. b \in [R -> T]
  OBVIOUS
<1>3. \A k, l \in R : b[k] = b[l] => k = l
  BY <1>1
<1>4. \A j \in T : \E k \in R : b[k] = j
  <2>1. TAKE j \in T
  <2>2. PICK k \in 1..n : r[k] = j
    BY <1>1
  <2>3. k \in R /\ b[k] = j
    BY <2>2
  <2>4. QED
    BY <2>3
<1>5. ExistsBijection(R, T)
  <2>1. b \in Injection(R, T)
    BY <1>2, <1>3 DEF Injection, IsInjective
  <2>2. b \in Surjection(R, T)
    BY <1>2, <1>4 DEF Surjection
  <2>3. QED
    BY <2>1, <2>2 DEF Bijection, ExistsBijection
<1>6. IsFiniteSet(R)
  <2>1. 1 \in Int /\ n \in Int
    OBVIOUS
  <2>2. IsFiniteSet(1..n)
    BY <2>1, FS_Interval, Zenon
  <2>3. QED
    BY <2>2, FS_Subset
<1>7. QED
  BY <1>5, <1>6, FS_Bijection

\* A placeholder is a record.
LEMMA PlaceholderIsARecord ==
  ASSUME LoopInv, RecordInv
  PROVE  Placeholder \in Record /\ GivenUp(Placeholder)
<1>1. Duration(offsets) \in Nat
  <2>1. CASE offsets = <<>>
    BY <2>1 DEF Duration
  <2>2. CASE offsets # <<>>
    BY <2>2, Shapes DEF Duration, Last
  <2>3. QED
    BY <2>1, <2>2
<1>2. QED
  BY <1>1, Shapes DEF Placeholder, Record, GivenUp

\* The run returns: every request has its own record, or a placeholder.
LEMMA CollectKeepsRecords ==
  ASSUME LoopInv, RecordInv, Collect
  PROVE  RecordInv'
<1> DEFINE m == Len(records)
           c == Cardinality(Unrecorded)
           n == m + c
           recs == records \o Placeholders
           r == Order(Indices(recs))
<1>1. /\ UNCHANGED <<offsets, clock, launched, deadline, sent, current, peak>>
      /\ wall' = clock /\ main = "woken" /\ main' = "returned" /\ Live /\ ~Live'
      /\ AllBegun /\ AllLaunched
  BY DEF Collect, Return, Live, LoopInv, FinalInv, RecordInv, TimeInv
<1>2. /\ Len(task') = Len(task) /\ DOMAIN task' = 1..Len(task)
      /\ \A i \in 1..Len(task) :
           task'[i] = IF task[i] = "awaiting" THEN "cancelling" ELSE task[i]
  BY Shapes DEF Collect, CancelPending
<1>3. /\ \A i \in 1..Len(task) : task[i] \in {"awaiting", "recorded"}
      /\ m = Cardinality(Recorded)
  BY <1>1 DEF RecordInv, AccountInv
<1>4. /\ IsFiniteSet(1..Len(task)) /\ Cardinality(1..Len(task)) = Len(task)
      /\ IsFiniteSet(Recorded) /\ IsFiniteSet(Unrecorded)
  <2>1. 1 \in Int /\ Len(task) \in Int /\ Len(task) \in Nat
    BY Shapes
  <2>2. /\ IsFiniteSet(1..Len(task))
        /\ Cardinality(1..Len(task)) = IF 1 > Len(task) THEN 0 ELSE Len(task) - 1 + 1
    BY <2>1, FS_Interval, Zenon
  <2>3. Recorded \in SUBSET (1..Len(task)) /\ Unrecorded \in SUBSET (1..Len(task))
    BY Shapes DEF Recorded, Unrecorded
  <2>4. IsFiniteSet(Recorded) /\ IsFiniteSet(Unrecorded)
    BY <2>2, <2>3, FS_Subset
  <2>5. Cardinality(1..Len(task)) = Len(task)
    BY <2>1, <2>2
  <2>6. QED
    BY <2>2, <2>4, <2>5
<1>5. c \in Nat /\ m \in Nat /\ n \in Nat /\ n = Len(offsets)
  <2>1. Recorded \cup Unrecorded = 1..Len(task) /\ Recorded \cap Unrecorded = {}
    BY Shapes DEF Recorded, Unrecorded
  <2>2. Cardinality(1..Len(task)) = Cardinality(Recorded) + c - Cardinality({})
    BY <1>4, <2>1, FS_Union
  <2>3. c \in Nat /\ Cardinality(Recorded) \in Nat /\ Cardinality({}) = 0
    BY <1>4, FS_CardinalityType, FS_EmptySet
  <2>4. Len(task) = Len(offsets)
    BY <1>1, Shapes DEF AllBegun, AllLaunched
  <2>5. QED
    BY <1>3, <1>4, <2>2, <2>3, <2>4
<1>6. Placeholders \in Seq(Record) /\ Len(Placeholders) = c
      /\ \A k \in 1..c : Placeholders[k] = Placeholder
  <2> HIDE DEF c
  <2>1. Placeholders = [i \in 1..c |-> Placeholder]
    BY DEF Placeholders, c
  <2>2. Placeholders \in [1..c -> Record]
    BY <2>1, PlaceholderIsARecord
  <2>3. QED
    BY <1>5, <2>1, <2>2, SeqDef
<1>7. /\ recs \in Seq(Record) /\ Len(recs) = n
      /\ \A k \in 1..m : recs[k] = records[k]
      /\ \A k \in (m + 1)..n : recs[k] = Placeholder
  <2> HIDE DEF c
  <2>1. records \in Seq(Record)
    BY Shapes
  <2>2. /\ recs \in Seq(Record) /\ Len(recs) = m + c
        /\ \A k \in 1..(m + c) : recs[k] = IF k <= m THEN records[k] ELSE Placeholders[k - m]
    BY <1>6, <2>1, ConcatProperties
  <2>3. QED
    BY <1>5, <1>6, <2>2
<1>8. records' = ByIndex(recs)
  BY DEF Collect, Return
<1>9. /\ r \in Bijection(1..n, 1..n)
      /\ \A k \in 1..n : r[k] \in 1..n /\ records'[k] = recs[r[k]]
      /\ \A k, l \in 1..n : r[k] = r[l] => k = l
      /\ \A j \in 1..n : \E k \in 1..n : r[k] = j
      /\ records' \in Seq(Record) /\ Len(records') = n
      /\ \A k, l \in 1..n : k < l => recs[r[k]].index <= recs[r[l]].index
  <2> HIDE DEF recs, n
  <2>1. QED
    BY <1>7, <1>8, Sorted
<1> HIDE DEF recs, r, c, n
<1>10. Rows1' = 1..n
  BY <1>9 DEF Rows1
<1>11. /\ \A k \in 1..n : k \in 1..m \/ k \in (m + 1)..n
       /\ \A k \in 1..m : k \in 1..n
       /\ \A k \in 1..m : k \notin (m + 1)..n
  BY <1>5 DEF n
<1>12. \A k \in 1..m : /\ recs[k] = records[k] /\ OfTask(records[k])
                       /\ records[k].index \in 1..Len(task) /\ records[k].index # -1
  <2>1. ASSUME NEW k \in 1..m PROVE OfTask(records[k])
    BY <1>1 DEF RecordInv, RowsInv, Rows1
  <2>2. ASSUME NEW k \in 1..m
        PROVE  records[k].index \in 1..Len(task) /\ records[k].index # -1
    <3>1. records[k].index \in 1..Len(task)
      BY <2>1 DEF OfTask
    <3>2. Len(task) \in Nat
      BY Shapes
    <3>3. QED
      BY <3>1, <3>2
  <2>3. QED
    BY <1>7, <2>1, <2>2
<1>13. \A k \in (m + 1)..n : GivenUp(recs[k]) /\ recs[k].index = -1
  BY <1>7, PlaceholderIsARecord DEF GivenUp
<1>14. TimeInv'
  BY <1>1, Shapes DEF RecordInv, TimeInv, AllLaunched
<1>15. RowsInv'
  <2>1. ASSUME NEW k \in 1..n PROVE OfTask(records[k])' \/ GivenUp(records[k])'
    <3>1. r[k] \in 1..n /\ records'[k] = recs[r[k]]
      BY <1>9
    <3>2. CASE r[k] \in 1..m
      <4>1. OfTask(records[r[k]]) /\ records'[k] = records[r[k]]
        BY <1>12, <3>1, <3>2
      <4>2. QED
        BY <1>1, <1>2, <4>1 DEF OfTask
    <3>3. CASE r[k] \in (m + 1)..n
      BY <1>13, <3>1, <3>3 DEF GivenUp
    <3>4. QED
      BY <1>11, <3>1, <3>2, <3>3
  <2>2. QED
    BY <1>1, <1>9, <1>10, <2>1 DEF RowsInv
<1>16. OnceInv'
  <2>1. ASSUME NEW k \in 1..n, NEW l \in 1..n, records'[k].index = records'[l].index
        PROVE  k = l \/ GivenUp(records[k])'
    <3>1. /\ r[k] \in 1..n /\ records'[k] = recs[r[k]]
          /\ r[l] \in 1..n /\ records'[l] = recs[r[l]]
      BY <1>9
    <3>2. CASE r[k] \in (m + 1)..n
      BY <1>13, <3>1, <3>2 DEF GivenUp
    <3>3. CASE r[k] \in 1..m
      <4>1. recs[r[k]] = records[r[k]] /\ records[r[k]].index # -1 /\ ~GivenUp(records[r[k]])
        BY <1>12, <3>3 DEF GivenUp
      <4>2. r[l] \in 1..m
        BY <1>11, <1>13, <2>1, <3>1, <4>1
      <4>3. records[r[k]].index = records[r[l]].index
        BY <1>12, <2>1, <3>1, <4>1, <4>2
      <4>4. r[k] = r[l]
        BY <3>3, <4>1, <4>2, <4>3 DEF RecordInv, OnceInv, Rows1
      <4>5. QED
        BY <1>9, <4>4
    <3>4. QED
      BY <1>11, <3>1, <3>2, <3>3
  <2>2. ASSUME NEW i \in 1..Len(task), task'[i] = "recorded"
        PROVE  \E k \in 1..n : records'[k].index = i
    <3>1. task[i] = "recorded"
      BY <1>2, <2>2
    <3>2. PICK j \in 1..m : records[j].index = i
      BY <3>1 DEF RecordInv, OnceInv, Rows1
    <3>3. PICK k \in 1..n : r[k] = j
      BY <1>9, <1>11
    <3>4. records'[k] = records[j]
      BY <1>9, <1>12, <3>3
    <3>5. QED
      BY <3>2, <3>4
  <2>3. QED
    BY <1>2, <1>10, <2>1, <2>2 DEF OnceInv
<1>17. AccountInv'
  <2>1. Cardinality(RecordsFor(-1)') = c
    <3>1. RecordsFor(-1)' = {k \in 1..n : r[k] \in (m + 1)..n}
      <4>1. DOMAIN records' = 1..n
        BY <1>9
      <4>2. ASSUME NEW k \in 1..n PROVE records'[k].index = -1 <=> r[k] \in (m + 1)..n
        <5>1. r[k] \in 1..n /\ records'[k] = recs[r[k]]
          BY <1>9
        <5>2. CASE r[k] \in 1..m
          BY <1>11, <1>12, <5>1, <5>2
        <5>3. CASE r[k] \in (m + 1)..n
          BY <1>13, <5>1, <5>3
        <5>4. QED
          BY <1>11, <5>1, <5>2, <5>3
      <4>3. QED
        BY <4>1, <4>2 DEF RecordsFor
    <3>2. (m + 1)..n \in SUBSET (1..n)
      BY <1>5
    <3>3. Cardinality((m + 1)..n) = c
      <4>1. m + 1 \in Int /\ n \in Int /\ n = m + c
        BY <1>5 DEF n
      <4>2. Cardinality((m + 1)..n) = IF m + 1 > n THEN 0 ELSE n - (m + 1) + 1
        BY <4>1, FS_Interval, Zenon
      <4>3. QED
        BY <1>5, <4>1, <4>2
    <3>4. Cardinality({k \in 1..n : r[k] \in (m + 1)..n}) = Cardinality((m + 1)..n)
      <4>1. n \in Nat /\ r \in Bijection(1..n, 1..n)
        BY <1>5, <1>9
      <4>2. QED
        BY <4>1, <3>2, SameNumber, Zenon
    <3>5. QED
      BY <3>1, <3>3, <3>4
  <2>2. {i \in DOMAIN task' : Gone(i)'} = Unrecorded
    BY <1>2, <1>3, Shapes DEF Gone, Unrecorded
  <2>3. Len(records') = Len(offsets)
    BY <1>5, <1>9
  <2>4. \A k, l \in 1..n : k < l => records'[k].index <= records'[l].index
    <3>1. \A k \in 1..n : records'[k] = recs[r[k]]
      BY <1>9
    <3>2. \A k, l \in 1..n : k < l => recs[r[k]].index <= recs[r[l]].index
      BY <1>9
    <3>3. QED
      BY <3>1, <3>2
  <2>5. QED
    BY <1>1, <1>10, <2>1, <2>2, <2>3, <2>4 DEF AccountInv, c
<1>18. PeakInv'
  <2>1. ASSUME NEW t \in Nat PROVE Cardinality(OpenAt(t)') <= peak'
    <3>1. OpenAt(t)' \in SUBSET OpenAt(t)
      <4>1. ASSUME NEW i \in OpenAt(t)',
                   NEW j \in 1..m, records[j].index = i, records[j].finished <= t
            PROVE  FALSE
        <5>1. PICK k \in 1..n : r[k] = j
          BY <1>9, <1>11
        <5>2. records'[k] = records[j]
          BY <1>9, <1>12, <5>1
        <5>3. QED
          BY <1>10, <4>1, <5>2 DEF OpenAt
      <4>2. \A i \in OpenAt(t)' : i \in 1..Len(sent) /\ sent[i] <= t
        BY <1>1 DEF OpenAt
      <4>3. QED
        BY <4>1, <4>2 DEF OpenAt, Rows1
    <3>2. Cardinality(OpenAt(t)) <= peak /\ peak <= peak /\ peak \in Nat /\ peak' = peak
      BY <1>1, Shapes DEF RecordInv, PeakInv
    <3>3. QED
      BY <3>1, <3>2, OpenIsFinite, Fewer
  <2>2. QED
    BY <2>1 DEF PeakInv
<1>19. QED
  BY <1>14, <1>15, <1>16, <1>17, <1>18 DEF RecordInv

\* An empty schedule: nothing was sent and nothing is returned.
LEMMA EmptyKeepsRecords ==
  ASSUME LoopInv, RecordInv, ReturnEmpty
  PROVE  RecordInv'
<1>1. /\ UNCHANGED <<offsets, clock, launched, deadline, sent, task, current, peak>>
      /\ wall' = clock /\ main' = "returned" /\ Live /\ ~Live' /\ offsets = <<>>
      /\ records' = ByIndex(records)
  BY DEF ReturnEmpty, Return, Live
<1>2. Len(offsets) = 0 /\ Len(task) = 0 /\ Len(sent) = 0 /\ launched = 0
      /\ DOMAIN task = {} /\ 1..Len(sent) = {} /\ 1..Len(task) = {}
  BY <1>1, Shapes DEF LoopInv, ScheduleInv
<1>3. Recorded = {} /\ Len(records) = 0
  <2>1. Recorded = {}
    BY <1>2 DEF Recorded
  <2>2. QED
    BY <1>1, <2>1, FS_EmptySet DEF RecordInv, AccountInv
<1>4. records' \in Seq(Record) /\ Len(records') = 0
  BY <1>1, <1>3, Shapes, Sorted
<1>5. Rows1' = {} /\ DOMAIN records' = {}
  BY <1>4 DEF Rows1
<1>6. TimeInv'
  BY <1>1, <1>2, Shapes DEF RecordInv, TimeInv, AllLaunched
<1>7. RowsInv' /\ OnceInv'
  BY <1>1, <1>2, <1>4, <1>5 DEF RowsInv, OnceInv
<1>8. AccountInv'
  <2>1. RecordsFor(-1)' = {} /\ {i \in DOMAIN task' : Gone(i)'} = {}
    BY <1>1, <1>2, <1>5 DEF RecordsFor
  <2>2. QED
    BY <1>1, <1>2, <1>4, <1>5, <2>1 DEF AccountInv
<1>9. PeakInv'
  <2>1. ASSUME NEW t \in Nat PROVE Cardinality(OpenAt(t)') <= peak'
    <3>1. OpenAt(t)' = {} /\ OpenAt(t) = {}
      BY <1>1, <1>2 DEF OpenAt
    <3>2. Cardinality(OpenAt(t)) <= peak
      BY DEF RecordInv, PeakInv
    <3>3. QED
      BY <1>1, <3>1, <3>2
  <2>2. QED
    BY <2>1 DEF PeakInv
<1>10. QED
  BY <1>6, <1>7, <1>8, <1>9 DEF RecordInv

\* The invariant of the records, beside the one of the schedule and the counter.
THEOREM RecordsInvariant == Spec => [](LoopInv /\ RecordInv)
<1>1. LoopInv /\ RecordInv /\ [Next]_vars => RecordInv'
  <2> SUFFICES ASSUME LoopInv, RecordInv, [Next]_vars PROVE RecordInv'
    OBVIOUS
  <2>1. CASE Main
    BY <2>1, MainKeepsRecords, CollectKeepsRecords, EmptyKeepsRecords DEF Main
  <2>2. CASE Begin
    BY <2>2, BeginKeepsRecords
  <2>3. ASSUME NEW i \in DOMAIN task, Answered(i) \/ Raised(i) \/ Unwind(i)
        PROVE  RecordInv'
    <3>1. CASE Answered(i)
      <4>1. PICK ok \in BOOLEAN : Finish(i, clock - sent[i], ok)
        BY <3>1 DEF Answered
      <4>2. clock - sent[i] \in Nat
        <5>1. i \in 1..Len(task) /\ i \in 1..Len(sent)
          BY <2>3, Shapes
        <5>2. sent[i] <= clock /\ sent[i] \in Nat /\ clock \in Nat
          BY <5>1, Shapes DEF RecordInv, TimeInv
        <5>3. QED
          BY <5>2
      <4>3. QED
        BY <4>1, <4>2, FinishKeepsRecords
    <3>2. CASE Raised(i)
      <4>1. Finish(i, 0, FALSE) /\ 0 \in Nat /\ FALSE \in BOOLEAN
        BY <3>2 DEF Raised
      <4>2. QED
        BY <4>1, FinishKeepsRecords
    <3>3. CASE Unwind(i)
      BY <3>3, UnwindKeepsRecords
    <3>4. QED
      BY <2>3, <3>1, <3>2, <3>3
  <2>4. CASE Tick
    BY <2>4, TickKeepsRecords
  <2>5. CASE UNCHANGED vars
    <3>1. TimeInv' /\ RowsInv' /\ OnceInv'
      BY <2>5 DEF vars, RecordInv, TimeInv, RowsInv, OnceInv, Rows1, OfTask, GivenUp, Live,
                  AllLaunched
    <3>2. AccountInv' /\ PeakInv'
      BY <2>5 DEF vars, RecordInv, AccountInv, PeakInv, Rows1, Live, Recorded, RecordsFor,
                  Gone, OpenAt
    <3>3. QED
      BY <3>1, <3>2 DEF RecordInv
  <2>6. CASE Finished
    BY <2>5, <2>6 DEF Finished
  <2>7. QED
    BY <2>1, <2>2, <2>3, <2>4, <2>5, <2>6 DEF Next
<1>2. QED
  BY <1>1, InitRecords, LoopInvariant, PTL DEF Spec

------------------------------------------------------------------------------
(* What follows. *)

\* TypeOK (load.py): every variable keeps its type, for every schedule.
THEOREM LoopTypes == Spec => []TypeOK
<1>1. LoopInv /\ RecordInv => TypeOK
  <2> SUFFICES ASSUME LoopInv, RecordInv PROVE TypeOK
    OBVIOUS
  <2>1. /\ offsets \in Schedules /\ launched \in 0..Len(offsets) /\ Len(sent) <= launched
        /\ task \in Seq({"awaiting", "recorded", "cancelling", "gone"})
    BY DEF LoopInv, ScheduleInv, TaskStates
  <2>2. current \in Nat /\ peak \in Nat
    BY DEF LoopInv, CountInv
  <2>3. /\ deadline \in Nat /\ wall \in Nat
        /\ main \in {"running", "asleep", "draining", "woken", "returned"}
    BY DEF RecordInv, TimeInv
  <2>4. QED
    BY <2>1, <2>2, <2>3, Shapes DEF TypeOK
<1>2. QED
  BY <1>1, RecordsInvariant, PTL

\* A request's own records have an index that a placeholder does not have.
LEMMA OwnRecords ==
  ASSUME LoopInv, RecordInv, NEW k \in Rows1
  PROVE  /\ records[k] \in Record
         /\ records[k].index >= 0 <=> OfTask(records[k])
         /\ records[k].index = -1 <=> GivenUp(records[k])
         /\ OfTask(records[k]) \/ (~Live /\ GivenUp(records[k]))
         /\ OfTask(records[k]) => records[k].index \in 1..Len(task) /\ ~GivenUp(records[k])
<1>1. Len(task) \in Nat /\ records[k] \in Record
  BY Shapes
<1>2. OfTask(records[k]) => records[k].index \in 1..Len(task)
  BY DEF OfTask
<1>3. OfTask(records[k]) \/ (~Live /\ GivenUp(records[k]))
  BY DEF RecordInv, RowsInv
<1>4. OfTask(records[k]) => records[k].index >= 0 /\ records[k].index # -1
  BY <1>1, <1>2
<1>5. GivenUp(records[k]) => records[k].index = -1 /\ ~(records[k].index >= 0)
  BY DEF GivenUp
<1>6. QED
  BY <1>1, <1>2, <1>3, <1>4, <1>5

\* No coordinated omission: for every schedule, and however late the process is,
\* a latency reported on the schedule clock is the time since the request was due.
THEOREM NothingIsOmitted == Spec => []NoCoordinatedOmission
<1>1. LoopInv /\ RecordInv => NoCoordinatedOmission
  <2> SUFFICES ASSUME LoopInv, RecordInv, NEW k \in Rows1, records[k].ok
               PROVE  E2EFromSchedule(records[k])
                        = records[k].finished - offsets[records[k].index]
    BY Shapes DEF NoCoordinatedOmission
  <2> DEFINE rec == records[k]
             i == rec.index
  <2>1. OfTask(rec) /\ i \in 1..Len(task) /\ rec \in Record
    BY OwnRecords DEF GivenUp
  <2>2. /\ rec.scheduled = offsets[i] /\ rec.sent = sent[i]
        /\ rec.e2e = rec.finished - rec.sent
    BY <2>1 DEF OfTask
  <2>3. offsets[i] <= sent[i] /\ offsets[i] \in Nat /\ sent[i] \in Nat /\ rec.finished \in Nat
    BY <2>1, Shapes DEF LoopInv, ScheduleInv, Record
  <2>4. Lag(rec) = rec.sent - rec.scheduled
    BY <2>2, <2>3 DEF Lag
  <2>5. QED
    BY <2>2, <2>3, <2>4 DEF E2EFromSchedule
<1>2. QED
  BY <1>1, RecordsInvariant, PTL

\* Every scheduled request is accounted for exactly once, by its own record or
\* by the placeholder of a request given up on, for every schedule.
THEOREM EveryRequestIsAccountedFor == Spec => []AccountedOnce
<1>1. LoopInv /\ RecordInv => AccountedOnce
  <2> SUFFICES ASSUME LoopInv, RecordInv PROVE AccountedOnce
    OBVIOUS
  <2>1. ASSUME NEW i \in DOMAIN task
        PROVE  Cardinality(RecordsFor(i)) = IF task[i] = "recorded" THEN 1 ELSE 0
    <3>1. i \in 1..Len(task) /\ i # -1
      <4>1. i \in 1..Len(task) /\ Len(task) \in Nat
        BY Shapes
      <4>2. QED
        BY <4>1
    <3>2. CASE task[i] = "recorded"
      <4>1. PICK k \in Rows1 : records[k].index = i
        BY <3>1, <3>2 DEF RecordInv, OnceInv
      <4>2. ASSUME NEW l \in Rows1, records[l].index = i PROVE l = k
        <5>1. ~GivenUp(records[l])
          BY <3>1, <4>2 DEF GivenUp
        <5>2. QED
          BY <4>1, <4>2, <5>1 DEF RecordInv, OnceInv
      <4>3. RecordsFor(i) = {k}
        BY <4>1, <4>2, Shapes DEF RecordsFor
      <4>4. QED
        BY <3>2, <4>3, FS_Singleton
    <3>3. CASE task[i] # "recorded"
      <4>1. ASSUME NEW l \in Rows1, records[l].index = i PROVE FALSE
        BY <3>1, <3>3, <4>1, OwnRecords DEF OfTask, GivenUp
      <4>2. RecordsFor(i) = {}
        BY <4>1, Shapes DEF RecordsFor
      <4>3. QED
        BY <3>3, <4>2, FS_EmptySet
    <3>4. QED
      BY <3>2, <3>3
  <2>2. Cardinality(RecordsFor(-1)) = Cardinality({i \in DOMAIN task : Gone(i)})
    <3>1. CASE Live
      <4>1. RecordsFor(-1) = {}
        BY <3>1, OwnRecords, Shapes DEF RecordsFor
      <4>2. {i \in DOMAIN task : Gone(i)} = {}
        BY <3>1, Shapes DEF RecordInv, AccountInv, Gone
      <4>3. QED
        BY <4>1, <4>2
    <3>2. CASE ~Live
      BY <3>2 DEF RecordInv, AccountInv
    <3>3. QED
      BY <3>1, <3>2
  <2>3. main = "returned" => Len(records) = Len(offsets)
    BY DEF RecordInv, AccountInv, Live
  <2>4. QED
    BY <2>1, <2>2, <2>3 DEF AccountedOnce
<1>2. QED
  BY <1>1, RecordsInvariant, PTL

\* By the records, no more requests overlap at an instant than were open then.
LEMMA OverlapIsOpen ==
  ASSUME LoopInv, RecordInv, NEW t \in Nat
  PROVE  OverlapAt(records, t) \in Nat /\ OverlapAt(records, t) <= peak
<1> DEFINE R == Real(records)
           A == {k \in R : records[k].sent <= t}
           B == {k \in R : records[k].finished <= t}
           f == [k \in A \ B |-> records[k].index]
<1>1. R \in SUBSET Rows1 /\ \A k \in R : OfTask(records[k]) /\ records[k] \in Record
  BY OwnRecords, Shapes DEF Real
<1>2. B \in SUBSET A
  <2>1. ASSUME NEW k \in R, records[k].finished <= t PROVE records[k].sent <= t
    <3>1. /\ records[k].sent <= records[k].finished
          /\ records[k].sent \in Nat /\ records[k].finished \in Nat
      BY <1>1 DEF OfTask, Record
    <3>2. QED
      BY <2>1, <3>1
  <2>2. QED
    BY <2>1
<1>3. IsFiniteSet(A) /\ IsFiniteSet(B)
  <2>1. 1 \in Int /\ Len(records) \in Int
    BY Shapes
  <2>2. IsFiniteSet(Rows1)
    BY <2>1, FS_Interval, Zenon DEF Rows1
  <2>3. A \in SUBSET Rows1 /\ B \in SUBSET Rows1
    BY <1>1
  <2>4. IsFiniteSet(A)
    BY <2>2, <2>3, FS_Subset, Zenon
  <2>5. IsFiniteSet(B)
    BY <2>2, <2>3, FS_Subset, Zenon
  <2>6. QED
    BY <2>4, <2>5
<1>4. OverlapAt(records, t) = Cardinality(A \ B) /\ IsFiniteSet(A \ B)
  <2>1. A \cap B = B
    BY <1>2
  <2> HIDE DEF A, B
  <2>2. IsFiniteSet(A \ B) /\ Cardinality(A \ B) = Cardinality(A) - Cardinality(B)
    BY <1>3, <2>1, FS_Difference
  <2>3. OverlapAt(records, t) = Cardinality(A) - Cardinality(B)
    BY DEF OverlapAt, A, B
  <2>4. QED
    BY <2>2, <2>3
<1>5. f \in Injection(A \ B, OpenAt(t))
  <2>1. ASSUME NEW k \in A \ B PROVE records[k].index \in OpenAt(t)
    <3>1. /\ k \in Rows1 /\ OfTask(records[k])
          /\ records[k].sent <= t /\ ~(records[k].finished <= t)
      BY <1>1
    <3>2. records[k].index \in 1..Len(sent) /\ sent[records[k].index] <= t
      BY <3>1, Shapes DEF OfTask
    <3>3. ASSUME NEW l \in Rows1, records[l].index = records[k].index,
                 records[l].finished <= t
          PROVE  FALSE
      <4>1. ~GivenUp(records[l])
        BY <3>1, <3>3, OwnRecords
      <4>2. l = k
        BY <3>1, <3>3, <4>1 DEF RecordInv, OnceInv
      <4>3. QED
        BY <3>1, <3>3, <4>2
    <3>4. QED
      BY <3>2, <3>3 DEF OpenAt
  <2>2. ASSUME NEW k \in A \ B, NEW l \in A \ B, records[k].index = records[l].index
        PROVE  k = l
    <3>1. k \in Rows1 /\ l \in Rows1 /\ ~GivenUp(records[k])
      BY <1>1, OwnRecords
    <3>2. QED
      BY <2>2, <3>1 DEF RecordInv, OnceInv
  <2> HIDE DEF A, B
  <2>3. f \in [A \ B -> OpenAt(t)]
    BY <2>1
  <2>4. QED
    BY <2>2, <2>3 DEF Injection, IsInjective
<1> HIDE DEF A, B, f
<1>6. Cardinality(A \ B) <= Cardinality(OpenAt(t))
  BY <1>5, OpenIsFinite, FS_Injection
<1>7. Cardinality(A \ B) \in Nat /\ Cardinality(OpenAt(t)) \in Nat
  BY <1>4, OpenIsFinite, FS_CardinalityType
<1>8. Cardinality(OpenAt(t)) <= peak /\ peak \in Nat
  BY Shapes DEF RecordInv, PeakInv
<1>9. QED
  BY <1>4, <1>6, <1>7, <1>8

\* The in-flight count is exact, and the peak a replay rebuilds from the records
\* never exceeds the one that was counted (report.py:223), for every schedule.
THEOREM RebuiltPeakIsNoMore == Spec => []PeakIsTrue
<1>1. LoopInv /\ RecordInv => PeakIsTrue
  <2> SUFFICES ASSUME LoopInv, RecordInv PROVE PeakIsTrue
    OBVIOUS
  <2>1. /\ current = Cardinality({i \in DOMAIN task : task[i] \in {"awaiting", "cancelling"}})
        /\ current <= peak
    BY DEF LoopInv, CountInv, Out
  <2>2. RebuiltPeak(records) <= peak
    <3> DEFINE T == {0} \cup {OverlapAt(records, records[i].sent) : i \in Real(records)}
    <3>1. ASSUME NEW i \in Real(records)
          PROVE  /\ OverlapAt(records, records[i].sent) \in Nat
                 /\ OverlapAt(records, records[i].sent) <= peak
      <4>1. i \in Rows1
        BY Shapes DEF Real
      <4>2. records[i].sent \in Nat
        BY <4>1, Shapes DEF Record
      <4>3. QED
        BY <4>2, OverlapIsOpen
    <3>2. peak \in Nat /\ 0 <= peak
      BY Shapes
    <3>3. T \in SUBSET Nat /\ T # {} /\ \A x \in T : x <= peak
      BY <3>1, <3>2
    <3> HIDE DEF T
    <3>4. Greatest(T) \in T
      BY <3>2, <3>3, GreatestExists
    <3>5. QED
      BY <3>3, <3>4 DEF RebuiltPeak, T
  <2>3. QED
    BY <2>1, <2>2 DEF PeakIsTrue
<1>2. QED
  BY <1>1, RecordsInvariant, PTL

\* Numbers of 1..n that rise with every step are 1, 2, ..., n.
LEMMA RisingIsIdentity ==
  ASSUME NEW n \in Nat, NEW f \in [1..n -> 1..n],
         \A k, l \in 1..n : k < l => f[k] < f[l],
         NEW k \in 1..n
  PROVE  f[k] = k
<1>1. \A i, j \in 1..n : f[i] = f[j] => i = j
  <2>1. SUFFICES ASSUME NEW i \in 1..n, NEW j \in 1..n, f[i] = f[j], i < j PROVE FALSE
    OBVIOUS
  <2>2. f[i] < f[j] /\ f[i] \in Int
    BY <2>1
  <2>3. QED
    BY <2>1, <2>2
<1>2. f[k] \in 1..n
  OBVIOUS
<1>3. k <= f[k]
  <2> DEFINE g == [i \in 1..k |-> f[i]]
  <2>1. ASSUME NEW i \in 1..k PROVE f[i] \in 1..f[k]
    <3>1. i \in 1..n /\ f[i] \in 1..n /\ (i < k \/ i = k)
      OBVIOUS
    <3>2. f[i] <= f[k]
      BY <1>2, <3>1
    <3>3. QED
      BY <1>2, <3>1, <3>2
  <2>2. g \in Injection(1..k, 1..f[k])
    BY <1>1, <2>1 DEF Injection, IsInjective
  <2> HIDE DEF g
  <2>3. 1 \in Int /\ k \in Int /\ f[k] \in Int /\ ~(1 > k) /\ ~(1 > f[k])
    BY <1>2
  <2>4. /\ Cardinality(1..k) = IF 1 > k THEN 0 ELSE k - 1 + 1
        /\ Cardinality(1..f[k]) = IF 1 > f[k] THEN 0 ELSE f[k] - 1 + 1
        /\ IsFiniteSet(1..f[k])
    BY <2>3, FS_Interval, Zenon
  <2>5. Cardinality(1..k) <= Cardinality(1..f[k])
    BY <2>2, <2>4, FS_Injection
  <2>6. QED
    BY <2>3, <2>4, <2>5
<1>4. f[k] <= k
  <2> DEFINE g == [i \in k..n |-> f[i]]
  <2>1. ASSUME NEW i \in k..n PROVE f[i] \in f[k]..n
    <3>1. i \in 1..n /\ f[i] \in 1..n /\ (k < i \/ i = k)
      OBVIOUS
    <3>2. f[k] <= f[i]
      BY <1>2, <3>1
    <3>3. QED
      BY <1>2, <3>1, <3>2
  <2>2. g \in Injection(k..n, f[k]..n)
    <3>1. \A i \in k..n : i \in 1..n
      OBVIOUS
    <3>2. QED
      BY <1>1, <2>1, <3>1 DEF Injection, IsInjective
  <2> HIDE DEF g
  <2>3. n \in Int /\ k \in Int /\ f[k] \in Int /\ ~(k > n) /\ ~(f[k] > n)
    BY <1>2
  <2>4. /\ Cardinality(k..n) = IF k > n THEN 0 ELSE n - k + 1
        /\ Cardinality(f[k]..n) = IF f[k] > n THEN 0 ELSE n - f[k] + 1
        /\ IsFiniteSet(f[k]..n)
    BY <2>3, FS_Interval, Zenon
  <2>5. Cardinality(k..n) <= Cardinality(f[k]..n)
    BY <2>2, <2>4, FS_Injection
  <2>6. QED
    BY <2>3, <2>4, <2>5
<1>5. QED
  BY <1>2, <1>3, <1>4

\* When no request was given up on, the k-th record is that of the k-th request.
LEMMA AnsweredInOrder ==
  ASSUME LoopInv, RecordInv, ~Live, RecordsFor(-1) = {}
  PROVE  /\ Len(records) = Len(offsets)
         /\ \A k \in Rows1 : records[k].index = k /\ records[k].scheduled = offsets[k]
<1> DEFINE n == Len(records)
           f == [k \in 1..n |-> records[k].index]
<1>1. n = Len(offsets) /\ n \in Nat /\ Rows1 = 1..n /\ Len(task) <= n
  BY Shapes DEF RecordInv, AccountInv, Rows1
<1>2. \A k \in 1..n : /\ OfTask(records[k]) /\ ~GivenUp(records[k])
                      /\ records[k].index \in 1..Len(task)
  <2>1. \A k \in 1..n : records[k].index # -1
    BY <1>1, Shapes DEF RecordsFor
  <2>2. QED
    BY <1>1, <2>1, OwnRecords
<1>3. f \in [1..n -> 1..n]
  <2>1. \A i \in 1..Len(task) : i \in 1..n
    BY <1>1, Shapes
  <2>2. QED
    BY <1>2, <2>1
<1>4. ASSUME NEW k \in 1..n, NEW l \in 1..n, k < l PROVE f[k] < f[l]
  <2>1. records[k].index <= records[l].index
    BY <1>1, <1>4 DEF RecordInv, AccountInv
  <2>2. records[k].index # records[l].index
    <3>1. k # l
      BY <1>1, <1>4
    <3>2. QED
      BY <1>1, <1>2, <3>1 DEF RecordInv, OnceInv
  <2>3. f[k] \in Int /\ f[l] \in Int /\ f[k] = records[k].index /\ f[l] = records[l].index
    BY <1>3
  <2>4. QED
    BY <2>1, <2>2, <2>3
<1>5. ASSUME NEW k \in 1..n PROVE records[k].index = k
  <2>1. f[k] = records[k].index
    OBVIOUS
  <2> HIDE DEF f
  <2>2. f[k] = k
    BY <1>1, <1>3, <1>4, RisingIsIdentity, SMTT(30)
  <2>3. QED
    BY <2>1, <2>2
<1>6. QED
  BY <1>1, <1>2, <1>5 DEF OfTask

\* A run in which every request came back is replayed with the same rates and
\* latencies (records.py:16), for every schedule.
THEOREM AnsweredRunsReplay == Spec => []ReplayKeepsAnsweredRuns
<1>1. LoopInv /\ RecordInv => ReplayKeepsAnsweredRuns
  <2> SUFFICES ASSUME LoopInv, RecordInv, main = "returned", RecordsFor(-1) = {}
               PROVE  SameFigures
    BY DEF ReplayKeepsAnsweredRuns
  <2> DEFINE n == Len(records)
  <2>1. /\ n = Len(offsets) /\ n \in Nat /\ DOMAIN records = 1..n
        /\ DOMAIN offsets = 1..n
        /\ \A k \in 1..n : records[k].index = k /\ records[k].scheduled = offsets[k]
    BY AnsweredInOrder, Shapes DEF Live, Rows1
  <2>2. records = [k \in 1..n |-> records[k]] /\ offsets = [k \in 1..n |-> offsets[k]]
    BY <2>1, Shapes
  <2>3. ByIndex(records) = records
    <3>1. Keys(Indices(records), n)
      BY <2>1 DEF Keys, Indices
    <3>2. \A k, l \in 1..n : k < l => Indices(records)[k] < Indices(records)[l]
      BY <2>1 DEF Indices
    <3>3. QED
      BY <2>2, <3>1, <3>2, SortedStaysSorted DEF ByIndex
  <2>4. Replayed.records = records /\ Replayed.offsets = offsets
    <3>1. /\ Replayed.records = records
          /\ Replayed.offsets = [k \in DOMAIN records |-> records[k].scheduled]
      BY <2>3 DEF Replayed, LoadStep
    <3>2. [k \in DOMAIN records |-> records[k].scheduled] = [k \in 1..n |-> offsets[k]]
      BY <2>1
    <3>3. QED
      BY <2>2, <3>1, <3>2
  <2>5. Result.records = records /\ Result.offsets = offsets /\ Result.wall = wall
    BY DEF Result
  <2>6. /\ OfferedRate(Replayed) = OfferedRate(Result)
        /\ Latencies(Replayed) = Latencies(Result)
        /\ Completed(Replayed) = Completed(Result)
    BY <2>4, <2>5 DEF OfferedRate, Latencies, Completed
  <2>7. SameRate(CompletedRate(Replayed), CompletedRate(Result))
    <3>1. CASE offsets # <<>>
      <4>1. Duration(offsets) # 0
        <5>1. Duration(offsets) > 0
          BY <3>1, SchedulesSpan DEF LoopInv, ScheduleInv
        <5>2. QED
          BY <5>1
      <4>2. Window(Replayed) = Window(Result)
        BY <2>4, <2>5, <4>1 DEF Window
      <4>3. CompletedRate(Replayed) = CompletedRate(Result)
        BY <2>4, <2>5, <2>6, <4>2 DEF CompletedRate, InWindow
      <4>4. QED
        BY <4>3 DEF SameRate
    <3>2. CASE offsets = <<>>
      <4>1. DOMAIN records = {} /\ Duration(offsets) = 0
        BY <2>1, <3>2 DEF Duration
      <4>2. InWindow(Replayed) = {} /\ InWindow(Result) = {}
        BY <2>4, <2>5, <4>1 DEF InWindow, Completed
      <4>3. Window(Replayed) \in Nat /\ Window(Result) \in Nat
        <5>1. Replayed.wall = Greatest({0})
          <6>1. {0} \cup {records[i].finished : i \in DOMAIN records} = {0}
            BY <4>1
          <6>2. QED
            BY <2>3, <6>1 DEF Replayed, LoadStep
        <5>2. Greatest({0}) = 0
          BY DEF Greatest
        <5>3. wall \in Nat
          BY DEF RecordInv, TimeInv
        <5>4. QED
          BY <2>4, <2>5, <4>1, <5>1, <5>2, <5>3 DEF Window
      <4>4. CompletedRate(Replayed) = <<0, Window(Replayed)>>
            /\ CompletedRate(Result) = <<0, Window(Result)>>
        BY <4>2, FS_EmptySet DEF CompletedRate
      <4>5. QED
        BY <4>3, <4>4 DEF SameRate
    <3>3. QED
      BY <3>1, <3>2
  <2>8. QED
    BY <2>6, <2>7 DEF SameFigures, SameRate
<1>2. QED
  BY <1>1, RecordsInvariant, PTL

=============================================================================
