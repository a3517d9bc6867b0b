------------------------------ MODULE OpenLoop ------------------------------
(***************************************************************************)
(* One rate step of the load generator (bench/load.py run_open_loop): the  *)
(* coroutine that follows a schedule, the tasks it launches, their records *)
(* and the drain timeout.  One event loop: a task runs only while the main *)
(* coroutine is suspended, and each block between two awaits is one step.  *)
(* The server is the environment: it may answer at any time, or never.     *)
(***************************************************************************)
EXTENDS Report

CONSTANTS Schedules,   \* the schedules a run may be given
          Drain,       \* drain_timeout_s
          MaxClock     \* bound: the clock, but for a drain already begun

ASSUME SchedulesAscend ==
  \A s \in Schedules :
    /\ s \in Seq(Nat)
    /\ \A i, j \in DOMAIN s : i <= j => s[i] <= s[j]
    /\ \A i \in DOMAIN s : s[i] <= MaxClock
\* arrivals.py puts a gap before the first request too: a schedule with a request
\* in it has a span.
ASSUME SchedulesSpan == \A s \in Schedules : s # <<>> => Duration(s) > 0
ASSUME TimesNatural == Drain \in Nat /\ MaxClock \in Nat

VARIABLES offsets,    \* schedule.offsets
          clock,      \* time.perf_counter() - origin
          main,       \* where run_open_loop is
          launched,   \* Len(tasks): create_task calls so far
          deadline,   \* when asyncio.wait's timer is due
          sent,       \* sent_at of each task that has begun, in order
          task,       \* and what that task is doing
          records,
          current, peak,   \* _InFlight
          wall        \* LoadResult.wall_clock_s

vars == <<offsets, clock, main, launched, deadline, sent, task, records,
          current, peak, wall>>

\* An error recorded outside chat_stream has e2e_s at its default, 0.
Record == [index : Nat \cup {-1}, scheduled : Nat, sent : Nat, finished : Nat,
           e2e : Nat, ok : BOOLEAN]

TypeOK ==
  /\ offsets \in Schedules
  /\ clock \in Nat /\ deadline \in Nat /\ wall \in Nat
  /\ main \in {"running", "asleep", "draining", "woken", "returned"}
  /\ launched \in 0..Len(offsets)
  /\ sent \in Seq(Nat) /\ Len(sent) <= launched
  /\ task \in Seq({"awaiting", "recorded", "cancelling", "gone"})
  /\ Len(task) = Len(sent)
  /\ records \in Seq(Record)
  /\ current \in Nat /\ peak \in Nat

Init ==
  /\ offsets \in Schedules
  /\ clock = 0 /\ main = "running" /\ launched = 0 /\ deadline = 0
  /\ sent = <<>> /\ task = <<>> /\ records = <<>>
  /\ current = 0 /\ peak = 0 /\ wall = 0

AllLaunched == launched = Len(offsets)

\* create_task put the task on the ready queue, ahead of any timer that fires
\* later: every launched task has begun before the main coroutine resumes.
AllBegun == Len(sent) = launched

Unrecorded == {i \in DOMAIN task : task[i] # "recorded"}

------------------------------------------------------------------------------
(* The main coroutine. *)

Launch ==
  /\ launched' = launched + 1
  /\ UNCHANGED <<offsets, clock, deadline, sent, task, records, current, peak, wall>>

\* An overdue request is launched at once, without giving way to the tasks.
LaunchOverdue ==
  /\ main = "running" /\ ~AllLaunched
  /\ offsets[launched + 1] <= clock
  /\ Launch
  /\ UNCHANGED main

Sleep ==
  /\ main = "running" /\ ~AllLaunched
  /\ offsets[launched + 1] > clock
  /\ main' = "asleep"
  /\ UNCHANGED <<offsets, clock, launched, deadline, sent, task, records,
                 current, peak, wall>>

\* Mutant of WakeAndLaunch: a closed loop, which waits for the answers.
WakeAndLaunch_Closed ==
  /\ main = "asleep" /\ AllBegun
  /\ offsets[launched + 1] <= clock
  /\ Unrecorded = {}
  /\ main' = "running"
  /\ Launch

WakeAndLaunch ==
  /\ main = "asleep" /\ AllBegun
  /\ offsets[launched + 1] <= clock
  /\ main' = "running"
  /\ Launch

StartDrain ==
  /\ main = "running" /\ AllLaunched /\ launched > 0
  /\ main' = "draining"
  /\ deadline' = clock + Drain
  /\ UNCHANGED <<offsets, clock, launched, sent, task, records, current, peak, wall>>

\* Mutant of WaitEnds: asyncio.wait is given no timeout.
WaitEnds_NoTimeout ==
  /\ main = "draining" /\ AllBegun
  /\ Unrecorded = {}
  /\ main' = "woken"
  /\ UNCHANGED <<offsets, clock, launched, deadline, sent, task, records,
                 current, peak, wall>>

\* asyncio.wait's future is resolved: by its timer, or by the last task.
WaitEnds ==
  /\ main = "draining" /\ AllBegun
  /\ clock >= deadline \/ Unrecorded = {}
  /\ main' = "woken"
  /\ UNCHANGED <<offsets, clock, launched, deadline, sent, task, records,
                 current, peak, wall>>

Placeholder ==
  [index |-> -1, scheduled |-> Duration(offsets), sent |-> Duration(offsets),
   finished |-> clock, e2e |-> 0, ok |-> FALSE]

\* `pending` is computed now, after the timer: its tasks are told to stop.
CancelPending ==
  task' = [i \in DOMAIN task |-> IF task[i] = "awaiting" THEN "cancelling" ELSE task[i]]

Placeholders == [i \in 1..Cardinality(Unrecorded) |-> Placeholder]

Return(recs) ==
  /\ records' = ByIndex(recs)
  /\ wall' = clock
  /\ main' = "returned"
  /\ UNCHANGED <<offsets, clock, launched, deadline, sent, current, peak>>

\* Mutant of Collect: the unanswered requests are cancelled and forgotten.
Collect_NoPlaceholders == main = "woken" /\ CancelPending /\ Return(records)

\* Mutant of Collect: the runner takes the pending requests out of the count,
\* as their own finally does once more.
Collect_CountsThemOut ==
  /\ main = "woken"
  /\ CancelPending
  /\ records' = ByIndex(records \o Placeholders)
  /\ wall' = clock
  /\ main' = "returned"
  /\ current' = current - Cardinality(Unrecorded)
  /\ UNCHANGED <<offsets, clock, launched, deadline, sent, peak>>

\* The main coroutine resumes: what is still pending is cancelled, each gets a
\* placeholder, and the run returns without awaiting the cancelled tasks.
Collect == main = "woken" /\ CancelPending /\ Return(records \o Placeholders)

\* `if tasks:` with an empty schedule.
ReturnEmpty ==
  /\ main = "running" /\ offsets = <<>>
  /\ Return(records)
  /\ UNCHANGED task

------------------------------------------------------------------------------
(* The tasks. *)

\* _InFlight.enter
Enter ==
  /\ current' = current + 1
  /\ peak' = IF current + 1 > peak THEN current + 1 ELSE peak

\* _InFlight.exit
Exit == current' = current - 1 /\ UNCHANGED peak

Begin ==
  /\ main # "running" /\ ~AllBegun
  /\ sent' = Append(sent, clock)
  /\ task' = Append(task, "awaiting")
  /\ Enter
  /\ UNCHANGED <<offsets, clock, main, launched, deadline, records, wall>>

\* Mutant of RecordOf: the request is said to have been due when it was sent.
RecordOf_Omission(i, e2e, ok) ==
  [index |-> i, scheduled |-> sent[i], sent |-> sent[i], finished |-> clock,
   e2e |-> e2e, ok |-> ok]

RecordOf(i, e2e, ok) ==
  [index |-> i, scheduled |-> offsets[i], sent |-> sent[i], finished |-> clock,
   e2e |-> e2e, ok |-> ok]

Finish(i, e2e, ok) ==
  /\ main # "running"
  /\ task[i] = "awaiting"
  /\ task' = [task EXCEPT ![i] = "recorded"]
  /\ records' = Append(records, RecordOf(i, e2e, ok))
  /\ Exit
  /\ UNCHANGED <<offsets, clock, main, launched, deadline, sent, wall>>

\* chat_stream returns, with a result or with the error it caught.
Answered(i) == \E ok \in BOOLEAN : Finish(i, clock - sent[i], ok)

\* chat_stream raises: recorded by `except Exception`.
Raised(i) == Finish(i, 0, FALSE)

\* Mutant of Unwind: `except BaseException` records the cancellation as well.
Unwind_Records(i) ==
  /\ main # "running"
  /\ task[i] = "cancelling"
  /\ task' = [task EXCEPT ![i] = "gone"]
  /\ records' = Append(records, RecordOf(i, 0, FALSE))
  /\ Exit
  /\ UNCHANGED <<offsets, clock, main, launched, deadline, sent, wall>>

\* CancelledError is no Exception: it leaves by the finally, with no record.
Unwind(i) ==
  /\ main # "running"
  /\ task[i] = "cancelling"
  /\ task' = [task EXCEPT ![i] = "gone"]
  /\ Exit
  /\ UNCHANGED <<offsets, clock, main, launched, deadline, sent, records, wall>>

------------------------------------------------------------------------------
\* The run does not read the clock after it has returned.
Tick ==
  /\ main # "returned"
  /\ clock < MaxClock \/ (main = "draining" /\ clock < deadline)
  /\ clock' = clock + 1
  /\ UNCHANGED <<offsets, main, launched, deadline, sent, task, records,
                 current, peak, wall>>

Finished ==
  /\ main = "returned"
  /\ \A i \in DOMAIN task : task[i] \in {"recorded", "gone"}
  /\ UNCHANGED vars

Main == \/ LaunchOverdue \/ Sleep \/ WakeAndLaunch
        \/ StartDrain \/ WaitEnds \/ Collect \/ ReturnEmpty

Next ==
  \/ Main
  \/ Begin
  \/ \E i \in DOMAIN task : Answered(i) \/ Raised(i) \/ Unwind(i)
  \/ Tick
  \/ Finished

Spec == Init /\ [][Next]_vars

\* The event loop runs what is ready and time passes.  Nothing is asked of the
\* server: no fairness of Answered or Raised.
Fairness ==
  /\ WF_vars(Main) /\ WF_vars(Begin) /\ WF_vars(Tick)
  /\ WF_vars(\E i \in DOMAIN task : Unwind(i))
FairSpec == Spec /\ Fairness

------------------------------------------------------------------------------
(* Properties. *)

Gone(i) == task[i] \in {"cancelling", "gone"}
RecordsFor(i) == {k \in DOMAIN records : records[k].index = i}

\* While the run lasts the records are those of the answered requests, each
\* once; when it returns, every scheduled request is accounted for exactly once,
\* by its own record or by the placeholder of a request it gave up on.
AccountedOnce ==
  /\ \A i \in DOMAIN task :
       Cardinality(RecordsFor(i)) = IF task[i] = "recorded" THEN 1 ELSE 0
  /\ Cardinality(RecordsFor(-1)) = Cardinality({i \in DOMAIN task : Gone(i)})
  /\ main = "returned" => Len(records) = Len(offsets)

\* The result is not touched after it was returned, although the tasks that
\* were cancelled still run and hold the same list.
RecordsAreFinal == [][main = "returned" => UNCHANGED <<records, peak, wall>>]_vars

\* No coordinated omission (load.py:14-24): the latency on the schedule clock is
\* all the time since the request was due, however late this process sent it.
NoCoordinatedOmission ==
  \A k \in DOMAIN records :
    records[k].ok =>
      E2EFromSchedule(records[k]) = records[k].finished - offsets[records[k].index]

\* The counter says how many requests are out, through answers, exceptions and
\* cancellations, and the peak that a replay rebuilds from the records never
\* exceeds the one counted live (report.py:223).
PeakIsTrue ==
  /\ current = Cardinality({i \in DOMAIN task : task[i] \in {"awaiting", "cancelling"}})
  /\ current <= peak
  /\ main = "returned" => RebuiltPeak(records) <= peak

\* Open loop: the requests leave by the schedule, each of them in the end,
\* although no answer need ever come.
S == INSTANCE Source
ImplementsSource == S!Spec

\* A server that never answers cannot keep the run from returning, nor leave a
\* request counted in flight for good.
RunEnds == <>[](main = "returned" /\ current = 0)

Result == [offsets |-> offsets, records |-> records, wall |-> wall]
Replayed == LoadStep(records)
SameFigures ==
  /\ SameRate(OfferedRate(Replayed), OfferedRate(Result))
  /\ SameRate(CompletedRate(Replayed), CompletedRate(Result))
  /\ Latencies(Replayed) = Latencies(Result)

\* A run in which every request came back is replayed with the same rates and
\* latencies.
ReplayKeepsAnsweredRuns ==
  main = "returned" /\ RecordsFor(-1) = {} => SameFigures

\* records.py:16: "Replay is exact to the file's own precision".
ReplayIsExact == main = "returned" => SameFigures

=============================================================================
