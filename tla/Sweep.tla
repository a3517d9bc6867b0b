------------------------------- MODULE Sweep -------------------------------
(***************************************************************************)
(* A rate sweep (bench/sweep.py run_sweep): for each rate, ascending, wait *)
(* for the engine to be idle, scrape it, offer the load while a sampler    *)
(* runs, scrape it again, and record a row; perhaps stop the ladder early. *)
(* The load generator is the OpenLoop module seen from here: it sends a    *)
(* schedule and returns when everything came back or its drain timed out.  *)
(* The engine is the environment.  It counts a request as busy from its    *)
(* arrival until it records it, and a scrape reads both in one piece.      *)
(***************************************************************************)
EXTENDS Integers, FiniteSets, Sequences, FiniteSetsExt

CONSTANTS Rates,         \* config.rates, sorted
          Duration,      \* config.duration_s
          Draws,         \* the seed's arrivals at rate 1: partial sums
          WarmUp,        \* config.warmup_requests
          StopAfter,     \* config.stop_after_unhealthy; 0 stands for None
          MaxRestarts    \* bound: restarts of the engine during the sweep

ASSUME RatesAscend ==
  /\ Rates \in Seq(Nat \ {0}) /\ Rates # <<>>
  /\ \A i, j \in DOMAIN Rates : i < j => Rates[i] < Rates[j]
ASSUME DrawsAscend ==
  /\ Draws \in Seq(Nat \ {0})
  /\ \A i, j \in DOMAIN Draws : i < j => Draws[i] < Draws[j]
ASSUME NumbersNatural ==
  {Duration, WarmUp, StopAfter, MaxRestarts} \subseteq Nat

VARIABLES step,        \* index into Rates; 0 during the warm-up
          phase,       \* where run_sweep is
          sent, completed, failed,   \* this step's requests, as the client sees them
          unseen,      \* of those, recorded by the engine, not yet answered here
          busy,        \* per step of origin: requests the engine's gauges count
          answered,    \* of those, the client has had its last chunk
          served,      \* per step of origin: requests in the engine's e2e histogram
          restarts,
          base,        \* the snapshot before the load, or none
          unhealthy,   \* consecutive_unhealthy
          rows         \* one per finished step

client == <<sent, completed, failed, unseen>>
engine == <<busy, answered, served, restarts>>
ladder == <<step, unhealthy, rows>>
vars == <<ladder, phase, client, engine, base>>

Steps == DOMAIN Rates
Origins == {0} \cup Steps
NONE == [ok |-> FALSE]

\* poisson_schedule: with one seed, a higher rate compresses the same draws.
Arrivals(r) == {k \in DOMAIN Draws : Draws[k] <= r * Duration}
Scheduled(s) == IF s = 0 THEN WarmUp ELSE Cardinality(Arrivals(Rates[s]))

\* offered_rate_per_s as a fraction: requests over the schedule's own span.
Offered(s) ==
  LET n == Scheduled(s) IN
    IF n = 0 THEN <<0, 1>> ELSE <<n * Rates[s], Draws[n]>>
LowerRate(s, t) == Offered(s)[1] * Offered(t)[2] < Offered(t)[1] * Offered(s)[2]

Total(f) == MapThenSumSet(LAMBDA o : f[o], Origins)

Row == [step : Steps, sent : Nat, completed : Nat, healthy : BOOLEAN,
        baseline : Int,    \* baseline_running + baseline_waiting; -1: no scrape
        count : Int,       \* requests_completed_step; -1: unavailable
        timely : BOOLEAN,  \* the final scrape did not run into its timeout
        own : Int, foreign : Int,   \* what the engine recorded in the window
        restarted : BOOLEAN]

TypeOK ==
  /\ step \in 0..Len(Rates)
  /\ phase \in {"loading", "settling", "baselining", "sampling", "closing", "done"}
  /\ {sent, completed, failed, unseen, unhealthy} \subseteq Nat
  /\ completed + failed + unseen <= sent /\ sent <= Scheduled(step)
  /\ busy \in [Origins -> Nat] /\ answered \in [Origins -> Nat]
  /\ \A o \in Origins : answered[o] <= busy[o]
  /\ served \in [Origins -> Nat]
  /\ restarts \in 0..MaxRestarts
  /\ rows \in Seq(Row)

Init ==
  /\ step = 0 /\ phase = "loading"
  /\ sent = 0 /\ completed = 0 /\ failed = 0 /\ unseen = 0
  /\ busy = [o \in Origins |-> 0] /\ answered = busy /\ served = busy
  /\ restarts = 0 /\ base = NONE
  /\ unhealthy = 0 /\ rows = <<>>

------------------------------------------------------------------------------
(* The engine, and the requests between it and the client. *)

Move(f, o, n) == [f EXCEPT ![o] = @ + n]

Send ==
  /\ phase = "loading" /\ sent < Scheduled(step)
  /\ sent' = sent + 1
  /\ busy' = Move(busy, step, 1)
  /\ UNCHANGED <<ladder, phase, completed, failed, unseen, answered, served, restarts, base>>

\* The last chunk reaches the client before the engine records the request.
AnswerFirst ==
  /\ phase = "loading"
  /\ busy[step] > answered[step]
  /\ answered' = Move(answered, step, 1)
  /\ completed' = completed + 1
  /\ UNCHANGED <<ladder, phase, sent, failed, unseen, busy, served, restarts, base>>

\* The request fails at the engine, which records nothing.
Fail ==
  /\ phase = "loading"
  /\ busy[step] > answered[step]
  /\ busy' = Move(busy, step, -1)
  /\ failed' = failed + 1
  /\ UNCHANGED <<ladder, phase, sent, completed, unseen, answered, served, restarts, base>>

\* The engine records a request and takes it off its gauges, in one pass.
RecordAnswered(o) ==
  /\ answered[o] > 0
  /\ answered' = Move(answered, o, -1)
  /\ busy' = Move(busy, o, -1) /\ served' = Move(served, o, 1)
  /\ UNCHANGED <<ladder, phase, client, restarts, base>>

RecordFirst(o) ==
  /\ busy[o] > answered[o]
  /\ busy' = Move(busy, o, -1) /\ served' = Move(served, o, 1)
  /\ unseen' = IF o = step /\ phase = "loading" THEN unseen + 1 ELSE unseen
  /\ UNCHANGED <<ladder, phase, sent, completed, failed, answered, restarts, base>>

AnswerSeen ==
  /\ phase = "loading" /\ unseen > 0
  /\ unseen' = unseen - 1 /\ completed' = completed + 1
  /\ UNCHANGED <<ladder, phase, sent, failed, engine, base>>

\* The engine notices that the client gave up and drops the request.
Abort(o) ==
  /\ o < step \/ phase # "loading"
  /\ busy[o] > answered[o]
  /\ busy' = Move(busy, o, -1)
  /\ UNCHANGED <<ladder, phase, client, answered, served, restarts, base>>

\* Everything in the engine is lost and its counters start again from zero.
Restart ==
  /\ restarts < MaxRestarts
  /\ restarts' = restarts + 1
  /\ busy' = [o \in Origins |-> 0] /\ answered' = busy' /\ served' = busy'
  /\ failed' = IF phase = "loading" THEN sent - completed - unseen ELSE failed
  /\ UNCHANGED <<ladder, phase, sent, completed, unseen, base>>

------------------------------------------------------------------------------
(* The sweep. *)

\* One answer of scrape_engine; own and foreign are not visible to the sweep.
Snapshot == [ok      |-> TRUE,
             busy    |-> Total(busy),
             count   |-> Total(served),
             own     |-> served[step],
             foreign |-> Total(served) - served[step],
             run     |-> restarts]

\* histogram_delta of the e2e histograms' counts: -1 when one is missing or the
\* counter went down.
Delta(before, after) ==
  IF before.ok /\ after.ok /\ after.count >= before.count
  THEN after.count - before.count ELSE -1

\* Mutant of LoadEnds: the warm-up's answers are counted in the first step.
LoadEnds_KeepsWarmUp ==
  /\ phase = "loading" /\ sent = Scheduled(step)
  /\ unseen' = 0
  /\ IF step = 0
     THEN phase' = "settling" /\ step' = 1 /\ sent' = 0 /\ UNCHANGED <<completed, failed>>
     ELSE phase' = "sampling" /\ UNCHANGED <<step, sent, completed, failed>>
  /\ UNCHANGED <<unhealthy, rows, engine, base>>

\* gather() or run_open_loop returns: all came back, or a timeout cut them off.
LoadEnds ==
  /\ phase = "loading" /\ sent = Scheduled(step)
  /\ unseen' = 0
  /\ IF step = 0
     THEN /\ phase' = "settling" /\ step' = 1
          /\ sent' = 0 /\ completed' = 0 /\ failed' = 0
     ELSE phase' = "sampling" /\ UNCHANGED <<step, sent, completed, failed>>
  /\ UNCHANGED <<unhealthy, rows, engine, base>>

\* _settle: the engine is seen idle, cannot be reached, or the deadline passes.
\* A poll that finds it busy changes nothing.
SettleEnds ==
  /\ phase = "settling"
  /\ phase' = "baselining"
  /\ UNCHANGED <<ladder, client, engine, base>>

\* Mutant of Settled: only an idle engine ends the wait.
Settled_WhenIdle == Total(busy) = 0 /\ SettleEnds

Settled == SettleEnds

\* Mutant of Baseline: the first step's snapshot serves every step.
Baseline_Once ==
  /\ phase = "baselining"
  /\ base' \in IF base.ok THEN {[base EXCEPT !.busy = Total(busy)]} ELSE {NONE, Snapshot}
  /\ phase' = "loading"
  /\ UNCHANGED <<ladder, client, engine>>

\* _scrape_or_none; then the load is offered beside the sampler.
Baseline ==
  /\ phase = "baselining"
  /\ base' \in {NONE, Snapshot}
  /\ phase' = "loading"
  /\ UNCHANGED <<ladder, client, engine>>

\* `await sampler`: it sees the stop event, at once or at the end of its pause.
SamplerEnds ==
  /\ phase = "sampling"
  /\ phase' = "closing"
  /\ UNCHANGED <<ladder, client, engine, base>>

\* summarise_step: an empty step is not healthy (slo_attainment is 0), nor is
\* one that left 5% unanswered; otherwise it is a matter of latency.
MayBeHealthy == sent > 0 /\ 100 * completed >= 95 * sent

\* Mutant of StopsLadder: the threshold is off by one.
StopsLadder_OneEarly(n) == StopAfter > 0 /\ n >= StopAfter - 1

StopsLadder(n) == StopAfter > 0 /\ n >= StopAfter

\* The row, the unhealthy count and what comes next.
EndStep(final, timely, healthy) ==
  LET n == IF healthy THEN 0 ELSE unhealthy + 1 IN
  /\ rows' = Append(rows,
       [step |-> step, sent |-> sent, completed |-> completed, healthy |-> healthy,
        baseline |-> IF base.ok THEN base.busy ELSE -1,
        count |-> Delta(base, final),
        timely |-> timely,
        own |-> IF base.ok /\ final.ok THEN final.own - base.own ELSE 0,
        foreign |-> IF base.ok /\ final.ok THEN final.foreign - base.foreign ELSE 0,
        restarted |-> base.ok /\ final.ok /\ final.run # base.run])
  /\ unhealthy' = n
  /\ sent' = 0 /\ completed' = 0 /\ failed' = 0
  /\ IF step = Len(Rates) \/ StopsLadder(n)
     THEN phase' = "done" /\ UNCHANGED step
     ELSE phase' = "settling" /\ step' = step + 1
  /\ UNCHANGED <<unseen, engine, base>>

\* Mutant of CaughtUp: the first closing scrape is taken as it is.
CaughtUp_AtOnce(final) == TRUE

\* Nothing to wait for, or the engine has recorded what the client saw finish.
CaughtUp(final) ==
  \/ ~final.ok \/ ~base.ok
  \/ Delta(base, final) = -1
  \/ Delta(base, final) >= completed

\* _final_scrape: poll until caught up, or take what there is at the deadline.
Close ==
  /\ phase = "closing"
  /\ \E final \in {NONE, Snapshot} :
     \E timely \in BOOLEAN : \E healthy \in {FALSE, MayBeHealthy} :
       /\ timely => CaughtUp(final)
       /\ EndStep(final, timely, healthy)

Done == phase = "done" /\ UNCHANGED vars

Requests == Send \/ AnswerFirst \/ Fail \/ AnswerSeen
Records == \E o \in Origins : RecordAnswered(o) \/ RecordFirst(o) \/ Abort(o)
Sweeps == LoadEnds \/ Settled \/ Baseline \/ SamplerEnds \/ Close

Next == Requests \/ Records \/ Restart \/ Sweeps \/ Done

Spec == Init /\ [][Next]_vars

\* The load is offered whatever the engine does, and every wait of the sweep
\* has a deadline.  Nothing is asked of the engine.
Fairness == WF_vars(Send) /\ WF_vars(Sweeps)
FairSpec == Spec /\ Fairness

------------------------------------------------------------------------------
(* Properties. *)

\* A step's engine-side numbers are about that step: with an idle engine at the
\* baseline and no restart since, they count this step's requests and nothing
\* else.  A restart they fail to notice never makes them claim more than was sent.
WindowIsTheStep ==
  \A k \in DOMAIN rows :
    LET row == rows[k] IN
    row.count # -1 =>
      IF row.restarted THEN row.count <= row.sent
      ELSE row.baseline = 0 => row.foreign = 0 /\ row.count = row.own /\ row.own <= row.sent

\* ... and miss none of the requests the client saw finish, unless the closing
\* scrape ran into its timeout.
CountCoversTheClient ==
  \A k \in DOMAIN rows :
    LET row == rows[k] IN
    row.count # -1 /\ row.baseline = 0 /\ ~row.restarted /\ row.timely
      => row.own >= row.completed

\* SweepReport.max_sustainable_rate_per_s over the steps T, of health h: the
\* last healthy step before the first unhealthy one, by offered rate; 0: None.
Before(s, t) == LowerRate(s, t) \/ (~LowerRate(t, s) /\ s < t)
MaxSustainable(T, h) ==
  LET healthy == {t \in T : h[t] /\ \A s \in T : Before(s, t) => h[s]} IN
    IF healthy = {} THEN 0 ELSE CHOOSE t \in healthy : \A s \in healthy : s = t \/ Before(s, t)

\* Stopping the ladder early "cannot change the answer" (sweep.py:118-121): whatever
\* the skipped steps would have been, the sustainable rate is the same.
EarlyStopKeepsTheAnswer ==
  phase = "done" =>
    \A h \in [Steps -> BOOLEAN] :
      (\A k \in DOMAIN rows : h[k] = rows[k].healthy)
        => MaxSustainable(DOMAIN rows, h) = MaxSustainable(Steps, h)

\* A sweep ends, whatever the engine does with its requests and its metrics.
SweepEnds == <>(phase = "done")

=============================================================================
