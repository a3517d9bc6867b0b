# InferStack, specified

TLA+ models of InferStack's gateway, its measurement harness and the programs that
run engines, checked with TLC on small instances and, where stated, proved with
TLAPS for every value of the constants. Paths below are relative to the package, `src/inferstack/`.

## 1. The system

InferStack puts an OpenAI-compatible **gateway** in front of a vLLM engine,
**measures** the pair with an open-loop load generator, and runs **tuning
sessions** that repeat the measurement over engine configurations on a rented
GPU. Everything long-lived is one Python process with one asyncio event loop, or
a sequential script; what interleaves is tasks between two awaits, the engine,
the clients, and the clock.

| Component | State it keeps | Operations | Talks to |
|---|---|---|---|
| Admission control (`gateway/limits.py`) | semaphore, `in_flight`, `waiting`, two totals | `acquire`, `release`, `stats` | called by the gateway; read by `/ready`, `/metrics` |
| Gateway request path (`gateway/app.py`, `proxy.py`, `middleware.py`, `observability/metrics.py`) | per request: its task, its slot, its upstream connection, its stream | `_completion`, `forward`, `stream`, `_relay`, `_hold_slot_until_stream_ends`, `/ready`, `/v1/models` | admission, the httpx pool, the engine, the client |
| API keys (`gateway/auth.py`) | none | `require_api_key` | the request path |
| Load generator (`bench/load.py`, `arrivals.py`) | schedule, tasks, records, in-flight count and peak | `run_open_loop` and its tasks | the engine, through `EngineClient` |
| Step report and replay (`bench/report.py`, `records.py`) | none: functions of the records | `summarise_step`, `SweepReport`, `load_step` | the sweep, the CLI |
| Rate sweep (`bench/sweep.py`) | step, baseline snapshot, rows, unhealthy count | `_settle`, scrapes, sampler, early stop | load generator, engine `/metrics` |
| Engine metrics reader (`observability/engine.py`, `histograms.py`, `promtext.py`) | none | `scrape_engine`, `histogram_delta`, quantiles | the engine |
| Engine client (`engine/client.py`), smoke test (`smoke.py`) | one `CompletionResult` per call | `chat`, `chat_stream`, `run_smoke` | the engine or the gateway |
| Engine process (`engine/launcher.py`) | subprocess, process group, log pump, argv | `start`, `wait_until_healthy`, `stop`, `build_command`, `strip_flags` | the operating system |
| Tuning session (`remote/kernels/bench_sweep.py`) | plan, outcomes, durations, GPU baseline, files | `run_session`, `plan_skip`, `run_variant`, `release_engine`, `on_result` | engine process, sweep, files |
| Other kernels (`serve_smoke.py`, `gateway_metrics.py`, `gpu_probe.py`) | results, one engine, a gateway | `main` and its steps | engine process, gateway, files |
| Tuning comparison (`bench/tuning.py`) | plan, results | `parse_variants`, frontier, best, verdict, `load_tuning` | report, files |
| Configuration (`config.py`), probe (`probe.py`), compatibility (`compat.py`) | settings, read once | `load_settings`, `probe_environment`, `check_profile` | every program that starts something |
| Command line (`cli.py`) | none of its own | `serve`, `doctor`, and commands that render | all of the above |
| Kaggle runner (`remote/kaggle.py`) | none beyond the remote kernel | `push`, `wait`, `fetch_output` | Kaggle |
| Logging, plots, scripts, deployment | none that changes while they run | | |

What is hard in it:

* **Slots that change hands.** A waiter's slot is granted before its task runs,
  and between the two its timer may fire or its task be cancelled. A stream's
  slot passes from the handler to a generator that outlives it, and is given
  back by whoever notices the end: the stream, an error path, a cancellation, or
  the finaliser of an abandoned generator.
* **Clients that vanish** at any await, and engines that refuse, break off, hang
  or answer with something that cannot be rendered.
* **A run that must end** and be accounted for exactly although the server need
  never answer, with cancelled tasks still running after the result is returned.
* **Measurement windows** between two scrapes of an engine that records late,
  still serves what its clients gave up on, or restarts.
* **Engines that do not let go**: a parent that exits and leaves workers with the
  GPU or with the listening socket, a SIGKILL that hangs in the driver; and the
  next engine is started on the same machine, on the same port, minutes later.
* **Sessions that are killed** at a time limit, or whose disk fills up, between any
  two writes, and must leave files that can be read back.
* **A command assembled in layers** (defaults, profile, environment, variant) from
  which flags are removed that the installed engine does not know.

What makes each component correct, and where it is stated:

| Component | Correct when | Properties |
|---|---|---|
| Admission | slots are neither lost nor made, the line is FIFO and keeps moving, the counters are facts | `SlotsConserved`, `NoLostWakeup`, `DequeIsTheWaiters`, `CountersTellTheTruth`, `ShedOnlyWhenFull`, `WaitersAreServed`, refinement of `SlotPool` |
| Gateway | one release per acquired slot on every path; the engine works only under a slot; every stream ends, closes and is counted once | `KeepsAdmissionProtocol`, `SlotFollowsTheRequest`, `UpstreamCoveredBySlot`, `PoolIsNotTheLimit`, `StreamsRecordedOnce`, `ReturnsEverySlot`, `UpstreamIsClosed` |
| Load generator | open loop, no coordinated omission, each request accounted for once, the run ends | `ImplementsSource`, `NoCoordinatedOmission`, `AccountedOnce`, `PeakIsTrue`, `RecordsAreFinal`, `RunEnds` |
| Replay | the same figures as the live run | `ReplayKeepsAnsweredRuns`, `ReplayIsExact` (does not hold) |
| Sweep | a row's engine-side count is about its own step, or visibly not; stopping early changes nothing; the sweep ends | `WindowIsTheStep`, `CountCoversTheClient`, `EarlyStopKeepsTheAnswer`, `SweepEnds` |
| Engine process, kernels, `serve` | an engine starts on a free GPU; what a program owns is stopped when it ends; it ends | `CleanStart`, `StopsWhatItStarted`, `SessionEnds` |
| Tuning session | a measurement of the wrong engine shows; the budget is kept or its overrun has a cause; what was written is what happened | `MeasuredElsewhereShows`, `OverrunHasACause`, `LoadFollowsTheSession` |
| Tuning comparison | frontier, best, ties, table and verdict agree after every result | `FrontierIsWhatNothingBeats` |
| Engine client | times and counts are those of the stream | `TimesAreTheStream` |
| Engine metrics reader | a step's quantile lies in the bucket of the true one | `QuantileInItsBucket` |
| Launch (probe, settings, compatibility, flags) | what is launched parses, means what was built, and would pass `doctor` | `CommandIsAccepted`, `OwnFlagsSurvive` (does not hold) |

## 2. The modules

```
SlotPool  <--refines--  AdmissionController  <--INSTANCE, refines--  Gateway
           (by AdmissionPool)
Source    <--refines--  OpenLoop  --EXTENDS-->  Report  --EXTENDS-->  Orders
                        (seen from outside by)  Sweep
EngineProcess  <--EXTENDS--  TuningSession  <--EXTENDS--  Kernels
Client, Scrapes, Tuning, Launch  (independent; one run, MC_Measure)
                                      Tuning, Scrapes  --EXTENDS-->  Orders
```

`X_proofs` holds the theorems about `X`, `MC_X` its instances for TLC;
`Measure_proofs` holds those about Client, Scrapes, Tuning and Launch, `SumLemmas`
lemmas about sums over finite sets.
Definitions named `Operation_Variant` under a comment "Mutant of" are deliberate
bugs. No specification uses them: each shows, substituted for the operation it
names, that a property can fail.

**SlotPool** is what a reader of `limits.py` has in mind: owners, a line, FIFO
hand-over, a free slot goes to the line. **AdmissionPool** is the refinement mapping:
what an `AdmissionController` state looks like to that reader.

**AdmissionController** is `limits.py` over CPython 3.12's `asyncio.Semaphore`
(the version the repository pins). `value`, `waiters` and `fut` are the
semaphore's; `call` is how far a request's acquire and release got; `interrupt`
is the exception its task will find. Actions are the stretches between awaits:
`AcquireFree`, `AcquireRefused`, `AcquireQueued` run `acquire()` up to its first
await, `TimerFires` and `CancelWaiter` are what reaches a waiting task,
`ResumeAdmitted` and `ResumeInterrupted` are that task running again with all its
`finally` blocks, `Release` is `release()` with the wake-up it makes. `Wake`
states what waking the first *n* pending waiters does without the loop that
does it.

**Gateway** composes it (`A == INSTANCE AdmissionController`, same variables)
with the request path. `at[r]` names the await a request's task is suspended in:
`reading` the body, `acquiring` a slot, `forwarding` or `opening` the upstream
call, `draining` a refused stream's body, `relaying` (waiting for the engine),
`sending` (waiting for the client), `apologising` (sending the SSE error event),
`unwinding` (the stream is over, `wrapped()`'s `finally` is next), `abandoned`
(both generators suspended at a yield nobody resumes), `orphaned` (`wrapped()`
finalised, `_relay()` not). `release()` is unconditional in the code, so
`Releases(r, n)` is too: nothing in the model asks whether `r` holds a slot.

**Orders** is what `sorted(rows, key=...)` and `max` do: the k-th row is the one with
k rows up to it, so rows with equal keys stay as they were. A sort written by rank
can be reasoned about; `SortSeq` cannot.

**Source** is the abstract open-loop source: a schedule, a clock, send times,
and no server.

**Report** has the figures of a step as pure operators: the window, the rates as
fractions, the latency on the schedule's clock, the in-flight peak rebuilt from
records, and `LoadStep`, the replay.

**OpenLoop** is `run_open_loop`: the main coroutine (`LaunchOverdue`, `Sleep`,
`WakeAndLaunch`, `StartDrain`, `WaitEnds`, `Collect`), its tasks (`Begin`,
`Answered`, `Raised`, `Unwind`) and an integer clock. `WaitEnds` (the timer or the
last task resolves `asyncio.wait`'s future) and `Collect` (the coroutine resumes)
are separate, so answers land between the two.

**Sweep** is `run_sweep`, phase by phase: `LoadEnds`, `Settled`, `Baseline`,
`SamplerEnds`, `Close`. The engine is the environment: it counts requests in its
gauges (`busy`) and its end-to-end histogram (`served`), by step of origin, which
the sweep cannot see and the properties can. `Close` contains the whole end of a
step: the closing scrape, the row, the health count, the early stop.

**EngineProcess** is the machine and the supervisor's calls. `parent[e]` is the
process `Popen` knows (`none`, `loading`, `serving`, `doomed` by a SIGKILL that has
not taken effect, `exited`); `holds[e]` is what the living members of its group
hold: the GPU, the listening socket. The engine's own moves (`TakesGpu`, `Serves`,
`Exits`, `SurvivorsLetGo`, `Reaped`) are the environment; `Start`,
`HealthAnsweredBy`, `StopEnds`, `StopEscalates`, `StopRaises` are `launcher.py`'s,
cut where the caller waits. `/health` is answered by whoever holds the port.

**TuningSession** is `step_tune` of `bench_sweep.py` on top of it, one action per
stretch between two waits or two writes: the plan (`PlanSkips`, `PlanRuns`), one
variant (`Prepare`, `SaveCommand`, `EngineStarts`, `Healthy`, `Unhealthy`,
`SweepEnds`), `release_engine` (`PortSettles`, `GpuWait`, `GpuWaitAgain`, with the
stop between them in Kernels), the result (`Judge`) and its three writes
(`WriteVariant`, `WriteOrder`, `SaveResult`). A write truncates first, so a kill or
a full disk may leave a `torn` file. `Loaded` is `load_tuning` on what is on disk.
Two variables and two fields are ghosts: `elsewhere` (which other engine answered a
variant's `/health`) and `overruns` (what exceeded the estimate, what was spent
without one).

**Kernels** adds the four programs that start engines: `bench_sweep`,
`serve_smoke`, `gateway_metrics` (with its gateway process) and `inferstack serve`.
`script` says which one a behaviour is; `owned` is what its cleanup will stop, which
is less than what it started: `gateway_metrics` owns an engine only once it is
healthy. `stop()` (`SigTerm`, `Stopped`, `SigKill`, `StopTimesOut`) is shared;
`AfterStopRaises` says who catches its `TimeoutExpired`. `SessionKilled` is the
platform's time limit, in any state.

**Client** is `chat_stream` (and `chat`) against a server that writes lines of four
kinds in any order and ends or breaks the connection; the client reads a line any
time later. **Scrapes** is the pair of `/metrics` readings around a rate step:
cumulative buckets over several label sets, a restart, a reading torn between two
buckets, `histogram_delta`, `quantile_from_buckets` with its interpolation as a
fraction. **Tuning** parses a plan of variants and adds one result after the other;
the sweep's verdicts (`Healthy`, `MaxSustainable`) and the comparison (`Dominates`,
`Frontier`, `Best`, `Verdict`) are operators over them. **Launch** goes from the
probe over `load_settings`, `check_profile` and `EngineVariant.apply` to
`build_command`, `supported_flags` and `strip_flags`, for a kernel; `serve` launches
the command as built and `doctor` stops at its verdict. Flags and values are
tokens; of help texts only the set of flags matters. `Stripped` says which places of a
command `strip_flags` drops and `StripFlags` closes the gaps: the walk over the tokens,
written by place.

## 3. The runs

| Run | Instance | Result |
|---|---|---|
| `admission` | 5 requests, limit 2, with and without a wait budget, `FairSpec`, no symmetry | the invariants hold; a waiter is always served; `SlotPool` implemented with its FIFO order |
| `gateway_faults` | 3 requests, limits 1 and 2, one chunk, one control call, unrenderable bodies and cancellations, symmetry | the four invariants hold, double release included |
| `gateway_liveness` | 2 requests, limits 1 and 2, 2 chunks, two control calls on one spare connection, cancellations, `FairSpec` | the gateway implements `AdmissionController`; the pool is not the limit; every slot comes back, every connection is closed |
| `open_loop` | 4 schedules (empty, with a gap, with requests due together), drain 1, clock to 4 | all hold |
| `sweep` | rates 1 and 2 sending one and two requests, a warm-up, one engine restart, early stop after 1 | all hold |
| `kernels` | the four programs; 3 variants, the last a protected repeat, slugs sorted against the plan; budget 4, costs 1 and 2; one hanging SIGKILL; kills and full disks anywhere; `FairSpec` | all hold (1.5 million states) |
| `measure` | the four independent models, one per behaviour: 4 lines and 3 ticks; 3 bucket layouts, 2 models, 3 observations; plans of up to 3 variants over 22 results, one with a lowest rate that sent nothing; 3 profiles, 5 machines with and without 6 GB of free RAM, 4 environments, 5 overrides, 34 sets of help texts | all hold (1.1 million states) |
| `gateway_double_release` | 4 requests, limit 2, an unrenderable body | `CapsUpstreamRequests` violated |
| `gateway_unobserved_error` | 2 requests | `EveryRequestObserved` violated |
| `replay_after_drain_timeout` | as `open_loop` | `ReplayIsExact` violated |
| `sweep_early_stop` | rates 1, 9 and 10 offering 1, 9 and 2: draws with a long gap; early stop after 1 | `EarlyStopKeepsTheAnswer` violated |
| `chunked_prefill_off` | `measure` with one override: chunked prefill off | `OwnFlagsSurvive` violated |

**Why the bounds are enough.** Five requests let one task's exit wake two others
while two more queue: the largest pattern `Wake` has, since a task resumes with at
most its own grant and what was released meanwhile. A limit of 2 covers "full",
"one free" and "two free". The gateway's requests interact only through admission
and the pool, so three (a holder, a successor, a waiter) show every pairing; one
chunk visits each place of the relay, two each loop. The double release needs
four: one released twice, two admitted on its account, one already in. In
`OpenLoop` three requests give a record before the drain, one within it and one
never; drain 1 and clock 4 put the timer before, at and after the answers.
`MaxClock` bounds the clock except during a drain, whose end it would otherwise
hide. Two steps and a warm-up are enough for backlog to pass from one window into
the next; `MaxRestarts = 1` restarts the engine in any phase. `gateway_faults`
and `gateway_liveness` differ in one fault, and must: after an unrenderable body
the semaphore is not the one `AdmissionController` describes, so the refinement is
checked without it and the rest with it. One conjunct of `StreamsRecordedOnce`, that
only a client who left is called a disconnect, says nothing where the server may cancel
tasks, as it may in `gateway_faults`; the theorem `StreamsAreRecordedOnce` covers it
for every set of faults.

Three variants let an engine that outlives its own release meet the next variant
and the one after, and put a variant before and after the first curve and a
protected repeat at the end; a budget of 4 with costs 1 and 2 is met, just met and
exceeded, with and without an estimate. One SIGKILL that hangs is enough for every
claim that is conditional on it. `Variants`, `Budget`, `MaxCost`, `MaxStuck` are
bounds of the instance only: the theorems of section 4 hold for any. In `measure`,
four lines give a role delta, two tokens and an end; bucket layouts have a zero
bound, no finite bound, and observations below, on and above bounds; three results
of every kind (good, slow, dropping, late, swept downwards, idle at its lowest rate,
empty, failed before and after the report) show every tie; the profiles are the repository's three, and
the help texts lack every subset of five flags, come from the second or third
invocation, or are no help text. `measure` leaves out one override, chunked prefill
off, with which `CommandIsAccepted` fails: that is `chunked_prefill_off`.

**Fairness, and why the code has it.**

* `AdmissionController`: tasks that are ready run (the event loop), and holders
  release (the upstream call is bounded by `request_timeout_s`). The second is
  not taken on trust: the gateway's `ReturnsEverySlot` implements it. Timers are
  not assumed to fire.
* `Gateway`: weak fairness of a request's own progress. It stands for ready tasks
  running, engine waits bounded by `request_timeout_s`, the loop finalising
  abandoned async generators, and one assumption about the environment: a client
  that is being sent a chunk reads it or hangs up (TCP keepalive and the server
  decide that, not this code).
* `OpenLoop`: the main coroutine, the start of tasks, the unwinding of cancelled
  ones, and time. The server has no fairness at all.
* `Sweep`: the sweep's own steps, each of which has a deadline, and the sending of
  requests. Nothing is asked of the engine.
* `Kernels`: weak fairness of the program's own steps, each of which ends a wait
  with a deadline (`wait_until_healthy`, `stop`, `wait_for_gpu_release`, the port).
  The engine, the platform and the user owe nothing; `serve` waits for its engine
  without a deadline, so `SessionEnds` grants it to serve for ever with an engine
  that lives.

## 4. What is proved

Six of the eight proof modules argue by an inductive invariant, one lemma per action,
and end in `PTL`; `SumLemmas` and `Orders_proofs` hold lemmas about operators. What
the theorems assume is what the specification modules `ASSUME`: finite sets of
requests, positive limits, natural bounds, ascending schedules whose requests span
some time (`SchedulesSpan`: a Poisson draw or a fixed gap lies before the first
request, `arrivals.py:98-106`, `125-127`), engines numbered from one with one for each
variant, steps that have a rate if they sent anything (`MeasuredSteps`: the rate is
requests over that span, and above zero at the report's four decimals for any span
below five hours). Each hypothesis beyond these is named below, and TLC shows what
happens without it.

The library's induction theorems are out of reach, so facts about sums, walks and
sorts are proved by the smallest counterexample: a nonempty set of naturals has a
least element (`LeastNumber`), and a finite set has a smallest subset with a given
property (`SmallestSet`).

**AdmissionController_proofs.** `IInv` joins `TypeOK`, `SlotsConserved`,
`CountersTellTheTruth`, `NoLostWakeup` and `DequeIsTheWaiters`. None of the parts
is inductive by itself: that `in_flight` never goes negative needs conservation,
conservation across a wake-up needs that exactly the deque's pending futures are
granted, and that needs the deque to be exact. `WakeMovesUnits` carries the
arithmetic: waking moves units from the value to granted futures and makes none.
From `AdmissionInvariant` follow `TypeCorrect`, `SlotsAreConserved`,
`CountersAreTrue`, `NoWakeupIsLost`, `DequeIsExact`, `CapacityIsACap` (never more
holders than the limit) and, with one more small invariant (a zero budget never
queues), `RefusalsAreHonest`. `ControllerIsASlotPool` is the refinement of `SlotPool`:
the line is the pending waiters in the order of the deque, written by place; every
action is an `Enter`, `JoinLine`, `GiveUp`, `Leave`, `Advance` or a stutter, the step
that wakes being the one that hands its slot to the head of the line and to nobody
behind it; that owners never outnumber slots is `SlotsConserved`.

**Gateway_proofs.** `LinkInv` ties the place of a request to its admission call;
`CoverInv` ties its connection to its place. `SlotAlwaysFollows` and
`EngineWorkIsCovered` hold under every fault, and so do `GatewayTypes` and
`StreamsAreRecordedOnce`. `GatewayKeepsAdmissionProtocol` is the refinement, step by
step, without unrenderable bodies; with it `GatewayCapsRequests` carries the
controller's cap over to the whole gateway, streams included, and
`PoolNeverBlocksASlot` counts connections (`CountInv`): holders within the limit,
control calls and orphaned relays beside them. The hypothesis is needed:
`gateway_double_release` shows the cap broken without it.

**OpenLoop_proofs.** `LoopInv` is `ScheduleInv` (what was launched was due, tasks
begin in launch order, none before its offset), `CountInv` (the counter is the
number of tasks out) and `FinalInv` (after the return no task is left that could
record). From it `RequestsAreNeverEarly`, `InFlightIsExact`,
`ReturnedRecordsAreFinal`, and `SendsByTheSchedule`: the safety part of the
refinement of `Source`, for every schedule. `RecordInv` adds the records: their times
are in order (`TimeInv`), their rows are those of the schedule (`RowsInv`), each
request is recorded once or still out (`OnceInv`, `AccountInv`), and at no instant
were more requests open, by the records, than the peak counted (`PeakInv`). The final
sort is a permutation by rank (`Orders_proofs`), which carries all of it over to the
result: `NothingIsOmitted`, `EveryRequestIsAccountedFor`, `RebuiltPeakIsNoMore` and
`AnsweredRunsReplay`, with `LoopTypes`.

**Sweep_proofs.** `IInv` joins `TypeOK` and the two properties of rows with three
parts. `FlowInv` says that no request of a later step is in the engine and that what a
step completed, lost or has in the engine unseen never exceeds what it sent;
`WindowInv` ties the baseline snapshot to the engine while the window is open: if the
engine was idle then, nothing of an earlier step is left to be recorded, and after a
restart everything it has recorded was sent in this step; `LadderInv` ties the rows to
the steps that ended. From it `SweepTypes`, `RowsAreTheirSteps`, for every ladder and
every behaviour of the engine, and `RowsCoverTheClient`. `EarlyStopIsSafeOnRisingRates`
needs `LadderInv` (the ladder is left early only after an unhealthy step) and the
hypothesis `OfferedAscends`, that offered rates rise with the requested ones;
`sweep_early_stop` is what happens without it.

**Kernels_proofs.** `Inv` has five parts. `TypeInv` and `Shape` say where each
program can be and how far the list of outcomes has come. `Machine` is the
substance: in a session every engine but the variant's own is `Quiet` - its parent
is not alive, it holds the GPU only if nvidia-smi was unreadable or a SIGKILL hung
after a release that is on record as unclean, and it holds the port only after such
a release - and what `release_engine` has established so far of the variant's own
engine stays established while the processes go on by themselves. `Owned` follows a
program's `finally` clauses. `Spent` ties the estimate to the budget: either
something exceeded its estimate, or the time before there was one left no room, or
the reserve of the protected repeat is still there. From `InvHolds` follow
`KernelsTyped`, `EveryStartIsClean`, `StaleEngineIsRecorded`, `BudgetIsKept` and
`NothingIsLeftRunning`, for any number of engines and variants, any budget, any
costs, and all faults. `DiskInv` is about the files: what is on disk is a beginning of
what the session did, `order.json` at most one variant behind, or a file is torn.
`SessionIsReadBack` follows: killed at any write, the session is read back variant by
variant, in the order it was measured, each as it came out.

**Measure_proofs.** For the client, `ClientInv` is the types, `Stages` (which figures a
phase can have), `Clocks` (no time is ahead of the clock) and `Timely` (the figures are
those of the lines read, token by token). `TimesAreTrue` follows: for any stream,
however it is cut and whenever it is read, there is a token for each delta with content
and no other, no token before the server wrote it, and the mean gap is the time between
the first and the last over their number. For the comparison, `TuningInv` is the types
and that names differ; `FrontierDominates` (whoever is off the frontier
is beaten by someone on it: the one with the greatest sum of both axes among all that beat it),
`WalkFindsTheBest` and `RateIsSustained` are facts about the operators.
`ComparisonAgrees` puts them together under one hypothesis, `CurvesRise`: no report
measures the same positive rate twice. The command line sorts a set of rates, but the
rates of the report are counts over spans of a draw, so the code does not rule a tie
out; with a tie, a step can fail at the very rate that another sustained. TLC
evaluates `CurvesRise` for the instance.

The proof found an error in the model: a variant whose lowest rate sent nothing (a
schedule may be empty) was given a step "at its sustainable rate" although it has no
sustainable rate; `step_at_sustainable` returns None then, and so does the model now.

For the scrapes, `ScrapeInv` is the types, `Refused` (several models and none asked for:
no reading) and `ReadInv`: the first intact scrape read a tally of the one model asked
for, which has since counted exactly what was seen, and the second read both together.
It cannot be left at the two scrapes: between them other models count too, and the one
that is read may only be the same because no label set came or went. From it the
difference is the histogram of what was seen (`CountsSubtract`: cumulative counts, bucket
by bucket), `QuantileDivides` finds the bucket with the rank in it, `QuantileMatches`
compares it with the observations themselves, and `InterpolationStaysInside` bounds the
fraction. `QuantileIsBounded` is for torn counters: cumulative counts may fall between two
buckets there, and the quantile still never leaves the range of the bounds.
`QuantilesAreTheSteps` assumes finite sets of values and models, layouts that ascend and
quantiles between 0 and 1.

For the launch, `LaunchInv` says what is established by each stage: which profile was
found, that the issues are those of the settings, and how the command came about
(`LaunchedAs`). The substance is what commands say. `CommandSays` takes `build_command`
apart piece by piece: every piece is a flag with its value or a switch, so what a parser
reads of the whole is what it reads of the pieces (`Joined`). `WhatIsLeft` and
`ValuesStay` follow each token to its place after `strip_flags`: a flag that stays keeps
the token after it, and no value is left behind to become the value of another flag.
`VariantSays` finds each new piece of a variant's command among the flags named after its
fields, and `RecommendedFits` goes through `check_profile` for the profile the probe
names. `LaunchedIsAccepted` has three hypotheses about the configuration, all of which
TLC evaluates for the instance:

* `LoneValues`: a flag in `extra_args` has at most one value. `config.py:69` allows any
  list; `strip_flags` takes one token with a flag, so of `--flag a b` it would leave `b`.
* `VariantsNameTheirFlags`: no variant switches chunked prefill off, or changes the
  device or the extra arguments, whose flags no field is named after. This is what
  `chunked_prefill_off` shows to be needed.
* `ProfilesAreModest`: what the three files of `configs/profiles` that the probe can
  recommend ask of a machine.

`ByIndex`, `Among`, `Ordered`, `StripFlags` and the mapping's line are written by rank,
since `SortSeq`, `SelectSeq` and folds mean nothing to the provers.

**Only model-checked:** every liveness property (`WaitersAreServed`, `ReturnsEverySlot`,
`UpstreamIsClosed`, `RunEnds`, `SweepEnds`, `SessionEnds`, and the fairness in
`ImplementsSlotPool` and `ImplementsSource`), since fairness and `ENABLED` are outside
TLAPS's reach. Every safety property of a passing run is a theorem.

## 5. Where the code departs from what is written about it

1. **A slot given back twice** (`gateway/app.py:262`). `admission.release()` and
   the `JSONResponse(...)` after it share a `try` whose handler releases too. An
   engine body that `json.loads` accepted and `JSONResponse` cannot render (NaN,
   Infinity) therefore releases twice, and from then on the gateway admits one
   request more than its limit. `limits.py:43`: "Caps concurrent upstream
   requests".
2. **Errors that are not counted** (`gateway/middleware.py:82`). A failure while
   reading a refused stream's body leaves through the middleware's re-raise and
   `observe_request` is never called. `metrics.py:233`: "Called for every request,
   including errors."
3. **Replay after a drain timeout** (`bench/records.py:67`). The placeholders of
   unanswered requests have index -1, sort first, and so the schedule read back
   ends with the last *answered* request: another window, another offered rate.
   `records.py:16`: "Replay is exact".
4. **The early stop can change the answer** (`bench/sweep.py:422`). The ladder
   climbs by requested rate, `max_sustainable_rate_per_s` walks by offered rate,
   and one seed's draws can order the two differently. In the run, requested rates 1,
   9 and 10 would offer 1, 9 and 2. The first step is healthy, the second is not and
   ends the ladder: the answer is 1. The skipped third step lies between them by
   offered rate; if it is healthy, the answer with it is 2. `sweep.py:118-121`:
   "cannot change the answer".
5. **A variant that is silently the baseline** (`remote/kernels/bench_sweep.py:447`).
   Whether a stripped flag is the variant's own is decided by the names of its
   fields. `enable_chunked_prefill=false` becomes `--no-enable-chunked-prefill`,
   which no field is named after: on an engine without the `--no-` form it is
   stripped without a rejection. (`launcher.py:112-113` expects engines like that: it
   says so of prefix caching.) `bench_sweep.py:432-434`: "the variant silently
   becomes the baseline again. That is a rejection."

Noticed while modelling, each in the models as the code has it, and without a run of
its own: `gateway_metrics` exits non-zero when `stop()` raises in its `finally`,
where its last comment says "Exit 0 regardless" (`StopTimesOut`); it leaves an
engine that never became healthy running, since `main` is handed only a healthy one
(`SingleUnhealthy`); `serve_smoke` does the same when the save after the health
check fails (`SingleHealthy`); a stream the gateway gave up on carries an error
event, which the engine client passes over as an event without choices, so the
request is `ok` (`ReadsLine`); and `doctor`'s rules are applied to the profile, not
to the profile with a variant's overrides (`AppliesVariant`).

## 6. Assumptions of the models

* One event loop per process; a coroutine is atomic between two awaits. A created
  task starts before a timer that fires later (the ready queue is FIFO).
* `asyncio.CancelledError` passes `except Exception` and not `except
  BaseException`.
* A streaming response's task sends its headers and enters the body iterator
  before a hang-up can cancel it (Starlette's response task), so `StreamOpens` is
  one step. A hang-up before that is found when the stream is first written.
* "Cancellation" is the server tearing tasks down. A hang-up cancels only a
  response that is being streamed.
* An abandoned generator's finalisers run in creation order from the outside in:
  `wrapped()` first, then `_relay()`. That is why a slot can be back before its
  connection is closed, and why `PoolIsNotTheLimit` counts orphans.
* In `Sweep` the engine updates its gauges and its histogram together, a scrape is
  atomic, and a request that the engine has not counted when its client gives up
  is never served. A restart whose new counts have already overtaken the old ones
  cannot be noticed; `histogram_delta`'s docstring says so, and `WindowIsTheStep`
  claims no more than it can: such a row never counts more than was sent.

* In `EngineProcess` the survivors of a group end all at once; a group that has
  lost its parent keeps what it held until then; and one port and one GPU stand for
  all (the kernels run one engine at a time). A SIGKILL takes effect at once or
  hangs until the driver returns.
* A full disk stays full. `save` is one write; what a reader finds in `phase05.json`
  is not kept.
* A user's first Ctrl-C ends `serve`'s wait; a second one, during `stop()`, would
  abandon the escalation to SIGKILL and is not modelled.
* In `Scrapes` an exposition is read bucket by bucket and one observation at most
  falls between two buckets; a restart falls between two readings.

## 7. Not modelled

Text: header copying, SSE and exposition parsing (`promtext.py`), log lines,
rendering, Markdown, charts (`plots.py`). API keys are a stateless comparison whose
outcome (`RejectEarly`) the gateway has. `remote/kaggle.py` forwards calls to
Kaggle's API and polls a status with a deadline: what could go wrong in it is how
that API answers between two versions of a kernel, and nothing in the repository
says how it does. `gpu_probe.py` reads facts and writes them once. `run_smoke` sends
independent requests; its verdict is a choice in `Kernels`. The sweep's sampler
(peaks, counter deltas), sweeps without a metrics URL, the names of the JSONL files,
the percentiles of a step and the noise figure of repeats are left out, as are the
commands of `cli.py` other than `serve` and `doctor`, which parse arguments and
render what the components return. The scripts and the compose file exercise the
gateway from outside. Hazards without a property carry the reason in `PROJECT.json`.

## 8. The plan

Done, in this order: `SlotPool`, `AdmissionController` with its proofs; `Gateway`
composing it, with its proofs; `Source`, `Report`, `OpenLoop` with its proofs;
`Sweep`; `EngineProcess`, `TuningSession` and `Kernels` with their proofs; `Client`,
`Scrapes`, `Tuning`, `Launch`; the refinement of `SlotPool`; the proofs of every safety
property the runs check.

Next: the sampler's peaks and deltas in `Sweep`, and the percentiles in `Report`.
