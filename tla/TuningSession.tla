---------------------------- MODULE TuningSession ----------------------------
(***************************************************************************)
(* A tuning session (remote/kernels/bench_sweep.py): for each variant, in  *)
(* order, decide whether it still fits the budget, check the GPU, start an *)
(* engine, sweep it, release it, and write down what happened, so that a   *)
(* session killed at any point can be read back (bench/tuning.py           *)
(* load_tuning).  Variant v runs engine v.  Time passes in whole units, at *)
(* the end of each variant.                                                *)
(***************************************************************************)
EXTENDS EngineProcess, Sequences, SequencesExt

CONSTANTS Variants,      \* how many variants the plan has
          Protected,     \* is_repeat(variants[-1])
          Budget,        \* SESSION_BUDGET_S
          MaxCost,       \* bound: what one variant may cost
          SlugOrder,     \* the variants, sorted by slug
          Faults         \* what the environment may do beyond the engine

AllFaults == {"disk", "kill"}
ASSUME SessionConstants ==
  /\ Variants \in Nat \ {0} /\ {Budget, MaxCost} \subseteq Nat
  /\ Protected \in BOOLEAN /\ Faults \subseteq AllFaults
  /\ SlugOrder \in [1..Variants -> 1..Variants]
  /\ \A v \in 1..Variants : \E i \in 1..Variants : SlugOrder[i] = v
ASSUME OneEngineEach == 1..Variants \subseteq Engines

VARIABLES pc,         \* where the kernel is
          cur,        \* the variant at hand; after the last, Variants + 1
          gpuKnown,   \* nvidia-smi gave a baseline before the first engine
          run,        \* locals of run_variant and of the session's callbacks
          elsewhere,  \* ghost: another engine that answered its /health, per variant
          clean,      \* entry["released_cleanly"], per variant
          outcomes,   \* what run_session collected
          disk,       \* the files a reader finds
          full,       \* a write has found the disk full
          clock,      \* elapsed()
          longest,    \* max(durations), 0 while there is none
          overruns    \* ghost: cost above estimate, cost without estimate

session == <<cur, gpuKnown, run, elsewhere, clean, outcomes, disk, full, clock, longest, overruns>>

Plan == 1..Variants
Outcome == {"curve", "failed", "skipped"}

\* A file: not there, cut short, or with what was written into it.
File(S) == [is : {"absent", "torn", "whole"}, has : Seq(S)]
ABSENT == [is |-> "absent", has |-> <<>>]
TORN == [is |-> "torn", has |-> <<>>]
Whole(contents) == [is |-> "whole", has |-> contents]

IDLE == [curve |-> FALSE, portClosed |-> FALSE]

SessionTypeOK ==
  /\ cur \in 1..(Variants + 1)
  /\ {gpuKnown, full} \subseteq BOOLEAN
  /\ run \in [DOMAIN IDLE -> BOOLEAN]
  /\ elsewhere \in [Plan -> {0} \cup Engines]
  /\ clean \in [Plan -> {"unset", "yes", "no"}]
  /\ outcomes \in Seq(Outcome) /\ Len(outcomes) <= Variants
  /\ \A v \in Plan : disk.variant[v] \in File(Outcome)
  /\ disk.order \in File(Plan)
  /\ {clock, longest} \subseteq Nat

SessionInit ==
  /\ cur = 1 /\ gpuKnown = FALSE /\ run = IDLE
  /\ elsewhere = [v \in Plan |-> 0]
  /\ clean = [v \in Plan |-> "unset"]
  /\ outcomes = <<>>
  /\ disk = [variant |-> [v \in Plan |-> ABSENT], order |-> ABSENT]
  /\ full = FALSE
  /\ clock = 0 /\ longest = 0
  /\ overruns = [above |-> FALSE, unplanned |-> 0]

------------------------------------------------------------------------------
(* Writing things down: write_text truncates the file and then fills it. *)

\* A write succeeds, or finds the disk full; a full disk stays full.
Writes == ~full /\ UNCHANGED full
FindsDiskFull == "disk" \in Faults /\ full' = TRUE

\* A step that ends in save(), which writes the results over again.  What a reader
\* of phase05.json finds is not kept here.
SavesThen(next, raised) == (Writes /\ pc' = next) \/ (FindsDiskFull /\ pc' = raised)
rest == <<cur, gpuKnown, run, elsewhere, clean, outcomes, disk, clock, longest, overruns>>

------------------------------------------------------------------------------
(* The plan. *)

\* The reserve of the final repeat.
Reserve(estimate) == IF Protected THEN estimate ELSE 0

\* Mutant of Skips: nothing is reserved for the final repeat.
Skips_NoReserve(v) ==
  ~(v = Variants /\ Protected) /\ longest > 0 /\ clock + longest > Budget

\* plan_skip
Skips(v) ==
  /\ ~(v = Variants /\ Protected)
  /\ longest > 0
  /\ clock + longest + Reserve(longest) > Budget

\* step_tune, up to the loop: the plan, which may not parse, the baseline reading,
\* probe_flags, save.
TuneBegins ==
  /\ pc = "tune"
  /\ gpuKnown' \in BOOLEAN
  /\ SavesThen("plan", "finish") \/ (pc' = "finish" /\ UNCHANGED full)
  /\ UNCHANGED <<machine, cur, run, elsewhere, clean, outcomes, disk, clock, longest, overruns>>

PlanSkips ==
  /\ pc = "plan" /\ cur <= Variants /\ Skips(cur)
  /\ outcomes' = Append(outcomes, "skipped")
  /\ pc' = "record"
  /\ UNCHANGED <<machine, cur, gpuKnown, run, elsewhere, clean, disk, full, clock,
                 longest, overruns>>

PlanRuns ==
  /\ pc = "plan" /\ cur <= Variants /\ ~Skips(cur)
  /\ pc' = "prepare"
  /\ UNCHANGED <<machine, session>>

PlanEnds ==
  /\ pc = "plan" /\ cur > Variants
  /\ pc' = "finalise"
  /\ UNCHANGED <<machine, session>>

------------------------------------------------------------------------------
(* One variant. *)

\* wait_for_gpu_release: TRUE needs a reading back at the baseline; FALSE is the
\* deadline, by then with memory held or without a reading.
GpuReleased(seen) == seen => Holders("gpu") = {}

\* A save before the try of run_variant; then the check of the GPU, which is
\* recorded and nothing else, and the flags, which may reject the variant.
Prepare ==
  /\ pc = "prepare"
  /\ SavesThen("command", "crash") \/ SavesThen("judge", "crash")
  /\ UNCHANGED <<machine, rest>>

\* A save once the engine object is there; a failure from here on releases it.
SaveCommand ==
  /\ pc = "command"
  /\ SavesThen("start", "stop")
  /\ UNCHANGED <<machine, rest>>

\* start(); Popen may raise.
EngineStarts ==
  /\ pc = "start"
  /\ \/ Start(cur) /\ pc' = "health"
     \/ UNCHANGED machine /\ pc' = "stop"
  /\ UNCHANGED session

Healthy ==
  /\ pc = "health"
  /\ \E e \in Engines :
       HealthAnsweredBy(cur, e) /\ elsewhere' = [elsewhere EXCEPT ![cur] = IF e = cur THEN 0 ELSE e]
  /\ pc' = "sweep"
  /\ UNCHANGED <<machine, cur, gpuKnown, run, clean, outcomes, disk, full, clock,
                 longest, overruns>>

Unhealthy ==
  /\ pc = "health" /\ HealthFails(cur)
  /\ pc' = "stop"
  /\ UNCHANGED <<machine, session>>

\* sweep_variant, then the self-report: a report, or a failure.  A failure after
\* the report does not take it back.
SweepEnds ==
  /\ pc = "sweep"
  /\ \/ Writes /\ \E curve \in BOOLEAN : run' = [run EXCEPT !.curve = curve]
     \/ FindsDiskFull /\ UNCHANGED run
  /\ pc' = "stop"
  /\ UNCHANGED <<machine, cur, gpuKnown, elsewhere, clean, outcomes, disk, clock,
                 longest, overruns>>

------------------------------------------------------------------------------
(* release_engine. *)

PortSettles ==
  /\ pc = "port"
  /\ run' = [run EXCEPT !.portClosed = (Holders("port") = {})]
  /\ pc' = "gpu"
  /\ UNCHANGED <<machine, cur, gpuKnown, elsewhere, clean, outcomes, disk, full,
                 clock, longest, overruns>>

\* Mutant of Release: only the memory counts.
Release_GpuOnly(released) ==
  clean' = [clean EXCEPT ![cur] = IF released THEN "yes" ELSE "no"]

Release(released) ==
  clean' = [clean EXCEPT ![cur] = IF run.portClosed /\ released THEN "yes" ELSE "no"]

\* Mutant of GroupKilled: the group is left alone once its leader has exited.
GroupKilled_IfLeaderLives(e) ==
  IF Gone(e) THEN UNCHANGED machine ELSE Killed(e)

\* _kill_group: also when the leader has exited; a group that is empty, or an
\* engine never started, is an error it returns as text.
GroupKilled(e) ==
  IF parent[e] = "none" \/ (Gone(e) /\ holds[e] = {}) THEN UNCHANGED machine ELSE Killed(e)

\* The first wait for the memory, and the escalation when it is in vain.
GpuWait ==
  /\ pc = "gpu"
  /\ \/ /\ ~gpuKnown \/ GpuReleased(TRUE)
        /\ Release(TRUE) /\ pc' = "judge" /\ UNCHANGED machine
     \/ gpuKnown /\ GroupKilled(cur) /\ pc' = "gpu2" /\ UNCHANGED clean
  /\ UNCHANGED <<cur, gpuKnown, run, elsewhere, outcomes, disk, full, clock, longest, overruns>>

GpuWaitAgain ==
  /\ pc = "gpu2"
  /\ \E seen \in BOOLEAN : GpuReleased(seen) /\ Release(seen)
  /\ pc' = "judge"
  /\ UNCHANGED <<machine, cur, gpuKnown, run, elsewhere, outcomes, disk, full,
                 clock, longest, overruns>>

------------------------------------------------------------------------------
(* The variant's result, and the three writes of on_result. *)

\* The save at the end of run_variant; when it fails, run_session only learns
\* that the variant crashed, and so it does after a failure before the try.
Closes(saved) ==
  \/ pc = "judge" /\ saved /\ Writes
  \/ pc = "judge" /\ ~saved /\ FindsDiskFull
  \/ pc = "crash" /\ ~saved /\ UNCHANGED full

\* The rest of run_session's turn: what the variant cost, whether that is a new
\* estimate, and the outcome.
Judge ==
  /\ \E cost \in 1..MaxCost, saved \in BOOLEAN :
     LET curve == run.curve /\ saved IN
       /\ Closes(saved)
       /\ clock' = clock + cost
       /\ longest' = IF curve /\ cost > longest THEN cost ELSE longest
       /\ outcomes' = Append(outcomes, IF curve THEN "curve" ELSE "failed")
       /\ overruns' = [above     |-> overruns.above \/ (longest > 0 /\ cost > longest),
                       unplanned |-> overruns.unplanned + IF longest = 0 THEN cost ELSE 0]
  /\ pc' = "record"
  /\ run' = IDLE
  /\ UNCHANGED <<machine, cur, gpuKnown, elsewhere, clean, disk>>

\* What is being written where the kernel stands.
Torn ==
  CASE pc = "record" -> {[disk EXCEPT !.variant[cur] = TORN]}
    [] pc = "order" -> {[disk EXCEPT !.order = TORN]}
    [] OTHER -> {}

\* write_variant: its failure is noted and the session goes on.
WriteVariant ==
  /\ pc = "record"
  /\ \/ Writes /\ disk' = [disk EXCEPT !.variant[cur] = Whole(<<outcomes[cur]>>)]
     \/ FindsDiskFull /\ disk' \in {disk} \cup Torn
  /\ pc' = "order"
  /\ UNCHANGED <<machine, cur, gpuKnown, run, elsewhere, clean, outcomes, clock, longest, overruns>>

\* Mutant of Listed: positions instead of variants.
Listed_ByIndex == [v \in 1..cur |-> v - 1]

\* Mutant of Listed: only the variants with a curve are put in order.json.
Listed_WithCurve == SelectSeq([v \in 1..cur |-> v], LAMBDA v : outcomes[v] = "curve")

\* The slugs on_result has appended to `order`.
Listed == [v \in 1..cur |-> v]

\* order.json: a failure here leaves run_session.
WriteOrder ==
  /\ pc = "order"
  /\ \/ Writes /\ disk' = [disk EXCEPT !.order = Whole(Listed)] /\ pc' = "save"
     \/ FindsDiskFull /\ disk' \in {disk} \cup Torn /\ pc' = "finish"
  /\ UNCHANGED <<machine, cur, gpuKnown, run, elsewhere, clean, outcomes, clock, longest, overruns>>

SaveResult ==
  /\ pc = "save"
  /\ SavesThen("plan", "finish")
  /\ cur' = cur + 1
  /\ UNCHANGED <<machine, gpuKnown, run, elsewhere, clean, outcomes, disk, clock,
                 longest, overruns>>

\* finalise: both comparisons are guarded, the saves between them are not; and the
\* end of main comes next in any case.
Finalise ==
  /\ pc = "finalise"
  /\ pc' = "finish"
  /\ UNCHANGED <<machine, session>>

SessionMoves ==
  \/ TuneBegins \/ PlanSkips \/ PlanRuns \/ PlanEnds
  \/ Prepare \/ SaveCommand \/ EngineStarts \/ Healthy \/ Unhealthy \/ SweepEnds
  \/ PortSettles \/ GpuWait \/ GpuWaitAgain
  \/ Judge \/ WriteVariant \/ WriteOrder \/ SaveResult \/ Finalise

------------------------------------------------------------------------------
(* Reading a session back. *)

Found == {v \in Plan : disk.variant[v] # ABSENT}

\* The elements of s that are in S, in their order.
Among(S, s) ==
  LET places == {i \in DOMAIN s : s[i] \in S}
      place(k) == CHOOSE i \in places : Cardinality({j \in places : j <= i}) = k
  IN  [k \in 1..Cardinality(places) |-> s[place(k)]]

\* load_tuning: what order.json lists first, then the rest by slug.  A file that
\* does not parse, or no variant at all, is an exception: <<>>.
Loaded ==
  LET listed == Among(Found, disk.order.has)
  IN  IF disk.order = TORN \/ \E v \in Found : disk.variant[v] = TORN
      THEN <<>> ELSE listed \o Among(Found \ ToSet(listed), SlugOrder)

=============================================================================
