------------------------------- MODULE Kernels -------------------------------
(***************************************************************************)
(* The programs that run on the rented GPU (remote/kernels): bench_sweep   *)
(* tunes the engine over several variants (TuningSession), serve_smoke     *)
(* starts one engine and smoke-tests it, gateway_metrics also puts the     *)
(* gateway in front of it.  Install, check the machine, work, stop what    *)
(* was started, write the result, exit; a failure is written down and the  *)
(* exit code stays 0.  The platform may kill the session at any moment.    *)
(* `inferstack serve` (cli.py) is one more program of this kind, at a      *)
(* user's machine: it writes nothing, and serves until its engine exits or *)
(* the user interrupts it.                                                 *)
(***************************************************************************)
EXTENDS TuningSession

Scripts == {"bench_sweep", "serve_smoke", "gateway_metrics", "serve"}

VARIABLES script,   \* which program this is
          owned,    \* what it started that its cleanup will stop
          gw,       \* the gateway process of gateway_metrics
          exit      \* how the kernel ended

kernel == <<script, owned, gw, exit>>
vars == <<pc, machine, session, kernel>>

Single == script # "bench_sweep"

KernelTypeOK ==
  /\ pc \in {"install", "doctor", "tune", "plan", "prepare", "command", "start", "health",
             "sweep", "stop", "term", "kill", "port", "gpu", "gpu2", "judge", "crash",
             "record", "order", "save", "finalise", "flags", "up", "idle", "gateway",
             "work", "preflight", "serving", "gwstop", "finish", "done", "killed"}
  /\ script \in Scripts /\ owned \subseteq {"engine", "gateway"}
  /\ gw \in {"none", "up", "terminated", "stopped"}
  /\ exit \in {"none", "zero", "nonzero"}

Init ==
  /\ script \in Scripts /\ pc = IF script = "serve" THEN "preflight" ELSE "install"
  /\ owned = {} /\ gw = "none" /\ exit = "none"
  /\ MachineInit /\ SessionInit

------------------------------------------------------------------------------
(* Before any engine. *)

\* A step of main's try: on to the next one, or, if it returns False or raises, out
\* of it to the end of main.
StepOf(name, here, next) ==
  /\ pc = here /\ script = name
  /\ SavesThen(next, "finish") \/ (pc' = "finish" /\ UNCHANGED full)
  /\ UNCHANGED <<machine, rest, kernel>>

\* step_install and step_doctor of each kernel.
TuneInstalls == StepOf("bench_sweep", "install", "doctor")
TuneChecks == StepOf("bench_sweep", "doctor", "tune")
SmokeInstalls == StepOf("serve_smoke", "install", "doctor")
SmokeChecks == StepOf("serve_smoke", "doctor", "flags")
MetricsInstalls == StepOf("gateway_metrics", "install", "doctor")
MetricsChecks == StepOf("gateway_metrics", "doctor", "flags")

------------------------------------------------------------------------------
(* serve_smoke and gateway_metrics: one engine. *)

\* The command, the flags stripped from it, a save; then start(), which may raise.
StartsOne(name) ==
  /\ pc = "flags" /\ script = name
  /\ \/ Writes /\ Start(1) /\ pc' = "up"
     \/ Writes /\ UNCHANGED machine /\ pc' = "finish"
     \/ FindsDiskFull /\ UNCHANGED machine /\ pc' = "finish"
  /\ UNCHANGED <<rest, kernel>>

SmokeStarts == StartsOne("serve_smoke")
MetricsStarts == StartsOne("gateway_metrics")

\* The engine is healthy and that is saved: from here on, a finally stops it.
SingleHealthy ==
  /\ pc = "up" /\ script # "serve"
  /\ \E e \in Engines : HealthAnsweredBy(1, e)
  /\ SavesThen(IF script = "serve_smoke" THEN "work" ELSE "idle", "finish")
  /\ owned' = IF pc' = "finish" THEN {} ELSE {"engine"}
  /\ UNCHANGED <<machine, rest, script, gw, exit>>

\* serve_smoke catches EngineStartupError, saves and stops the engine; in
\* gateway_metrics it leaves step_start_engine and main never gets the engine.
SingleUnhealthy ==
  /\ pc = "up" /\ script # "serve" /\ HealthFails(1)
  /\ IF script = "serve_smoke"
       THEN SavesThen("stop", "finish")
       ELSE pc' = "finish" /\ UNCHANGED full
  /\ owned' = IF pc' = "finish" THEN {} ELSE {"engine"}
  /\ UNCHANGED <<machine, rest, script, gw, exit>>

\* run_smoke: its report, or an exception; either way the finally is next, stop()
\* and a save.
SmokeEnds ==
  /\ pc = "work" /\ script = "serve_smoke"
  /\ pc' = "stop"
  /\ UNCHANGED <<machine, session, kernel>>

------------------------------------------------------------------------------
(* gateway_metrics: the engine idle, the gateway, both under load. *)

\* As a step above, but now a finally comes before the end of main.
EngineIdle ==
  /\ pc = "idle"
  /\ SavesThen("gateway", "gwstop") \/ (pc' = "gwstop" /\ UNCHANGED full)
  /\ UNCHANGED <<machine, rest, kernel>>

\* step_start_gateway: Popen may raise; a gateway that is not ready in two minutes
\* is told to terminate, once that is saved; main gets one that is ready.
GatewayStarts ==
  /\ pc = "gateway"
  /\ \/ Writes /\ gw' = "up" /\ owned' = owned \cup {"gateway"} /\ pc' = "work"
     \/ Writes /\ gw' = "terminated" /\ UNCHANGED owned /\ pc' = "gwstop"
     \/ FindsDiskFull /\ gw' = "up" /\ UNCHANGED owned /\ pc' = "gwstop"
     \/ UNCHANGED <<full, gw, owned>> /\ pc' = "gwstop"
  /\ UNCHANGED <<machine, rest, script, exit>>

\* step_gateway_metrics_idle, step_smoke_through_gateway, the metrics after load:
\* done or raised, the finally is next.
Driven ==
  /\ pc = "work" /\ script = "gateway_metrics"
  /\ pc' = "gwstop"
  /\ UNCHANGED <<machine, session, kernel>>

\* Mutant of GatewayEnds: SIGTERM, and no SIGKILL when it is ignored.
GatewayEnds_SoftOnly(p) == {"stopped", "up"}

\* terminate(), thirty seconds, kill(): what becomes of the process.
GatewayEnds(p) == {"stopped"}

GatewayStops ==
  /\ pc = "gwstop"
  /\ gw' \in IF "gateway" \in owned THEN GatewayEnds(gw) ELSE {gw}
  /\ pc' = "stop"
  /\ UNCHANGED <<machine, session, script, owned, exit>>

------------------------------------------------------------------------------
(* inferstack serve. *)

\* _load_or_exit, --dry-run, _preflight; then start(), which may raise.
ServeStarts ==
  /\ pc = "preflight"
  /\ \/ /\ Start(1) /\ pc' = "up"
        /\ owned' = {"engine"} /\ UNCHANGED exit
     \/ /\ exit' \in {"zero", "nonzero"} /\ pc' = "done"
        /\ UNCHANGED <<machine, owned>>
  /\ UNCHANGED <<session, script, gw>>

ServeHealthy ==
  /\ pc = "up" /\ script = "serve"
  /\ \E e \in Engines : HealthAnsweredBy(1, e)
  /\ pc' = "serving"
  /\ UNCHANGED <<machine, session, kernel>>

\* EngineStartupError, or the user gives up waiting: stop(), and exit 1 or 130.
ServeUnhealthy ==
  /\ pc = "up" /\ script = "serve" /\ HealthFails(1)
  /\ pc' = "stop" /\ exit' = "nonzero"
  /\ UNCHANGED <<machine, session, script, owned, gw>>

\* process.wait() returns, and stop() is called all the same.
EngineLeaves ==
  /\ pc = "serving" /\ Gone(1)
  /\ pc' = "stop"
  /\ UNCHANGED <<machine, session, kernel>>

Interrupted ==
  /\ pc = "serving"
  /\ pc' = "stop"
  /\ UNCHANGED <<machine, session, kernel>>

\* The exit code is the engine's, as 0 or 1, unless it is decided already.
ServeEnds ==
  /\ pc = "finish" /\ script = "serve"
  /\ exit' \in IF exit = "none" THEN {"zero", "nonzero"} ELSE {exit}
  /\ pc' = "done"
  /\ UNCHANGED <<machine, session, script, owned, gw>>

------------------------------------------------------------------------------
(* EngineProcess.stop, wherever a kernel calls it. *)

AfterStop == IF Single THEN "finish" ELSE "port"

\* The exception is recorded by release_engine, caught by serve_smoke's main, and
\* leaves the finally of gateway_metrics' main, and serve.
AfterStopRaises == IF script \in {"gateway_metrics", "serve"} THEN "done" ELSE AfterStop

SigTerm ==
  /\ pc = "stop"
  /\ pc' = IF StopReturnsAtOnce(cur) THEN AfterStop ELSE "term"
  /\ UNCHANGED <<machine, session, kernel>>

Stopped ==
  /\ pc \in {"term", "kill"} /\ StopEnds(cur)
  /\ pc' = AfterStop
  /\ UNCHANGED <<machine, session, kernel>>

SigKill ==
  /\ pc = "term" /\ StopEscalates(cur)
  /\ pc' = "kill"
  /\ UNCHANGED <<session, kernel>>

StopTimesOut ==
  /\ pc = "kill" /\ StopRaises(cur)
  /\ pc' = AfterStopRaises
  /\ exit' = IF pc' = "done" THEN "nonzero" ELSE exit
  /\ UNCHANGED <<machine, session, script, owned, gw>>

------------------------------------------------------------------------------

\* The end of main: one last save, and exit code 0 unless that one raises.
Finish ==
  /\ pc = "finish" /\ script # "serve"
  /\ \/ Writes /\ exit' = "zero"
     \/ FindsDiskFull /\ exit' = "nonzero"
  /\ pc' = "done"
  /\ UNCHANGED <<machine, rest, script, owned, gw>>

Ended == pc \in {"done", "killed"}

\* The platform ends the session, and every process in it.
SessionKilled ==
  /\ "kill" \in Faults /\ ~Ended /\ script # "serve"
  /\ pc' = "killed"
  /\ disk' \in {disk} \cup Torn
  /\ parent' = [e \in Engines |-> IF parent[e] = "none" THEN "none" ELSE "exited"]
  /\ holds' = [e \in Engines |-> {}]
  /\ gw' = IF gw = "none" THEN "none" ELSE "stopped"
  /\ UNCHANGED <<stuck, cur, gpuKnown, run, elsewhere, clean, outcomes, full, clock, longest,
                 overruns, script, owned, exit>>

Over == Ended /\ UNCHANGED vars

KernelMoves ==
  \/ TuneInstalls \/ TuneChecks \/ SmokeInstalls \/ SmokeChecks
  \/ MetricsInstalls \/ MetricsChecks
  \/ SessionMoves /\ UNCHANGED kernel
  \/ SmokeStarts \/ MetricsStarts \/ SingleHealthy \/ SingleUnhealthy \/ SmokeEnds
  \/ EngineIdle \/ GatewayStarts \/ Driven \/ GatewayStops
  \/ ServeStarts \/ ServeHealthy \/ ServeUnhealthy \/ EngineLeaves \/ ServeEnds
  \/ SigTerm \/ Stopped \/ SigKill \/ StopTimesOut \/ Finish

\* Followed as long as the kernel is there to see it.
EngineAlone == ~Ended /\ EngineMoves /\ UNCHANGED <<pc, session, kernel>>

Next == KernelMoves \/ EngineAlone \/ Interrupted \/ SessionKilled \/ Over

Spec == Init /\ [][Next]_vars

\* A program's own waits all have a deadline, but for serve, which waits for its
\* engine to exit; nothing is asked of the engine or of the user.
FairSpec == Spec /\ WF_vars(KernelMoves)

------------------------------------------------------------------------------
(* Properties. *)

\* The types of every variable.
TypeOK == KernelTypeOK /\ MachineTypeOK /\ SessionTypeOK

\* bench_sweep never puts an engine on a GPU that an earlier one still holds,
\* whatever its parent and workers did, as long as nvidia-smi could be read before
\* the first engine and every SIGKILL took effect (release_engine, _kill_group).
CleanStart ==
  [][\A v \in Engines :
       parent[v] = "none" /\ parent'[v] = "loading" /\ gpuKnown /\ stuck = 0
         => Holders("gpu") = {}]_vars

\* /health is asked of a port, and an engine that outlived its release answers for
\* the next one: a variant measured on another variant's engine is given away by
\* that other variant's release, recorded as not clean.
MeasuredElsewhereShows ==
  script = "bench_sweep" =>
    \A v \in Plan : elsewhere[v] # 0 => clean[elsewhere[v]] = "no"

\* A session runs over its budget (plan_skip: "running over is what gets a session
\* killed") only when a variant cost more than the longest curve before it, or when
\* what ran before there was any estimate left no room for the rest.
OverrunHasACause ==
  clock > Budget => \/ overruns.above
                    \/ overruns.unplanned + Reserve(longest) > Budget

\* What load_tuning reads back, from wherever the session was killed: unless a file
\* was torn, the variants written so far, in the order they were measured, each
\* as it came out; and nothing is missing once the session is over.
LoadFollowsTheSession ==
  LET torn == disk.order = TORN \/ \E v \in Plan : disk.variant[v] = TORN
      done == {v \in Plan : v <= Len(outcomes) /\ disk.variant[v] # ABSENT}
  IN  ~torn =>
        /\ \A i, j \in DOMAIN Loaded : i < j => Loaded[i] < Loaded[j]
        /\ ToSet(Loaded) = done
        /\ \A v \in done : disk.variant[v] = Whole(<<outcomes[v]>>)
        /\ pc = "finalise" /\ ~full => done = Plan

\* A kernel that gets to its end leaves nothing it owns running: no gateway, no
\* engine but one SIGKILL could not end, and, in a tuning session, nothing on the
\* port or the GPU that a clean release vouched for.
StopsWhatItStarted ==
  pc = "done" =>
    /\ "gateway" \in owned => gw = "stopped"
    /\ "engine" \in owned => parent[1] \notin {"loading", "serving"}
    /\ script = "bench_sweep" =>
         \A v \in Plan :
           /\ parent[v] \notin {"loading", "serving"}
           /\ clean[v] = "yes" => holds[v] \subseteq (IF gpuKnown THEN {} ELSE {"gpu"})

\* Every kernel comes to its end, whatever its engine does or does not do, and a
\* tuning session with an outcome for every variant unless a write failed; serve
\* ends, too, or serves for ever with an engine that lives.
SessionEnds ==
  \/ <>[](script = "serve" /\ pc = "serving" /\ ~Gone(1))
  \/ <>(/\ pc \in {"done", "killed"}
        /\ script = "bench_sweep" /\ cur > 1 /\ pc = "done" /\ ~full
             => Len(outcomes) = Variants)

=============================================================================
