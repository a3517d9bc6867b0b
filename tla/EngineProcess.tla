---------------------------- MODULE EngineProcess ----------------------------
(***************************************************************************)
(* An engine subprocess and its supervisor (engine/launcher.py             *)
(* EngineProcess): a parent that serves HTTP and workers that hold the     *)
(* GPU, in one process group.  The parent may exit and leave members of    *)
(* its group behind, with the GPU or with the listening socket.  Several   *)
(* engines are started one after the other on the same machine and port.   *)
(* The calls of the supervisor are operators and actions for the programs  *)
(* that start engines; what they do between two calls is theirs.           *)
(***************************************************************************)
EXTENDS Integers, FiniteSets

CONSTANTS Engines,     \* the engines a program may start, numbered in order
          MaxStuck     \* bound: SIGKILLs that take effect only after everyone gave up

ASSUME EnginesNumbered == Engines \subseteq Nat \ {0}
ASSUME StuckBound == MaxStuck \in Nat

VARIABLES parent,   \* the parent process of each engine
          holds,    \* what the living members of its group hold
          stuck     \* SIGKILLs that have not taken effect at once

machine == <<parent, holds, stuck>>

Holders(x) == {e \in Engines : x \in holds[e]}

\* Popen.poll() is not None, or there is no process to ask.
Gone(e) == parent[e] \in {"none", "exited"}

MachineTypeOK ==
  /\ parent \in [Engines -> {"none", "loading", "serving", "doomed", "exited"}]
  /\ holds \in [Engines -> SUBSET {"gpu", "port"}]
  /\ stuck \in 0..MaxStuck
  /\ Cardinality(Holders("port")) <= 1

MachineInit ==
  /\ parent = [e \in Engines |-> "none"]
  /\ holds = [e \in Engines |-> {}]
  /\ stuck = 0

------------------------------------------------------------------------------
(* The engine, by itself. *)

\* It takes memory whether or not another engine still holds some.
TakesGpu(e) ==
  /\ parent[e] = "loading" /\ "gpu" \notin holds[e]
  /\ holds' = [holds EXCEPT ![e] = @ \cup {"gpu"}]
  /\ UNCHANGED <<parent, stuck>>

Serves(e) ==
  /\ parent[e] = "loading" /\ "gpu" \in holds[e]
  /\ Holders("port") = {}
  /\ parent' = [parent EXCEPT ![e] = "serving"]
  /\ holds' = [holds EXCEPT ![e] = @ \cup {"port"}]
  /\ UNCHANGED stuck

\* The parent exits: a crash, out of memory, a port already taken, SIGTERM.
Exits(e) ==
  /\ parent[e] \in {"loading", "serving"}
  /\ parent' = [parent EXCEPT ![e] = "exited"]
  /\ \E left \in SUBSET holds[e] : holds' = [holds EXCEPT ![e] = left]
  /\ UNCHANGED stuck

\* Members of the group that outlived the parent end, too, and all at once.
SurvivorsLetGo(e) ==
  /\ parent[e] = "exited"
  /\ holds[e] # {} /\ holds' = [holds EXCEPT ![e] = {}]
  /\ UNCHANGED <<parent, stuck>>

\* A process killed in an uninterruptible call is gone at last.
Reaped(e) ==
  /\ parent[e] = "doomed"
  /\ parent' = [parent EXCEPT ![e] = "exited"]
  /\ holds' = [holds EXCEPT ![e] = {}]
  /\ UNCHANGED stuck

EngineMoves ==
  \E e \in Engines : TakesGpu(e) \/ Serves(e) \/ Exits(e) \/ SurvivorsLetGo(e) \/ Reaped(e)

------------------------------------------------------------------------------
(* The supervisor's calls. *)

\* EngineProcess.start: an object starts its process once.
Start(e) ==
  /\ parent[e] = "none"
  /\ parent' = [parent EXCEPT ![e] = "loading"]
  /\ UNCHANGED <<holds, stuck>>

\* wait_until_healthy: the exit code is looked at first, then /health is asked
\* of the port, and whoever holds the port answers.
HealthAnsweredBy(e, other) == ~Gone(e) /\ other \in Holders("port")

\* Mutant of HealthFails: no deadline.
HealthFails_OnlyByExit(e) == Gone(e)

\* ... or it raises EngineStartupError: the process exited, or time is up, which
\* may be at any moment.
HealthFails(e) == TRUE

\* SIGKILL to the group of e: it takes effect at once, or hangs in the driver.
Killed(e) ==
  \/ /\ parent' = [parent EXCEPT ![e] = "exited"]
     /\ holds' = [holds EXCEPT ![e] = {}]
     /\ UNCHANGED stuck
  \/ /\ stuck < MaxStuck /\ stuck' = stuck + 1
     /\ parent' = [parent EXCEPT ![e] = IF @ = "exited" THEN @ ELSE "doomed"]
     /\ UNCHANGED holds

\* stop(): nothing to do once the parent has exited.  Otherwise SIGTERM, and the
\* caller waits: StopEnds, or StopEscalates when 20 s are over.
StopReturnsAtOnce(e) == Gone(e)

StopEnds(e) == Gone(e)

StopEscalates(e) == ~Gone(e) /\ Killed(e)

\* After SIGKILL it waits ten seconds more and raises TimeoutExpired.
StopRaises(e) == ~Gone(e)

=============================================================================
