--------------------------- MODULE Kernels_proofs ---------------------------
(***************************************************************************)
(* Proofs about the programs of Kernels, for any number of engines and     *)
(* variants, any budget and costs, any faults.                             *)
(***************************************************************************)
EXTENDS Kernels, FiniteSetTheorems, TLAPS

------------------------------------------------------------------------------
(* The inductive invariant, in five parts. *)

Live == {"loading", "serving"}

\* An engine of the variant at hand may be alive.
Running == {"health", "sweep", "stop", "term", "kill", "port", "gpu", "gpu2"}
Before == {"install", "doctor", "tune"}
Trying == {"prepare", "command", "start", "judge", "crash"} \cup Running
Writing == {"record", "order", "save"}
AtEnd == {"finish", "done", "killed"}
SinglePlaces == {"install", "doctor", "flags", "up", "idle", "gateway", "work", "gwstop",
                 "preflight", "serving", "stop", "term", "kill"} \cup AtEnd

\* The types, with the records spelt out.
TypeInv ==
  /\ KernelTypeOK
  /\ parent \in [Engines -> {"none", "loading", "serving", "doomed", "exited"}]
  /\ holds \in [Engines -> SUBSET {"gpu", "port"}]
  /\ stuck \in 0..MaxStuck
  /\ cur \in 1..(Variants + 1)
  /\ gpuKnown \in BOOLEAN /\ full \in BOOLEAN
  /\ run \in [curve : BOOLEAN, portClosed : BOOLEAN]
  /\ elsewhere \in [Plan -> {0} \cup Engines]
  /\ clean \in [Plan -> {"unset", "yes", "no"}]
  /\ outcomes \in Seq(Outcome)
  /\ disk \in [variant : [Plan -> File(Outcome)], order : File(Plan)]
  /\ clock \in Nat /\ longest \in Nat
  /\ overruns \in [above : BOOLEAN, unplanned : Nat]

\* Where a program can be, and how far a session's list of outcomes has come.
Shape ==
  /\ Len(outcomes) <= Variants
  /\ Single => pc \in SinglePlaces /\ cur = 1 /\ ~gpuKnown
  /\ ~Single =>
       /\ pc \in Before \cup {"plan", "finalise"} \cup Trying \cup Writing \cup AtEnd
       /\ pc \in Before => cur = 1 /\ outcomes = <<>>
       /\ pc \in Trying => cur <= Variants /\ Len(outcomes) = cur - 1
       /\ pc = "plan" => Len(outcomes) = cur - 1
       /\ pc \in Writing => cur <= Variants /\ Len(outcomes) = cur

\* The engine e was released, or there is nothing to release.
Quiet(e) ==
  /\ parent[e] \notin Live
  /\ gpuKnown /\ (stuck = 0 \/ (e \in Plan /\ clean[e] = "yes")) => "gpu" \notin holds[e]
  /\ "port" \in holds[e] => e \in Plan /\ clean[e] = "no"

\* What a session's engines hold: all but the variant's own are quiet, and what
\* release_engine has established so far of that one stays established.
Machine ==
  /\ \A e \in Engines : parent[e] = "none" => holds[e] = {}
  /\ \A e, f \in Engines : "port" \in holds[e] /\ "port" \in holds[f] => e = f
  /\ ~Single =>
       /\ pc \in Before => \A e \in Engines : parent[e] = "none"
       /\ \A e \in Engines : e > cur => parent[e] = "none"
       /\ \A e \in Engines : e # cur \/ pc \notin Running => Quiet(e)
       /\ pc \in {"kill", "port", "gpu", "gpu2"} => parent[cur] \notin Live
       /\ pc \in {"gpu", "gpu2"} /\ run.portClosed => "port" \notin holds[cur]
       /\ pc = "gpu2" /\ stuck = 0 => "gpu" \notin holds[cur]
       /\ \A v \in Plan : elsewhere[v] # 0 => elsewhere[v] < cur /\ clean[elsewhere[v]] = "no"

\* What a program will stop is stopped where its cleanup is over.
Owned ==
  /\ ~Single \/ pc \in {"install", "doctor", "flags", "preflight"} => owned = {}
  /\ "gateway" \in owned =>
       /\ script = "gateway_metrics"
       /\ pc \in {"work", "gwstop", "killed"} \/ gw = "stopped"
  /\ pc \in {"idle", "gateway"} => script = "gateway_metrics" /\ "gateway" \notin owned
  /\ Single /\ "engine" \in owned /\ pc \in {"kill"} \cup AtEnd => parent[1] \notin Live

\* The estimate and what was spent.
Spent ==
  /\ longest = 0 => clock = overruns.unplanned
  /\ longest > 0 =>
       \/ overruns.above
       \/ overruns.unplanned + Reserve(longest) > Budget
       \/ clock + Reserve(longest) <= Budget
       \/ Len(outcomes) = Variants /\ clock <= Budget
  /\ ~Single /\ pc \in Trying => ~Skips(cur)

------------------------------------------------------------------------------
(* Types. *)

USE DEF Plan, Live, Running, Before, Trying, Writing, AtEnd

\* The constants, as the proofs below need them.
LEMMA Constants ==
  /\ Variants \in Nat /\ Variants > 0 /\ Budget \in Nat /\ MaxCost \in Nat /\ MaxStuck \in Nat
  /\ Protected \in BOOLEAN
  /\ \A e \in Engines : e \in Nat /\ e > 0
  /\ \A v \in 1..Variants : v \in Engines
  /\ 1 \in Engines
<1>1. Variants \in Nat /\ Variants > 0 /\ Budget \in Nat /\ MaxCost \in Nat /\ MaxStuck \in Nat
  BY SessionConstants, StuckBound
<1>2. \A e \in Engines : e \in Nat /\ e > 0
  BY EnginesNumbered
<1>3. \A v \in 1..Variants : v \in Engines
  BY OneEngineEach
<1>4. 1 \in 1..Variants
  BY <1>1
<1>5. QED
  BY <1>1, <1>2, <1>3, <1>4, SessionConstants

\* What the engines and the calls of their supervisor leave behind is well typed.
LEMMA MachineTypes ==
  ASSUME TypeInv, NEW e \in Engines,
         \/ TakesGpu(e) \/ Serves(e) \/ Exits(e) \/ SurvivorsLetGo(e) \/ Reaped(e)
         \/ Start(e) \/ Killed(e) \/ UNCHANGED machine
  PROVE  /\ parent' \in [Engines -> {"none", "loading", "serving", "doomed", "exited"}]
         /\ holds' \in [Engines -> SUBSET {"gpu", "port"}]
         /\ stuck' \in 0..MaxStuck
<1>1. CASE TakesGpu(e) \/ Serves(e)
  BY <1>1 DEF TypeInv, TakesGpu, Serves
<1>2. CASE Exits(e)
  BY <1>2 DEF TypeInv, Exits
<1>3. CASE SurvivorsLetGo(e) \/ Reaped(e) \/ Start(e)
  BY <1>3 DEF TypeInv, SurvivorsLetGo, Reaped, Start
<1>4. CASE Killed(e)
  <2>1. parent' \in [Engines -> {"none", "loading", "serving", "doomed", "exited"}]
    BY <1>4 DEF TypeInv, Killed
  <2>2. holds' \in [Engines -> SUBSET {"gpu", "port"}]
    BY <1>4 DEF TypeInv, Killed
  <2>3. stuck' \in 0..MaxStuck
    BY <1>4, Constants DEF TypeInv, Killed
  <2>4. QED
    BY <2>1, <2>2, <2>3
<1>5. CASE UNCHANGED machine
  BY <1>5 DEF TypeInv, machine
<1>6. QED
  BY <1>1, <1>2, <1>3, <1>4, <1>5

\* The files' contents.
LEMMA FileTypes ==
  /\ ABSENT \in File(Outcome) /\ TORN \in File(Outcome)
  /\ ABSENT \in File(Plan) /\ TORN \in File(Plan)
  /\ \A o \in Outcome : Whole(<<o>>) \in File(Outcome)
  /\ \A vs \in Seq(Plan) : Whole(vs) \in File(Plan)
  BY DEF File, ABSENT, TORN, Whole

\* Every program starts within the invariant.
LEMMA InitTypes == Init => TypeInv /\ Shape /\ Machine /\ Owned /\ Spent
<1> SUFFICES ASSUME Init PROVE TypeInv /\ Shape /\ Machine /\ Owned /\ Spent
  OBVIOUS
<1> USE Constants DEF Init, MachineInit, SessionInit
<1>1. TypeInv
  <2>1. KernelTypeOK
    BY DEF KernelTypeOK, Scripts
  <2>2. disk \in [variant : [Plan -> File(Outcome)], order : File(Plan)]
    BY FileTypes
  <2>3. cur \in 1..(Variants + 1) /\ stuck \in 0..MaxStuck
    BY Constants
  <2>4. run \in [curve : BOOLEAN, portClosed : BOOLEAN]
    BY DEF IDLE
  <2>5. /\ parent \in [Engines -> {"none", "loading", "serving", "doomed", "exited"}]
        /\ holds \in [Engines -> SUBSET {"gpu", "port"}]
        /\ elsewhere \in [Plan -> {0} \cup Engines]
        /\ clean \in [Plan -> {"unset", "yes", "no"}]
    OBVIOUS
  <2>6. gpuKnown \in BOOLEAN /\ full \in BOOLEAN
    OBVIOUS
  <2>7. outcomes \in Seq(Outcome)
    OBVIOUS
  <2>8. clock \in Nat /\ longest \in Nat /\ overruns \in [above : BOOLEAN, unplanned : Nat]
    OBVIOUS
  <2>9. QED
    BY <2>1, <2>2, <2>3, <2>4, <2>5, <2>6, <2>7, <2>8 DEF TypeInv
<1>2. Shape
  BY DEF Shape, Single, SinglePlaces, Scripts
<1>3. Machine
  BY DEF Machine, Quiet
<1>4. Owned
  BY DEF Owned
<1>5. Spent
  BY DEF Spent, Reserve
<1>6. QED
  BY <1>1, <1>2, <1>3, <1>4, <1>5

------------------------------------------------------------------------------
(* One step: types and places. *)

\* Whether the disk is full stays a matter of yes or no.
LEMMA FullStaysBoolean ==
  ASSUME TypeInv, Writes \/ FindsDiskFull \/ UNCHANGED full
  PROVE  full' \in BOOLEAN
  BY DEF TypeInv, Writes, FindsDiskFull

\* The places that a session's steps lead to.
LEMMA SessionPlaces ==
  ASSUME TypeInv, SessionMoves, UNCHANGED kernel
  PROVE  KernelTypeOK'
<1> USE DEF TypeInv, KernelTypeOK, kernel, SavesThen
<1>1. CASE TuneBegins \/ PlanSkips \/ PlanRuns \/ PlanEnds
  BY <1>1 DEF TuneBegins, PlanSkips, PlanRuns, PlanEnds
<1>2. CASE Prepare \/ SaveCommand \/ EngineStarts \/ Healthy \/ Unhealthy \/ SweepEnds
  BY <1>2 DEF Prepare, SaveCommand, EngineStarts, Healthy, Unhealthy, SweepEnds
<1>3. CASE PortSettles \/ GpuWait \/ GpuWaitAgain
  BY <1>3 DEF PortSettles, GpuWait, GpuWaitAgain
<1>4. CASE Judge \/ WriteVariant \/ WriteOrder \/ SaveResult \/ Finalise
  BY <1>4 DEF Judge, WriteVariant, WriteOrder, SaveResult, Finalise
<1>5. QED
  BY <1>1, <1>2, <1>3, <1>4 DEF SessionMoves

\* ... and those of the rest of a program.
KernelOnly ==
  \/ TuneInstalls \/ TuneChecks \/ SmokeInstalls \/ SmokeChecks
  \/ MetricsInstalls \/ MetricsChecks
  \/ SmokeStarts \/ MetricsStarts \/ SingleHealthy \/ SingleUnhealthy \/ SmokeEnds
  \/ EngineIdle \/ GatewayStarts \/ Driven \/ GatewayStops
  \/ ServeStarts \/ ServeHealthy \/ ServeUnhealthy \/ EngineLeaves \/ ServeEnds
  \/ Interrupted
  \/ SigTerm \/ Stopped \/ SigKill \/ StopTimesOut \/ Finish

Steps ==
  TuneInstalls \/ TuneChecks \/ SmokeInstalls \/ SmokeChecks \/ MetricsInstalls \/ MetricsChecks

\* ... and they lead to known places, with known values.
LEMMA KernelPlaces ==
  ASSUME TypeInv, KernelOnly
  PROVE  KernelTypeOK'
<1> USE DEF TypeInv, KernelTypeOK, kernel, Scripts, SavesThen
<1>1. CASE Steps
  BY <1>1 DEF Steps, StepOf, TuneInstalls, TuneChecks, SmokeInstalls, SmokeChecks,
              MetricsInstalls, MetricsChecks
<1>2. CASE SmokeStarts \/ MetricsStarts
  BY <1>2 DEF StartsOne, SmokeStarts, MetricsStarts
<1>3. CASE SingleHealthy \/ SingleUnhealthy \/ SmokeEnds
  BY <1>3 DEF SingleHealthy, SingleUnhealthy, SmokeEnds
<1>4. CASE EngineIdle \/ Driven
  BY <1>4 DEF EngineIdle, Driven
<1>5. CASE GatewayStarts
  BY <1>5 DEF GatewayStarts
<1>6. CASE GatewayStops
  BY <1>6 DEF GatewayStops, GatewayEnds
<1>7. CASE ServeStarts \/ ServeHealthy \/ ServeUnhealthy
  BY <1>7 DEF ServeStarts, ServeHealthy, ServeUnhealthy
<1>8. CASE EngineLeaves \/ Interrupted \/ ServeEnds
  BY <1>8 DEF EngineLeaves, Interrupted, ServeEnds
<1>9. CASE SigTerm \/ Stopped \/ SigKill
  BY <1>9 DEF SigTerm, Stopped, SigKill, AfterStop
<1>10. CASE StopTimesOut \/ Finish
  BY <1>10 DEF StopTimesOut, Finish, AfterStop, AfterStopRaises
<1>11. QED
  BY <1>1, <1>2, <1>3, <1>4, <1>5, <1>6, <1>7, <1>8, <1>9, <1>10 DEF KernelOnly, Steps

\* What the steps outside a session's variants leave alone.
LEMMA KernelKeepsSession ==
  ASSUME KernelOnly
  PROVE  /\ UNCHANGED rest
         /\ Writes \/ FindsDiskFull \/ UNCHANGED full
         /\ \/ UNCHANGED machine \/ (pc = "term" /\ Killed(cur))
            \/ pc \in {"flags", "preflight"} /\ Start(1)
<1> USE DEF session, rest, SavesThen
<1>1. CASE Steps
  BY <1>1 DEF Steps, StepOf, TuneInstalls, TuneChecks, SmokeInstalls, SmokeChecks,
              MetricsInstalls, MetricsChecks
<1>2. CASE SmokeStarts \/ MetricsStarts
  BY <1>2 DEF StartsOne, SmokeStarts, MetricsStarts
<1>3. CASE SingleHealthy \/ SingleUnhealthy \/ SmokeEnds
  BY <1>3 DEF SingleHealthy, SingleUnhealthy, SmokeEnds
<1>4. CASE EngineIdle \/ Driven \/ GatewayStarts \/ GatewayStops
  BY <1>4 DEF EngineIdle, Driven, GatewayStarts, GatewayStops
<1>5. CASE ServeStarts \/ ServeHealthy \/ ServeUnhealthy
  BY <1>5 DEF ServeStarts, ServeHealthy, ServeUnhealthy
<1>6. CASE EngineLeaves \/ Interrupted \/ ServeEnds
  BY <1>6 DEF EngineLeaves, Interrupted, ServeEnds
<1>7. CASE SigTerm \/ Stopped \/ SigKill \/ StopTimesOut \/ Finish
  BY <1>7 DEF SigTerm, Stopped, SigKill, StopEscalates, StopTimesOut, Finish
<1>8. QED
  BY <1>1, <1>2, <1>3, <1>4, <1>5, <1>6, <1>7 DEF KernelOnly, Steps

\* The program stays what it is.
LEMMA ScriptStays ==
  ASSUME KernelOnly
  PROVE  Single' <=> Single
<1> USE DEF Single, kernel, SavesThen
<1>1. CASE Steps
  BY <1>1 DEF Steps, StepOf, TuneInstalls, TuneChecks, SmokeInstalls, SmokeChecks,
              MetricsInstalls, MetricsChecks
<1>2. CASE SmokeStarts \/ MetricsStarts
  BY <1>2 DEF StartsOne, SmokeStarts, MetricsStarts
<1>3. CASE SingleHealthy \/ SingleUnhealthy \/ SmokeEnds
  BY <1>3 DEF SingleHealthy, SingleUnhealthy, SmokeEnds
<1>4. CASE EngineIdle \/ Driven \/ GatewayStarts \/ GatewayStops
  BY <1>4 DEF EngineIdle, Driven, GatewayStarts, GatewayStops
<1>5. CASE ServeStarts \/ ServeHealthy \/ ServeUnhealthy
  BY <1>5 DEF ServeStarts, ServeHealthy, ServeUnhealthy
<1>6. CASE EngineLeaves \/ Interrupted \/ ServeEnds
  BY <1>6 DEF EngineLeaves, Interrupted, ServeEnds
<1>7. CASE SigTerm \/ Stopped \/ SigKill \/ StopTimesOut \/ Finish
  BY <1>7 DEF SigTerm, Stopped, SigKill, StopTimesOut, Finish
<1>8. QED
  BY <1>1, <1>2, <1>3, <1>4, <1>5, <1>6, <1>7 DEF KernelOnly, Steps

\* A program stops an engine it has, and a session works on a variant it has.
LEMMA CurrentEngine ==
  ASSUME TypeInv, Shape
  PROVE  /\ cur \in Nat /\ cur > 0
         /\ pc \in Trying \cup Writing => cur \in Engines
         /\ ~Single /\ pc \in Trying \cup Writing => cur \in Plan
         /\ pc \in (Trying \cup Writing) \ {"stop", "term", "kill"} => ~Single
<1>1. cur \in Nat /\ cur > 0
  BY Constants DEF TypeInv
<1>2. ~Single /\ pc \in Trying \cup Writing => cur \in Plan
  BY <1>1, Constants DEF Shape
<1>3. Single => cur = 1
  BY DEF Shape
<1>4. pc \in (Trying \cup Writing) \ {"stop", "term", "kill"} => ~Single
  BY DEF Shape, SinglePlaces
<1>5. QED
  BY <1>1, <1>2, <1>3, <1>4, Constants

\* A program's steps outside a session keep the types.
LEMMA KernelTypes ==
  ASSUME TypeInv, Shape, KernelOnly
  PROVE  TypeInv'
<1>1. /\ UNCHANGED rest
      /\ Writes \/ FindsDiskFull \/ UNCHANGED full
      /\ \/ UNCHANGED machine \/ (pc = "term" /\ Killed(cur))
         \/ pc \in {"flags", "preflight"} /\ Start(1)
  BY KernelKeepsSession
<1>2. \E e \in Engines : Start(e) \/ Killed(e) \/ UNCHANGED machine
  BY <1>1, CurrentEngine, Constants
<1>3. /\ parent' \in [Engines -> {"none", "loading", "serving", "doomed", "exited"}]
      /\ holds' \in [Engines -> SUBSET {"gpu", "port"}]
      /\ stuck' \in 0..MaxStuck
  BY <1>2, MachineTypes
<1>4. full' \in BOOLEAN
  BY <1>1, FullStaysBoolean
<1>5. QED
  BY <1>1, <1>3, <1>4, KernelPlaces DEF TypeInv, rest

\* The session's part of the types.
SessionTypes ==
  /\ cur \in 1..(Variants + 1)
  /\ gpuKnown \in BOOLEAN /\ full \in BOOLEAN
  /\ run \in [curve : BOOLEAN, portClosed : BOOLEAN]
  /\ elsewhere \in [Plan -> {0} \cup Engines]
  /\ clean \in [Plan -> {"unset", "yes", "no"}]
  /\ outcomes \in Seq(Outcome)
  /\ disk \in [variant : [Plan -> File(Outcome)], order : File(Plan)]
  /\ clock \in Nat /\ longest \in Nat
  /\ overruns \in [above : BOOLEAN, unplanned : Nat]

\* What a write that fails may leave behind is a file's content, too.
LEMMA TornIsAFile ==
  ASSUME TypeInv
  PROVE  \A d \in {disk} \cup Torn :
           d \in [variant : [Plan -> File(Outcome)], order : File(Plan)]
<1>1. disk \in [variant : [Plan -> File(Outcome)], order : File(Plan)]
  BY DEF TypeInv
<1>2. [disk EXCEPT !.variant[cur] = TORN]
        \in [variant : [Plan -> File(Outcome)], order : File(Plan)]
  BY <1>1, FileTypes
<1>3. [disk EXCEPT !.order = TORN] \in [variant : [Plan -> File(Outcome)], order : File(Plan)]
  BY <1>1, FileTypes
<1>4. QED
  BY <1>1, <1>2, <1>3 DEF Torn

\* A session's steps keep the types of its variables.
LEMMA SessionTypesKept ==
  ASSUME TypeInv, Shape, SessionMoves
  PROVE  SessionTypes'
<1>0. SessionTypes
  BY DEF SessionTypes, TypeInv
<1>f. Writes \/ FindsDiskFull \/ UNCHANGED full => full' \in BOOLEAN
  BY FullStaysBoolean
<1> USE DEF session, rest, SavesThen, SessionTypes
<1>1. CASE TuneBegins
  BY <1>1, <1>0, <1>f DEF TuneBegins
<1>2. CASE PlanSkips
  BY <1>2, <1>0 DEF PlanSkips, Outcome
<1>3. CASE PlanRuns \/ PlanEnds \/ Unhealthy \/ Finalise \/ EngineStarts
  BY <1>3, <1>0 DEF PlanRuns, PlanEnds, Unhealthy, Finalise, EngineStarts
<1>4. CASE Prepare \/ SaveCommand
  BY <1>4, <1>0, <1>f DEF Prepare, SaveCommand
<1>5. CASE Healthy
  <2>1. PICK e \in Engines : elsewhere' = [elsewhere EXCEPT ![cur] = IF e = cur THEN 0 ELSE e]
    BY <1>5 DEF Healthy
  <2>2. elsewhere' \in [Plan -> {0} \cup Engines]
    BY <2>1, <1>0
  <2>3. UNCHANGED <<cur, gpuKnown, run, clean, outcomes, disk, full, clock, longest, overruns>>
    BY <1>5 DEF Healthy
  <2>4. QED
    BY <2>2, <2>3, <1>0
<1>6. CASE SweepEnds
  <2>1. run' \in [curve : BOOLEAN, portClosed : BOOLEAN]
    BY <1>6, <1>0 DEF SweepEnds
  <2>2. UNCHANGED <<cur, gpuKnown, elsewhere, clean, outcomes, disk, clock, longest, overruns>>
        /\ full' \in BOOLEAN
    BY <1>6, <1>f DEF SweepEnds
  <2>3. QED
    BY <2>1, <2>2, <1>0
<1>7. CASE PortSettles
  BY <1>7, <1>0 DEF PortSettles
<1>8. CASE GpuWait \/ GpuWaitAgain
  BY <1>8, <1>0 DEF GpuWait, GpuWaitAgain, Release
<1>9. CASE Judge
  BY <1>9, <1>0, <1>f, Constants DEF Judge, Closes, Outcome, IDLE
<1>10. CASE WriteVariant
  <2>1. cur \in Plan /\ cur \in DOMAIN outcomes
    BY <1>10, CurrentEngine DEF WriteVariant, Shape
  <2>2. Whole(<<outcomes[cur]>>) \in File(Outcome)
    BY <2>1, <1>0, FileTypes
  <2>3. [disk EXCEPT !.variant[cur] = Whole(<<outcomes[cur]>>)]
          \in [variant : [Plan -> File(Outcome)], order : File(Plan)]
    BY <2>2, <1>0
  <2>4. disk' \in [variant : [Plan -> File(Outcome)], order : File(Plan)]
    BY <1>10, <2>3, TornIsAFile DEF WriteVariant
  <2>5. UNCHANGED <<cur, gpuKnown, run, elsewhere, clean, outcomes, clock, longest, overruns>>
        /\ full' \in BOOLEAN
    BY <1>10, <1>f DEF WriteVariant
  <2>6. QED
    BY <2>4, <2>5, <1>0
<1>11. CASE WriteOrder
  <2>1. cur \in Plan
    BY <1>11, CurrentEngine DEF WriteOrder
  <2>2. Listed \in Seq(Plan)
    BY <2>1, Constants DEF Listed
  <2>3. [disk EXCEPT !.order = Whole(Listed)]
          \in [variant : [Plan -> File(Outcome)], order : File(Plan)]
    BY <2>2, <1>0, FileTypes
  <2>4. disk' \in [variant : [Plan -> File(Outcome)], order : File(Plan)]
    BY <1>11, <2>3, TornIsAFile DEF WriteOrder
  <2>5. UNCHANGED <<cur, gpuKnown, run, elsewhere, clean, outcomes, clock, longest, overruns>>
        /\ full' \in BOOLEAN
    BY <1>11, <1>f DEF WriteOrder
  <2>6. QED
    BY <2>4, <2>5, <1>0
<1>12. CASE SaveResult
  <2>1. cur + 1 \in 1..(Variants + 1)
    BY <1>12, CurrentEngine, Constants DEF SaveResult
  <2>2. cur' = cur + 1 /\ full' \in BOOLEAN
        /\ UNCHANGED <<gpuKnown, run, elsewhere, clean, outcomes, disk, clock, longest, overruns>>
    BY <1>12, <1>f DEF SaveResult
  <2>3. QED
    BY <2>1, <2>2, <1>0
<1>13. QED
  BY <1>1, <1>2, <1>3, <1>4, <1>5, <1>6, <1>7, <1>8, <1>9, <1>10, <1>11, <1>12
     DEF SessionMoves

\* The engines' own steps, the platform's, and no step at all.
LEMMA OthersTypes ==
  ASSUME TypeInv, EngineAlone \/ SessionKilled \/ UNCHANGED vars
  PROVE  TypeInv'
<1>1. CASE EngineAlone
  <2>1. UNCHANGED <<pc, session, kernel>>
    BY <1>1 DEF EngineAlone
  <2>2. PICK e \in Engines : \/ TakesGpu(e) \/ Serves(e) \/ Exits(e)
                             \/ SurvivorsLetGo(e) \/ Reaped(e)
    BY <1>1 DEF EngineAlone, EngineMoves
  <2>3. QED
    BY <2>1, <2>2, MachineTypes DEF TypeInv, KernelTypeOK, session, kernel
<1>2. CASE SessionKilled
  <2>1. KernelTypeOK'
    BY <1>2 DEF SessionKilled, TypeInv, KernelTypeOK
  <2>2. /\ parent' \in [Engines -> {"none", "loading", "serving", "doomed", "exited"}]
        /\ holds' \in [Engines -> SUBSET {"gpu", "port"}]
    BY <1>2 DEF SessionKilled, TypeInv
  <2>3. disk' \in [variant : [Plan -> File(Outcome)], order : File(Plan)]
    BY <1>2, TornIsAFile DEF SessionKilled
  <2>4. UNCHANGED <<stuck, cur, gpuKnown, run, elsewhere, clean, outcomes, full, clock,
                    longest, overruns>>
    BY <1>2 DEF SessionKilled
  <2>5. QED
    BY <2>1, <2>2, <2>3, <2>4 DEF TypeInv
<1>3. CASE UNCHANGED vars
  BY <1>3 DEF vars, machine, session, kernel, TypeInv, KernelTypeOK
<1>4. QED
  BY <1>1, <1>2, <1>3

\* Machine steps of a session.
LEMMA SessionMachine ==
  ASSUME TypeInv, Shape, SessionMoves
  PROVE  /\ EngineStarts \/ Killed(cur) \/ UNCHANGED machine
         /\ \E e \in Engines : Start(e) \/ Killed(e) \/ UNCHANGED machine
<1>1. CASE EngineStarts
  <2>1. cur \in Engines
    BY <1>1, CurrentEngine DEF EngineStarts
  <2>2. QED
    BY <1>1, <2>1 DEF EngineStarts
<1>2. CASE GpuWait
  <2>1. cur \in Engines
    BY <1>2, CurrentEngine DEF GpuWait
  <2>2. QED
    BY <1>2, <2>1 DEF GpuWait, GroupKilled
<1>3. CASE ~EngineStarts /\ ~GpuWait
  <2>1. UNCHANGED machine
    BY <1>3 DEF SessionMoves, TuneBegins, PlanSkips, PlanRuns, PlanEnds, Prepare, SaveCommand,
       Healthy, Unhealthy, SweepEnds, PortSettles, GpuWaitAgain, Judge, WriteVariant,
       WriteOrder, SaveResult, Finalise
  <2>2. QED
    BY <2>1, Constants
<1>4. QED
  BY <1>1, <1>2, <1>3

\* Every step is one of these.
LEMMA StepKinds ==
  ASSUME [Next]_vars
  PROVE  \/ SessionMoves /\ UNCHANGED kernel
         \/ KernelOnly
         \/ EngineAlone \/ SessionKilled \/ UNCHANGED vars
  BY DEF Next, KernelMoves, KernelOnly, Over

\* Every step keeps the types.
LEMMA TypesKept ==
  ASSUME TypeInv, Shape, [Next]_vars
  PROVE  TypeInv'
<1>1. CASE SessionMoves /\ UNCHANGED kernel
  <2>1. SessionTypes' /\ KernelTypeOK'
    BY <1>1, SessionTypesKept, SessionPlaces
  <2>2. /\ parent' \in [Engines -> {"none", "loading", "serving", "doomed", "exited"}]
        /\ holds' \in [Engines -> SUBSET {"gpu", "port"}]
        /\ stuck' \in 0..MaxStuck
    BY <1>1, SessionMachine, MachineTypes
  <2>3. QED
    BY <2>1, <2>2 DEF TypeInv, SessionTypes
<1>2. QED
  BY <1>1, StepKinds, KernelTypes, OthersTypes

\* What happens in a session's steps, happens in bench_sweep.
LEMMA SessionIsTuning ==
  ASSUME TypeInv, Shape, SessionMoves
  PROVE  ~Single
<1>1. CASE TuneBegins \/ PlanSkips \/ PlanRuns \/ PlanEnds \/ Finalise
  BY <1>1 DEF TuneBegins, PlanSkips, PlanRuns, PlanEnds, Finalise, Shape, SinglePlaces
<1>2. CASE Prepare \/ SaveCommand \/ EngineStarts \/ Healthy \/ Unhealthy \/ SweepEnds
  BY <1>2 DEF Prepare, SaveCommand, EngineStarts, Healthy, Unhealthy, SweepEnds, Shape, SinglePlaces
<1>3. CASE PortSettles \/ GpuWait \/ GpuWaitAgain
  BY <1>3 DEF PortSettles, GpuWait, GpuWaitAgain, Shape, SinglePlaces
<1>4. CASE Judge \/ WriteVariant \/ WriteOrder \/ SaveResult
  BY <1>4 DEF Judge, Closes, WriteVariant, WriteOrder, SaveResult, Shape, SinglePlaces
<1>5. QED
  BY <1>1, <1>2, <1>3, <1>4 DEF SessionMoves

\* A session goes from place to place, and one outcome comes with each variant.
LEMMA SessionShape ==
  ASSUME TypeInv, Shape, SessionMoves, UNCHANGED kernel
  PROVE  Shape'
<1>1. ~Single /\ ~Single' /\ cur \in Nat /\ cur > 0
  BY SessionIsTuning, CurrentEngine DEF kernel, Single
<1>2. Len(outcomes) \in Nat /\ Variants \in Nat /\ outcomes \in Seq(Outcome)
  BY Constants DEF TypeInv
<1> USE <1>1, <1>2 DEF Shape, SavesThen, rest, session
<1>3. CASE TuneBegins
  BY <1>3, Constants DEF TuneBegins
<1>4. CASE PlanSkips
  BY <1>4 DEF PlanSkips
<1>5. CASE PlanRuns \/ PlanEnds
  BY <1>5, Constants DEF PlanRuns, PlanEnds
<1>6. CASE Prepare \/ SaveCommand \/ EngineStarts
  BY <1>6 DEF Prepare, SaveCommand, EngineStarts
<1>7. CASE Healthy \/ Unhealthy \/ SweepEnds
  BY <1>7 DEF Healthy, Unhealthy, SweepEnds
<1>8. CASE PortSettles \/ GpuWait \/ GpuWaitAgain
  BY <1>8 DEF PortSettles, GpuWait, GpuWaitAgain
<1>9. CASE Judge
  <2>1. /\ pc \in {"judge", "crash"} /\ pc' = "record" /\ UNCHANGED cur
        /\ \E o \in Outcome : outcomes' = Append(outcomes, o)
    BY <1>9 DEF Judge, Closes, Outcome
  <2>2. Len(outcomes') = Len(outcomes) + 1
    BY <2>1
  <2>3. QED
    BY <2>1, <2>2
<1>10. CASE WriteVariant \/ WriteOrder \/ Finalise
  BY <1>10 DEF WriteVariant, WriteOrder, Finalise
<1>11. CASE SaveResult
  BY <1>11 DEF SaveResult
<1>12. QED
  BY <1>3, <1>4, <1>5, <1>6, <1>7, <1>8, <1>9, <1>10, <1>11 DEF SessionMoves

\* The other steps of a program keep to its places.
LEMMA KernelShape ==
  ASSUME TypeInv, Shape, KernelOnly
  PROVE  Shape'
<1>1. UNCHANGED <<cur, gpuKnown, outcomes>>
  BY KernelKeepsSession DEF rest
<1> USE <1>1 DEF Shape, Single, SinglePlaces, SavesThen, kernel
<1>2. CASE Steps
  BY <1>2 DEF Steps, StepOf, TuneInstalls, TuneChecks, SmokeInstalls, SmokeChecks,
              MetricsInstalls, MetricsChecks
<1>3. CASE SmokeStarts \/ MetricsStarts
  BY <1>3 DEF StartsOne, SmokeStarts, MetricsStarts
<1>4. CASE SingleHealthy \/ SingleUnhealthy \/ SmokeEnds
  BY <1>4 DEF SingleHealthy, SingleUnhealthy, SmokeEnds
<1>5. CASE EngineIdle \/ Driven \/ GatewayStarts \/ GatewayStops
  BY <1>5 DEF EngineIdle, Driven, GatewayStarts, GatewayStops
<1>6. CASE ServeStarts \/ ServeHealthy \/ ServeUnhealthy
  BY <1>6 DEF ServeStarts, ServeHealthy, ServeUnhealthy
<1>7. CASE EngineLeaves \/ Interrupted \/ ServeEnds
  BY <1>7 DEF EngineLeaves, Interrupted, ServeEnds
<1>8. CASE SigTerm \/ Stopped \/ SigKill
  BY <1>8 DEF SigTerm, Stopped, SigKill, AfterStop
<1>9. CASE StopTimesOut \/ Finish
  BY <1>9 DEF StopTimesOut, Finish, AfterStop, AfterStopRaises
<1>10. QED
  BY <1>2, <1>3, <1>4, <1>5, <1>6, <1>7, <1>8, <1>9 DEF KernelOnly, Steps

\* Every step keeps to its program's places.
LEMMA ShapeKept ==
  ASSUME TypeInv, Shape, [Next]_vars
  PROVE  Shape'
<1>1. CASE EngineAlone \/ UNCHANGED vars
  BY <1>1 DEF EngineAlone, vars, session, kernel, Shape, Single
<1>2. CASE SessionKilled
  BY <1>2 DEF SessionKilled, Shape, Single, SinglePlaces
<1>3. QED
  BY <1>1, <1>2, StepKinds, SessionShape, KernelShape

------------------------------------------------------------------------------
(* One step: what the engines hold. *)

\* The two parts of Machine that hold for every program.
Group ==
  /\ \A e \in Engines : parent[e] = "none" => holds[e] = {}
  /\ \A e, f \in Engines : "port" \in holds[e] /\ "port" \in holds[f] => e = f

\* ... and the part about bench_sweep.
Releases ==
  /\ pc \in Before => \A e \in Engines : parent[e] = "none"
  /\ \A e \in Engines : e > cur => parent[e] = "none"
  /\ \A e \in Engines : e # cur \/ pc \notin Running => Quiet(e)
  /\ pc \in {"kill", "port", "gpu", "gpu2"} => parent[cur] \notin Live
  /\ pc \in {"gpu", "gpu2"} /\ run.portClosed => "port" \notin holds[cur]
  /\ pc = "gpu2" /\ stuck = 0 => "gpu" \notin holds[cur]
  /\ \A v \in Plan : elsewhere[v] # 0 => elsewhere[v] < cur /\ clean[elsewhere[v]] = "no"

\* Machine is these two.
LEMMA MachineParts == Machine <=> Group /\ (~Single => Releases)
  BY DEF Machine, Group, Releases

\* One engine at a time listens on the port, and one that is not there holds nothing.
LEMMA GroupKept ==
  ASSUME TypeInv, Group, NEW e \in Engines,
         \/ TakesGpu(e) \/ Serves(e) \/ Exits(e) \/ SurvivorsLetGo(e) \/ Reaped(e)
         \/ Start(e) \/ Killed(e) \/ UNCHANGED machine
  PROVE  Group'
<1> USE DEF TypeInv, Group
<1>1. CASE TakesGpu(e)
  BY <1>1 DEF TakesGpu
<1>2. CASE Serves(e)
  <2>1. \A f \in Engines : "port" \notin holds[f]
    BY <1>2 DEF Serves, Holders
  <2>2. /\ parent' = [parent EXCEPT ![e] = "serving"]
        /\ holds' = [holds EXCEPT ![e] = @ \cup {"port"}]
    BY <1>2 DEF Serves
  <2>3. QED
    BY <2>1, <2>2
<1>3. CASE Exits(e)
  <2>1. PICK left \in SUBSET holds[e] : holds' = [holds EXCEPT ![e] = left]
    BY <1>3 DEF Exits
  <2>2. parent' = [parent EXCEPT ![e] = "exited"]
    BY <1>3 DEF Exits
  <2>3. QED
    BY <2>1, <2>2
<1>4. CASE SurvivorsLetGo(e) \/ Reaped(e)
  BY <1>4 DEF SurvivorsLetGo, Reaped
<1>5. CASE Start(e)
  BY <1>5 DEF Start
<1>6. CASE Killed(e)
  BY <1>6 DEF Killed
<1>7. CASE UNCHANGED machine
  BY <1>7 DEF machine
<1>8. QED
  BY <1>1, <1>2, <1>3, <1>4, <1>5, <1>6, <1>7

\* Engines by themselves: only the variant's own has anything to change but to let go.
LEMMA EnginesKeepReleases ==
  ASSUME TypeInv, Shape, Group, Releases, EngineAlone
  PROVE  Releases'
<1>1. UNCHANGED <<pc, session, kernel>>
  BY DEF EngineAlone
<1>2. PICK e \in Engines :
        TakesGpu(e) \/ Serves(e) \/ Exits(e) \/ SurvivorsLetGo(e) \/ Reaped(e)
  BY DEF EngineAlone, EngineMoves
<1>3. /\ \A f \in Engines : f # e => parent'[f] = parent[f] /\ holds'[f] = holds[f]
      /\ stuck' = stuck
      /\ parent[e] # "none" /\ parent'[e] # "none"
  <2>1. CASE TakesGpu(e) \/ Serves(e)
    BY <2>1 DEF TakesGpu, Serves, TypeInv
  <2>2. CASE Exits(e)
    BY <2>2 DEF Exits, TypeInv
  <2>3. CASE SurvivorsLetGo(e) \/ Reaped(e)
    BY <2>3 DEF SurvivorsLetGo, Reaped, TypeInv
  <2>4. QED
    BY <1>2, <2>1, <2>2, <2>3
<1>4. \/ (e = cur /\ pc \in Running \ {"kill", "port", "gpu", "gpu2"})
      \/ (parent'[e] \notin Live /\ holds'[e] = {})
  <2>1. CASE parent[e] \in Live
    <3>1. ~Quiet(e)
      BY <2>1 DEF Quiet
    <3>2. QED
      BY <2>1, <3>1 DEF Releases
  <2>2. CASE parent[e] \notin Live
    BY <1>2, <2>2 DEF TakesGpu, Serves, Exits, SurvivorsLetGo, Reaped, TypeInv
  <2>3. QED
    BY <2>1, <2>2
<1>5. \A f \in Engines :
        Quiet(f) /\ (f # e \/ (parent'[e] \notin Live /\ holds'[e] = {})) => Quiet(f)'
  BY <1>1, <1>3 DEF Quiet, session
<1>6. \A f \in Engines : (f # cur \/ pc \notin Running)' => Quiet(f)'
  <2> SUFFICES ASSUME NEW f \in Engines, f # cur \/ pc \notin Running
               PROVE  Quiet(f)'
    BY <1>1 DEF session
  <2>1. Quiet(f)
    BY DEF Releases
  <2>2. CASE f # e
    BY <2>1, <2>2, <1>5
  <2>3. CASE f = e
    <3>1. parent'[e] \notin Live /\ holds'[e] = {}
      BY <2>3, <1>4
    <3>2. QED
      BY <2>1, <2>3, <3>1, <1>5
  <2>4. QED
    BY <2>2, <2>3
<1>7. (pc \in Before => \A f \in Engines : parent[f] = "none")'
  BY <1>1, <1>2, <1>3 DEF Releases
<1>8. (\A f \in Engines : f > cur => parent[f] = "none")'
  BY <1>1, <1>3 DEF Releases, session
<1>9. (/\ pc \in {"kill", "port", "gpu", "gpu2"} => parent[cur] \notin Live
       /\ pc \in {"gpu", "gpu2"} /\ run.portClosed => "port" \notin holds[cur]
       /\ pc = "gpu2" /\ stuck = 0 => "gpu" \notin holds[cur])'
  <2>1. CASE e = cur
    BY <2>1, <1>1, <1>3, <1>4 DEF Releases, session
  <2>2. CASE e # cur /\ cur \in Engines
    BY <2>2, <1>1, <1>3 DEF Releases, session
  <2>3. CASE pc \notin {"kill", "port", "gpu", "gpu2"}
    BY <2>3, <1>1
  <2>4. QED
    BY <2>1, <2>2, <2>3, CurrentEngine
<1>10. QED
  BY <1>1, <1>6, <1>7, <1>8, <1>9 DEF Releases, session

\* A session's steps that no engine notices and that release none.
LEMMA QuietStep ==
  ASSUME Releases, UNCHANGED <<machine, cur, gpuKnown, clean, elsewhere>>,
         pc' \notin Before, pc' \notin {"kill", "port", "gpu", "gpu2"},
         pc \in Running => pc' \in Running
  PROVE  Releases'
  BY DEF Releases, Quiet, machine

\* The steps of bench_sweep outside its session.
LEMMA TuningOnly ==
  ASSUME Shape, ~Single, KernelOnly
  PROVE  \/ TuneInstalls \/ TuneChecks \/ Finish
         \/ SigTerm \/ Stopped \/ SigKill \/ StopTimesOut
<1> USE DEF Shape, Single
<1>1. ~SmokeInstalls /\ ~SmokeChecks /\ ~MetricsInstalls /\ ~MetricsChecks
  BY DEF StepOf, SmokeInstalls, SmokeChecks, MetricsInstalls, MetricsChecks
<1>2. ~SmokeStarts /\ ~MetricsStarts
  BY DEF StartsOne, SmokeStarts, MetricsStarts
<1>3. ~SingleHealthy /\ ~SingleUnhealthy /\ ~SmokeEnds
  BY DEF SingleHealthy, SingleUnhealthy, SmokeEnds
<1>4. ~EngineIdle /\ ~GatewayStarts /\ ~Driven /\ ~GatewayStops
  BY DEF EngineIdle, GatewayStarts, Driven, GatewayStops
<1>5. /\ ~ServeStarts /\ ~ServeHealthy /\ ~ServeUnhealthy
      /\ ~EngineLeaves /\ ~ServeEnds /\ ~Interrupted
  BY DEF ServeStarts, ServeHealthy, ServeUnhealthy, EngineLeaves, ServeEnds, Interrupted
<1>6. QED
  BY <1>1, <1>2, <1>3, <1>4, <1>5 DEF KernelOnly

\* stop() returns, or goes on to SIGKILL, and the engine's parent is not alive then.
LEMMA StoppingKeepsReleases ==
  ASSUME TypeInv, Shape, Group, Releases, ~Single, KernelOnly
  PROVE  Releases'
<1>1. UNCHANGED <<cur, gpuKnown, run, clean, elsewhere>>
  BY KernelKeepsSession DEF rest
<1>2. pc \in Trying => cur \in Engines
  BY CurrentEngine
<1>3. AfterStop = "port" /\ AfterStopRaises = "port"
  BY DEF AfterStop, AfterStopRaises, Single
<1>4. CASE TuneInstalls \/ TuneChecks
  BY <1>1, <1>4 DEF TuneInstalls, TuneChecks, StepOf, SavesThen, Releases, Quiet, machine
<1>5. CASE SigTerm \/ Stopped \/ StopTimesOut
  <2>1. /\ UNCHANGED machine /\ pc \in {"stop", "term", "kill"}
        /\ pc' = "term" \/ (pc' = "port" /\ parent[cur] \notin Live)
    BY <1>3, <1>5 DEF SigTerm, Stopped, StopTimesOut, StopReturnsAtOnce, StopEnds, Gone, Releases
  <2>2. QED
    BY <1>1, <2>1 DEF Releases, Quiet, machine
<1>6. CASE SigKill
  <2>1. pc = "term" /\ pc' = "kill" /\ Killed(cur) /\ cur \in Engines
    BY <1>2, <1>6 DEF SigKill, StopEscalates
  <2>2. /\ \A f \in Engines : f # cur => parent'[f] = parent[f] /\ holds'[f] = holds[f]
        /\ stuck' = stuck \/ stuck' # 0
        /\ parent'[cur] \in {"exited", "doomed"}
    BY <2>1, Constants DEF Killed, TypeInv
  <2>3. \A f \in Engines : f # cur => Quiet(f)'
    BY <2>1, <2>2, <1>1 DEF Releases, Quiet
  <2>4. \A f \in Engines : f > cur => parent'[f] = "none"
    BY <2>1, <2>2, Constants, CurrentEngine DEF Releases
  <2>5. QED
    BY <2>1, <2>2, <2>3, <2>4, <1>1 DEF Releases
<1>7. CASE Finish
  BY <1>1, <1>7, QuietStep DEF Finish
<1>8. QED
  BY <1>4, <1>5, <1>6, <1>7, TuningOnly

\* release_engine comes to its verdict.
ReleasedAs(seen) == Release(seen) /\ pc' = "judge" /\ UNCHANGED machine

\* The verdict is right about the port and about the memory, as far as both were seen.
LEMMA ReleaseKeeps ==
  ASSUME TypeInv, Releases, NEW seen \in BOOLEAN, ReleasedAs(seen),
         pc \in {"gpu", "gpu2"}, cur \in Plan, cur \in Engines, parent[cur] \notin Live,
         UNCHANGED <<cur, gpuKnown, run, elsewhere>>,
         run.portClosed => "port" \notin holds[cur],
         gpuKnown /\ (seen \/ stuck = 0) => "gpu" \notin holds[cur]
  PROVE  Releases'
<1>1. clean' = [clean EXCEPT ![cur] = IF run.portClosed /\ seen THEN "yes" ELSE "no"]
      /\ pc' = "judge" /\ UNCHANGED machine
  BY DEF ReleasedAs, Release
<1>2. /\ \A v \in Plan : v # cur => clean'[v] = clean[v]
      /\ clean'[cur] \in {"yes", "no"}
      /\ clean'[cur] = "yes" => run.portClosed /\ seen
  BY <1>1 DEF TypeInv
<1>3. Quiet(cur)'
  BY <1>1, <1>2 DEF Quiet, machine
<1>4. \A f \in Engines : f # cur => Quiet(f)'
  BY <1>1, <1>2 DEF Quiet, machine, Releases
<1>5. \A v \in Plan : elsewhere[v] # 0 => clean'[elsewhere[v]] = "no"
  <2> SUFFICES ASSUME NEW v \in Plan, elsewhere[v] # 0 PROVE clean'[elsewhere[v]] = "no"
    OBVIOUS
  <2>1. elsewhere[v] < cur /\ clean[elsewhere[v]] = "no" /\ elsewhere[v] \in Engines
    BY DEF Releases, TypeInv
  <2>2. elsewhere[v] # cur /\ elsewhere[v] \in Plan
    <3>1. elsewhere[v] \in Nat /\ elsewhere[v] > 0
      BY <2>1, Constants
    <3>2. cur \in Nat /\ cur <= Variants /\ Variants \in Nat
      BY Constants
    <3>3. QED
      BY <2>1, <3>1, <3>2
  <2>3. QED
    BY <1>2, <2>1, <2>2
<1>6. QED
  BY <1>1, <1>3, <1>4, <1>5 DEF Releases, machine

\* Whatever a session does, only the variant's own engine is not released.
LEMMA SessionKeepsReleases ==
  ASSUME TypeInv, Shape, Group, Releases, ~Single, SessionMoves
  PROVE  Releases'
<1> USE DEF session, rest, SavesThen
<1>0. pc \in Trying \cup Writing => cur \in Plan /\ cur \in Engines
  BY CurrentEngine
<1>1. CASE TuneBegins
  <2>1. \A e \in Engines : parent[e] = "none" /\ holds[e] = {}
    BY <1>1 DEF TuneBegins, Releases, Group
  <2>2. UNCHANGED <<machine, cur, clean, elsewhere>> /\ pc' \in {"plan", "finish"}
    BY <1>1 DEF TuneBegins
  <2>3. QED
    BY <2>1, <2>2 DEF Releases, Quiet, machine
<1>2. CASE PlanSkips \/ PlanRuns \/ PlanEnds \/ Finalise
  BY <1>2, QuietStep DEF PlanSkips, PlanRuns, PlanEnds, Finalise
<1>3. CASE Prepare \/ SaveCommand
  BY <1>3, QuietStep DEF Prepare, SaveCommand
<1>4. CASE Unhealthy \/ SweepEnds
  BY <1>4, QuietStep DEF Unhealthy, SweepEnds
<1>5. CASE WriteVariant \/ WriteOrder
  BY <1>5, QuietStep DEF WriteVariant, WriteOrder
<1>6. CASE Judge
  <2>1. pc \in {"judge", "crash"} /\ pc' = "record"
        /\ UNCHANGED <<machine, cur, gpuKnown, clean, elsewhere>>
    BY <1>6 DEF Judge, Closes
  <2>2. QED
    BY <2>1, QuietStep
<1>7. CASE SaveResult
  <2>1. /\ pc = "save" /\ pc' \in {"plan", "finish"} /\ cur' = cur + 1
        /\ UNCHANGED <<machine, gpuKnown, clean, elsewhere>>
    BY <1>7 DEF SaveResult
  <2>2. cur \in Nat /\ \A e \in Engines : e \in Nat
    BY CurrentEngine, Constants
  <2>3. elsewhere \in [Plan -> {0} \cup Engines]
    BY DEF TypeInv
  <2>4. \A e \in Engines : Quiet(e)'
    BY <2>1 DEF Releases, Quiet, machine
  <2>5. \A v \in Plan : elsewhere[v] # 0 => elsewhere[v] < cur + 1
    BY <2>2, <2>3 DEF Releases
  <2>6. \A e \in Engines : e > cur + 1 => parent[e] = "none"
    BY <2>2 DEF Releases
  <2>7. QED
    BY <2>1, <2>4, <2>5, <2>6 DEF Releases, machine
<1>8. CASE EngineStarts
  <2>1. cur \in Engines /\ pc = "start" /\ UNCHANGED <<session, stuck, holds>>
        /\ \A f \in Engines : f # cur => parent'[f] = parent[f]
    BY <1>0, <1>8 DEF EngineStarts, Start, machine, TypeInv
  <2>2. pc' \in {"health", "stop"}
    BY <1>8 DEF EngineStarts
  <2>3. \A f \in Engines : f # cur => Quiet(f)'
    BY <2>1 DEF Releases, Quiet
  <2>4. \A e \in Engines : e \in Nat /\ cur \in Nat
    BY CurrentEngine, Constants
  <2>5. \A f \in Engines : f > cur => parent'[f] = "none"
    BY <2>1, <2>4 DEF Releases
  <2>6. QED
    BY <2>1, <2>2, <2>3, <2>5 DEF Releases
<1>9. CASE Healthy
  <2>1. /\ pc = "health" /\ pc' = "sweep"
        /\ UNCHANGED <<machine, cur, gpuKnown, clean, run>>
    BY <1>9 DEF Healthy
  <2>2. PICK e \in Engines :
          /\ "port" \in holds[e]
          /\ elsewhere' = [elsewhere EXCEPT ![cur] = IF e = cur THEN 0 ELSE e]
    BY <1>9 DEF Healthy, HealthAnsweredBy, Holders
  <2>3. e # cur => e < cur /\ clean[e] = "no"
    <3> SUFFICES ASSUME e # cur PROVE e < cur /\ clean[e] = "no"
      OBVIOUS
    <3>1. clean[e] = "no"
      BY <2>2 DEF Releases, Quiet
    <3>2. ~(e > cur)
      BY <2>2 DEF Releases, Group
    <3>3. QED
      BY <3>1, <3>2, CurrentEngine, Constants
  <2>4. \A v \in Plan : elsewhere'[v] # 0 => elsewhere'[v] < cur /\ clean[elsewhere'[v]] = "no"
    BY <2>2, <2>3 DEF Releases, TypeInv
  <2>5. \A f \in Engines : f # cur => Quiet(f)'
    BY <2>1 DEF Releases, Quiet, machine
  <2>6. QED
    BY <2>1, <2>4, <2>5 DEF Releases, machine
<1>10. CASE PortSettles
  <2>1. /\ pc = "port" /\ pc' = "gpu" /\ cur \in Engines
        /\ UNCHANGED <<machine, cur, gpuKnown, clean, elsewhere>>
        /\ run' = [run EXCEPT !.portClosed = (Holders("port") = {})]
    BY <1>0, <1>10 DEF PortSettles
  <2>2. run'.portClosed => "port" \notin holds[cur]
    BY <2>1 DEF TypeInv, Holders
  <2>3. \A f \in Engines : f # cur => Quiet(f)'
    BY <2>1 DEF Releases, Quiet, machine
  <2>4. QED
    BY <2>1, <2>2, <2>3 DEF Releases, machine
<1>11. CASE GpuWait
  <2>1. /\ pc = "gpu" /\ cur \in Plan /\ cur \in Engines /\ parent[cur] \notin Live
        /\ UNCHANGED <<cur, gpuKnown, run, elsewhere>>
        /\ run.portClosed => "port" \notin holds[cur]
    BY <1>0, <1>11 DEF GpuWait, Releases
  <2>2. CASE /\ ~gpuKnown \/ GpuReleased(TRUE)
             /\ Release(TRUE) /\ pc' = "judge" /\ UNCHANGED machine
    <3>1. gpuKnown => "gpu" \notin holds[cur]
      BY <2>1, <2>2 DEF GpuReleased, Holders
    <3>2. ReleasedAs(TRUE)
      BY <2>2 DEF ReleasedAs
    <3>3. QED
      BY <2>1, <3>1, <3>2, ReleaseKeeps
  <2>3. CASE gpuKnown /\ GroupKilled(cur) /\ pc' = "gpu2" /\ UNCHANGED clean
    <3>1. /\ \A f \in Engines : f # cur => parent'[f] = parent[f] /\ holds'[f] = holds[f]
          /\ stuck' = stuck \/ stuck' # 0
          /\ parent'[cur] \notin Live
          /\ holds'[cur] = {} \/ (stuck' # 0 /\ holds'[cur] = holds[cur])
      BY <2>1, <2>3, Constants DEF GroupKilled, Gone, Killed, TypeInv, Group, machine
    <3>2. \A f \in Engines : f # cur => Quiet(f)'
      BY <2>1, <2>3, <3>1 DEF Releases, Quiet
    <3>3. \A f \in Engines : f > cur => parent'[f] = "none"
      BY <2>1, <3>1, Constants, CurrentEngine DEF Releases
    <3>4. QED
      BY <2>1, <2>3, <3>1, <3>2, <3>3 DEF Releases
  <2>4. QED
    BY <1>11, <2>2, <2>3 DEF GpuWait
<1>12. CASE GpuWaitAgain
  <2>1. /\ pc = "gpu2" /\ cur \in Plan /\ cur \in Engines /\ parent[cur] \notin Live
        /\ UNCHANGED <<cur, gpuKnown, run, elsewhere>>
        /\ run.portClosed => "port" \notin holds[cur]
        /\ stuck = 0 => "gpu" \notin holds[cur]
    BY <1>0, <1>12 DEF GpuWaitAgain, Releases
  <2>2. PICK seen \in BOOLEAN : GpuReleased(seen) /\ Release(seen)
    BY <1>12 DEF GpuWaitAgain
  <2>3. seen => "gpu" \notin holds[cur]
    BY <2>1, <2>2 DEF GpuReleased, Holders
  <2>4. ReleasedAs(seen)
    BY <1>12, <2>2 DEF ReleasedAs, GpuWaitAgain
  <2>5. QED
    BY <2>1, <2>3, <2>4, ReleaseKeeps
<1>13. QED
  BY <1>1, <1>2, <1>3, <1>4, <1>5, <1>6, <1>7, <1>8, <1>9, <1>10, <1>11, <1>12 DEF SessionMoves

\* Every step keeps what is known of the engines.
LEMMA MachineKept ==
  ASSUME TypeInv, Shape, Machine, [Next]_vars
  PROVE  Machine'
<1>1. Group /\ (~Single => Releases)
  BY MachineParts
<1>2. CASE SessionMoves /\ UNCHANGED kernel
  <2>1. Group'
    BY <1>1, <1>2, SessionMachine, GroupKept
  <2>2. ~Single /\ Releases'
    BY <1>1, <1>2, SessionIsTuning, SessionKeepsReleases
  <2>3. QED
    BY <2>1, <2>2 DEF Machine, Group, Releases
<1>3. CASE KernelOnly
  <2>1. \E e \in Engines : Start(e) \/ Killed(e) \/ UNCHANGED machine
    BY <1>3, KernelKeepsSession, CurrentEngine, Constants
  <2>2. Group'
    BY <1>1, <2>1, GroupKept
  <2>3. Single' <=> Single
    BY <1>3, ScriptStays
  <2>4. ~Single => Releases'
    BY <1>1, <1>3, StoppingKeepsReleases
  <2>5. QED
    BY <2>2, <2>3, <2>4 DEF Machine, Group, Releases
<1>4. CASE EngineAlone
  <2>1. Group'
    BY <1>1, <1>4, GroupKept DEF EngineAlone, EngineMoves
  <2>2. Single' <=> Single
    BY <1>4 DEF EngineAlone, kernel, Single
  <2>3. ~Single => Releases'
    BY <1>1, <1>4, EnginesKeepReleases
  <2>4. QED
    BY <2>1, <2>2, <2>3 DEF Machine, Group, Releases
<1>5. CASE SessionKilled
  <2>1. /\ pc' = "killed" /\ UNCHANGED <<cur, elsewhere, clean, script>>
        /\ parent' = [e \in Engines |-> IF parent[e] = "none" THEN "none" ELSE "exited"]
        /\ holds' = [e \in Engines |-> {}]
    BY <1>5 DEF SessionKilled
  <2>2. \A e \in Engines : Quiet(e)'
    BY <2>1 DEF Quiet
  <2>3. QED
    BY <1>1, <2>1, <2>2 DEF Machine, Single, Releases
<1>6. CASE UNCHANGED vars
  BY <1>6 DEF vars, machine, session, kernel, Machine, Quiet, Single
<1>7. QED
  BY <1>2, <1>3, <1>4, <1>5, <1>6, StepKinds

------------------------------------------------------------------------------
(* One step: what the program owns. *)

\* No engine comes to life outside its start.
LEMMA NoneRevives ==
  ASSUME TypeInv, EngineAlone \/ KernelOnly, pc \notin {"flags", "preflight"}
  PROVE  \A e \in Engines : parent[e] \notin Live => parent'[e] \notin Live
<1>1. CASE EngineAlone
  BY <1>1 DEF EngineAlone, EngineMoves, TakesGpu, Serves, Exits, SurvivorsLetGo, Reaped, TypeInv
<1>2. CASE KernelOnly
  <2>1. UNCHANGED machine \/ Killed(cur)
    BY <1>2, KernelKeepsSession
  <2>2. QED
    BY <2>1 DEF machine, Killed, TypeInv
<1>3. QED
  BY <1>1, <1>2

\* A program's steps keep what is known of what it owns.
LEMMA KernelOwned ==
  ASSUME TypeInv, Shape, Owned, KernelOnly
  PROVE  Owned'
<1>0. 1 \in Engines /\ (Single => cur = 1)
  BY Constants DEF Shape
<1>r. pc \notin {"flags", "preflight"} => (parent[1] \notin Live => parent'[1] \notin Live)
  BY <1>0, NoneRevives
<1> USE DEF Owned, Single, SavesThen, kernel
<1>1. CASE Steps
  BY <1>1, <1>r DEF Steps, StepOf, TuneInstalls, TuneChecks, SmokeInstalls, SmokeChecks,
              MetricsInstalls, MetricsChecks, machine
<1>2. CASE SmokeStarts \/ MetricsStarts
  BY <1>2 DEF StartsOne, SmokeStarts, MetricsStarts
<1>3. CASE SingleHealthy \/ SingleUnhealthy
  BY <1>3, <1>r DEF SingleHealthy, SingleUnhealthy, Shape, SinglePlaces, TypeInv, KernelTypeOK,
                    Scripts
<1>4. CASE EngineIdle \/ Driven \/ SmokeEnds
  BY <1>4, <1>r DEF EngineIdle, Driven, SmokeEnds
<1>5. CASE GatewayStarts \/ GatewayStops
  BY <1>5, <1>r DEF GatewayStarts, GatewayStops, GatewayEnds
<1>6. CASE ServeStarts \/ ServeHealthy \/ ServeUnhealthy
  BY <1>6, <1>r DEF ServeStarts, ServeHealthy, ServeUnhealthy, Shape, SinglePlaces
<1>7. CASE EngineLeaves \/ Interrupted \/ ServeEnds
  BY <1>7, <1>r DEF EngineLeaves, Interrupted, ServeEnds
<1>8. CASE SigTerm \/ Stopped
  <2>1. /\ pc \in {"stop", "term", "kill"} /\ UNCHANGED <<parent, script, owned, gw>>
        /\ pc' = "term" \/ pc' = "port" \/ (pc' = "finish" /\ parent[cur] \notin Live)
    BY <1>8 DEF SigTerm, Stopped, AfterStop, StopReturnsAtOnce, StopEnds, Gone, machine
  <2>2. QED
    BY <2>1, <1>0
<1>9. CASE SigKill
  <2>1. /\ pc = "term" /\ pc' = "kill" /\ UNCHANGED <<script, owned, gw>>
        /\ Killed(cur)
    BY <1>9 DEF SigKill, StopEscalates
  <2>2. Single => parent'[1] \notin Live
    BY <2>1, <1>0 DEF Killed, TypeInv
  <2>3. QED
    BY <2>1, <2>2
<1>10. CASE StopTimesOut
  <2>1. /\ pc = "kill" /\ UNCHANGED <<parent, script, owned, gw>>
        /\ pc' \in {"done", "finish", "port"}
    BY <1>10 DEF StopTimesOut, AfterStop, AfterStopRaises, machine
  <2>2. QED
    BY <2>1
<1>11. CASE Finish
  <2>1. pc = "finish" /\ pc' = "done"
    BY <1>11 DEF Finish
  <2>2. UNCHANGED <<parent, script, owned, gw>>
    BY <1>11 DEF Finish, machine
  <2>3. QED
    BY <2>1, <2>2
<1>12. QED
  BY <1>1, <1>2, <1>3, <1>4, <1>5, <1>6, <1>7, <1>8, <1>9, <1>10, <1>11 DEF KernelOnly, Steps

\* Every step does.
LEMMA OwnedKept ==
  ASSUME TypeInv, Shape, Owned, [Next]_vars
  PROVE  Owned'
<1>1. CASE SessionMoves /\ UNCHANGED kernel
  <2>1. ~Single /\ UNCHANGED <<script, owned>>
    BY <1>1, SessionIsTuning DEF kernel
  <2>2. Shape' /\ ~Single'
    BY <1>1, <2>1, SessionShape DEF Single
  <2>3. pc' \notin {"idle", "gateway"}
    BY <2>2 DEF Shape
  <2>4. QED
    BY <2>1, <2>2, <2>3 DEF Owned, Single
<1>2. CASE EngineAlone
  <2>1. 1 \in Engines
    BY Constants
  <2>2. pc \in {"kill"} \cup AtEnd => (parent[1] \notin Live => parent'[1] \notin Live)
    BY <1>2, <2>1, NoneRevives
  <2>3. QED
    BY <1>2, <2>2 DEF EngineAlone, Owned, Single, kernel, session
<1>3. CASE SessionKilled
  <2>1. parent'[1] \notin Live
    BY <1>3, Constants DEF SessionKilled
  <2>2. QED
    BY <1>3, <2>1 DEF SessionKilled, Owned, Single
<1>4. CASE UNCHANGED vars
  BY <1>4 DEF vars, machine, session, kernel, Owned, Single
<1>5. QED
  BY <1>1, <1>2, <1>3, <1>4, StepKinds, KernelOwned

------------------------------------------------------------------------------
(* One step: the estimate and the budget. *)

\* The reserve is the estimate, or nothing.
LEMMA ReserveIsNat ==
  \A n \in Nat : Reserve(n) \in Nat /\ Reserve(n) <= n
  BY DEF Reserve

\* A variant that runs within its estimate keeps the reserve, or is the one it is for.
LEMMA JudgeKeepsSpent ==
  ASSUME TypeInv, Shape, Spent, ~Single, Judge
  PROVE  Spent'
<1>1. PICK cost \in 1..MaxCost, saved \in BOOLEAN :
        /\ Closes(saved)
        /\ clock' = clock + cost
        /\ longest' = IF run.curve /\ saved /\ cost > longest THEN cost ELSE longest
        /\ outcomes' = Append(outcomes, IF run.curve /\ saved THEN "curve" ELSE "failed")
        /\ overruns' = [above     |-> overruns.above \/ (longest > 0 /\ cost > longest),
                        unplanned |-> overruns.unplanned + IF longest = 0 THEN cost ELSE 0]
  BY DEF Judge
<1>2. /\ clock \in Nat /\ longest \in Nat /\ cost \in Nat /\ cost > 0
      /\ Budget \in Nat /\ Variants \in Nat /\ cur \in Nat
      /\ overruns.unplanned \in Nat /\ overruns.above \in BOOLEAN
  BY <1>1, Constants, CurrentEngine DEF TypeInv
<1>3. pc \in Trying /\ pc' = "record"
  BY <1>1 DEF Judge, Closes
<1>4. ~Skips(cur) /\ Len(outcomes) = cur - 1 /\ cur <= Variants
  BY <1>3 DEF Spent, Shape
<1>5. Len(outcomes') = cur
  BY <1>1, <1>2, <1>4 DEF TypeInv, Outcome
<1>6. CASE longest = 0
  <2>1. clock = overruns.unplanned
    BY <1>6 DEF Spent
  <2>2. clock' = overruns'.unplanned /\ longest' \in Nat
    BY <1>1, <1>2, <1>6, <2>1
  <2>3. clock' \in Nat /\ Reserve(longest') \in Nat
    <3>1. clock' \in Nat
      BY <1>1, <1>2
    <3>2. QED
      BY <2>2, <3>1, ReserveIsNat
  <2>4. QED
    BY <1>2, <1>3, <2>2, <2>3 DEF Spent
<1>7. CASE longest > 0
  <2>1. overruns'.unplanned = overruns.unplanned /\ longest' > 0
    BY <1>1, <1>2, <1>7
  <2>2. CASE cost > longest
    <3>1. overruns'.above
      BY <1>1, <1>7, <2>2
    <3>2. QED
      BY <1>2, <1>3, <2>1, <3>1 DEF Spent
  <2>3. CASE ~(cost > longest)
    <3>1. longest' = longest /\ clock' <= clock + longest /\ clock' \in Nat
      BY <1>1, <1>2, <2>3
    <3>2. overruns.above => overruns'.above
      BY <1>1, <1>2
    <3>3. Reserve(longest) \in Nat
      BY <1>2, ReserveIsNat
    <3>4. CASE overruns.above \/ overruns.unplanned + Reserve(longest) > Budget
      BY <1>3, <1>7, <2>1, <3>1, <3>2, <3>4 DEF Spent
    <3>5. CASE clock + Reserve(longest) <= Budget
      <4>1. CASE cur = Variants /\ Protected
        <5>1. Reserve(longest) = longest
          BY <4>1 DEF Reserve
        <5>2. clock' <= Budget /\ Len(outcomes') = Variants
          BY <1>2, <1>5, <3>1, <3>5, <4>1, <5>1
        <5>3. QED
          BY <1>2, <1>3, <1>7, <3>1, <5>2 DEF Spent
      <4>2. CASE ~(cur = Variants /\ Protected)
        <5>1. clock + longest + Reserve(longest) <= Budget
          BY <1>2, <1>4, <1>7, <3>3, <4>2 DEF Skips
        <5>2. clock' + Reserve(longest') <= Budget
          BY <1>2, <3>1, <3>3, <5>1
        <5>3. QED
          BY <1>2, <1>3, <1>7, <3>1, <5>2 DEF Spent
      <4>3. QED
        BY <4>1, <4>2
    <3>6. ~(Len(outcomes) = Variants)
      BY <1>2, <1>4
    <3>7. QED
      BY <1>7, <3>4, <3>5, <3>6 DEF Spent
  <2>4. QED
    BY <2>2, <2>3
<1>8. QED
  BY <1>2, <1>6, <1>7

\* Nothing else spends.
LEMMA SpentUnchanged ==
  ASSUME TypeInv, Shape, Spent,
         UNCHANGED <<clock, longest, overruns, cur, script>>,
         outcomes' = outcomes \/ Len(outcomes) < Variants,
         ~Single /\ pc' \in Trying => ~Skips(cur)
  PROVE  Spent'
<1>1. ~Single' <=> ~Single
  BY DEF Single
<1>2. Skips(cur)' <=> Skips(cur)
  BY DEF Skips, Reserve
<1>3. Len(outcomes) # Variants \/ outcomes' = outcomes
  BY Constants DEF TypeInv
<1>4. QED
  BY <1>1, <1>2, <1>3 DEF Spent, Reserve

\* Every step keeps the account of the budget.
LEMMA SpentKept ==
  ASSUME TypeInv, Shape, Spent, [Next]_vars
  PROVE  Spent'
<1>1. CASE SessionMoves /\ UNCHANGED kernel
  <2>1. ~Single /\ script' = script
    BY <1>1, SessionIsTuning DEF kernel
  <2>2. CASE Judge
    BY <2>1, <2>2, JudgeKeepsSpent
  <2>3. CASE SaveResult
    <3>1. UNCHANGED <<clock, longest, overruns, outcomes>> /\ pc' \notin Trying
      BY <2>3 DEF SaveResult, SavesThen
    <3>2. QED
      BY <2>1, <3>1 DEF Spent, Reserve
  <2>4. CASE PlanSkips
    <3>1. /\ UNCHANGED <<clock, longest, overruns, cur>> /\ pc' = "record"
          /\ pc = "plan" /\ cur <= Variants
      BY <2>4 DEF PlanSkips
    <3>2. Len(outcomes) < Variants
      BY <2>1, <3>1, CurrentEngine, Constants DEF Shape
    <3>3. QED
      BY <2>1, <3>1, <3>2, SpentUnchanged
  <2>5. CASE PlanRuns
    BY <2>1, <2>5, SpentUnchanged DEF PlanRuns, session
  <2>6. CASE ~Judge /\ ~SaveResult /\ ~PlanSkips /\ ~PlanRuns
    <3>1. /\ UNCHANGED <<clock, longest, overruns, cur, outcomes>>
          /\ pc' \in Trying => pc \in Trying
      <4> USE DEF session, rest, SavesThen
      <4>1. CASE TuneBegins \/ PlanEnds \/ Finalise
        BY <4>1 DEF TuneBegins, PlanEnds, Finalise
      <4>2. CASE Prepare \/ SaveCommand \/ EngineStarts \/ Healthy \/ Unhealthy \/ SweepEnds
        BY <4>2 DEF Prepare, SaveCommand, EngineStarts, Healthy, Unhealthy, SweepEnds
      <4>3. CASE PortSettles \/ GpuWait \/ GpuWaitAgain
        BY <4>3 DEF PortSettles, GpuWait, GpuWaitAgain
      <4>4. CASE WriteVariant \/ WriteOrder
        BY <4>4 DEF WriteVariant, WriteOrder
      <4>5. QED
        BY <1>1, <2>6, <4>1, <4>2, <4>3, <4>4 DEF SessionMoves
    <3>2. QED
      BY <2>1, <3>1, SpentUnchanged DEF Spent
  <2>7. QED
    BY <2>2, <2>3, <2>4, <2>5, <2>6
<1>2. CASE KernelOnly
  <2>1. UNCHANGED <<clock, longest, overruns, cur, outcomes>> /\ (Single' <=> Single)
    BY <1>2, KernelKeepsSession, ScriptStays DEF rest
  <2>2. ~Single /\ pc' \in Trying => pc \in Trying
    <3> SUFFICES ASSUME ~Single, pc' \in Trying PROVE pc \in Trying
      OBVIOUS
    <3>1. TuneInstalls \/ TuneChecks \/ SigTerm \/ Stopped \/ SigKill \/ StopTimesOut \/ Finish
      BY <1>2, TuningOnly
    <3>2. QED
      BY <3>1 DEF TuneInstalls, TuneChecks, StepOf, SavesThen, SigTerm, Stopped, SigKill,
                  StopTimesOut, Finish
  <2>3. QED
    BY <2>1, <2>2 DEF Spent, Reserve, Skips
<1>3. CASE EngineAlone \/ SessionKilled \/ UNCHANGED vars
  <2>1. /\ UNCHANGED <<clock, longest, overruns, cur, script, outcomes>>
        /\ pc' = pc \/ pc' = "killed"
    BY <1>3 DEF EngineAlone, SessionKilled, vars, session, kernel
  <2>2. QED
    BY <2>1, SpentUnchanged DEF Spent
<1>4. QED
  BY <1>1, <1>2, <1>3, StepKinds

------------------------------------------------------------------------------
(* The theorems. *)

\* The inductive invariant of every program.
Inv == TypeInv /\ Shape /\ Machine /\ Owned /\ Spent

\* The invariant holds wherever a program can be.
THEOREM InvHolds == Spec => []Inv
<1>1. Init => Inv
  BY InitTypes DEF Inv
<1>2. Inv /\ [Next]_vars => Inv'
  BY TypesKept, ShapeKept, MachineKept, OwnedKept, SpentKept DEF Inv
<1>3. QED
  BY <1>1, <1>2, PTL DEF Spec

\* The port has one listener.
LEMMA OnePortHolder ==
  ASSUME TypeInv, Machine
  PROVE  Cardinality(Holders("port")) <= 1
<1>1. CASE Holders("port") = {}
  BY <1>1, FS_EmptySet
<1>2. CASE Holders("port") # {}
  <2>1. PICK e \in Engines : "port" \in holds[e]
    BY <1>2 DEF Holders
  <2>2. Holders("port") = {e}
    BY <2>1 DEF Holders, Machine
  <2>3. QED
    BY <2>2, FS_Singleton
<1>3. QED
  BY <1>1, <1>2

\* Every variable has its type, and one engine at most listens on the port
\* (EngineProcess, run_variant, the mains of the kernels and of serve).
THEOREM KernelsTyped == Spec => []TypeOK
<1>1. Inv => TypeOK
  <2> SUFFICES ASSUME Inv PROVE TypeOK
    OBVIOUS
  <2> USE DEF Inv, TypeInv
  <2>1. KernelTypeOK
    OBVIOUS
  <2>2. MachineTypeOK
    BY OnePortHolder DEF MachineTypeOK
  <2>3. run \in [DOMAIN IDLE -> BOOLEAN]
    BY DEF IDLE
  <2>4. SessionTypeOK
    BY <2>3 DEF SessionTypeOK, Shape
  <2>5. QED
    BY <2>1, <2>2, <2>4 DEF TypeOK
<1>2. QED
  BY <1>1, InvHolds, PTL

\* However many variants, and whatever their engines did: one starts on a GPU that
\* nobody holds any more, or nvidia-smi could not be read, or a SIGKILL hung.
THEOREM EveryStartIsClean == Spec => CleanStart
<1>1. ASSUME Inv, [Next]_vars, NEW v \in Engines,
             parent[v] = "none", parent'[v] = "loading", gpuKnown, stuck = 0
      PROVE  Holders("gpu") = {}
  <2>1. ~Single /\ Machine /\ TypeInv
    BY <1>1 DEF Inv, Shape
  <2>2. v = cur /\ pc = "start"
    <3>1. CASE SessionMoves
      <4>1. EngineStarts \/ Killed(cur) \/ UNCHANGED machine
        BY <1>1, <3>1, SessionMachine DEF Inv
      <4>2. QED
        BY <1>1, <2>1, <4>1 DEF EngineStarts, Start, Killed, machine, TypeInv
    <3>2. CASE KernelOnly
      <4>1. pc \notin {"flags", "preflight"}
        BY <1>1, <2>1 DEF Inv, Shape
      <4>2. UNCHANGED machine \/ Killed(cur)
        BY <3>2, <4>1, KernelKeepsSession
      <4>3. QED
        BY <1>1, <2>1, <4>2 DEF Killed, machine, TypeInv
    <3>3. CASE EngineAlone
      BY <1>1, <2>1, <3>3 DEF EngineAlone, EngineMoves, TakesGpu, Serves, Exits,
         SurvivorsLetGo, Reaped, TypeInv
    <3>4. CASE SessionKilled \/ UNCHANGED vars
      BY <1>1, <3>4 DEF SessionKilled, vars, machine
    <3>5. QED
      BY <1>1, <3>1, <3>2, <3>3, <3>4, StepKinds
  <2>3. \A e \in Engines : Quiet(e)
    BY <2>1, <2>2 DEF Machine
  <2>4. QED
    BY <1>1, <2>3 DEF Quiet, Holders
<1>2. Inv /\ [Next]_vars =>
        [\A v \in Engines :
           parent[v] = "none" /\ parent'[v] = "loading" /\ gpuKnown /\ stuck = 0
             => Holders("gpu") = {}]_vars
  BY <1>1
<1>3. QED
  BY <1>2, InvHolds, PTL DEF Spec, CleanStart

\* A curve measured on an earlier variant's engine is always given away by that
\* variant's released_cleanly (run_variant, release_engine).
THEOREM StaleEngineIsRecorded == Spec => []MeasuredElsewhereShows
<1>1. Inv => MeasuredElsewhereShows
  BY DEF Inv, Machine, Single, MeasuredElsewhereShows
<1>2. QED
  BY <1>1, InvHolds, PTL

\* For any budget, any costs and any number of variants (plan_skip, run_session).
THEOREM BudgetIsKept == Spec => []OverrunHasACause
<1>1. Inv => OverrunHasACause
  <2> SUFFICES ASSUME Inv PROVE OverrunHasACause
    OBVIOUS
  <2>1. /\ clock \in Nat /\ longest \in Nat /\ overruns.unplanned \in Nat
        /\ Budget \in Nat /\ Reserve(longest) \in Nat
    BY Constants, ReserveIsNat DEF Inv, TypeInv
  <2>2. QED
    BY <2>1 DEF Inv, Spent, OverrunHasACause
<1>2. QED
  BY <1>1, InvHolds, PTL

\* No program leaves behind what it started and owns, and no session what a clean
\* release vouched for (the finally clauses of the mains, release_engine).
THEOREM NothingIsLeftRunning == Spec => []StopsWhatItStarted
<1>1. Inv => StopsWhatItStarted
  <2> SUFFICES ASSUME Inv, pc = "done" PROVE StopsWhatItStarted
    BY DEF StopsWhatItStarted
  <2>1. /\ "gateway" \in owned => gw = "stopped"
        /\ "engine" \in owned => parent[1] \notin Live
    BY DEF Inv, Owned
  <2>2. ASSUME script = "bench_sweep", NEW v \in Plan
        PROVE  /\ parent[v] \notin Live
               /\ clean[v] = "yes" => holds[v] \subseteq (IF gpuKnown THEN {} ELSE {"gpu"})
    <3>1. v \in Engines /\ Quiet(v)
      BY <2>2, Constants DEF Inv, Machine, Single
    <3>2. holds[v] \subseteq {"gpu", "port"}
      BY <3>1 DEF Inv, TypeInv
    <3>3. QED
      BY <3>1, <3>2 DEF Quiet
  <2>3. QED
    BY <2>1, <2>2 DEF StopsWhatItStarted
<1>2. QED
  BY <1>1, InvHolds, PTL

------------------------------------------------------------------------------
(* What is on the disk. *)

\* The files of the first k variants are there and whole, and no others.
Kept(d, o, k) ==
  /\ k <= Len(o)
  /\ \A v \in Plan : d.variant[v] = IF v <= k THEN Whole(<<o[v]>>) ELSE ABSENT

\* order.json lists the first m variants.
OrderIs(d, m) == d.order # TORN /\ d.order.has = [v \in 1..m |-> v]

HasTorn(d) == d.order = TORN \/ \E v \in Plan : d.variant[v] = TORN

\* order.json is at most one variant behind the variants' files, wherever a
\* session is and wherever it ends, unless a file was torn.
DiskInv ==
  /\ Single => Kept(disk, outcomes, 0) /\ OrderIs(disk, 0)
  /\ ~Single =>
       /\ pc \in Before \cup Trying \cup {"plan", "finalise", "record"} =>
            Kept(disk, outcomes, cur - 1) /\ OrderIs(disk, cur - 1)
       /\ pc = "finalise" => cur = Variants + 1
       /\ pc = "order" =>
            /\ OrderIs(disk, cur - 1)
            /\ \/ Kept(disk, outcomes, cur)
               \/ full /\ (Kept(disk, outcomes, cur - 1) \/ HasTorn(disk))
       /\ pc = "save" => Kept(disk, outcomes, cur) /\ OrderIs(disk, cur)
       /\ pc \in AtEnd =>
            \/ HasTorn(disk)
            \/ \E m \in 0..Variants :
                 OrderIs(disk, m) /\ (Kept(disk, outcomes, m) \/ Kept(disk, outcomes, m + 1))

\* A session begins with nothing on the disk.
LEMMA InitDisk == Init => DiskInv
<1> SUFFICES ASSUME Init PROVE DiskInv
  OBVIOUS
<1>1. outcomes = <<>> /\ cur = 1 /\ disk.order = ABSENT
      /\ \A v \in Plan : disk.variant[v] = ABSENT
  BY DEF Init, SessionInit
<1>2. Kept(disk, outcomes, 0) /\ OrderIs(disk, 0)
  <2>1. disk.order # TORN /\ disk.order.has = <<>>
    BY <1>1 DEF ABSENT, TORN
  <2>2. <<>> = [v \in 1..0 |-> v]
    OBVIOUS
  <2>3. \A v \in Plan : ~(v <= 0)
    BY Constants
  <2>4. QED
    BY <1>1, <2>1, <2>2, <2>3 DEF Kept, OrderIs
<1>3. pc \in {"preflight", "install"} /\ (~Single => pc = "install")
  BY DEF Init, Single
<1>4. QED
  BY <1>1, <1>2, <1>3 DEF DiskInv

\* One outcome more changes nothing on the disk.
LEMMA KeptStays ==
  ASSUME NEW d, NEW o \in Seq(Outcome), NEW x \in Outcome, NEW k \in Nat, Kept(d, o, k)
  PROVE  Kept(d, Append(o, x), k)
<1>1. Len(Append(o, x)) = Len(o) + 1 /\ Len(o) \in Nat
  OBVIOUS
<1>2. \A v \in Plan : v <= k => v \in 1..Len(o)
  <2>1. k <= Len(o)
    BY DEF Kept
  <2>2. Variants \in Nat
    BY Constants
  <2>3. QED
    BY <1>1, <2>1, <2>2
<1>3. \A v \in 1..Len(o) : Append(o, x)[v] = o[v]
  OBVIOUS
<1>4. \A v \in Plan : d.variant[v] = IF v <= k THEN Whole(<<o[v]>>) ELSE ABSENT
  BY DEF Kept
<1>5. ASSUME NEW v \in Plan
      PROVE  d.variant[v] = IF v <= k THEN Whole(<<Append(o, x)[v]>>) ELSE ABSENT
  <2>1. CASE v <= k
    <3>1. Append(o, x)[v] = o[v]
      BY <1>2, <1>3, <2>1
    <3>2. QED
      BY <1>4, <2>1, <3>1
  <2>2. QED
    BY <1>4, <2>1
<1>6. k <= Len(Append(o, x))
  BY <1>1 DEF Kept
<1>7. QED
  BY <1>5, <1>6 DEF Kept

\* write_variant adds the next file.
LEMMA KeptGrows ==
  ASSUME NEW d \in [variant : [Plan -> File(Outcome)], order : File(Plan)],
         NEW o \in Seq(Outcome), NEW k \in Plan, k <= Len(o), Kept(d, o, k - 1)
  PROVE  Kept([d EXCEPT !.variant[k] = Whole(<<o[k]>>)], o, k)
<1>1. \A v \in Plan : v # k => (v <= k - 1 <=> v <= k)
  BY Constants
<1>2. \A v \in Plan : [d EXCEPT !.variant[k] = Whole(<<o[k]>>)].variant[v]
                        = IF v = k THEN Whole(<<o[k]>>) ELSE d.variant[v]
  OBVIOUS
<1>3. k <= k
  BY Constants
<1>4. QED
  BY <1>1, <1>2, <1>3 DEF Kept

\* A write that was cut short leaves a torn file.
LEMMA TornShows ==
  ASSUME TypeInv, Shape, NEW d \in Torn, ~Single
  PROVE  HasTorn(d) /\ (pc = "record" => d.order = disk.order)
<1>1. disk \in [variant : [Plan -> File(Outcome)], order : File(Plan)]
  BY DEF TypeInv
<1>2. CASE pc = "record"
  <2>1. cur \in Plan /\ d = [disk EXCEPT !.variant[cur] = TORN]
    BY <1>2, CurrentEngine DEF Torn
  <2>2. d.variant[cur] = TORN /\ d.order = disk.order
    BY <1>1, <2>1
  <2>3. QED
    BY <2>1, <2>2 DEF HasTorn
<1>3. CASE pc = "order"
  <2>1. d = [disk EXCEPT !.order = TORN]
    BY <1>3 DEF Torn
  <2>2. d.order = TORN
    BY <1>1, <2>1
  <2>3. QED
    BY <1>3, <2>2 DEF HasTorn
<1>4. QED
  BY <1>2, <1>3 DEF Torn

\* The steps of a session that leave the disk and its list alone.
LEMMA SessionDiskQuiet ==
  ASSUME TypeInv, Shape, DiskInv, SessionMoves, UNCHANGED kernel,
         ~PlanSkips, ~Judge, ~WriteVariant, ~WriteOrder, ~SaveResult
  PROVE  DiskInv'
<1>1. ~Single /\ ~Single' /\ cur \in Nat /\ cur > 0
  BY SessionIsTuning, CurrentEngine DEF kernel, Single
<1> USE DEF SavesThen, rest, session
<1>2. CASE TuneBegins
  <2>1. /\ UNCHANGED <<cur, outcomes, disk>> /\ pc' \in {"plan", "finish"} /\ pc = "tune"
    BY <1>2 DEF TuneBegins
  <2>2. Kept(disk, outcomes, cur - 1) /\ OrderIs(disk, cur - 1) /\ cur - 1 \in 0..Variants
    BY <1>1, <2>1, Constants DEF DiskInv, TypeInv
  <2>3. QED
    BY <1>1, <2>1, <2>2 DEF DiskInv
<1>3. CASE PlanRuns \/ PlanEnds
  <2>1. /\ UNCHANGED <<cur, outcomes, disk>> /\ pc = "plan"
        /\ pc' = "prepare" \/ (pc' = "finalise" /\ cur > Variants)
    BY <1>3 DEF PlanRuns, PlanEnds
  <2>2. cur > Variants => cur = Variants + 1
    BY Constants DEF TypeInv
  <2>3. QED
    BY <1>1, <2>1, <2>2 DEF DiskInv
<1>4. CASE Prepare \/ SaveCommand \/ EngineStarts \/ Healthy \/ Unhealthy \/ SweepEnds
           \/ PortSettles \/ GpuWait \/ GpuWaitAgain
  <2>1. UNCHANGED <<cur, outcomes, disk>> /\ pc \in Trying /\ pc' \in Trying
    <3>1. CASE Prepare \/ SaveCommand \/ EngineStarts
      BY <3>1 DEF Prepare, SaveCommand, EngineStarts
    <3>2. CASE Healthy \/ Unhealthy \/ SweepEnds
      BY <3>2 DEF Healthy, Unhealthy, SweepEnds
    <3>3. CASE PortSettles \/ GpuWait \/ GpuWaitAgain
      BY <3>3 DEF PortSettles, GpuWait, GpuWaitAgain
    <3>4. QED
      BY <1>4, <3>1, <3>2, <3>3
  <2>2. QED
    BY <1>1, <2>1 DEF DiskInv
<1>5. CASE Finalise
  <2>1. UNCHANGED <<cur, outcomes, disk>> /\ pc = "finalise" /\ pc' = "finish"
    BY <1>5 DEF Finalise
  <2>2. Kept(disk, outcomes, cur - 1) /\ OrderIs(disk, cur - 1) /\ cur - 1 \in 0..Variants
    BY <1>1, <2>1, Constants DEF DiskInv, TypeInv
  <2>3. QED
    BY <1>1, <2>1, <2>2 DEF DiskInv
<1>6. QED
  BY <1>2, <1>3, <1>4, <1>5 DEF SessionMoves

\* The steps that add an outcome, and those that write it down.
LEMMA SessionDiskWrites ==
  ASSUME TypeInv, Shape, DiskInv, UNCHANGED kernel, SessionMoves,
         PlanSkips \/ Judge \/ WriteVariant \/ WriteOrder \/ SaveResult
  PROVE  DiskInv'
<1>1. ~Single /\ ~Single' /\ cur \in Nat /\ cur > 0 /\ cur - 1 \in Nat
  BY SessionIsTuning, CurrentEngine DEF kernel, Single
<1>2. outcomes \in Seq(Outcome)
      /\ disk \in [variant : [Plan -> File(Outcome)], order : File(Plan)]
  BY DEF TypeInv
<1>3. CASE PlanSkips \/ Judge
  <2>1. /\ UNCHANGED <<cur, disk>> /\ pc' = "record"
        /\ pc \in {"plan", "judge", "crash"}
        /\ \E x \in Outcome : outcomes' = Append(outcomes, x)
    BY <1>3 DEF PlanSkips, Judge, Closes, Outcome
  <2>2. Kept(disk, outcomes, cur - 1) /\ OrderIs(disk, cur - 1)
    BY <1>1, <2>1 DEF DiskInv
  <2>3. Kept(disk, outcomes', cur - 1)
    BY <1>1, <1>2, <2>1, <2>2, KeptStays
  <2>4. QED
    BY <1>1, <2>1, <2>2, <2>3 DEF DiskInv
<1>4. CASE WriteVariant
  <2>1. /\ UNCHANGED <<cur, outcomes>> /\ pc = "record" /\ pc' = "order"
        /\ \/ disk' = [disk EXCEPT !.variant[cur] = Whole(<<outcomes[cur]>>)]
           \/ full' /\ disk' \in {disk} \cup Torn
    BY <1>4 DEF WriteVariant, FindsDiskFull
  <2>2. /\ Kept(disk, outcomes, cur - 1) /\ OrderIs(disk, cur - 1)
        /\ cur \in Plan /\ cur <= Len(outcomes)
    BY <1>1, <2>1, CurrentEngine DEF DiskInv, Shape
  <2>3. CASE disk' = [disk EXCEPT !.variant[cur] = Whole(<<outcomes[cur]>>)]
    <3>1. Kept(disk', outcomes, cur)
      BY <1>2, <2>2, <2>3, KeptGrows
    <3>2. disk'.order = disk.order
      BY <1>2, <2>3
    <3>3. OrderIs(disk', cur - 1)
      BY <2>2, <3>2 DEF OrderIs
    <3>4. QED
      BY <1>1, <2>1, <3>1, <3>3 DEF DiskInv
  <2>4. CASE full' /\ disk' \in {disk} \cup Torn
    <3>1. OrderIs(disk', cur - 1) /\ (disk' = disk \/ HasTorn(disk'))
      BY <1>1, <2>1, <2>2, <2>4, TornShows DEF OrderIs
    <3>2. QED
      BY <1>1, <2>1, <2>2, <2>4, <3>1 DEF DiskInv
  <2>5. QED
    BY <2>1, <2>3, <2>4
<1>5. CASE WriteOrder
  <2>1. /\ UNCHANGED <<cur, outcomes>> /\ pc = "order"
        /\ \/ ~full /\ disk' = [disk EXCEPT !.order = Whole(Listed)] /\ pc' = "save"
           \/ disk' \in {disk} \cup Torn /\ pc' = "finish"
    BY <1>5 DEF WriteOrder, Writes
  <2>2. /\ OrderIs(disk, cur - 1)
        /\ \/ Kept(disk, outcomes, cur)
           \/ full /\ (Kept(disk, outcomes, cur - 1) \/ HasTorn(disk))
    BY <1>1, <2>1 DEF DiskInv
  <2>3. CASE ~full /\ disk' = [disk EXCEPT !.order = Whole(Listed)] /\ pc' = "save"
    <3>1. disk'.order = Whole(Listed) /\ disk'.variant = disk.variant
      BY <1>2, <2>3
    <3>2. OrderIs(disk', cur)
      BY <3>1 DEF OrderIs, Whole, TORN, Listed
    <3>3. Kept(disk', outcomes, cur)
      BY <2>2, <2>3, <3>1 DEF Kept
    <3>4. QED
      BY <1>1, <2>1, <2>3, <3>2, <3>3 DEF DiskInv
  <2>4. CASE disk' \in {disk} \cup Torn /\ pc' = "finish"
    <3>1. disk' = disk \/ HasTorn(disk')
      BY <1>1, <2>4, TornShows
    <3>2. cur - 1 \in 0..Variants /\ (cur - 1) + 1 = cur
      BY <1>1, <2>1, Constants, SMTT(30) DEF TypeInv
    <3>3. \/ HasTorn(disk)
          \/ OrderIs(disk, cur - 1)
             /\ (Kept(disk, outcomes, cur - 1) \/ Kept(disk, outcomes, (cur - 1) + 1))
      BY <2>2, <3>2
    <3>4. QED
      BY <1>1, <2>1, <2>4, <3>1, <3>2, <3>3 DEF DiskInv
  <2>5. QED
    BY <2>1, <2>3, <2>4
<1>6. CASE SaveResult
  <2>1. UNCHANGED <<outcomes, disk>> /\ cur' = cur + 1 /\ pc = "save" /\ pc' \in {"plan", "finish"}
    BY <1>6 DEF SaveResult, SavesThen
  <2>2. Kept(disk, outcomes, cur) /\ OrderIs(disk, cur) /\ cur \in 0..Variants /\ cur' - 1 = cur
    BY <1>1, <2>1, CurrentEngine, Constants DEF DiskInv, Shape
  <2>3. QED
    BY <1>1, <2>1, <2>2 DEF DiskInv
<1>7. QED
  BY <1>3, <1>4, <1>5, <1>6

\* Every step keeps the files and order.json together.
LEMMA DiskKept ==
  ASSUME TypeInv, Shape, DiskInv, [Next]_vars
  PROVE  DiskInv'
<1>1. CASE SessionMoves /\ UNCHANGED kernel
  BY <1>1, SessionDiskQuiet, SessionDiskWrites
<1>2. CASE KernelOnly
  <2>1. UNCHANGED <<cur, outcomes, disk>> /\ (Single' <=> Single)
    BY <1>2, KernelKeepsSession, ScriptStays DEF rest
  <2>2. CASE Single
    BY <2>1, <2>2 DEF DiskInv
  <2>3. CASE ~Single
    <3>1. TuneInstalls \/ TuneChecks \/ SigTerm \/ Stopped \/ SigKill \/ StopTimesOut \/ Finish
      BY <1>2, <2>3, TuningOnly
    <3>2. /\ pc \in Before \cup Trying \cup {"finish"}
          /\ pc' \in Before \cup Trying \cup AtEnd
          /\ pc = "finish" => pc' \in AtEnd
      BY <2>3, <3>1 DEF TuneInstalls, TuneChecks, StepOf, SavesThen, SigTerm, Stopped, SigKill,
         StopTimesOut, Finish, AfterStop, AfterStopRaises, Single
    <3>3. cur - 1 \in 0..Variants
      BY Constants DEF TypeInv
    <3>4. CASE pc = "finish"
      BY <2>1, <2>3, <3>2, <3>4 DEF DiskInv
    <3>5. CASE pc \in Before \cup Trying
      <4>1. Kept(disk, outcomes, cur - 1) /\ OrderIs(disk, cur - 1)
        BY <2>3, <3>5 DEF DiskInv
      <4>2. QED
        BY <2>1, <2>3, <3>2, <3>3, <4>1 DEF DiskInv
    <3>6. QED
      BY <3>2, <3>4, <3>5
  <2>4. QED
    BY <2>2, <2>3
<1>3. CASE EngineAlone \/ UNCHANGED vars
  BY <1>3 DEF EngineAlone, vars, session, kernel, DiskInv, Single
<1>4. CASE SessionKilled
  <2>1. /\ UNCHANGED <<cur, outcomes>> /\ (Single' <=> Single)
        /\ pc' = "killed" /\ disk' \in {disk} \cup Torn /\ pc \notin {"done", "killed"}
    BY <1>4 DEF SessionKilled, Single, Ended
  <2>2. CASE Single
    <3>1. Torn = {}
      BY <2>2 DEF Torn, Shape, SinglePlaces
    <3>2. QED
      BY <2>1, <2>2, <3>1 DEF DiskInv
  <2>3. CASE ~Single
    <3>1. disk' = disk \/ HasTorn(disk')
      BY <2>1, <2>3, TornShows
    <3>2. /\ cur - 1 \in 0..Variants /\ (cur - 1) + 1 = cur
          /\ pc = "save" => cur \in 0..Variants
      BY <2>3, Constants DEF TypeInv, Shape
    <3>3. \/ HasTorn(disk)
          \/ \E m \in 0..Variants :
               OrderIs(disk, m) /\ (Kept(disk, outcomes, m) \/ Kept(disk, outcomes, m + 1))
      <4>1. CASE pc \in Before \cup Trying \cup {"plan", "finalise", "record"}
        BY <2>3, <3>2, <4>1 DEF DiskInv
      <4>2. CASE pc = "order"
        <5>1. /\ OrderIs(disk, cur - 1)
              /\ \/ Kept(disk, outcomes, (cur - 1) + 1)
                 \/ Kept(disk, outcomes, cur - 1) \/ HasTorn(disk)
          BY <2>3, <3>2, <4>2 DEF DiskInv
        <5>2. QED
          BY <3>2, <5>1
      <4>3. CASE pc = "save"
        BY <2>3, <3>2, <4>3 DEF DiskInv
      <4>4. CASE pc \in AtEnd
        BY <2>3, <4>4 DEF DiskInv
      <4>5. QED
        BY <2>3, <4>1, <4>2, <4>3, <4>4 DEF Shape
    <3>4. QED
      BY <2>1, <2>3, <3>1, <3>3 DEF DiskInv
  <2>4. QED
    BY <2>2, <2>3
<1>5. QED
  BY <1>1, <1>2, <1>3, <1>4, StepKinds

\* Wherever a program is.
THEOREM DiskHolds == Spec => []DiskInv
<1>1. Inv /\ DiskInv /\ [Next]_vars => DiskInv'
  BY DiskKept DEF Inv
<1>2. QED
  BY <1>1, InitDisk, InvHolds, PTL DEF Spec

------------------------------------------------------------------------------
(* What a reader finds. *)

\* How many numbers there are up to n.
LEMMA UpTo ==
  ASSUME NEW n \in Nat
  PROVE  IsFiniteSet(1..n) /\ Cardinality(1..n) = n
<1>1. 1 \in Int /\ n \in Int
  OBVIOUS
<1>2. IsFiniteSet(1..n) /\ Cardinality(1..n) = IF 1 > n THEN 0 ELSE n - 1 + 1
  BY <1>1, FS_Interval, Zenon
<1>3. QED
  BY <1>2

\* The places of what Among keeps, and the k-th of them.
PlacesOf(S, s) == {i \in DOMAIN s : s[i] \in S}
PlaceOf(P, k) == CHOOSE i \in P : Cardinality({j \in P : j <= i}) = k

LEMMA AmongIs ==
  ASSUME NEW S, NEW s
  PROVE  Among(S, s) = [k \in 1..Cardinality(PlacesOf(S, s)) |-> s[PlaceOf(PlacesOf(S, s), k)]]
  BY DEF Among, PlacesOf, PlaceOf

LEMMA PlaceIs ==
  ASSUME NEW P, NEW k, NEW i \in P, Cardinality({j \in P : j <= i}) = k
  PROVE  PlaceOf(P, k) \in P /\ Cardinality({j \in P : j <= PlaceOf(P, k)}) = k
  BY Zenon DEF PlaceOf

\* Nothing to leave out.
LEMMA AmongAll ==
  ASSUME NEW S, NEW n \in Nat, NEW s, DOMAIN s = 1..n, s = [i \in 1..n |-> s[i]],
         \A i \in 1..n : s[i] \in S
  PROVE  Among(S, s) = s
<1>1. PlacesOf(S, s) = 1..n /\ Cardinality(1..n) = n
  BY UpTo DEF PlacesOf
<1>2. \A i \in 1..n : Cardinality({j \in 1..n : j <= i}) = i
  <2> SUFFICES ASSUME NEW i \in 1..n PROVE Cardinality({j \in 1..n : j <= i}) = i
    OBVIOUS
  <2>1. {j \in 1..n : j <= i} = 1..i
    OBVIOUS
  <2>2. i \in Nat
    OBVIOUS
  <2>3. QED
    BY <2>1, <2>2, UpTo
<1>3. ASSUME NEW k \in 1..n PROVE PlaceOf(1..n, k) = k
  <2>1. PlaceOf(1..n, k) \in 1..n /\ Cardinality({j \in 1..n : j <= PlaceOf(1..n, k)}) = k
    BY <1>2, PlaceIs, Zenon
  <2>2. QED
    BY <1>2, <2>1
<1>4. Among(S, s) = [k \in 1..n |-> s[PlaceOf(1..n, k)]]
  BY <1>1, AmongIs
<1>5. QED
  BY <1>3, <1>4

\* Nothing to keep.
LEMMA AmongNone ==
  ASSUME NEW S, NEW s, \A i \in DOMAIN s : s[i] \notin S
  PROVE  Among(S, s) = <<>>
<1>1. PlacesOf(S, s) = {} /\ Cardinality({}) = 0
  BY FS_EmptySet DEF PlacesOf
<1>2. Among(S, s) = [k \in 1..0 |-> s[PlaceOf({}, k)]]
  BY <1>1, AmongIs
<1>3. QED
  BY <1>2

\* One to keep.
LEMMA AmongOne ==
  ASSUME NEW S, NEW s, NEW i \in DOMAIN s, i \in Int, \A j \in DOMAIN s : s[j] \in S <=> j = i
  PROVE  Among(S, s) = <<s[i]>>
<1>1. PlacesOf(S, s) = {i}
  BY Zenon DEF PlacesOf
<1>2. Cardinality({i}) = 1
  BY FS_Singleton
<1>3. PlaceOf({i}, 1) = i
  <2>1. {j \in {i} : j <= i} = {i}
    OBVIOUS
  <2>2. PlaceOf({i}, 1) \in {i}
    BY <1>2, <2>1, PlaceIs
  <2>3. QED
    BY <2>2
<1>4. Among(S, s) = [k \in 1..1 |-> s[PlaceOf({i}, k)]]
  BY <1>1, <1>2, AmongIs
<1>5. QED
  BY <1>3, <1>4

\* Each variant has one place among the slugs.
LEMMA SlugsApart ==
  \A i, j \in Plan : SlugOrder[i] = SlugOrder[j] => i = j
<1>1. Variants \in Nat
  BY Constants
<1>2. IsFiniteSet(1..Variants)
  BY <1>1, UpTo
<1>3. SlugOrder \in Surjection(1..Variants, 1..Variants)
  BY SessionConstants DEF Surjection
<1>4. SlugOrder \in Injection(1..Variants, 1..Variants)
  BY <1>2, <1>3, FS_SurjSameCardinalityImpliesInj, Zenon
<1>5. QED
  BY <1>4 DEF Injection, IsInjective
\* A file that is there is there.
LEMMA WholeIsThere ==
  ASSUME NEW o, NEW k \in Nat, k <= Variants, Kept(disk, o, k)
  PROVE  \A v \in Plan : disk.variant[v] # ABSENT <=> v <= k
<1>1. \A c : Whole(c) # ABSENT
  BY DEF Whole, ABSENT
<1>2. \A v \in Plan : disk.variant[v] = IF v <= k THEN Whole(<<o[v]>>) ELSE ABSENT
  BY DEF Kept
<1>3. QED
  BY <1>1, <1>2, Zenon

\* What load_tuning makes of the first k files, the first m of them in order.json.
LEMMA LoadedIs ==
  ASSUME TypeInv, NEW m \in 0..Variants, NEW k \in {m, m + 1}, k <= Len(outcomes),
         Len(outcomes) <= Variants, OrderIs(disk, m), Kept(disk, outcomes, k), ~HasTorn(disk)
  PROVE  /\ Found = 1..k
         /\ Loaded = [v \in 1..k |-> v]
<1>0. Variants \in Nat /\ Len(outcomes) \in Nat /\ m \in Nat /\ k \in Nat /\ k <= Variants
  BY Constants DEF TypeInv
<1>1. Found = 1..k
  <2>1. \A v \in Plan : disk.variant[v] # ABSENT <=> v <= k
    BY <1>0, WholeIsThere
  <2>2. QED
    BY <1>0, <2>1 DEF Found
<1>2. Among(Found, disk.order.has) = [v \in 1..m |-> v]
  <2>1. disk.order.has = [v \in 1..m |-> v]
    BY DEF OrderIs
  <2>2. \A i \in 1..m : [v \in 1..m |-> v][i] \in Found
    BY <1>0, <1>1
  <2>3. QED
    BY <1>0, <2>1, <2>2, AmongAll
<1>3. ToSet([v \in 1..m |-> v]) = 1..m
  BY DEF ToSet
<1>4. Loaded = [v \in 1..m |-> v] \o Among(1..k \ 1..m, SlugOrder)
  <2>1. ~(disk.order = TORN \/ \E v \in Found : disk.variant[v] = TORN)
    BY DEF HasTorn, Found
  <2>2. Among(Found \ ToSet(Among(Found, disk.order.has)), SlugOrder)
          = Among(1..k \ 1..m, SlugOrder)
    BY <1>1, <1>2, <1>3
  <2>3. QED
    BY <1>2, <2>1, <2>2 DEF Loaded
<1>5. DOMAIN SlugOrder = Plan
  BY SessionConstants
<1>6. CASE k = m
  <2>1. 1..k \ 1..m = {}
    BY <1>6
  <2>2. Among({}, SlugOrder) = <<>>
    BY AmongNone
  <2>3. [v \in 1..m |-> v] \in Seq(1..m)
    BY <1>0
  <2>4. [v \in 1..m |-> v] \o <<>> = [v \in 1..m |-> v]
    BY <2>3
  <2>5. QED
    BY <1>1, <1>4, <1>6, <2>1, <2>2, <2>4
<1>7. CASE k = m + 1
  <2>1. 1..k \ 1..m = {k}
    BY <1>0, <1>7
  <2>2. k \in Plan
    BY <1>0, <1>7
  <2>3. PICK i \in Plan : SlugOrder[i] = k
    BY <2>2, SessionConstants
  <2>4. i \in Int /\ \A j \in Plan : SlugOrder[j] \in {k} <=> j = i
    BY <1>0, <2>3, SlugsApart
  <2>5. Among({k}, SlugOrder) = <<k>>
    <3>1. i \in DOMAIN SlugOrder /\ i \in Int
          /\ \A j \in DOMAIN SlugOrder : SlugOrder[j] \in {k} <=> j = i
      BY <1>5, <2>4
    <3>2. Among({k}, SlugOrder) = <<SlugOrder[i]>>
      BY <3>1, AmongOne, Zenon
    <3>3. QED
      BY <2>3, <3>2
  <2>6. [v \in 1..m |-> v] \o <<k>> = [v \in 1..k |-> v]
    BY <1>0, <1>7
  <2>7. QED
    BY <1>1, <1>4, <2>1, <2>5, <2>6
<1>8. QED
  BY <1>6, <1>7

\* Wherever a program is, its files are those of a session's beginning.
LEMMA FilesAreABeginning ==
  ASSUME Inv, DiskInv, ~HasTorn(disk)
  PROVE  \E m \in 0..Variants :
           OrderIs(disk, m) /\ (Kept(disk, outcomes, m) \/ Kept(disk, outcomes, m + 1))
<1>1. Variants \in Nat /\ cur - 1 \in 0..Variants /\ (cur - 1) + 1 = cur
  BY Constants DEF Inv, TypeInv
<1>2. CASE Single
  <2>1. 0 \in 0..Variants
    BY <1>1
  <2>2. Kept(disk, outcomes, 0) /\ OrderIs(disk, 0)
    BY <1>2 DEF DiskInv
  <2>3. QED
    BY <2>1, <2>2
<1>3. CASE ~Single
  <2>1. CASE pc \in Before \cup Trying \cup {"plan", "finalise", "record"}
    BY <1>1, <1>3, <2>1 DEF DiskInv
  <2>2. CASE pc = "order"
    <3>1. OrderIs(disk, cur - 1)
          /\ (Kept(disk, outcomes, (cur - 1) + 1) \/ Kept(disk, outcomes, cur - 1))
      BY <1>1, <1>3, <2>2 DEF DiskInv
    <3>2. QED
      BY <1>1, <3>1
  <2>3. CASE pc = "save"
    <3>1. cur \in 0..Variants
      BY <1>3, <2>3, CurrentEngine DEF Inv
    <3>2. QED
      BY <1>3, <2>3, <3>1 DEF DiskInv
  <2>4. CASE pc \in AtEnd
    BY <1>3, <2>4 DEF DiskInv
  <2>5. QED
    BY <1>3, <2>1, <2>2, <2>3, <2>4 DEF Inv, Shape
<1>4. QED
  BY <1>2, <1>3

\* For any number of variants and any order of slugs: what load_tuning reads back,
\* from wherever the session was killed, is what was measured, in that order
\* (run_session, on_result, write_variant, load_tuning).
THEOREM SessionIsReadBack == Spec => []LoadFollowsTheSession
<1>1. Inv /\ DiskInv => LoadFollowsTheSession
  <2> SUFFICES ASSUME Inv, DiskInv, ~HasTorn(disk) PROVE LoadFollowsTheSession
    BY DEF LoadFollowsTheSession, HasTorn
  <2>1. PICK m \in 0..Variants :
          OrderIs(disk, m) /\ (Kept(disk, outcomes, m) \/ Kept(disk, outcomes, m + 1))
    BY FilesAreABeginning
  <2>2. PICK k \in {m, m + 1} : Kept(disk, outcomes, k)
    BY <2>1
  <2>3. k <= Len(outcomes) /\ Len(outcomes) <= Variants /\ Len(outcomes) \in Nat /\ k \in Nat
        /\ Variants \in Nat
    BY <2>1, <2>2, Constants DEF Kept, Inv, Shape, TypeInv
  <2>4. Found = 1..k /\ Loaded = [v \in 1..k |-> v]
    BY <2>1, <2>2, <2>3, LoadedIs DEF Inv
  <2> DEFINE done == {v \in Plan : v <= Len(outcomes) /\ disk.variant[v] # ABSENT}
  <2>5. done = 1..k
    BY <2>3, <2>4 DEF Found
  <2>6. ToSet(Loaded) = 1..k /\ DOMAIN Loaded = 1..k
    BY <2>4 DEF ToSet
  <2>7. \A i, j \in DOMAIN Loaded : i < j => Loaded[i] < Loaded[j]
    BY <2>4
  <2>8. \A v \in 1..k : disk.variant[v] = Whole(<<outcomes[v]>>)
    BY <2>2, <2>3 DEF Kept
  <2>9. pc = "finalise" => done = Plan
    <3> SUFFICES ASSUME pc = "finalise" PROVE done = Plan
      OBVIOUS
    <3>1. ~Single
      BY DEF Inv, Shape, SinglePlaces
    <3>2. Kept(disk, outcomes, Variants)
      <4>1. cur = Variants + 1 /\ Kept(disk, outcomes, cur - 1)
        BY <3>1 DEF DiskInv
      <4>2. cur - 1 = Variants
        BY <2>3, <4>1
      <4>3. QED
        BY <4>1, <4>2
    <3>3. \A v \in Plan : v <= Len(outcomes) /\ disk.variant[v] # ABSENT
      <4>1. \A v \in Plan : disk.variant[v] # ABSENT <=> v <= Variants
        BY <2>3, <3>2, WholeIsThere
      <4>2. Variants <= Len(outcomes)
        BY <3>2 DEF Kept
      <4>3. QED
        BY <2>3, <4>1, <4>2
    <3>4. QED
      BY <3>3
  <2> HIDE DEF done
  <2>10. QED
    BY <2>5, <2>6, <2>7, <2>8, <2>9 DEF LoadFollowsTheSession, done
<1>2. QED
  BY <1>1, InvHolds, DiskHolds, PTL

=============================================================================
