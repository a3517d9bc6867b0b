----------------------------- MODULE Sweep_proofs -----------------------------
(***************************************************************************)
(* What Sweep promises for every ladder of rates, draw, warm-up, threshold *)
(* and number of restarts: its types, and what the rows say of the steps.  *)
(* The invariant follows the counters through one window: the requests of  *)
(* a step are in the engine or in its histogram, and with an idle engine   *)
(* at the baseline there is nothing else.                                  *)
(***************************************************************************)
EXTENDS Sweep, SumLemmas

\* A scrape that succeeded, as the sweep keeps it.
Snapshots == [ok : {TRUE}, busy : Nat, count : Nat, own : Nat, foreign : Nat, run : Nat]

\* Where the step's load has not begun, and where its window is open.
Waiting == {"settling", "baselining"}
Measuring == {"loading", "sampling", "closing"}

\* No request of a later step is in the engine, and what the client knows of this
\* step's requests never exceeds what it sent.
FlowInv ==
  /\ phase # "loading" => step \in Steps /\ unseen = 0
  /\ \A o \in Origins : o > step \/ (o = step /\ phase \in Waiting) => busy[o] = 0
  /\ phase \in Waiting => sent = 0 /\ completed = 0 /\ failed = 0
  /\ phase = "loading" => completed + failed + unseen + (busy[step] - answered[step]) <= sent

\* What an engine that was idle at the baseline has recorded since, and what one
\* that restarted since can have recorded at most.
Unrestarted ==
  base.busy = 0 =>
    /\ \A o \in Origins \ {step} : busy[o] = 0
    /\ Total(served) - served[step] = base.foreign
    /\ (served[step] - base.own) + busy[step] <= sent

WindowInv ==
  /\ base \in {NONE} \cup Snapshots
  /\ phase \in Measuring /\ step \in Steps /\ base.ok =>
       /\ base.count = base.own + base.foreign /\ base.run <= restarts
       /\ IF base.run = restarts THEN Unrestarted ELSE Total(served) + Total(busy) <= sent

\* The rows are those of the steps that ended, and the ladder is only left early
\* after an unhealthy one.
LadderInv ==
  /\ Len(rows) = IF phase = "done" THEN step ELSE IF step = 0 THEN 0 ELSE step - 1
  /\ unhealthy > 0 => Len(rows) > 0 /\ ~ rows[Len(rows)].healthy
  /\ phase = "done" => step = Len(Rates) \/ unhealthy > 0

IInv == TypeOK /\ FlowInv /\ WindowInv /\ LadderInv /\ WindowIsTheStep /\ CountCoversTheClient

------------------------------------------------------------------------------
(* Steps, schedules and totals. *)

LEMMA LadderIsFinite ==
  /\ Len(Rates) \in Nat \ {0} /\ Steps = 1..Len(Rates) /\ Origins = 0..Len(Rates)
  /\ IsFiniteSet(Origins)
<1>1. Len(Rates) \in Nat /\ Steps = 1..Len(Rates)
  BY RatesAscend DEF Steps
<1>2. Len(Rates) # 0
  BY RatesAscend
<1>3. Origins = 0..Len(Rates)
  BY <1>1 DEF Origins
<1>4. IsFiniteSet(0..Len(Rates))
  BY <1>1, FS_Interval
<1>5. QED
  BY <1>1, <1>2, <1>3, <1>4

LEMMA SchedulesAreFinite ==
  ASSUME NEW s \in Origins
  PROVE  Scheduled(s) \in Nat
<1>1. IsFiniteSet(DOMAIN Draws)
  <2>1. Len(Draws) \in Nat /\ DOMAIN Draws = 1..Len(Draws)
    BY DrawsAscend
  <2>2. QED
    BY <2>1, FS_Interval
<1>2. \A r : Cardinality(Arrivals(r)) \in Nat
  BY <1>1, FS_Subset, FS_CardinalityType DEF Arrivals
<1>3. QED
  BY <1>2, NumbersNatural DEF Scheduled

\* The totals of the engine's gauges and histograms are sums of natural numbers.
LEMMA TotalOfCounts ==
  ASSUME NEW f \in [Origins -> Nat]
  PROVE  /\ Total(f) \in Nat
         /\ \A o \in Origins : f[o] <= Total(f)
         /\ Total(f) = 0 <=> \A o \in Origins : f[o] = 0
<1>1. Total(f) = SumOf(f, Origins)
  BY DEF Total, SumOf
<1>2. QED
  BY <1>1, LadderIsFinite, SumOfNaturals, SumIsZero

\* g is f with n more at one origin, and so n more in total.
Moves(f, g, o, n) ==
  /\ g \in [Origins -> Nat]
  /\ g[o] = f[o] + n
  /\ \A p \in Origins \ {o} : g[p] = f[p]
  /\ Total(g) = Total(f) + n

LEMMA MoveMoves ==
  ASSUME NEW f \in [Origins -> Nat], NEW o \in Origins, NEW n \in Int, f[o] + n \in Nat
  PROVE  Moves(f, Move(f, o, n), o, n)
<1> DEFINE g == [f EXCEPT ![o] = f[o] + n]
<1>1. Move(f, o, n) = g
  BY DEF Move
<1>2. Total(g) = SumOf(g, Origins) /\ Total(f) = SumOf(f, Origins)
  BY DEF Total, SumOf
<1>3. SumOf(g, Origins) = SumOf(f, Origins) + n
  BY LadderIsFinite, SumMoves
<1>4. /\ g \in [Origins -> Nat] /\ g[o] = f[o] + n
      /\ \A p \in Origins \ {o} : g[p] = f[p]
  OBVIOUS
<1> HIDE DEF g
<1>5. QED
  BY <1>1, <1>2, <1>3, <1>4 DEF Moves

LEMMA NothingMoves ==
  ASSUME NEW f \in [Origins -> Nat], NEW o \in Origins
  PROVE  Moves(f, f, o, 0)
  BY TotalOfCounts DEF Moves

\* The rows that are there are not touched, and their claims stay true.
LEMMA RowsStay ==
  ASSUME WindowIsTheStep, CountCoversTheClient, UNCHANGED rows
  PROVE  WindowIsTheStep' /\ CountCoversTheClient'
  BY DEF WindowIsTheStep, CountCoversTheClient

------------------------------------------------------------------------------
(* The requests and the engine. *)

LEMMA InitHolds == Init => IInv
<1> SUFFICES ASSUME Init PROVE IInv
  OBVIOUS
<1>1. step \in Origins /\ step = 0 /\ Scheduled(0) \in Nat
  BY LadderIsFinite, SchedulesAreFinite DEF Init
<1>2. busy = [o \in Origins |-> 0] /\ answered = busy /\ served = busy
  BY DEF Init
<1>3. TypeOK
  BY <1>1, <1>2, LadderIsFinite, NumbersNatural DEF Init, TypeOK
<1>4. FlowInv
  BY <1>1, <1>2 DEF Init, FlowInv, Waiting
<1>5. WindowInv
  BY <1>1, LadderIsFinite DEF Init, WindowInv, NONE
<1>6. LadderInv
  BY <1>1 DEF Init, LadderInv
<1>7. WindowIsTheStep /\ CountCoversTheClient
  BY DEF Init, WindowIsTheStep, CountCoversTheClient
<1>8. QED
  BY <1>3, <1>4, <1>5, <1>6, <1>7 DEF IInv

\* The part of the invariant that is only arithmetic, taken out of its sets.
LEMMA InvFacts ==
  ASSUME IInv
  PROVE  /\ step \in Origins /\ Scheduled(step) \in Nat /\ restarts \in Nat
         /\ sent \in Nat /\ completed \in Nat /\ failed \in Nat /\ unseen \in Nat
         /\ busy \in [Origins -> Nat] /\ answered \in [Origins -> Nat]
         /\ served \in [Origins -> Nat]
         /\ busy[step] \in Nat /\ answered[step] \in Nat /\ served[step] \in Nat
         /\ answered[step] <= busy[step]
         /\ completed + failed + unseen <= sent /\ sent <= Scheduled(step)
         /\ Total(busy) \in Nat /\ Total(served) \in Nat
<1>1. step \in Origins
  BY LadderIsFinite DEF IInv, TypeOK
<1>2. /\ busy \in [Origins -> Nat] /\ answered \in [Origins -> Nat] /\ served \in [Origins -> Nat]
      /\ \A o \in Origins : answered[o] <= busy[o]
  BY DEF IInv, TypeOK
<1>3. restarts \in Nat
  BY NumbersNatural DEF IInv, TypeOK
<1>4. /\ sent \in Nat /\ completed \in Nat /\ failed \in Nat /\ unseen \in Nat
      /\ completed + failed + unseen <= sent /\ sent <= Scheduled(step)
  BY DEF IInv, TypeOK
<1>5. Total(busy) \in Nat /\ Total(served) \in Nat /\ Scheduled(step) \in Nat
  BY <1>1, <1>2, SchedulesAreFinite, TotalOfCounts
<1>6. QED
  BY <1>1, <1>2, <1>3, <1>4, <1>5

\* What keeps the window of a step true while it is open: a request reaches the
\* engine when it is sent, reaches the histogram from the gauges, and no other
\* origin has one in an engine that was idle.
LEMMA WindowMoves ==
  ASSUME IInv, UNCHANGED <<step, restarts, base>>,
         phase' \in Measuring => phase \in Measuring,
         NEW o \in Origins, NEW m \in {-1, 0, 1}, NEW n \in {0, 1},
         Moves(busy, busy', o, m), Moves(served, served', o, n),
         o # step => busy[o] > 0,
         sent' \in Nat, sent + m + n <= sent', sent <= sent'
  PROVE  WindowInv'
<1>1. base \in {NONE} \cup Snapshots
  BY DEF IInv, WindowInv
<1> SUFFICES ASSUME phase \in Measuring, step \in Steps, base.ok
             PROVE  (/\ base.count = base.own + base.foreign /\ base.run <= restarts
                     /\ IF base.run = restarts THEN Unrestarted
                        ELSE Total(served) + Total(busy) <= sent)'
  BY <1>1 DEF WindowInv
<1>2. /\ base.count = base.own + base.foreign /\ base.run <= restarts
      /\ IF base.run = restarts THEN Unrestarted ELSE Total(served) + Total(busy) <= sent
  BY DEF IInv, WindowInv
<1>3. base.own \in Nat /\ base.foreign \in Nat /\ base.busy \in Nat
  <2>1. base # NONE
    BY DEF NONE
  <2>2. QED
    BY <1>1, <2>1 DEF Snapshots
<1>4. /\ Total(busy') = Total(busy) + m /\ Total(served') = Total(served) + n
      /\ Total(busy) \in Nat /\ Total(served) \in Nat /\ sent \in Nat /\ m \in Int /\ n \in Int
  BY InvFacts DEF Moves
<1>5. CASE base.run # restarts
  BY <1>2, <1>4, <1>5
<1>6. CASE base.run = restarts
  <2> SUFFICES ASSUME base.busy = 0
               PROVE  /\ \A p \in Origins \ {step} : busy'[p] = 0
                      /\ Total(served') - served'[step] = base.foreign
                      /\ (served'[step] - base.own) + busy'[step] <= sent'
    BY <1>2, <1>6 DEF Unrestarted
  <2>1. /\ \A p \in Origins \ {step} : busy[p] = 0
        /\ Total(served) - served[step] = base.foreign
        /\ (served[step] - base.own) + busy[step] <= sent
    BY <1>2, <1>6 DEF Unrestarted
  <2>2. o = step
    BY <2>1
  <2>3. /\ busy'[step] = busy[step] + m /\ served'[step] = served[step] + n
        /\ \A p \in Origins \ {step} : busy'[p] = busy[p]
        /\ busy[step] \in Nat /\ served[step] \in Nat
    BY <2>2, InvFacts DEF Moves
  <2>4. Total(served') - served'[step] = base.foreign
    BY <1>3, <1>4, <2>1, <2>3
  <2>5. (served'[step] - base.own) + busy'[step] <= sent'
    BY <1>3, <1>4, <2>1, <2>3
  <2>6. QED
    BY <2>1, <2>3, <2>4, <2>5
<1>7. QED
  BY <1>2, <1>5, <1>6

\* Steps of the requests and of the engine leave the sweep where it is.
Elsewhere == UNCHANGED <<ladder, phase, restarts, base>>

LEMMA ElsewhereKeeps ==
  ASSUME IInv, Elsewhere, WindowInv',
         sent' \in Nat, completed' \in Nat, failed' \in Nat, unseen' \in Nat,
         completed' + failed' + unseen' <= sent', sent' <= Scheduled(step),
         phase # "loading" => UNCHANGED unseen,
         phase \in Waiting => UNCHANGED <<sent, completed, failed>>,
         phase = "loading" =>
           completed' + failed' + unseen' + (busy'[step] - answered'[step]) <= sent',
         NEW o \in Origins, NEW m \in {-1, 0, 1}, NEW n \in {0, 1}, NEW k \in {-1, 0, 1},
         Moves(busy, busy', o, m), Moves(served, served', o, n),
         Moves(answered, answered', o, k), answered'[o] <= busy'[o],
         m > 0 => o = step /\ phase = "loading"
  PROVE  IInv'
<1>1. UNCHANGED <<step, unhealthy, rows, phase, restarts, base>>
  BY DEF Elsewhere, ladder
<1>2. \A p \in Origins : answered'[p] <= busy'[p]
  BY InvFacts DEF Moves, IInv, TypeOK
<1>3. TypeOK'
  BY <1>1, <1>2 DEF Moves, IInv, TypeOK
<1>4. FlowInv'
  <2>1. \A p \in Origins : p > step \/ (p = step /\ phase \in Waiting) => busy'[p] = 0
    <3> SUFFICES ASSUME NEW p \in Origins, p > step \/ (p = step /\ phase \in Waiting)
                 PROVE  busy'[p] = 0
      OBVIOUS
    <3>1. busy[p] = 0
      BY DEF IInv, FlowInv
    <3>2. p # o => busy'[p] = 0
      BY <3>1 DEF Moves
    <3>3. CASE p = o
      <4>1. busy'[o] = m /\ busy'[o] \in Nat
        BY <3>1, <3>3 DEF Moves
      <4>2. ~ (m > 0)
        <5>1. step \in Int
          BY InvFacts, LadderIsFinite
        <5>2. ~ (o > step) \/ o # step
          BY <5>1
        <5>3. phase = "loading" => phase \notin Waiting
          BY DEF Waiting
        <5>4. QED
          BY <3>3, <5>2, <5>3
      <4>3. QED
        BY <3>3, <4>1, <4>2
    <3>4. QED
      BY <3>2, <3>3
  <2>2. phase \in Waiting => sent' = 0 /\ completed' = 0 /\ failed' = 0
    BY DEF IInv, FlowInv
  <2>3. QED
    BY <1>1, <2>1, <2>2 DEF IInv, FlowInv
<1>5. LadderInv'
  BY <1>1 DEF IInv, LadderInv
<1>6. QED
  BY <1>1, <1>3, <1>4, <1>5, RowsStay DEF IInv

\* The load generator's steps: what becomes of a request is known of one that was sent.
LEMMA RequestsKeepIInv ==
  ASSUME IInv, Requests
  PROVE  IInv'
<1> USE InvFacts
<1>1. phase = "loading" /\ Elsewhere
  BY DEF Requests, Send, AnswerFirst, Fail, AnswerSeen, Elsewhere, engine
<1>2. /\ UNCHANGED <<step, restarts, base, phase>>
      /\ completed + failed + unseen + (busy[step] - answered[step]) <= sent
      /\ phase \notin Waiting
  BY <1>1 DEF IInv, FlowInv, Elsewhere, ladder, Waiting
<1>3. /\ Moves(busy, busy, step, 0) /\ Moves(served, served, step, 0)
      /\ Moves(answered, answered, step, 0)
  BY NothingMoves
<1>4. CASE Send
  <2>1. Moves(busy, busy', step, 1) /\ busy'[step] = busy[step] + 1
    <3>1. busy[step] + 1 \in Nat /\ busy' = Move(busy, step, 1)
      BY <1>4 DEF Send
    <3>2. QED
      BY <3>1, MoveMoves DEF Moves
  <2>2. /\ UNCHANGED <<served, answered, completed, failed, unseen>>
        /\ sent' = sent + 1 /\ sent' <= Scheduled(step)
    BY <1>4 DEF Send
  <2>3. WindowInv'
    BY <1>2, <1>3, <2>1, <2>2, WindowMoves
  <2>4. /\ completed' + failed' + unseen' <= sent'
        /\ completed' + failed' + unseen' + (busy'[step] - answered'[step]) <= sent'
        /\ answered'[step] <= busy'[step]
    BY <1>2, <2>1, <2>2
  <2>5. QED
    BY <1>1, <1>2, <1>3, <2>1, <2>2, <2>3, <2>4, ElsewhereKeeps
<1>5. CASE AnswerFirst
  <2>1. /\ Moves(answered, answered', step, 1) /\ answered'[step] = answered[step] + 1
        /\ answered[step] < busy[step]
    <3>1. /\ answered[step] + 1 \in Nat /\ answered' = Move(answered, step, 1)
          /\ answered[step] < busy[step]
      BY <1>5 DEF AnswerFirst
    <3>2. QED
      BY <3>1, MoveMoves DEF Moves
  <2>2. /\ UNCHANGED <<served, busy, sent, failed, unseen>>
        /\ completed' = completed + 1
    BY <1>5 DEF AnswerFirst
  <2>3. WindowInv'
    BY <1>2, <1>3, <2>1, <2>2, WindowMoves
  <2>4. /\ completed' + failed' + unseen' <= sent'
        /\ completed' + failed' + unseen' + (busy'[step] - answered'[step]) <= sent'
        /\ answered'[step] <= busy'[step]
    BY <1>2, <2>1, <2>2
  <2>5. QED
    BY <1>1, <1>2, <1>3, <2>1, <2>2, <2>3, <2>4, ElsewhereKeeps
<1>6. CASE Fail
  <2>1. /\ Moves(busy, busy', step, -1) /\ busy'[step] = busy[step] - 1
        /\ answered[step] < busy[step]
    <3>1. /\ busy[step] + (-1) \in Nat /\ busy' = Move(busy, step, -1)
          /\ answered[step] < busy[step]
      BY <1>6 DEF Fail
    <3>2. QED
      BY <3>1, MoveMoves DEF Moves
  <2>2. /\ UNCHANGED <<served, answered, sent, completed, unseen>>
        /\ failed' = failed + 1
    BY <1>6 DEF Fail
  <2>3. WindowInv'
    BY <1>2, <1>3, <2>1, <2>2, WindowMoves
  <2>4. /\ completed' + failed' + unseen' <= sent'
        /\ completed' + failed' + unseen' + (busy'[step] - answered'[step]) <= sent'
        /\ answered'[step] <= busy'[step]
    BY <1>2, <2>1, <2>2
  <2>5. QED
    BY <1>1, <1>2, <1>3, <2>1, <2>2, <2>3, <2>4, ElsewhereKeeps
<1>7. CASE AnswerSeen
  <2>1. /\ UNCHANGED <<served, busy, answered, sent, failed>>
        /\ unseen > 0 /\ unseen' = unseen - 1 /\ completed' = completed + 1
    BY <1>7 DEF AnswerSeen, engine
  <2>2. WindowInv'
    BY <1>2, <1>3, <2>1, WindowMoves
  <2>3. /\ completed' + failed' + unseen' <= sent'
        /\ completed' + failed' + unseen' + (busy'[step] - answered'[step]) <= sent'
        /\ unseen' \in Nat /\ completed' \in Nat
    BY <1>2, <2>1
  <2>4. QED
    BY <1>1, <1>2, <1>3, <2>1, <2>2, <2>3, ElsewhereKeeps
<1>8. QED
  BY <1>4, <1>5, <1>6, <1>7 DEF Requests

\* The engine's steps, also on requests of earlier steps.
LEMMA RecordsKeepIInv ==
  ASSUME IInv, NEW o \in Origins, RecordAnswered(o) \/ RecordFirst(o) \/ Abort(o)
  PROVE  IInv'
<1> USE InvFacts
<1>1. Elsewhere /\ UNCHANGED <<sent, completed, failed>>
  BY DEF RecordAnswered, RecordFirst, Abort, Elsewhere, client
<1>2. /\ UNCHANGED <<step, restarts, base, phase>>
      /\ phase = "loading" =>
           completed + failed + unseen + (busy[step] - answered[step]) <= sent
  BY <1>1 DEF IInv, FlowInv, Elsewhere, ladder
<1>3. Moves(served, served, o, 0) /\ Moves(answered, answered, o, 0)
  BY NothingMoves
<1>4. /\ busy[o] \in Nat /\ answered[o] \in Nat /\ served[o] \in Nat
      /\ answered[o] <= busy[o]
  BY DEF IInv, TypeOK
<1>5. busy[o] > 0 /\ Moves(busy, busy', o, -1) /\ busy'[o] = busy[o] - 1
  <2>1. busy[o] + (-1) \in Nat /\ busy[o] > 0 /\ busy' = Move(busy, o, -1)
    BY <1>4 DEF RecordAnswered, RecordFirst, Abort
  <2>2. QED
    BY <1>4, <2>1, MoveMoves DEF Moves
<1>6. PICK n \in {0, 1} : Moves(served, served', o, n)
  BY <1>3, <1>4, MoveMoves DEF RecordAnswered, RecordFirst, Abort
<1>7. WindowInv'
  BY <1>1, <1>2, <1>5, <1>6, WindowMoves
<1>8. step # o => busy'[step] = busy[step] /\ answered'[step] = answered[step]
  BY <1>5 DEF RecordAnswered, RecordFirst, Abort, Move
<1>9. CASE RecordAnswered(o)
  <2>1. /\ Moves(answered, answered', o, -1) /\ answered'[o] = answered[o] - 1
        /\ UNCHANGED client
    <3>1. answered[o] + (-1) \in Nat /\ answered' = Move(answered, o, -1) /\ UNCHANGED client
      BY <1>4, <1>9 DEF RecordAnswered
    <3>2. QED
      BY <1>4, <3>1, MoveMoves DEF Moves
  <2>2. /\ answered'[o] <= busy'[o] /\ unseen' = unseen
        /\ busy'[step] - answered'[step] = busy[step] - answered[step]
    BY <1>4, <1>5, <1>8, <2>1 DEF client
  <2>3. QED
    BY <1>1, <1>2, <1>5, <1>6, <1>7, <2>1, <2>2, ElsewhereKeeps
<1>10. CASE RecordFirst(o)
  <2>1. UNCHANGED answered /\ answered[o] < busy[o]
    BY <1>10 DEF RecordFirst
  <2>2. unseen' = IF o = step /\ phase = "loading" THEN unseen + 1 ELSE unseen
    BY <1>10 DEF RecordFirst
  <2>3. answered'[o] <= busy'[o] /\ (phase # "loading" => UNCHANGED unseen)
    BY <1>4, <1>5, <2>1, <2>2
  <2>4. /\ unseen' \in Nat /\ completed' + failed' + unseen' <= sent'
        /\ phase = "loading" =>
             completed' + failed' + unseen' + (busy'[step] - answered'[step]) <= sent'
    <3>1. CASE o = step /\ phase = "loading"
      BY <1>1, <1>2, <1>5, <2>1, <2>2, <3>1
    <3>2. CASE ~ (o = step /\ phase = "loading")
      BY <1>1, <1>2, <1>8, <2>1, <2>2, <3>2
    <3>3. QED
      BY <3>1, <3>2
  <2>5. QED
    BY <1>1, <1>2, <1>3, <1>5, <1>6, <1>7, <2>1, <2>3, <2>4, ElsewhereKeeps
<1>11. CASE Abort(o)
  <2>1. UNCHANGED answered /\ UNCHANGED client /\ answered[o] < busy[o]
        /\ (o < step \/ phase # "loading")
    BY <1>11 DEF Abort
  <2>2. answered'[o] <= busy'[o] /\ unseen' = unseen
    BY <1>4, <1>5, <2>1 DEF client
  <2>3. phase = "loading" =>
          completed' + failed' + unseen' + (busy'[step] - answered'[step]) <= sent'
    <3>1. phase = "loading" => step # o
      BY <2>1, LadderIsFinite
    <3>2. QED
      BY <1>1, <1>2, <1>8, <2>1, <2>2, <3>1
  <2>4. QED
    BY <1>1, <1>2, <1>3, <1>5, <1>6, <1>7, <2>1, <2>2, <2>3, ElsewhereKeeps
<1>12. QED
  BY <1>9, <1>10, <1>11

\* A restart empties the engine: the requests in flight fail, and the histogram
\* counts none of those that were sent.
LEMMA RestartKeepsIInv ==
  ASSUME IInv, Restart
  PROVE  IInv'
<1> USE InvFacts
<1>1. /\ UNCHANGED <<step, unhealthy, rows, phase, sent, completed, unseen, base>>
      /\ busy' = [o \in Origins |-> 0] /\ answered' = busy' /\ served' = busy'
      /\ restarts' = restarts + 1 /\ restarts < MaxRestarts
      /\ failed' = IF phase = "loading" THEN sent - completed - unseen ELSE failed
  BY DEF Restart, ladder
<1>2. /\ busy' \in [Origins -> Nat] /\ answered' \in [Origins -> Nat]
      /\ served' \in [Origins -> Nat] /\ step \in Origins
      /\ \A o \in Origins : busy'[o] = 0 /\ answered'[o] = 0 /\ served'[o] = 0
  BY <1>1
<1>3. Total(busy') = 0 /\ Total(served') = 0
  BY <1>2, TotalOfCounts
<1>4. /\ failed' \in Nat /\ completed' + failed' + unseen' <= sent'
      /\ phase = "loading" => completed' + failed' + unseen' = sent'
  BY <1>1
<1>5. restarts' \in 0..MaxRestarts
  BY <1>1, NumbersNatural
<1>6. TypeOK'
  BY <1>1, <1>2, <1>4, <1>5 DEF IInv, TypeOK
<1>7. FlowInv'
  <2>1. phase \in Waiting => UNCHANGED failed
    BY <1>1 DEF Waiting
  <2>2. busy'[step] - answered'[step] = 0
    BY <1>2
  <2>3. phase' = "loading" =>
          completed' + failed' + unseen' + (busy'[step'] - answered'[step']) <= sent'
    BY <1>1, <1>4, <2>2
  <2>4. QED
    BY <1>1, <1>2, <2>1, <2>3 DEF IInv, FlowInv
<1>8. WindowInv'
  <2>1. base \in {NONE} \cup Snapshots
    BY DEF IInv, WindowInv
  <2> SUFFICES ASSUME phase \in Measuring, step \in Steps, base.ok
               PROVE  (/\ base.count = base.own + base.foreign /\ base.run <= restarts
                       /\ IF base.run = restarts THEN Unrestarted
                          ELSE Total(served) + Total(busy) <= sent)'
    BY <1>1, <2>1 DEF WindowInv
  <2>2. base.count = base.own + base.foreign /\ base.run <= restarts
    BY DEF IInv, WindowInv
  <2>3. base.run \in Nat
    <3>1. base # NONE
      BY DEF NONE
    <3>2. QED
      BY <2>1, <3>1 DEF Snapshots
  <2>4. base.run <= restarts' /\ base.run # restarts'
    BY <1>1, <2>2, <2>3
  <2>5. Total(served') + Total(busy') <= sent'
    BY <1>1, <1>3
  <2>6. QED
    BY <1>1, <2>2, <2>4, <2>5
<1>9. LadderInv'
  BY <1>1 DEF IInv, LadderInv
<1>10. QED
  BY <1>1, <1>6, <1>7, <1>8, <1>9, RowsStay DEF IInv

------------------------------------------------------------------------------
(* The sweep. *)

\* The load is over; a warm-up is forgotten before the first step.
LEMMA LoadEndsKeepsIInv ==
  ASSUME IInv, LoadEnds
  PROVE  IInv'
<1> USE InvFacts
<1>1. /\ phase = "loading" /\ unseen' = 0
      /\ UNCHANGED <<unhealthy, rows, busy, answered, served, restarts, base>>
  BY DEF LoadEnds, engine
<1>2. CASE step = 0
  <2>1. step' = 1 /\ phase' = "settling" /\ sent' = 0 /\ completed' = 0 /\ failed' = 0
    BY <1>2 DEF LoadEnds
  <2>2. 1 \in Steps /\ 1 \in Origins /\ Scheduled(1) \in Nat /\ 1 \in 0..Len(Rates)
    BY LadderIsFinite, SchedulesAreFinite
  <2>3. TypeOK'
    <3>1. /\ step' \in 0..Len(Rates) /\ sent' <= Scheduled(step')
          /\ completed' + failed' + unseen' <= sent'
      BY <1>1, <2>1, <2>2
    <3>2. {sent', completed', failed', unseen', unhealthy'} \subseteq Nat
      BY <1>1, <2>1 DEF IInv, TypeOK
    <3>3. QED
      BY <1>1, <2>1, <3>1, <3>2 DEF IInv, TypeOK
  <2>4. \A o \in Origins : o > 1 \/ o = 1 => busy[o] = 0
    BY <1>2, LadderIsFinite DEF IInv, FlowInv
  <2>5. FlowInv'
    BY <1>1, <2>1, <2>2, <2>4 DEF FlowInv, Waiting
  <2>6. WindowInv'
    BY <1>1, <2>1 DEF IInv, WindowInv, Measuring
  <2>7. LadderInv'
    BY <1>1, <1>2, <2>1 DEF IInv, LadderInv
  <2>8. QED
    BY <1>1, <2>3, <2>5, <2>6, <2>7, RowsStay DEF IInv
<1>3. CASE step # 0
  <2>1. phase' = "sampling" /\ UNCHANGED <<step, sent, completed, failed>>
    BY <1>3 DEF LoadEnds
  <2>2. step \in Steps
    BY <1>3, LadderIsFinite
  <2>3. TypeOK'
    <3>1. completed' + failed' + unseen' <= sent' /\ sent' <= Scheduled(step')
      BY <1>1, <2>1 DEF IInv, TypeOK
    <3>2. {sent', completed', failed', unseen', unhealthy'} \subseteq Nat
      BY <1>1, <2>1 DEF IInv, TypeOK
    <3>3. step' \in 0..Len(Rates) /\ rows' \in Seq(Row)
      BY <1>1, <2>1 DEF IInv, TypeOK
    <3>4. /\ busy' \in [Origins -> Nat] /\ answered' \in [Origins -> Nat]
          /\ \A o \in Origins : answered'[o] <= busy'[o]
          /\ served' \in [Origins -> Nat] /\ restarts' \in 0..MaxRestarts
      BY <1>1 DEF IInv, TypeOK
    <3>5. QED
      BY <2>1, <3>1, <3>2, <3>3, <3>4 DEF TypeOK
  <2>4. FlowInv'
    BY <1>1, <2>1, <2>2 DEF IInv, FlowInv, Waiting
  <2>5. WindowInv'
    BY <1>1, <2>1 DEF IInv, WindowInv, Measuring, Unrestarted
  <2>6. LadderInv'
    BY <1>1, <1>3, <2>1 DEF IInv, LadderInv
  <2>7. QED
    BY <1>1, <2>3, <2>4, <2>5, <2>6, RowsStay DEF IInv
<1>4. QED
  BY <1>2, <1>3

\* The waits before a step and after its load touch nothing but the phase.
LEMMA WaitsKeepIInv ==
  ASSUME IInv, Settled \/ SamplerEnds
  PROVE  IInv'
<1>1. /\ UNCHANGED <<step, unhealthy, rows, sent, completed, failed, unseen>>
      /\ UNCHANGED <<busy, answered, served, restarts, base>>
      /\ \/ phase = "settling" /\ phase' = "baselining"
         \/ phase = "sampling" /\ phase' = "closing"
  BY DEF Settled, SettleEnds, SamplerEnds, ladder, client, engine
<1>2. TypeOK'
  BY <1>1 DEF IInv, TypeOK
<1>3. FlowInv'
  BY <1>1 DEF IInv, FlowInv, Waiting
<1>4. WindowInv'
  BY <1>1 DEF IInv, WindowInv, Measuring, Unrestarted
<1>5. LadderInv'
  BY <1>1 DEF IInv, LadderInv
<1>6. QED
  BY <1>1, <1>2, <1>3, <1>4, <1>5, RowsStay DEF IInv

\* A scrape reads natural numbers.
LEMMA SnapshotIsOne ==
  ASSUME IInv
  PROVE  /\ Snapshot \in Snapshots
         /\ Snapshot.count = Snapshot.own + Snapshot.foreign
<1>1. /\ Total(busy) \in Nat /\ Total(served) \in Nat /\ served[step] \in Nat
      /\ restarts \in Nat
  BY InvFacts
<1>2. served[step] <= Total(served)
  BY InvFacts, TotalOfCounts
<1>3. Total(served) - served[step] \in Nat
        /\ Total(served) = served[step] + (Total(served) - served[step])
  BY <1>1, <1>2
<1>4. QED
  BY <1>1, <1>3 DEF Snapshot, Snapshots

\* The window of a step opens.
LEMMA BaselineKeepsIInv ==
  ASSUME IInv, Baseline
  PROVE  IInv'
<1> USE InvFacts
<1>1. /\ UNCHANGED <<step, unhealthy, rows, sent, completed, failed, unseen>>
      /\ UNCHANGED <<busy, answered, served, restarts>>
      /\ phase = "baselining" /\ phase' = "loading" /\ base' \in {NONE, Snapshot}
  BY DEF Baseline, ladder, client, engine
<1>2. /\ step \in Steps /\ sent = 0 /\ completed = 0 /\ failed = 0 /\ unseen = 0
      /\ busy[step] = 0
  BY <1>1 DEF IInv, FlowInv, Waiting
<1>3. TypeOK'
  BY <1>1 DEF IInv, TypeOK
<1>4. FlowInv'
  BY <1>1, <1>2 DEF IInv, FlowInv, Waiting
<1>5. WindowInv'
  <2>1. base' \in {NONE} \cup Snapshots
    BY <1>1, SnapshotIsOne
  <2> SUFFICES ASSUME base'.ok
               PROVE  (/\ base.count = base.own + base.foreign /\ base.run <= restarts
                       /\ IF base.run = restarts THEN Unrestarted
                          ELSE Total(served) + Total(busy) <= sent)'
    BY <2>1 DEF WindowInv
  <2>2. base' = Snapshot
    <3>1. base' # NONE
      BY DEF NONE
    <3>2. QED
      BY <1>1, <3>1
  <2>3. /\ base'.count = base'.own + base'.foreign /\ base'.run = restarts
        /\ base'.busy = Total(busy) /\ base'.own = served[step]
        /\ base'.foreign = Total(served) - served[step]
    BY <2>2, SnapshotIsOne DEF Snapshot
  <2>4. Total(busy) = 0 => \A o \in Origins : busy[o] = 0
    BY TotalOfCounts
  <2>5. (served[step] - served[step]) + busy[step] <= sent
    BY <1>2
  <2>6. Unrestarted'
    BY <1>1, <2>3, <2>4, <2>5 DEF Unrestarted
  <2>7. QED
    BY <1>1, <2>3, <2>6
<1>6. LadderInv'
  BY <1>1 DEF IInv, LadderInv
<1>7. QED
  BY <1>1, <1>3, <1>4, <1>5, <1>6, RowsStay DEF IInv

\* What the two properties of the rows ask of one row.
RowIsTheStep(row) ==
  row.count # -1 =>
    IF row.restarted THEN row.count <= row.sent
    ELSE row.baseline = 0 => row.foreign = 0 /\ row.count = row.own /\ row.own <= row.sent
RowCovers(row) ==
  row.count # -1 /\ row.baseline = 0 /\ ~row.restarted /\ row.timely
    => row.own >= row.completed

\* The row of a step that ends, from its two scrapes.
RowOf(final, timely, healthy) ==
  [step |-> step, sent |-> sent, completed |-> completed, healthy |-> healthy,
   baseline |-> IF base.ok THEN base.busy ELSE -1,
   count |-> Delta(base, final),
   timely |-> timely,
   own |-> IF base.ok /\ final.ok THEN final.own - base.own ELSE 0,
   foreign |-> IF base.ok /\ final.ok THEN final.foreign - base.foreign ELSE 0,
   restarted |-> base.ok /\ final.ok /\ final.run # base.run]

\* A count in the row is the difference of two scrapes that succeeded; when the
\* engine was idle at the first and did not restart, all of it is this step's.
LEMMA RowIsTrue ==
  ASSUME IInv, phase = "closing", NEW final \in {NONE, Snapshot},
         NEW timely \in BOOLEAN, NEW healthy \in BOOLEAN, timely => CaughtUp(final)
  PROVE  LET row == RowOf(final, timely, healthy) IN
           row \in Row /\ RowIsTheStep(row) /\ RowCovers(row)
<1> USE InvFacts
<1> DEFINE row == RowOf(final, timely, healthy)
<1>1. step \in Steps /\ base \in {NONE} \cup Snapshots /\ final \in {NONE} \cup Snapshots
  BY SnapshotIsOne DEF IInv, FlowInv, WindowInv
<1>2. base.ok \in BOOLEAN /\ final.ok \in BOOLEAN
  <2>1. NONE.ok = FALSE /\ \A b \in Snapshots : b.ok = TRUE
    BY DEF NONE, Snapshots
  <2>2. QED
    BY <1>1, <2>1
<1>3. /\ base.ok => base \in Snapshots
      /\ final.ok => final = Snapshot /\ final \in Snapshots
  BY <1>1, SnapshotIsOne DEF NONE
<1>4. /\ base.ok => /\ base.busy \in Nat /\ base.count \in Nat /\ base.own \in Nat
                    /\ base.foreign \in Nat /\ base.run \in Nat
      /\ final.ok => /\ final.busy \in Nat /\ final.count \in Nat /\ final.own \in Nat
                     /\ final.foreign \in Nat /\ final.run \in Nat
  BY <1>3 DEF Snapshots
<1>5. /\ row.step = step /\ row.sent = sent /\ row.completed = completed
      /\ row.healthy = healthy /\ row.count = Delta(base, final) /\ row.timely = timely
      /\ row.baseline = IF base.ok THEN base.busy ELSE -1
      /\ row.own = IF base.ok /\ final.ok THEN final.own - base.own ELSE 0
      /\ row.foreign = IF base.ok /\ final.ok THEN final.foreign - base.foreign ELSE 0
      /\ row.restarted = (base.ok /\ final.ok /\ final.run # base.run)
  BY DEF RowOf
<1>6. row \in Row
  <2>1. Delta(base, final) \in Int
    BY <1>4 DEF Delta
  <2>2. /\ (IF base.ok THEN base.busy ELSE -1) \in Int
        /\ (IF base.ok /\ final.ok THEN final.own - base.own ELSE 0) \in Int
        /\ (IF base.ok /\ final.ok THEN final.foreign - base.foreign ELSE 0) \in Int
        /\ (base.ok /\ final.ok /\ final.run # base.run) \in BOOLEAN
    BY <1>2, <1>4
  <2>3. QED
    BY <1>1, <2>1, <2>2 DEF Row, RowOf
<1> HIDE DEF row
<1> SUFFICES ASSUME row.count # -1 PROVE RowIsTheStep(row) /\ RowCovers(row)
  BY <1>6 DEF row, RowIsTheStep, RowCovers
<1>7. /\ base.ok /\ final.ok /\ final = Snapshot
      /\ row.count = Total(served) - base.count /\ row.count >= 0
  <2>1. base.ok /\ final.ok
    BY <1>5 DEF Delta
  <2>2. final = Snapshot /\ final.count = Total(served)
    BY <1>3, <2>1 DEF Snapshot
  <2>3. row.count = Total(served) - base.count /\ Total(served) >= base.count
    BY <1>5, <2>2 DEF Delta
  <2>4. QED
    BY <1>4, <2>1, <2>2, <2>3
<1>8. /\ final.run = restarts /\ final.own = served[step]
      /\ final.foreign = Total(served) - served[step]
  BY <1>7 DEF Snapshot
<1>9. /\ base.count = base.own + base.foreign
      /\ IF base.run = restarts THEN Unrestarted ELSE Total(served) + Total(busy) <= sent
  BY <1>1, <1>7 DEF IInv, WindowInv, Measuring
<1>10. CASE row.restarted
  <2>1. Total(served) + Total(busy) <= sent
    BY <1>5, <1>8, <1>9, <1>10
  <2>2. row.count <= row.sent
    BY <1>4, <1>5, <1>7, <2>1
  <2>3. QED
    BY <1>10, <2>2 DEF RowIsTheStep, RowCovers
<1>11. CASE ~row.restarted
  <2> SUFFICES ASSUME row.baseline = 0
               PROVE  /\ row.foreign = 0 /\ row.count = row.own /\ row.own <= row.sent
                      /\ row.timely => row.own >= row.completed
    BY <1>11 DEF RowIsTheStep, RowCovers
  <2>1. Unrestarted /\ base.busy = 0
    BY <1>5, <1>7, <1>8, <1>9, <1>11
  <2>2. /\ Total(served) - served[step] = base.foreign
        /\ (served[step] - base.own) + busy[step] <= sent
    BY <2>1 DEF Unrestarted
  <2>3. /\ row.own = served[step] - base.own
        /\ row.foreign = (Total(served) - served[step]) - base.foreign
    BY <1>5, <1>7, <1>8
  <2>4. row.foreign = 0 /\ row.count = row.own /\ row.own <= row.sent
    BY <1>4, <1>5, <1>7, <1>9, <2>2, <2>3
  <2>5. row.timely => row.count >= completed
    BY <1>5, <1>7 DEF CaughtUp
  <2>6. QED
    BY <1>5, <2>4, <2>5
<1>12. QED
  BY <1>5, <1>10, <1>11

\* One more element at the end leaves the others where they are.
LEMMA AppendedRow ==
  ASSUME NEW T, NEW s \in Seq(T), NEW e \in T
  PROVE  LET t == Append(s, e)
         IN  /\ t \in Seq(T) /\ Len(t) = Len(s) + 1 /\ t[Len(s) + 1] = e
             /\ \A k \in DOMAIN t : (k \in DOMAIN s /\ t[k] = s[k]) \/ t[k] = e
  OBVIOUS

\* One more row; the ladder goes on, or ends after the last rate or an unhealthy row.
LEMMA CloseKeepsIInv ==
  ASSUME IInv, Close
  PROVE  IInv'
<1> USE InvFacts
<1>1. PICK final \in {NONE, Snapshot}, timely \in BOOLEAN, healthy \in {FALSE, MayBeHealthy} :
        (timely => CaughtUp(final)) /\ EndStep(final, timely, healthy)
  BY DEF Close
<1>2. phase = "closing" /\ step \in Steps /\ healthy \in BOOLEAN
  BY DEF Close, IInv, FlowInv, MayBeHealthy
<1> DEFINE row == RowOf(final, timely, healthy)
           n == IF healthy THEN 0 ELSE unhealthy + 1
<1>3. row \in Row /\ RowIsTheStep(row) /\ RowCovers(row) /\ row.healthy = healthy
  BY <1>1, <1>2, RowIsTrue DEF RowOf
<1>4. /\ rows' = Append(rows, row) /\ unhealthy' = n
      /\ sent' = 0 /\ completed' = 0 /\ failed' = 0
      /\ UNCHANGED <<unseen, busy, answered, served, restarts, base>>
      /\ IF step = Len(Rates) \/ StopsLadder(n)
         THEN phase' = "done" /\ UNCHANGED step
         ELSE phase' = "settling" /\ step' = step + 1
  BY <1>1 DEF EndStep, RowOf, engine
<1>5. rows \in Seq(Row) /\ unhealthy \in Nat /\ Len(rows) = step - 1
  BY <1>2, LadderIsFinite DEF IInv, TypeOK, LadderInv
<1>6. n \in Nat /\ (n > 0 => ~healthy)
  BY <1>2, <1>5
<1> HIDE DEF row, n
<1>7. /\ rows' \in Seq(Row) /\ Len(rows') = step /\ rows'[step] = row
      /\ \A k \in DOMAIN rows' : (k \in DOMAIN rows /\ rows'[k] = rows[k]) \/ rows'[k] = row
  <2>1. rows' = Append(rows, row) /\ rows \in Seq(Row) /\ row \in Row
    BY <1>3, <1>4, <1>5
  <2>2. Len(rows) + 1 = step
    BY <1>2, <1>5, LadderIsFinite
  <2>3. QED
    BY <2>1, <2>2, AppendedRow
<1>8. WindowIsTheStep' /\ CountCoversTheClient'
  <2>1. WindowIsTheStep <=> \A k \in DOMAIN rows : RowIsTheStep(rows[k])
    BY DEF WindowIsTheStep, RowIsTheStep
  <2>2. CountCoversTheClient <=> \A k \in DOMAIN rows : RowCovers(rows[k])
    BY DEF CountCoversTheClient, RowCovers
  <2>3. \A k \in DOMAIN rows' : RowIsTheStep(rows'[k]) /\ RowCovers(rows'[k])
    BY <1>3, <1>7, <2>1, <2>2 DEF IInv
  <2>4. QED
    BY <2>3 DEF WindowIsTheStep, CountCoversTheClient, RowIsTheStep, RowCovers
<1>9. /\ unseen' = 0 /\ unseen' \in Nat /\ unhealthy' \in Nat
      /\ \A o \in Origins : o > step => busy[o] = 0
  BY <1>2, <1>4, <1>6 DEF IInv, FlowInv
<1>10. /\ unhealthy' > 0 => Len(rows') > 0 /\ ~ rows'[Len(rows')].healthy
  BY <1>2, <1>3, <1>4, <1>6, <1>7, LadderIsFinite
<1>11. CASE step = Len(Rates) \/ StopsLadder(n)
  <2>1. phase' = "done" /\ UNCHANGED step
    BY <1>4, <1>11
  <2>2. step = Len(Rates) \/ n > 0
    <3>1. StopAfter \in Nat
      BY NumbersNatural
    <3>2. QED
      BY <1>6, <1>11, <3>1 DEF StopsLadder
  <2>3. TypeOK'
    <3>1. {sent', completed', failed', unseen', unhealthy'} \subseteq Nat
      BY <1>4, <1>9
    <3>2. completed' + failed' + unseen' <= sent' /\ sent' <= Scheduled(step')
      BY <1>4, <1>9, <2>1
    <3>3. QED
      BY <1>4, <1>7, <2>1, <3>1, <3>2 DEF IInv, TypeOK
  <2>4. FlowInv'
    BY <1>2, <1>4, <1>9, <2>1 DEF FlowInv, Waiting
  <2>5. WindowInv'
    BY <1>4, <2>1 DEF IInv, WindowInv, Measuring
  <2>6. LadderInv'
    BY <1>4, <1>7, <1>10, <2>1, <2>2 DEF LadderInv
  <2>7. QED
    BY <1>8, <2>3, <2>4, <2>5, <2>6 DEF IInv
<1>12. CASE ~ (step = Len(Rates) \/ StopsLadder(n))
  <2>1. phase' = "settling" /\ step' = step + 1
    BY <1>4, <1>12
  <2>2. /\ step' \in Steps /\ step' \in Origins /\ step' \in 0..Len(Rates) /\ step \in Nat
        /\ step' # 0 /\ step' - 1 = step
    BY <1>2, <1>12, <2>1, LadderIsFinite
  <2>3. Scheduled(step') \in Nat
    BY <2>2, SchedulesAreFinite
  <2>4. TypeOK'
    <3>1. {sent', completed', failed', unseen', unhealthy'} \subseteq Nat
      BY <1>4, <1>9
    <3>2. completed' + failed' + unseen' <= sent' /\ sent' <= Scheduled(step')
      BY <1>4, <1>9, <2>3
    <3>3. QED
      BY <1>4, <1>7, <2>1, <2>2, <3>1, <3>2 DEF IInv, TypeOK
  <2>5. FlowInv'
    <3>1. \A o \in Origins : o > step' \/ o = step' => busy'[o] = 0
      BY <1>4, <1>9, <2>1, <2>2, LadderIsFinite
    <3>2. QED
      BY <1>4, <1>9, <2>1, <2>2, <3>1 DEF FlowInv, Waiting
  <2>6. WindowInv'
    BY <1>4, <2>1 DEF IInv, WindowInv, Measuring
  <2>7. LadderInv'
    BY <1>4, <1>7, <1>10, <2>1, <2>2 DEF LadderInv
  <2>8. QED
    BY <1>8, <2>4, <2>5, <2>6, <2>7 DEF IInv
<1>13. QED
  BY <1>11, <1>12

LEMMA NextKeepsIInv == IInv /\ [Next]_vars => IInv'
<1> SUFFICES ASSUME IInv, [Next]_vars PROVE IInv'
  OBVIOUS
<1>1. CASE Requests
  BY <1>1, RequestsKeepIInv
<1>2. CASE Records
  BY <1>2, RecordsKeepIInv DEF Records
<1>3. CASE Restart
  BY <1>3, RestartKeepsIInv
<1>4. CASE Sweeps
  BY <1>4, LoadEndsKeepsIInv, WaitsKeepIInv, BaselineKeepsIInv, CloseKeepsIInv DEF Sweeps
<1>5. CASE Done \/ UNCHANGED vars
  BY <1>5 DEF Done, vars, ladder, client, engine, IInv, TypeOK, FlowInv, WindowInv, Unrestarted,
     LadderInv, WindowIsTheStep, CountCoversTheClient
<1>6. QED
  BY <1>1, <1>2, <1>3, <1>4, <1>5 DEF Next

LEMMA Inductive == Spec => []IInv
  BY InitHolds, NextKeepsIInv, PTL DEF Spec

\* The sweep's counts and gauges keep their types through every step, restart and
\* early stop: no step's requests are answered, failed or lost more often than sent.
THEOREM SweepTypes == Spec => []TypeOK
<1>1. IInv => TypeOK
  BY DEF IInv
<1>2. QED
  BY <1>1, Inductive, PTL

\* For every ladder, a row's engine-side count is about its step: after an idle
\* baseline and without a restart it counts this step's requests and nothing else;
\* a restart the deltas do not notice never makes it claim more than was sent.
THEOREM RowsAreTheirSteps == Spec => []WindowIsTheStep
<1>1. IInv => WindowIsTheStep
  BY DEF IInv
<1>2. QED
  BY <1>1, Inductive, PTL

\* ... and misses none of the requests the client saw finish, unless the closing
\* scrape ran into its timeout.
THEOREM RowsCoverTheClient == Spec => []CountCoversTheClient
<1>1. IInv => CountCoversTheClient
  BY DEF IInv
<1>2. QED
  BY <1>1, Inductive, PTL

------------------------------------------------------------------------------
(* Stopping early. *)

\* The offered rates rise with the requested ones.  They need not: a rate over the
\* span of the arrivals that were drawn may fall where the next draw is far away.
OfferedAscends == \A s, t \in Steps : s < t => ~ LowerRate(t, s)

\* A step whose offered rate is lower than another's has not the higher one.
LEMMA RatesAreOrdered ==
  ASSUME NEW s \in Steps, NEW t \in Steps, LowerRate(s, t)
  PROVE  ~ LowerRate(t, s)
<1>1. \A u \in Steps : Offered(u)[1] \in Int /\ Offered(u)[2] \in Int
  <2> TAKE u \in Steps
  <2>1. Scheduled(u) \in Nat /\ Rates[u] \in Nat
    BY SchedulesAreFinite, RatesAscend DEF Origins, Steps
  <2>2. ASSUME Scheduled(u) # 0 PROVE Draws[Scheduled(u)] \in Int
    <3>1. Scheduled(u) = Cardinality(Arrivals(Rates[u]))
      BY LadderIsFinite DEF Scheduled
    <3>2. Len(Draws) \in Nat /\ DOMAIN Draws = 1..Len(Draws)
      BY DrawsAscend
    <3>3. Scheduled(u) <= Len(Draws)
      <4>1. IsFiniteSet(1..Len(Draws)) /\ Cardinality(1..Len(Draws)) = Len(Draws)
        <5>1. 1 \in Int /\ Len(Draws) \in Int
          BY <3>2
        <5>2. /\ IsFiniteSet(1..Len(Draws))
              /\ Cardinality(1..Len(Draws)) = IF 1 > Len(Draws) THEN 0 ELSE Len(Draws) - 1 + 1
          BY <5>1, FS_Interval, Zenon
        <5>3. QED
          BY <3>2, <5>2
      <4>2. Arrivals(Rates[u]) \subseteq 1..Len(Draws)
        BY <3>2 DEF Arrivals
      <4>3. QED
        BY <3>1, <4>1, <4>2, FS_Subset
    <3>4. Scheduled(u) \in DOMAIN Draws
      BY <2>1, <2>2, <3>2, <3>3
    <3>5. QED
      BY <3>4, DrawsAscend
  <2>3. QED
    BY <2>1, <2>2 DEF Offered
<1>2. QED
  BY <1>1 DEF LowerRate

\* As long as the offered rates rise with the requested ones, stopping early cannot
\* change the answer: whatever the skipped steps would have been, the sustainable
\* rate over the rows is that of the whole ladder.
THEOREM EarlyStopIsSafeOnRisingRates ==
  OfferedAscends => (Spec => []EarlyStopKeepsTheAnswer)
<1> SUFFICES ASSUME OfferedAscends PROVE Spec => []EarlyStopKeepsTheAnswer
  OBVIOUS
<1>1. IInv => EarlyStopKeepsTheAnswer
  <2> SUFFICES ASSUME IInv, phase = "done", NEW h \in [Steps -> BOOLEAN],
                      \A k \in DOMAIN rows : h[k] = rows[k].healthy
               PROVE  MaxSustainable(DOMAIN rows, h) = MaxSustainable(Steps, h)
    BY DEF EarlyStopKeepsTheAnswer
  <2>1. /\ step \in Steps /\ DOMAIN rows = 1..step /\ Len(rows) = step
        /\ step = Len(Rates) \/ ~ rows[step].healthy
    BY DEF IInv, FlowInv, LadderInv, TypeOK
  <2>2. CASE step = Len(Rates)
    BY <2>1, <2>2, LadderIsFinite
  <2>3. CASE step # Len(Rates)
    <3> DEFINE Healthy(T) == {t \in T : h[t] /\ \A s \in T : Before(s, t) => h[s]}
    <3>1. /\ ~ h[step] /\ 1..step \subseteq Steps /\ step \in 1..step
          /\ \A t \in Steps : t \in 1..step <=> ~ (step < t)
          /\ \A t \in Steps : t \in Int
      BY <2>1, <2>3, LadderIsFinite
    <3>2. ASSUME NEW s \in Steps, NEW t \in Steps, s < t
          PROVE  Before(s, t) /\ ~ Before(t, s)
      <4>1. ~ LowerRate(t, s) /\ ~ (t < s)
        BY <3>1, <3>2 DEF OfferedAscends
      <4>2. QED
        BY <3>2, <4>1 DEF Before
    <3>3. Healthy(1..step) = Healthy(Steps)
      <4>1. ASSUME NEW t \in Healthy(1..step) PROVE t \in Healthy(Steps)
        <5>1. \A s \in Steps : Before(s, t) => s \in 1..step
          <6> TAKE s \in Steps
          <6>1. t \in Steps /\ t \in 1..step
            BY <3>1
          <6>2. step < s => t < s
            BY <2>1, <3>1, <6>1, LadderIsFinite
          <6>3. QED
            BY <3>1, <3>2, <6>1, <6>2
        <5>2. QED
          BY <3>1, <5>1
      <4>2. ASSUME NEW t \in Healthy(Steps) PROVE t \in Healthy(1..step)
        <5>1. ~ (step < t)
          BY <2>1, <3>1, <3>2
        <5>2. QED
          BY <3>1, <5>1
      <4>3. QED
        BY <4>1, <4>2
    <3>4. \A T : MaxSustainable(T, h) = IF Healthy(T) = {} THEN 0
                   ELSE CHOOSE t \in Healthy(T) : \A s \in Healthy(T) : s = t \/ Before(s, t)
      BY DEF MaxSustainable
    <3> HIDE DEF Healthy
    <3>5. QED
      BY <2>1, <3>3, <3>4
  <2>4. QED
    BY <2>2, <2>3
<1>2. QED
  BY <1>1, Inductive, PTL

=============================================================================
