---------------------------- MODULE Gateway_proofs ----------------------------
(***************************************************************************)
(* What Gateway promises for every set of requests, limit and bound.       *)
(*                                                                         *)
(* The invariant links the place a request is in to what admission knows   *)
(* of it.  It is inductive whatever the faults: a release() is made on     *)
(* behalf of a request at a place where it owns a slot.  With it, every    *)
(* release() of the gateway is the one Release(r) the controller expects,  *)
(* unless a body cannot be rendered, so that the gateway implements the    *)
(* controller's specification.                                             *)
(***************************************************************************)
EXTENDS Gateway, FiniteSetTheorems, SequenceTheorems, TLAPS

LinkInv ==
  /\ at \in [Requests -> Places]
  /\ call \in [Requests -> A!Calls]
  /\ SlotFollowsTheRequest

\* The one fact the preservation proofs need of a step: one request moves, to a
\* place that fits what becomes of its call.
LEMMA MoveKeepsLink ==
  ASSUME LinkInv,
         NEW r \in Requests, NEW place \in Places, NEW state \in A!Calls,
         at' = [at EXCEPT ![r] = place],
         call' = [call EXCEPT ![r] = state],
         state = "holding" <=> place \in SlotPlaces,
         state = "waiting" <=> place = "acquiring",
         place \in {"idle", "reading"} => state = "idle"
  PROVE  LinkInv'
<1>1. at' \in [Requests -> Places] /\ call' \in [Requests -> A!Calls]
  BY DEF LinkInv
<1>2. ASSUME NEW q \in Requests
      PROVE  /\ call'[q] = "holding" <=> at'[q] \in SlotPlaces
             /\ call'[q] = "waiting" <=> at'[q] = "acquiring"
             /\ at'[q] \in {"idle", "reading"} => call'[q] = "idle"
  <2>1. CASE q = r
    BY <2>1 DEF LinkInv
  <2>2. CASE q # r
    BY <2>2 DEF LinkInv, SlotFollowsTheRequest
  <2>3. QED
    BY <2>1, <2>2
<1>3. QED
  BY <1>1, <1>2 DEF LinkInv, SlotFollowsTheRequest

LEMMA StillKeepsLink ==
  ASSUME LinkInv, NEW r \in Requests, NEW place \in Places,
         at' = [at EXCEPT ![r] = place], UNCHANGED call,
         at[r] \in SlotPlaces <=> place \in SlotPlaces,
         at[r] = "acquiring" <=> place = "acquiring",
         place \in {"idle", "reading"} => at[r] \in {"idle", "reading"}
  PROVE  LinkInv'
<1>1. at' \in [Requests -> Places] /\ call' \in [Requests -> A!Calls]
  BY DEF LinkInv
<1>2. ASSUME NEW q \in Requests
      PROVE  /\ call'[q] = "holding" <=> at'[q] \in SlotPlaces
             /\ call'[q] = "waiting" <=> at'[q] = "acquiring"
             /\ at'[q] \in {"idle", "reading"} => call'[q] = "idle"
  <2>1. CASE q = r
    BY <2>1 DEF LinkInv, SlotFollowsTheRequest
  <2>2. CASE q # r
    BY <2>2 DEF LinkInv, SlotFollowsTheRequest
  <2>3. QED
    BY <2>1, <2>2
<1>3. QED
  BY <1>1, <1>2 DEF LinkInv, SlotFollowsTheRequest

\* A step that moves no request and settles no call.
LEMMA IdleKeepsLink ==
  ASSUME LinkInv, UNCHANGED <<at, call>>
  PROVE  LinkInv'
  BY DEF LinkInv, SlotFollowsTheRequest

\* The sets the side conditions above are decided in.
LEMMA PlacesAndCalls ==
  /\ {"reading", "acquiring", "forwarding", "opening", "draining", "relaying",
      "sending", "apologising", "unwinding", "abandoned", "orphaned", "done"}
       \subseteq Places
  /\ {"holding", "waiting", "refused", "cancelled", "returned"} \subseteq A!Calls
  BY DEF Places, A!Calls

\* Up to the upstream call, each request's call goes where its place goes.
LEMMA AdmissionKeepsLink ==
  ASSUME LinkInv, NEW r \in Requests,
         \/ Arrive(r) \/ RejectEarly(r) \/ Admit(r) \/ Refuse(r) \/ Queue(r)
         \/ QueueTimer(r) \/ CancelQueued(r) \/ Waits(r)
  PROVE  LinkInv'
<1> USE PlacesAndCalls DEF SlotPlaces
<1>1. CASE Arrive(r)
  BY <1>1, StillKeepsLink DEF Arrive, GoTo, admission
<1>2. CASE RejectEarly(r)
  BY <1>2, StillKeepsLink DEF RejectEarly, GoTo, admission
<1>3. CASE Admit(r)
  BY <1>3, MoveKeepsLink DEF Admit, Submit, GoTo, A!AcquireFree
<1>4. CASE Refuse(r)
  BY <1>4, MoveKeepsLink DEF Refuse, GoTo, A!AcquireRefused
<1>5. CASE Queue(r)
  BY <1>5, MoveKeepsLink DEF Queue, GoTo, A!AcquireQueued
<1>6. CASE QueueTimer(r)
  BY <1>6, IdleKeepsLink DEF QueueTimer, A!TimerFires, A!Interrupt
<1>7. CASE CancelQueued(r)
  BY <1>7, IdleKeepsLink DEF CancelQueued, A!CancelWaiter, A!Interrupt
<1>8. CASE AdmitLate(r)
  BY <1>8, MoveKeepsLink DEF AdmitLate, Submit, GoTo, A!ResumeAdmitted
<1>9. CASE GiveUp(r)
  BY <1>9, MoveKeepsLink DEF GiveUp, GoTo, A!ResumeInterrupted
<1>10. QED
  BY <1>1, <1>2, <1>3, <1>4, <1>5, <1>6, <1>7, <1>8, <1>9 DEF Waits

\* During the upstream call a request keeps its slot, or gives it up and is done.
LEMMA CallsKeepLink ==
  ASSUME LinkInv, NEW r \in Requests, Calls(r)
  PROVE  LinkInv'
<1> USE PlacesAndCalls DEF SlotPlaces
<1>1. CASE Connect(r)
  BY <1>1, IdleKeepsLink DEF Connect, admission
<1>2. CASE UpstreamFails(r) \/ ForwardAnswers(r) \/ RenderFails(r) \/ Drained(r) \/ Unhandled(r)
  <2>1. GoTo(r, "done") /\ call' = [call EXCEPT ![r] = "returned"]
    BY <1>2 DEF UpstreamFails, ForwardAnswers, RenderFails, Drained, Unhandled, Releases
  <2>2. QED
    BY <2>1, MoveKeepsLink DEF GoTo
<1>3. CASE StreamOpens(r)
  BY <1>3, StillKeepsLink DEF StreamOpens, GoTo, admission
<1>4. CASE StreamRefused(r)
  BY <1>4, StillKeepsLink DEF StreamRefused, GoTo, admission
<1>5. QED
  BY <1>1, <1>2, <1>3, <1>4 DEF Calls

\* A stream keeps its slot until wrapped()'s finally.
LEMMA RelaysKeepLink ==
  ASSUME LinkInv, NEW r \in Requests, Relays(r)
  PROVE  LinkInv'
<1> USE PlacesAndCalls DEF SlotPlaces
<1>1. CASE ChunkArrives(r)
  BY <1>1, StillKeepsLink DEF ChunkArrives, GoTo, admission
<1>2. CASE ChunkSent(r)
  BY <1>2, StillKeepsLink DEF ChunkSent, GoTo, admission
<1>3. CASE StreamFinishes(r)
  BY <1>3, StillKeepsLink DEF StreamFinishes, GoTo, admission
<1>4. CASE StreamBreaks(r)
  BY <1>4, StillKeepsLink DEF StreamBreaks, GoTo, admission
<1>5. CASE CutWhileReading(r)
  BY <1>5, StillKeepsLink DEF CutWhileReading, GoTo, admission
<1>6. CASE CutWhileSending(r)
  BY <1>6, StillKeepsLink DEF CutWhileSending, GoTo, admission
<1>7. CASE StreamEnds(r)
  BY <1>7, MoveKeepsLink DEF StreamEnds, EndStream, Releases, GoTo
<1>8. CASE Finalise(r)
  BY <1>8, MoveKeepsLink DEF Finalise, EndStream, Releases, GoTo
<1>9. CASE CloseOrphan(r)
  BY <1>9, StillKeepsLink DEF CloseOrphan, GoTo, admission
<1>10. QED
  BY <1>1, <1>2, <1>3, <1>4, <1>5, <1>6, <1>7, <1>8, <1>9 DEF Relays

LEMMA NextKeepsLink == LinkInv /\ [Next]_vars => LinkInv'
<1> SUFFICES ASSUME LinkInv, [Next]_vars PROVE LinkInv'
  OBVIOUS
<1>1. ASSUME NEW r \in Requests,
             \/ Arrive(r) \/ RejectEarly(r) \/ Admit(r) \/ Refuse(r) \/ Queue(r)
             \/ QueueTimer(r) \/ CancelQueued(r) \/ Progress(r)
      PROVE  LinkInv'
  BY <1>1, AdmissionKeepsLink, CallsKeepLink, RelaysKeepLink DEF Progress
<1>2. ASSUME NEW r \in Requests, HangUp(r) PROVE LinkInv'
  BY <1>2, IdleKeepsLink DEF HangUp, admission
<1>3. CASE ControlCall \/ ControlReturns \/ Finished \/ UNCHANGED vars
  BY <1>3, IdleKeepsLink DEF ControlCall, ControlReturns, Finished, vars, admission
<1>4. QED
  BY <1>1, <1>2, <1>3 DEF Next

LEMMA InitLink == Init => LinkInv
  BY DEF Init, A!Init, LinkInv, SlotFollowsTheRequest, Places, SlotPlaces, A!Calls

\* In every reachable state, under every fault, a request owns a slot exactly
\* while it is at one of the places where a slot is owed: neither the return of
\* the handler nor a hang-up, a broken stream or an exception separates them.
THEOREM SlotAlwaysFollows == Spec => []SlotFollowsTheRequest
<1>1. Init => LinkInv
  BY InitLink
<1>2. LinkInv /\ [Next]_vars => LinkInv'
  BY NextKeepsLink
<1>3. LinkInv => SlotFollowsTheRequest
  BY DEF LinkInv
<1>4. QED
  BY <1>1, <1>2, <1>3, PTL DEF Spec

------------------------------------------------------------------------------
(* The gateway implements the admission controller's specification. *)

\* A release() made where a slot is owed is the controller's Release(r).
LEMMA ReleasesAreRelease ==
  ASSUME LinkInv, NEW r \in Requests, at[r] \in SlotPlaces, Releases(r, 1)
  PROVE  A!Release(r)
<1>1. call[r] = "holding"
  BY DEF LinkInv, SlotFollowsTheRequest
<1>2. QED
  BY <1>1 DEF Releases, A!Release, A!settings

\* A step that does not touch admission is a stutter of the controller.
LEMMA OutsideIsStutter ==
  ASSUME UNCHANGED admission
  PROVE  UNCHANGED A!vars
  BY DEF admission, A!vars, A!settings, A!semaphore, A!counters

\* Before the upstream call, a request's step is one step of acquire(), or none.
LEMMA AdmissionMaps ==
  ASSUME NEW r \in Requests,
         \/ Arrive(r) \/ RejectEarly(r) \/ Admit(r) \/ Refuse(r) \/ Queue(r)
         \/ QueueTimer(r) \/ CancelQueued(r) \/ Waits(r)
  PROVE  A!Next \/ UNCHANGED A!vars
<1>1. CASE Arrive(r) \/ RejectEarly(r)
  BY <1>1, OutsideIsStutter DEF Arrive, RejectEarly
<1>2. CASE Admit(r) \/ Refuse(r) \/ Queue(r)
  BY <1>2 DEF Admit, Refuse, Queue, A!Next
<1>3. CASE QueueTimer(r) \/ CancelQueued(r)
  BY <1>3 DEF QueueTimer, CancelQueued, A!Next
<1>4. CASE Waits(r)
  BY <1>4 DEF Waits, AdmitLate, GiveUp, A!Next
<1>5. QED
  BY <1>1, <1>2, <1>3, <1>4

\* During the upstream call it is a stutter, or the one release() of the request.
LEMMA CallsMap ==
  ASSUME LinkInv, NEW r \in Requests, Calls(r), "unrenderable" \notin Faults
  PROVE  A!Next \/ UNCHANGED A!vars
<1>1. CASE Connect(r) \/ StreamOpens(r) \/ StreamRefused(r)
  BY <1>1, OutsideIsStutter DEF Connect, StreamOpens, StreamRefused
<1>2. CASE UpstreamFails(r) \/ ForwardAnswers(r) \/ Drained(r) \/ Unhandled(r)
  <2>1. at[r] \in SlotPlaces /\ Releases(r, 1)
    BY <1>2 DEF UpstreamFails, ForwardAnswers, Drained, Unhandled, SlotPlaces
  <2>2. QED
    BY <2>1, ReleasesAreRelease DEF A!Next
<1>3. ~RenderFails(r)
  BY DEF RenderFails
<1>4. QED
  BY <1>1, <1>2, <1>3 DEF Calls

\* A stream's release() is the one of the request that opened it.
LEMMA RelaysMap ==
  ASSUME LinkInv, NEW r \in Requests, Relays(r)
  PROVE  A!Next \/ UNCHANGED A!vars
<1>1. CASE ChunkArrives(r) \/ ChunkSent(r) \/ StreamFinishes(r) \/ StreamBreaks(r)
  BY <1>1, OutsideIsStutter DEF ChunkArrives, ChunkSent, StreamFinishes, StreamBreaks
<1>2. CASE CutWhileReading(r) \/ CutWhileSending(r) \/ CloseOrphan(r)
  BY <1>2, OutsideIsStutter DEF CutWhileReading, CutWhileSending, CloseOrphan
<1>3. CASE StreamEnds(r) \/ Finalise(r)
  <2>1. at[r] \in SlotPlaces /\ Releases(r, 1)
    BY <1>3 DEF StreamEnds, Finalise, EndStream, SlotPlaces
  <2>2. QED
    BY <2>1, ReleasesAreRelease DEF A!Next
<1>4. QED
  BY <1>1, <1>2, <1>3 DEF Relays

LEMMA NextMaps ==
  ASSUME "unrenderable" \notin Faults
  PROVE  LinkInv /\ [Next]_vars => [A!Next]_(A!vars)
<1> SUFFICES ASSUME LinkInv, [Next]_vars PROVE A!Next \/ UNCHANGED A!vars
  OBVIOUS
<1>1. ASSUME NEW r \in Requests,
             \/ Arrive(r) \/ RejectEarly(r) \/ Admit(r) \/ Refuse(r) \/ Queue(r)
             \/ QueueTimer(r) \/ CancelQueued(r) \/ Progress(r)
      PROVE  A!Next \/ UNCHANGED A!vars
  BY <1>1, AdmissionMaps, CallsMap, RelaysMap DEF Progress
<1>2. ASSUME NEW r \in Requests, HangUp(r) PROVE UNCHANGED A!vars
  BY <1>2, OutsideIsStutter DEF HangUp
<1>3. CASE ControlCall \/ ControlReturns \/ Finished \/ UNCHANGED vars
  BY <1>3, OutsideIsStutter DEF ControlCall, ControlReturns, Finished, vars
<1>4. QED
  BY <1>1, <1>2, <1>3 DEF Next

\* As long as every upstream body can be rendered, the gateway drives admission
\* exactly as the controller specifies: acquire() once, and one release() for
\* each slot it was given, on every path through a request.
THEOREM GatewayKeepsAdmissionProtocol ==
  "unrenderable" \notin Faults => (Spec => KeepsAdmissionProtocol)
<1> SUFFICES ASSUME "unrenderable" \notin Faults PROVE Spec => KeepsAdmissionProtocol
  OBVIOUS
<1>1. Init => LinkInv /\ A!Init
  BY InitLink DEF Init
<1>2. LinkInv /\ [Next]_vars => LinkInv'
  BY NextKeepsLink
<1>3. LinkInv /\ [Next]_vars => [A!Next]_(A!vars)
  BY NextMaps
<1>4. QED
  BY <1>1, <1>2, <1>3, PTL DEF Spec, KeepsAdmissionProtocol, A!Spec

------------------------------------------------------------------------------
(* What the controller's theorems say of the gateway. *)

P == INSTANCE AdmissionController_proofs

\* The theorems about the controller are about the specification above.
\* Each instance has its own copy of Cardinality; they are one function.
LEMMA SameCardinality ==
  ASSUME NEW S
  PROVE  A!Cardinality(S) = P!Cardinality(S) /\ P!Cardinality(S) = Cardinality(S)
  BY Zenon DEF A!Cardinality, P!Cardinality, Cardinality

LEMMA SameController == A!Spec <=> P!Spec
<1>1. A!Init <=> P!Init
  BY DEF A!Init, P!Init
<1>2. A!vars = P!vars /\ (A!vars)' = (P!vars)'
  BY DEF A!vars, P!vars, A!settings, P!settings, A!semaphore, P!semaphore, A!counters, P!counters
<1>3. A!locked <=> P!locked
  BY DEF A!locked, P!locked, A!Pending, P!Pending, A!Granted, P!Granted
<1>4. ASSUME NEW v, NEW n, NEW f PROVE A!Wake(v, n, f) <=> P!Wake(v, n, f)
  <2>1. A!Pending = P!Pending
    BY DEF A!Pending, P!Pending
  <2>2. ASSUME NEW W PROVE A!FirstOfLine(W) <=> P!FirstOfLine(W)
    BY <2>1 DEF A!FirstOfLine, P!FirstOfLine
  <2> DEFINE Woken(W, size) ==
        /\ size <= n
        /\ size < n => W = A!Pending
        /\ A!FirstOfLine(W)
        /\ value' = v - size
        /\ fut' = [r \in Requests |-> IF r \in W THEN "granted" ELSE f[r]]
  <2>3. A!Wake(v, n, f) <=> \E W \in SUBSET A!Pending : Woken(W, A!Cardinality(W))
    BY Zenon DEF A!Wake
  <2>4. P!Wake(v, n, f) <=> \E W \in SUBSET P!Pending :
          /\ P!Cardinality(W) <= n
          /\ P!Cardinality(W) < n => W = P!Pending
          /\ P!FirstOfLine(W)
          /\ value' = v - P!Cardinality(W)
          /\ fut' = [r \in Requests |-> IF r \in W THEN "granted" ELSE f[r]]
    BY Zenon DEF P!Wake
  <2>5. P!Wake(v, n, f) <=> \E W \in SUBSET A!Pending : Woken(W, P!Cardinality(W))
    BY <2>1, <2>2, <2>4, Zenon
  <2> HIDE DEF Woken
  <2>6. QED
    BY <2>3, <2>5, SameCardinality
<1>5. ASSUME NEW r \in Requests, NEW v PROVE A!LeaveDeque(r, v) <=> P!LeaveDeque(r, v)
  BY <1>4 DEF A!LeaveDeque, P!LeaveDeque, A!RemoveAt, P!RemoveAt
<1>6. ASSUME NEW r \in Requests PROVE A!Release(r) <=> P!Release(r)
  BY <1>4, Zenon DEF A!Release, P!Release, A!ReleaseCalls, P!ReleaseCalls, A!settings, P!settings
<1>7. ASSUME NEW r \in Requests
      PROVE  /\ A!AcquireFree(r) <=> P!AcquireFree(r)
             /\ A!AcquireRefused(r) <=> P!AcquireRefused(r)
             /\ A!AcquireQueued(r) <=> P!AcquireQueued(r)
  BY <1>3, Zenon DEF A!AcquireFree, P!AcquireFree, A!AcquireRefused, P!AcquireRefused,
     A!AcquireQueued, P!AcquireQueued, A!settings, P!settings, A!semaphore, P!semaphore
<1>8. ASSUME NEW r \in Requests
      PROVE  /\ A!TimerFires(r) <=> P!TimerFires(r)
             /\ A!CancelWaiter(r) <=> P!CancelWaiter(r)
  BY Zenon DEF A!TimerFires, P!TimerFires, A!CancelWaiter, P!CancelWaiter, A!Interrupt,
     P!Interrupt, A!settings, P!settings, A!counters, P!counters
<1>9. ASSUME NEW r \in Requests
      PROVE  /\ A!ResumeAdmitted(r) <=> P!ResumeAdmitted(r)
             /\ A!ResumeInterrupted(r) <=> P!ResumeInterrupted(r)
  BY <1>5, Zenon DEF A!ResumeAdmitted, P!ResumeAdmitted, A!ResumeInterrupted,
     P!ResumeInterrupted, A!settings, P!settings
<1>10. A!Finished <=> P!Finished
  BY <1>2, Zenon DEF A!Finished, P!Finished
<1>11. A!Next <=> P!Next
  BY <1>6, <1>7, <1>8, <1>9, <1>10, Zenon DEF A!Next, P!Next
<1>12. [A!Next]_(A!vars) <=> [P!Next]_(P!vars)
  BY <1>2, <1>11, Zenon
<1>13. QED
  BY <1>1, <1>12, PTL DEF A!Spec, P!Spec

\* As long as every upstream body can be rendered, the cap is a cap: there are
\* never more requests with a slot, streams still relaying included, than
\* max_concurrent_requests.
THEOREM GatewayCapsRequests ==
  "unrenderable" \notin Faults => (Spec => []CapsUpstreamRequests)
<1> SUFFICES ASSUME "unrenderable" \notin Faults PROVE Spec => []CapsUpstreamRequests
  OBVIOUS
<1>1. Spec => A!Spec
  BY GatewayKeepsAdmissionProtocol DEF KeepsAdmissionProtocol
<1>2. P!Spec => []P!NeverOverCapacity
  <2>1. P!IsFiniteSet(Requests)
    BY RequestsFinite, Zenon DEF P!IsFiniteSet, IsFiniteSet
  <2>2. QED
    BY <2>1, LimitsPositive, P!CapacityIsACap
<1>3. P!NeverOverCapacity => CapsUpstreamRequests
  <2>1. A!In("holding") = P!In("holding")
    BY DEF A!In, P!In
  <2>2. QED
    BY <2>1, SameCardinality DEF P!NeverOverCapacity, CapsUpstreamRequests
<1>4. QED
  BY <1>1, <1>2, <1>3, SameController, PTL

------------------------------------------------------------------------------
(* Connections to the engine. *)

OpenPlaces == {"forwarding", "opening", "draining", "relaying", "sending",
               "abandoned", "orphaned"}

\* Inductive: a request that left these places closed its connection first.
CoverInv ==
  /\ at \in [Requests -> Places]
  /\ upstream \in [Requests -> {"none", "open"}]
  /\ \A r \in Requests : upstream[r] = "open" => at[r] \in OpenPlaces

LEMMA MoveKeepsCover ==
  ASSUME CoverInv, NEW r \in Requests, NEW place \in Places, NEW end \in {"none", "open"},
         at' = [at EXCEPT ![r] = place],
         upstream' = [upstream EXCEPT ![r] = end],
         end = "open" => place \in OpenPlaces
  PROVE  CoverInv'
<1>1. ASSUME NEW q \in Requests, upstream'[q] = "open" PROVE at'[q] \in OpenPlaces
  BY <1>1 DEF CoverInv
<1>2. QED
  BY <1>1 DEF CoverInv

\* A request that moves without touching its connection.
LEMMA CarryKeepsCover ==
  ASSUME CoverInv, NEW r \in Requests, NEW place \in Places,
         at' = [at EXCEPT ![r] = place], UNCHANGED upstream,
         upstream[r] = "open" => place \in OpenPlaces
  PROVE  CoverInv'
<1>1. ASSUME NEW q \in Requests, upstream'[q] = "open" PROVE at'[q] \in OpenPlaces
  BY <1>1 DEF CoverInv
<1>2. QED
  BY <1>1 DEF CoverInv

LEMMA AdmissionKeepsCover ==
  ASSUME CoverInv, NEW r \in Requests,
         \/ Arrive(r) \/ RejectEarly(r) \/ Admit(r) \/ Refuse(r) \/ Queue(r)
         \/ QueueTimer(r) \/ CancelQueued(r) \/ Waits(r)
  PROVE  CoverInv'
<1> USE PlacesAndCalls
<1>1. CASE QueueTimer(r) \/ CancelQueued(r)
  BY <1>1 DEF QueueTimer, CancelQueued, CoverInv
<1>2. ASSUME ~(QueueTimer(r) \/ CancelQueued(r)) PROVE CoverInv'
  <2>1. at[r] \in {"idle", "reading", "acquiring"} /\ upstream[r] # "open"
    BY <1>2 DEF Arrive, RejectEarly, Admit, Refuse, Queue, Waits, AdmitLate, GiveUp,
       CoverInv, OpenPlaces
  <2>2. PICK place \in Places : GoTo(r, place) /\ UNCHANGED upstream
    BY <1>2 DEF Arrive, RejectEarly, Admit, Refuse, Queue, Waits, AdmitLate, GiveUp, Submit
  <2>3. QED
    BY <2>1, <2>2, CarryKeepsCover DEF GoTo
<1>3. QED
  BY <1>1, <1>2

LEMMA CallsKeepCover ==
  ASSUME CoverInv, NEW r \in Requests, Calls(r)
  PROVE  CoverInv'
<1> USE PlacesAndCalls DEF OpenPlaces
<1>1. CASE Connect(r)
  <2>1. at' = [at EXCEPT ![r] = at[r]] /\ at[r] \in Places
    BY <1>1 DEF Connect, CoverInv
  <2>2. QED
    BY <1>1, <2>1, MoveKeepsCover DEF Connect
<1>2. CASE UpstreamFails(r) \/ ForwardAnswers(r) \/ RenderFails(r) \/ Drained(r) \/ Unhandled(r)
  <2>1. GoTo(r, "done") /\ Close(r)
    BY <1>2 DEF UpstreamFails, ForwardAnswers, RenderFails, Drained, Unhandled
  <2>2. QED
    BY <2>1, MoveKeepsCover DEF GoTo, Close
<1>3. CASE StreamOpens(r)
  BY <1>3, CarryKeepsCover DEF StreamOpens, GoTo
<1>4. CASE StreamRefused(r)
  BY <1>4, CarryKeepsCover DEF StreamRefused, GoTo
<1>5. QED
  BY <1>1, <1>2, <1>3, <1>4 DEF Calls

LEMMA RelaysKeepCover ==
  ASSUME CoverInv, NEW r \in Requests, Relays(r)
  PROVE  CoverInv'
<1> USE PlacesAndCalls DEF OpenPlaces
<1>1. CASE ChunkArrives(r)
  BY <1>1, CarryKeepsCover DEF ChunkArrives, GoTo
<1>2. CASE ChunkSent(r)
  <2>1. CASE at[r] = "sending" /\ GoTo(r, "relaying")
    BY <1>2, <2>1, CarryKeepsCover DEF ChunkSent, GoTo
  <2>2. CASE at[r] = "apologising" /\ GoTo(r, "unwinding")
    BY <1>2, <2>2, CarryKeepsCover DEF ChunkSent, GoTo, CoverInv
  <2>3. QED
    BY <1>2, <2>1, <2>2 DEF ChunkSent
<1>3. CASE StreamFinishes(r) \/ StreamBreaks(r) \/ CutWhileReading(r) \/ CloseOrphan(r)
  <2>1. PICK place \in Places : GoTo(r, place) /\ Close(r)
    BY <1>3 DEF StreamFinishes, StreamBreaks, CutWhileReading, CloseOrphan
  <2>2. QED
    BY <2>1, MoveKeepsCover DEF GoTo, Close
<1>4. CASE CutWhileSending(r)
  BY <1>4, CarryKeepsCover DEF CutWhileSending, GoTo
<1>5. CASE StreamEnds(r)
  BY <1>5, CarryKeepsCover DEF StreamEnds, EndStream, GoTo, CoverInv
<1>6. CASE Finalise(r)
  BY <1>6, CarryKeepsCover DEF Finalise, EndStream, GoTo
<1>7. QED
  BY <1>1, <1>2, <1>3, <1>4, <1>5, <1>6 DEF Relays

LEMMA NextKeepsCover == CoverInv /\ [Next]_vars => CoverInv'
<1> SUFFICES ASSUME CoverInv, [Next]_vars PROVE CoverInv'
  OBVIOUS
<1>1. ASSUME NEW r \in Requests,
             \/ Arrive(r) \/ RejectEarly(r) \/ Admit(r) \/ Refuse(r) \/ Queue(r)
             \/ QueueTimer(r) \/ CancelQueued(r) \/ Progress(r)
      PROVE  CoverInv'
  BY <1>1, AdmissionKeepsCover, CallsKeepCover, RelaysKeepCover DEF Progress
<1>2. ASSUME NEW r \in Requests, HangUp(r) PROVE CoverInv'
  BY <1>2 DEF HangUp, CoverInv
<1>3. CASE ControlCall \/ ControlReturns \/ Finished \/ UNCHANGED vars
  BY <1>3 DEF ControlCall, ControlReturns, Finished, vars, CoverInv
<1>4. QED
  BY <1>1, <1>2, <1>3 DEF Next

\* Whatever fails, the engine works for a request only while that request has a
\* slot, but for a relay that awaits its own finaliser after its wrapper's.
THEOREM EngineWorkIsCovered == Spec => []UpstreamCoveredBySlot
<1>1. Init => LinkInv /\ CoverInv
  <2>1. Init => CoverInv
    BY DEF Init, CoverInv, Places
  <2>2. QED
    BY <2>1, InitLink
<1>2. LinkInv /\ CoverInv /\ [Next]_vars => (LinkInv /\ CoverInv)'
  BY NextKeepsLink, NextKeepsCover
<1>3. LinkInv /\ CoverInv => UpstreamCoveredBySlot
  BY DEF LinkInv, CoverInv, SlotFollowsTheRequest, UpstreamCoveredBySlot, OpenPlaces, SlotPlaces
<1>4. QED
  BY <1>1, <1>2, <1>3, PTL DEF Spec

------------------------------------------------------------------------------
(* What is recorded of a request, place by place. *)

Before == {"idle", "reading", "acquiring", "forwarding", "opening", "draining"}
Streaming == {"relaying", "sending", "apologising", "unwinding", "abandoned"}

\* The variables of Gateway itself have their types.
OwnTypes ==
  /\ kind \in [Requests -> {"plain", "stream"}]
  /\ at \in [Requests -> Places]
  /\ client \in [Requests -> {"there", "gone"}]
  /\ upstream \in [Requests -> {"none", "open"}]
  /\ chunks \in [Requests -> 0..MaxChunks]
  /\ outcome \in [Requests -> {"none", "streaming", "completed", "cut"}]
  /\ observed \in [Requests -> 0..1]
  /\ streams \in [Requests -> 0..1]
  /\ control \in 0..MaxControl

\* What the two metrics and the outcome are at each place of a request.
RecordedAt(r) ==
  /\ at[r] \in Before => outcome[r] = "none" /\ observed[r] = 0 /\ streams[r] = 0
  /\ at[r] \in Streaming => outcome[r] # "none" /\ observed[r] = 1 /\ streams[r] = 0
  /\ at[r] = "orphaned" => outcome[r] # "none" /\ streams[r] = 1
  /\ at[r] = "done" => (outcome[r] # "none" <=> streams[r] = 1)
  /\ streams[r] = 1 => call[r] = "returned" /\ observed[r] = 1
  /\ outcome[r] = "cut" => client[r] = "gone" \/ "cancellation" \in Faults

RecordInv ==
  /\ OwnTypes
  /\ call \in [Requests -> A!Calls]
  /\ \A r \in Requests : RecordedAt(r)

\* A step of one request leaves what is recorded of the others as it is.
OthersKept(r) ==
  \A q \in Requests \ {r} :
    /\ at'[q] = at[q] /\ call'[q] = call[q] /\ client'[q] = client[q]
    /\ outcome'[q] = outcome[q] /\ observed'[q] = observed[q] /\ streams'[q] = streams[q]

LEMMA OneRecordChanges ==
  ASSUME RecordInv, NEW r \in Requests, OthersKept(r), OwnTypes',
         call' \in [Requests -> A!Calls], RecordedAt(r)'
  PROVE  RecordInv'
<1>1. ASSUME NEW q \in Requests, q # r PROVE RecordedAt(q)'
  BY <1>1 DEF RecordInv, RecordedAt, OthersKept
<1>2. QED
  BY <1>1 DEF RecordInv

\* Up to the upstream call nothing of a stream is recorded, and a request that ends
\* there was never one.
LEMMA AdmissionKeepsRecord ==
  ASSUME RecordInv, NEW r \in Requests,
         \/ Arrive(r) \/ RejectEarly(r) \/ Admit(r) \/ Refuse(r) \/ Queue(r)
         \/ QueueTimer(r) \/ CancelQueued(r) \/ Waits(r)
  PROVE  RecordInv'
<1> USE DEF Before, Streaming
<1>1. at[r] \in {"idle", "reading", "acquiring"} /\ RecordedAt(r)
  BY DEF Arrive, RejectEarly, Admit, Refuse, Queue, QueueTimer, CancelQueued, Waits,
     AdmitLate, GiveUp, RecordInv
<1>2. PICK state \in A!Calls : call' = [call EXCEPT ![r] = state]
  <2>1. CASE Arrive(r) \/ RejectEarly(r)
    BY <2>1 DEF Arrive, RejectEarly, admission, RecordInv
  <2>2. CASE Admit(r) \/ Refuse(r) \/ Queue(r)
    BY <2>2 DEF Admit, Refuse, Queue, A!AcquireFree, A!AcquireRefused, A!AcquireQueued, A!Calls
  <2>3. CASE QueueTimer(r) \/ CancelQueued(r)
    BY <2>3 DEF QueueTimer, CancelQueued, A!TimerFires, A!CancelWaiter, A!Interrupt, RecordInv
  <2>4. CASE Waits(r)
    BY <2>4 DEF Waits, AdmitLate, GiveUp, A!ResumeAdmitted, A!ResumeInterrupted, A!Calls
  <2>5. QED
    BY <2>1, <2>2, <2>3, <2>4
<1>3. PICK place \in Before \cup {"done"} : at' = [at EXCEPT ![r] = place]
  BY <1>1 DEF Arrive, RejectEarly, Admit, Refuse, Queue, QueueTimer, CancelQueued, Waits,
     AdmitLate, GiveUp, Submit, GoTo, RecordInv, OwnTypes
<1>4. PICK n \in 0..1 : observed' = [observed EXCEPT ![r] = n] /\ (place # "done" => n = 0)
  <2>1. observed[r] = 0 /\ observed \in [Requests -> 0..1]
    BY <1>1 DEF RecordInv, OwnTypes, RecordedAt
  <2>2. \/ UNCHANGED observed
        \/ observed' = [observed EXCEPT ![r] = @ + 1] /\ at' = [at EXCEPT ![r] = "done"]
    BY DEF Arrive, RejectEarly, Admit, Refuse, Queue, QueueTimer, CancelQueued, Waits,
       AdmitLate, GiveUp, Submit, GoTo, Observe
  <2>3. CASE UNCHANGED observed
    BY <2>1, <2>3
  <2>4. CASE observed' = [observed EXCEPT ![r] = @ + 1] /\ at' = [at EXCEPT ![r] = "done"]
    <3>1. place = "done"
      BY <1>3, <2>4 DEF RecordInv, OwnTypes
    <3>2. observed' = [observed EXCEPT ![r] = 1]
      BY <2>1, <2>4
    <3>3. QED
      BY <3>1, <3>2
  <2>5. QED
    BY <2>2, <2>3, <2>4
<1>5. UNCHANGED <<kind, client, upstream, chunks, outcome, streams, control>>
  BY DEF Arrive, RejectEarly, Admit, Refuse, Queue, QueueTimer, CancelQueued, Waits,
     AdmitLate, GiveUp, Submit, stream_vars
<1>6. OwnTypes' /\ call' \in [Requests -> A!Calls]
  BY <1>2, <1>3, <1>4, <1>5 DEF RecordInv, OwnTypes, Places
<1>7. OthersKept(r)
  BY <1>2, <1>3, <1>4, <1>5 DEF RecordInv, OwnTypes, OthersKept
<1>8. RecordedAt(r)'
  BY <1>1, <1>3, <1>4, <1>5 DEF RecordInv, OwnTypes, RecordedAt
<1>9. QED
  BY <1>6, <1>7, <1>8, OneRecordChanges

\* The call ends without a stream, or opens one, which is observed as it opens.
LEMMA CallsKeepRecord ==
  ASSUME RecordInv, NEW r \in Requests, Calls(r)
  PROVE  RecordInv'
<1> USE DEF Before, Streaming
<1>1. at[r] \in {"forwarding", "opening", "draining"} /\ RecordedAt(r)
  BY DEF Calls, Connect, UpstreamFails, ForwardAnswers, RenderFails, StreamOpens,
     StreamRefused, Drained, Unhandled, RecordInv
<1>2. observed[r] = 0 /\ streams[r] = 0 /\ outcome[r] = "none"
  BY <1>1 DEF RecordedAt
<1>3. CASE Connect(r) \/ StreamRefused(r)
  <2>1. /\ UNCHANGED <<call, kind, client, chunks, outcome, streams, observed, control>>
        /\ \E place \in Before : at' = [at EXCEPT ![r] = place]
        /\ \E end \in {"none", "open"} : upstream' = [upstream EXCEPT ![r] = end]
    BY <1>1, <1>3 DEF Connect, StreamRefused, GoTo, admission, stream_vars, RecordInv, OwnTypes
  <2>2. OwnTypes' /\ call' \in [Requests -> A!Calls] /\ OthersKept(r)
    BY <2>1 DEF RecordInv, OwnTypes, Places, OthersKept
  <2>3. RecordedAt(r)'
    BY <1>1, <2>1 DEF RecordInv, OwnTypes, RecordedAt
  <2>4. QED
    BY <2>2, <2>3, OneRecordChanges
<1>4. CASE UpstreamFails(r) \/ ForwardAnswers(r) \/ RenderFails(r) \/ Drained(r) \/ Unhandled(r)
  <2>1. /\ UNCHANGED <<kind, client, chunks, outcome, streams, control>>
        /\ call' = [call EXCEPT ![r] = "returned"]
        /\ at' = [at EXCEPT ![r] = "done"]
        /\ upstream' = [upstream EXCEPT ![r] = "none"]
        /\ UNCHANGED observed \/ observed' = [observed EXCEPT ![r] = @ + 1]
    BY <1>4 DEF UpstreamFails, ForwardAnswers, RenderFails, Drained, Unhandled, Releases,
       GoTo, Close, Observe, stream_vars
  <2>2. \E n \in 0..1 : observed' = [observed EXCEPT ![r] = n]
    BY <1>2, <2>1 DEF RecordInv, OwnTypes
  <2>3. OwnTypes' /\ call' \in [Requests -> A!Calls] /\ OthersKept(r)
    BY <2>1, <2>2, PlacesAndCalls DEF RecordInv, OwnTypes, OthersKept
  <2>4. RecordedAt(r)'
    BY <1>1, <1>2, <2>1 DEF RecordInv, OwnTypes, RecordedAt
  <2>5. QED
    BY <2>3, <2>4, OneRecordChanges
<1>5. CASE StreamOpens(r)
  <2>1. /\ UNCHANGED <<call, kind, client, upstream, chunks, streams, control>>
        /\ at' = [at EXCEPT ![r] = "relaying"]
        /\ outcome' = [outcome EXCEPT ![r] = "streaming"]
        /\ observed' = [observed EXCEPT ![r] = 1]
    BY <1>2, <1>5 DEF StreamOpens, GoTo, Observe, admission, RecordInv, OwnTypes
  <2>2. OwnTypes' /\ call' \in [Requests -> A!Calls] /\ OthersKept(r)
    BY <2>1, PlacesAndCalls DEF RecordInv, OwnTypes, OthersKept
  <2>3. RecordedAt(r)'
    BY <1>1, <1>2, <2>1 DEF RecordInv, OwnTypes, RecordedAt
  <2>4. QED
    BY <2>2, <2>3, OneRecordChanges
<1>6. QED
  BY <1>3, <1>4, <1>5 DEF Calls

\* A stream is recorded when its wrapper is finalised, and nowhere else; it is
\* called a disconnect only where the client left or a task was cancelled.
LEMMA RelaysKeepRecord ==
  ASSUME RecordInv, NEW r \in Requests, Relays(r)
  PROVE  RecordInv'
<1> USE DEF Before, Streaming
<1>1. at[r] \in Streaming \cup {"orphaned"} /\ RecordedAt(r)
  BY DEF Relays, ChunkArrives, ChunkSent, StreamFinishes, StreamBreaks, CutWhileReading,
     CutWhileSending, StreamEnds, Finalise, CloseOrphan, RecordInv
<1>2. CASE \/ ChunkArrives(r) \/ ChunkSent(r) \/ StreamFinishes(r) \/ StreamBreaks(r)
           \/ CutWhileReading(r) \/ CutWhileSending(r)
  <2>1. at[r] \in Streaming
    BY <1>2 DEF ChunkArrives, ChunkSent, StreamFinishes, StreamBreaks, CutWhileReading,
       CutWhileSending
  <2>2. UNCHANGED <<call, kind, client, streams, observed, control>>
    BY <1>2 DEF ChunkArrives, ChunkSent, StreamFinishes, StreamBreaks, CutWhileReading,
       CutWhileSending, admission, stream_vars
  <2>3. PICK place \in Streaming : at' = [at EXCEPT ![r] = place]
    BY <1>2 DEF ChunkArrives, ChunkSent, StreamFinishes, StreamBreaks, CutWhileReading,
       CutWhileSending, GoTo
  <2>4. upstream' = [upstream EXCEPT ![r] = upstream'[r]] /\ upstream'[r] \in {"none", "open"}
    BY <1>2 DEF ChunkArrives, ChunkSent, StreamFinishes, StreamBreaks, CutWhileReading,
       CutWhileSending, Close, RecordInv, OwnTypes
  <2>5. chunks' \in [Requests -> 0..MaxChunks]
    <3>1. CASE ChunkArrives(r)
      <4>1. chunks[r] + 1 \in 0..MaxChunks
        BY <3>1, BoundsNatural DEF ChunkArrives, RecordInv, OwnTypes
      <4>2. QED
        BY <3>1, <4>1 DEF ChunkArrives, RecordInv, OwnTypes
    <3>2. CASE ~ChunkArrives(r)
      BY <1>2, <3>2 DEF ChunkSent, StreamFinishes, StreamBreaks, CutWhileReading,
         CutWhileSending, stream_vars, RecordInv, OwnTypes
    <3>3. QED
      BY <3>1, <3>2
  <2>6. PICK end \in {"streaming", "completed", "cut"} :
          /\ outcome' = [outcome EXCEPT ![r] = end]
          /\ end = "cut" => \/ client[r] = "gone" \/ "cancellation" \in Faults
    <3>1. CASE CutWhileReading(r) \/ CutWhileSending(r)
      BY <3>1 DEF CutWhileReading, CutWhileSending
    <3>2. CASE ChunkArrives(r) \/ ChunkSent(r) \/ StreamFinishes(r) \/ StreamBreaks(r)
      BY <2>1, <3>2, <1>1 DEF ChunkArrives, ChunkSent, StreamFinishes, StreamBreaks, stream_vars,
         RecordInv, OwnTypes, RecordedAt
    <3>3. QED
      BY <1>2, <3>1, <3>2
  <2>7. OwnTypes' /\ call' \in [Requests -> A!Calls] /\ OthersKept(r)
    BY <2>2, <2>3, <2>4, <2>5, <2>6, PlacesAndCalls DEF RecordInv, OwnTypes, OthersKept, Places
  <2>8. RecordedAt(r)'
    BY <1>1, <2>1, <2>2, <2>3, <2>6 DEF RecordInv, OwnTypes, RecordedAt
  <2>9. QED
    BY <2>7, <2>8, OneRecordChanges
<1>3. CASE StreamEnds(r) \/ Finalise(r)
  <2>1. streams[r] = 0 /\ observed[r] = 1 /\ outcome[r] # "none"
    BY <1>1, <1>3 DEF StreamEnds, Finalise, RecordedAt
  <2>2. /\ UNCHANGED <<kind, client, upstream, chunks, outcome, observed, control>>
        /\ call' = [call EXCEPT ![r] = "returned"]
        /\ streams' = [streams EXCEPT ![r] = 1]
        /\ \E place \in {"done", "orphaned"} : at' = [at EXCEPT ![r] = place]
    BY <1>3, <2>1 DEF StreamEnds, Finalise, EndStream, Releases, GoTo, RecordInv, OwnTypes
  <2>3. OwnTypes' /\ call' \in [Requests -> A!Calls] /\ OthersKept(r)
    BY <2>2, PlacesAndCalls DEF RecordInv, OwnTypes, OthersKept
  <2>4. RecordedAt(r)'
    BY <1>1, <2>1, <2>2 DEF RecordInv, OwnTypes, RecordedAt
  <2>5. QED
    BY <2>3, <2>4, OneRecordChanges
<1>4. CASE CloseOrphan(r)
  <2>1. /\ UNCHANGED <<call, kind, client, chunks, outcome, streams, observed, control>>
        /\ upstream' = [upstream EXCEPT ![r] = "none"]
        /\ at' = [at EXCEPT ![r] = "done"]
    BY <1>4 DEF CloseOrphan, GoTo, Close, admission, stream_vars
  <2>2. OwnTypes' /\ call' \in [Requests -> A!Calls] /\ OthersKept(r)
    BY <2>1, PlacesAndCalls DEF RecordInv, OwnTypes, OthersKept
  <2>3. RecordedAt(r)'
    BY <1>1, <1>4, <2>1 DEF CloseOrphan, RecordInv, OwnTypes, RecordedAt
  <2>4. QED
    BY <2>2, <2>3, OneRecordChanges
<1>5. QED
  BY <1>2, <1>3, <1>4 DEF Relays

LEMMA NextKeepsRecord == RecordInv /\ [Next]_vars => RecordInv'
<1> SUFFICES ASSUME RecordInv, [Next]_vars PROVE RecordInv'
  OBVIOUS
<1>1. ASSUME NEW r \in Requests,
             \/ Arrive(r) \/ RejectEarly(r) \/ Admit(r) \/ Refuse(r) \/ Queue(r)
             \/ QueueTimer(r) \/ CancelQueued(r) \/ Progress(r)
      PROVE  RecordInv'
  BY <1>1, AdmissionKeepsRecord, CallsKeepRecord, RelaysKeepRecord DEF Progress
<1>2. ASSUME NEW r \in Requests, HangUp(r) PROVE RecordInv'
  <2>1. OwnTypes' /\ call' \in [Requests -> A!Calls] /\ OthersKept(r)
    BY <1>2 DEF HangUp, admission, stream_vars, RecordInv, OwnTypes, OthersKept
  <2>2. RecordedAt(r)'
    BY <1>2 DEF HangUp, admission, stream_vars, RecordInv, OwnTypes, RecordedAt
  <2>3. QED
    BY <2>1, <2>2, OneRecordChanges
<1>3. CASE ControlCall \/ ControlReturns
  <2>1. control' \in 0..MaxControl
    BY <1>3, BoundsNatural DEF ControlCall, ControlReturns, RecordInv, OwnTypes
  <2>2. UNCHANGED <<call, kind, at, client, upstream, chunks, outcome, streams, observed>>
    BY <1>3 DEF ControlCall, ControlReturns, admission, stream_vars
  <2>3. QED
    BY <2>1, <2>2 DEF RecordInv, OwnTypes, RecordedAt
<1>4. CASE Finished \/ UNCHANGED vars
  BY <1>4 DEF Finished, vars, admission, stream_vars, RecordInv, OwnTypes, RecordedAt
<1>5. QED
  BY <1>1, <1>2, <1>3, <1>4 DEF Next

LEMMA InitRecord == Init => RecordInv
  BY BoundsNatural DEF Init, A!Init, RecordInv, OwnTypes, RecordedAt, Before, Streaming, Places,
     A!Calls

\* Under every fault, a stream that ends is recorded once, after its slot is back
\* and its response observed; it is called cut only when the client had left or a
\* task was cancelled; and a request that was never relayed is no stream.
THEOREM StreamsAreRecordedOnce == Spec => []StreamsRecordedOnce
<1>1. RecordInv => StreamsRecordedOnce
  <2> SUFFICES ASSUME RecordInv, NEW r \in Requests
               PROVE  /\ outcome[r] # "none" /\ at[r] \in {"orphaned", "done"} <=> streams[r] = 1
                      /\ streams[r] = 1 => call[r] = "returned" /\ observed[r] = 1
                      /\ outcome[r] = "cut" => client[r] = "gone" \/ "cancellation" \in Faults
    BY DEF StreamsRecordedOnce
  <2>1. at[r] \in Before \cup Streaming \cup {"orphaned", "done"} /\ RecordedAt(r)
    BY DEF RecordInv, OwnTypes, Places, Before, Streaming
  <2>2. QED
    BY <2>1 DEF RecordedAt, Before, Streaming
<1>2. QED
  BY <1>1, InitRecord, NextKeepsRecord, PTL DEF Spec

------------------------------------------------------------------------------
(* Types, under every fault: a release() too many hands out slots that do  *)
(* not exist, but no counter of the controller ever leaves its type.       *)

\* What keeps `waiting` a natural number: it counts the blocked calls.
CountInv ==
  /\ A!TypeOK
  /\ waiting = Cardinality(A!In("waiting"))

\* Every set of requests is finite, whichever copy of Cardinality counts it.
LEMMA RequestSets ==
  ASSUME NEW S \in SUBSET Requests
  PROVE  IsFiniteSet(S) /\ Cardinality(S) \in Nat /\ A!Cardinality(S) = Cardinality(S)
<1>1. A!Cardinality(S) = Cardinality(S)
  BY SameCardinality
<1>2. QED
  BY <1>1, RequestsFinite, FS_Subset, FS_CardinalityType

\* What admission sees of a step: nothing, one step of an acquire(), or one or two
\* release()s on behalf of a request that owns a slot.
LEMMA AdmissionSteps ==
  ASSUME LinkInv, [Next]_vars
  PROVE  \/ UNCHANGED admission
         \/ \E r \in Requests :
              \/ A!AcquireFree(r) \/ A!AcquireRefused(r) \/ A!AcquireQueued(r)
              \/ A!TimerFires(r) \/ A!CancelWaiter(r)
              \/ A!ResumeAdmitted(r) \/ A!ResumeInterrupted(r)
              \/ \E n \in 1..2 : call[r] = "holding" /\ Releases(r, n)
<1>1. ASSUME NEW r \in Requests,
             \/ Arrive(r) \/ RejectEarly(r) \/ Admit(r) \/ Refuse(r) \/ Queue(r)
             \/ QueueTimer(r) \/ CancelQueued(r) \/ Waits(r)
      PROVE  \/ UNCHANGED admission
             \/ A!AcquireFree(r) \/ A!AcquireRefused(r) \/ A!AcquireQueued(r)
             \/ A!TimerFires(r) \/ A!CancelWaiter(r)
             \/ A!ResumeAdmitted(r) \/ A!ResumeInterrupted(r)
  BY <1>1, Zenon DEF Arrive, RejectEarly, Admit, Refuse, Queue, QueueTimer, CancelQueued, Waits,
     AdmitLate, GiveUp
<1>2. ASSUME NEW r \in Requests, Calls(r) \/ Relays(r), ~UNCHANGED admission
      PROVE  \E n \in 1..2 : call[r] = "holding" /\ Releases(r, n)
  <2>1. at[r] \in SlotPlaces /\ (Releases(r, 1) \/ Releases(r, 2))
    BY <1>2 DEF Calls, Connect, UpstreamFails, ForwardAnswers, RenderFails, StreamOpens,
       StreamRefused, Drained, Unhandled, Relays, ChunkArrives, ChunkSent, StreamFinishes,
       StreamBreaks, CutWhileReading, CutWhileSending, StreamEnds, Finalise, EndStream,
       CloseOrphan, SlotPlaces
  <2>2. call[r] = "holding" /\ 1 \in 1..2 /\ 2 \in 1..2
    BY <2>1 DEF LinkInv, SlotFollowsTheRequest
  <2>3. QED
    BY <2>1, <2>2, Zenon
<1>3. ASSUME NEW r \in Requests, HangUp(r) PROVE UNCHANGED admission
  BY <1>3 DEF HangUp
<1>4. CASE ControlCall \/ ControlReturns \/ Finished \/ UNCHANGED vars
  BY <1>4 DEF ControlCall, ControlReturns, Finished, vars
<1>5. QED
  BY <1>1, <1>2, <1>3, <1>4, Zenon DEF Next, Progress

\* A wake-up takes no more from the value than it was given to hand out.
LEMMA WakeKeepsTypes ==
  ASSUME NEW v \in Nat, NEW n \in Nat, n <= v,
         NEW f \in [Requests -> {"none", "pending", "granted", "cancelled"}],
         A!Wake(v, n, f)
  PROVE  /\ value' \in Nat
         /\ fut' \in [Requests -> {"none", "pending", "granted", "cancelled"}]
<1>1. PICK W \in SUBSET A!Pending :
        /\ A!Cardinality(W) <= n
        /\ value' = v - A!Cardinality(W)
        /\ fut' = [r \in Requests |-> IF r \in W THEN "granted" ELSE f[r]]
  BY DEF A!Wake
<1>2. W \in SUBSET Requests
  BY DEF A!Pending
<1>3. A!Cardinality(W) \in Nat
  BY <1>2, RequestSets
<1>4. QED
  BY <1>1, <1>3

\* A call that starts or stops waiting moves the set of blocked calls by one.
LEMMA WaitingMoves ==
  ASSUME CountInv, NEW r \in Requests, NEW s \in A!Calls,
         call' = [call EXCEPT ![r] = s]
  PROVE  /\ call' \in [Requests -> A!Calls]
         /\ call[r] = "waiting" => waiting > 0
         /\ Cardinality(A!In("waiting")') =
              IF call[r] = "waiting"
                THEN IF s = "waiting" THEN waiting ELSE waiting - 1
                ELSE IF s = "waiting" THEN waiting + 1 ELSE waiting
<1> DEFINE W == A!In("waiting")
<1>1. call \in [Requests -> A!Calls] /\ waiting = Cardinality(W)
  BY DEF CountInv, A!TypeOK
<1>2. W \in SUBSET Requests /\ (r \in W <=> call[r] = "waiting")
  BY DEF A!In
<1>3. IsFiniteSet(W) /\ Cardinality(W) \in Nat
  BY <1>2, RequestSets
<1>4. W' = IF s = "waiting" THEN W \cup {r} ELSE W \ {r}
  BY <1>1 DEF A!In
<1>5. /\ r \notin W => Cardinality(W \cup {r}) = Cardinality(W) + 1
      /\ r \in W => Cardinality(W \ {r}) = Cardinality(W) - 1
  BY <1>3, FS_AddElement, FS_RemoveElement
<1>6. /\ r \in W => W \cup {r} = W /\ W \ {r} \in SUBSET Requests
      /\ r \notin W => W \ {r} = W
  BY <1>2
<1>7. r \in W => Cardinality(W) > 0
  <2>1. r \in W => Cardinality(W \ {r}) \in Nat
    BY <1>6, RequestSets
  <2>2. QED
    BY <1>3, <1>5, <2>1
<1> HIDE DEF W
<1>8. QED
  BY <1>1, <1>2, <1>4, <1>5, <1>6, <1>7 DEF W

\* The steps of acquire() keep the types: `value` is only taken from when it is
\* positive, and `waiting` only when its call was counted.
LEMMA AcquiresKeepCount ==
  ASSUME CountInv, NEW r \in Requests,
         \/ A!AcquireFree(r) \/ A!AcquireRefused(r) \/ A!AcquireQueued(r)
         \/ A!TimerFires(r) \/ A!CancelWaiter(r)
  PROVE  CountInv'
<1> USE DEF A!settings, A!semaphore, A!counters
<1>1. CASE A!AcquireFree(r)
  <2>1. value > 0
    BY <1>1 DEF A!AcquireFree, A!locked, CountInv, A!TypeOK
  <2>2. "holding" \in A!Calls /\ call[r] # "waiting"
    BY <1>1 DEF A!Calls, A!AcquireFree
  <2>3. call' \in [Requests -> A!Calls] /\ Cardinality(A!In("waiting")') = waiting
    BY <1>1, <2>2, WaitingMoves DEF A!AcquireFree
  <2>4. QED
    BY <1>1, <2>1, <2>3 DEF A!AcquireFree, CountInv, A!TypeOK
<1>2. CASE A!AcquireRefused(r)
  <2>1. "refused" \in A!Calls /\ call[r] # "waiting"
    BY <1>2 DEF A!Calls, A!AcquireRefused
  <2>2. call' \in [Requests -> A!Calls] /\ Cardinality(A!In("waiting")') = waiting
    BY <1>2, <2>1, WaitingMoves DEF A!AcquireRefused
  <2>3. QED
    BY <1>2, <2>2 DEF A!AcquireRefused, CountInv, A!TypeOK
<1>3. CASE A!AcquireQueued(r)
  <2>1. "waiting" \in A!Calls /\ call[r] # "waiting"
    BY <1>3 DEF A!Calls, A!AcquireQueued
  <2>2. call' \in [Requests -> A!Calls] /\ Cardinality(A!In("waiting")') = waiting + 1
    BY <1>3, <2>1, WaitingMoves DEF A!AcquireQueued
  <2>3. waiters' \in Seq(Requests)
    BY <1>3 DEF A!AcquireQueued, CountInv, A!TypeOK
  <2>4. QED
    BY <1>3, <2>2, <2>3 DEF A!AcquireQueued, CountInv, A!TypeOK
<1>4. CASE A!TimerFires(r) \/ A!CancelWaiter(r)
  <2>1. A!In("waiting")' = A!In("waiting")
    BY <1>4 DEF A!TimerFires, A!CancelWaiter, A!Interrupt, A!In
  <2>2. QED
    BY <1>4, <2>1 DEF A!TimerFires, A!CancelWaiter, A!Interrupt, CountInv, A!TypeOK
<1>5. QED
  BY <1>1, <1>2, <1>3, <1>4

\* A task that leaves the deque hands on what is left of the value, no more.
LEMMA ResumesKeepCount ==
  ASSUME CountInv, NEW r \in Requests, A!ResumeAdmitted(r) \/ A!ResumeInterrupted(r)
  PROVE  CountInv'
<1> USE DEF A!settings
<1>1. PICK v \in {value, value + 1} : A!LeaveDeque(r, v)
  BY DEF A!ResumeAdmitted, A!ResumeInterrupted
<1>2. PICK s \in {"holding", "refused", "cancelled"} :
        call[r] = "waiting" /\ call' = [call EXCEPT ![r] = s]
  BY DEF A!ResumeAdmitted, A!ResumeInterrupted
<1>3. /\ call' \in [Requests -> A!Calls] /\ waiting' = waiting - 1 /\ waiting > 0
      /\ waiting' = Cardinality(A!In("waiting")')
  <2>1. s \in A!Calls /\ s # "waiting"
    BY DEF A!Calls
  <2>2. QED
    BY <1>1, <1>2, <2>1, WaitingMoves DEF A!LeaveDeque
<1>4. /\ value' \in Nat
      /\ fut' \in [Requests -> {"none", "pending", "granted", "cancelled"}]
  <2>1. v \in Nat
    BY DEF CountInv, A!TypeOK
  <2>2. [fut EXCEPT ![r] = "none"] \in [Requests -> {"none", "pending", "granted", "cancelled"}]
    BY DEF CountInv, A!TypeOK
  <2>3. A!Wake(v, v, [fut EXCEPT ![r] = "none"]) /\ v <= v
    BY <1>1, <2>1 DEF A!LeaveDeque
  <2>4. QED
    BY <2>1, <2>2, <2>3, WakeKeepsTypes
<1>5. waiters' \in Seq(Requests)
  <2>1. waiters \in Seq(Requests)
    BY DEF CountInv, A!TypeOK
  <2>2. PICK i \in DOMAIN waiters : waiters' = A!RemoveAt(waiters, i)
    BY <1>1 DEF A!LeaveDeque
  <2>3. i \in 1..Len(waiters) /\ Len(waiters) \in Nat
    BY <2>1
  <2>4. /\ SubSeq(waiters, 1, i - 1) \in Seq(Requests)
        /\ SubSeq(waiters, i + 1, Len(waiters)) \in Seq(Requests)
    BY <2>1, <2>3, SubSeqProperties
  <2>5. QED
    BY <2>2, <2>4 DEF A!RemoveAt
<1>6. /\ UNCHANGED <<capacity, may_queue>>
      /\ interrupt' \in [Requests -> {"none", "timeout", "cancel"}]
      /\ in_flight' \in Nat /\ admitted_total' \in Nat /\ rejected_total' \in Nat
  BY DEF A!ResumeAdmitted, A!ResumeInterrupted, CountInv, A!TypeOK
<1>7. waiting' \in Nat
  BY <1>3 DEF CountInv, A!TypeOK
<1>8. QED
  BY <1>3, <1>4, <1>5, <1>6, <1>7 DEF CountInv, A!TypeOK

\* Also a second release() leaves the counters natural numbers: one that finds
\* in_flight at zero does nothing.
LEMMA ReleasesKeepCount ==
  ASSUME CountInv, NEW r \in Requests, NEW n \in 1..2, call[r] = "holding", Releases(r, n)
  PROVE  CountInv'
<1> DEFINE effective == IF n <= in_flight THEN n ELSE in_flight
<1>1. /\ call' \in [Requests -> A!Calls]
      /\ Cardinality(A!In("waiting")') = waiting
  <2>1. "returned" \in A!Calls /\ call' = [call EXCEPT ![r] = "returned"]
    BY DEF A!Calls, Releases
  <2>2. QED
    BY <2>1, WaitingMoves
<1>2. effective \in Nat /\ in_flight - effective \in Nat
  BY DEF CountInv, A!TypeOK
<1>3. in_flight' = in_flight - effective /\ A!Wake(value + effective, effective, fut)
  BY DEF Releases, A!ReleaseCalls
<1> HIDE DEF effective
<1>4. /\ value' \in Nat
      /\ fut' \in [Requests -> {"none", "pending", "granted", "cancelled"}]
  <2>1. /\ value \in Nat /\ value + effective \in Nat /\ effective <= value + effective
        /\ fut \in [Requests -> {"none", "pending", "granted", "cancelled"}]
    BY <1>2 DEF CountInv, A!TypeOK
  <2>2. QED
    BY <1>2, <1>3, <2>1, WakeKeepsTypes
<1>5. QED
  BY <1>1, <1>2, <1>3, <1>4 DEF Releases, CountInv, A!TypeOK

LEMMA NextKeepsCount == LinkInv /\ CountInv /\ [Next]_vars => CountInv'
<1> SUFFICES ASSUME LinkInv, CountInv, [Next]_vars PROVE CountInv'
  OBVIOUS
<1>1. CASE UNCHANGED admission
  BY <1>1 DEF admission, CountInv, A!TypeOK, A!In
<1>2. CASE ~UNCHANGED admission
  BY <1>2, AdmissionSteps, AcquiresKeepCount, ResumesKeepCount, ReleasesKeepCount
<1>3. QED
  BY <1>1, <1>2

LEMMA InitCount == Init => CountInv
<1> SUFFICES ASSUME Init PROVE CountInv
  OBVIOUS
<1>1. A!In("waiting") = {}
  BY DEF Init, A!Init, A!In
<1>2. A!TypeOK
  BY LimitsPositive DEF Init, A!Init, A!TypeOK, A!Calls
<1>3. waiting = Cardinality(A!In("waiting"))
  BY <1>1, FS_EmptySet DEF Init, A!Init
<1>4. QED
  BY <1>2, <1>3 DEF CountInv

\* Under every fault, the doubled release() of an unrenderable body included, the
\* gateway's state and the controller's counters keep their types: no counter of
\* /metrics goes negative.
THEOREM GatewayTypes == Spec => []TypeOK
<1>1. Init => LinkInv /\ RecordInv /\ CountInv
  BY InitLink, InitRecord, InitCount
<1>2. LinkInv /\ RecordInv /\ CountInv /\ [Next]_vars => (LinkInv /\ RecordInv /\ CountInv)'
  BY NextKeepsLink, NextKeepsRecord, NextKeepsCount
<1>3. LinkInv /\ RecordInv /\ CountInv => TypeOK
  BY DEF RecordInv, OwnTypes, CountInv, TypeOK
<1>4. QED
  BY <1>1, <1>2, <1>3, PTL DEF Spec

------------------------------------------------------------------------------
(* The pool of connections. *)

\* In one state: the connections requests have open belong to slots or to relays
\* awaiting finalisation, so one request with a slot and no connection leaves one
\* of PoolCap free.
LEMMA SlotLeavesAConnection ==
  ASSUME TypeOK, LinkInv, CoverInv, CapsUpstreamRequests,
         control + Cardinality(Orphans) <= Control,
         NEW r \in Requests, at[r] \in {"forwarding", "opening"}, upstream[r] = "none"
  PROVE  ConnectionsInUse < PoolCap
<1> DEFINE Open == {q \in Requests : upstream[q] = "open"}
           Held == A!In("holding")
           Rest == Held \ {r}
<1>1. /\ Open \in SUBSET Requests /\ Held \in SUBSET Requests
      /\ Rest \in SUBSET Requests /\ Orphans \in SUBSET Requests
  BY DEF A!In, Orphans
<1>2. /\ IsFiniteSet(Open) /\ Cardinality(Open) \in Nat
      /\ IsFiniteSet(Held) /\ Cardinality(Held) \in Nat
      /\ IsFiniteSet(Rest) /\ Cardinality(Rest) \in Nat
      /\ IsFiniteSet(Orphans) /\ Cardinality(Orphans) \in Nat
  BY <1>1, RequestSets
<1>3. r \in Held
  BY DEF LinkInv, SlotFollowsTheRequest, SlotPlaces, A!In
<1>4. Cardinality(Rest) = Cardinality(Held) - 1
  BY <1>2, <1>3, FS_RemoveElement
<1>5. Open \subseteq Rest \cup Orphans
  BY DEF CoverInv, OpenPlaces, LinkInv, SlotFollowsTheRequest, SlotPlaces, A!In, Orphans
<1>6. Cardinality(Open) <= Cardinality(Rest) + Cardinality(Orphans)
  <2>1. /\ IsFiniteSet(Rest \cup Orphans)
        /\ Cardinality(Rest \cup Orphans)
             = Cardinality(Rest) + Cardinality(Orphans) - Cardinality(Rest \cap Orphans)
    BY <1>2, FS_Union
  <2>2. Cardinality(Rest \cap Orphans) \in Nat
    BY <1>1, RequestSets
  <2>3. Cardinality(Open) <= Cardinality(Rest \cup Orphans)
    BY <1>5, <2>1, FS_Subset
  <2>4. Cardinality(Rest \cup Orphans) <= Cardinality(Rest) + Cardinality(Orphans)
    BY <1>2, <2>1, <2>2
  <2>5. Cardinality(Rest \cup Orphans) \in Nat
    BY <1>2, <2>1, <2>2, FS_CardinalityType
  <2>6. QED
    BY <1>2, <2>3, <2>4, <2>5
<1>7. capacity \in Nat /\ Control \in Nat /\ control \in Nat /\ MaxControl \in Nat
  BY LimitsPositive, BoundsNatural DEF TypeOK, A!TypeOK
<1>8. Cardinality(Held) <= capacity
  BY DEF CapsUpstreamRequests
<1>9. ConnectionsInUse = Cardinality(Open) + control /\ PoolCap = capacity + Control
  BY DEF ConnectionsInUse, PoolCap
<1> HIDE DEF Open, Held, Rest
<1>10. QED
  BY <1>2, <1>4, <1>6, <1>7, <1>8, <1>9

\* As long as every upstream body can be rendered, admission is the only limit an
\* admitted request meets: whatever the limit and however many requests there are,
\* it finds a connection of the pool while control calls and relays awaiting
\* finalisation stay within CONTROL_CONNECTIONS.
THEOREM PoolNeverBlocksASlot ==
  "unrenderable" \notin Faults => (Spec => []PoolIsNotTheLimit)
<1> SUFFICES ASSUME "unrenderable" \notin Faults PROVE Spec => []PoolIsNotTheLimit
  OBVIOUS
<1>1. Init => LinkInv /\ CoverInv
  BY InitLink DEF Init, CoverInv, Places
<1>2. LinkInv /\ CoverInv /\ [Next]_vars => (LinkInv /\ CoverInv)'
  BY NextKeepsLink, NextKeepsCover
<1>3. TypeOK /\ LinkInv /\ CoverInv /\ CapsUpstreamRequests => PoolIsNotTheLimit
  BY SlotLeavesAConnection DEF PoolIsNotTheLimit
<1>4. QED
  BY <1>1, <1>2, <1>3, GatewayTypes, GatewayCapsRequests, PTL DEF Spec

=============================================================================
