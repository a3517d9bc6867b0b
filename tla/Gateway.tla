------------------------------- MODULE Gateway -------------------------------
(***************************************************************************)
(* A completion request through the gateway: body parsing and admission    *)
(* (app.py _completion), the upstream call (proxy.py), the relayed stream  *)
(* that outlives its handler (_hold_slot_until_stream_ends around _relay), *)
(* and what the middleware and the stream record in the metrics.           *)
(*                                                                         *)
(* A request's task is atomic between two awaits; `at` names the await it  *)
(* is suspended in.  Admission is the AdmissionController module, whose    *)
(* variables this module shares.  Starlette, httpx and the client are the  *)
(* environment: they hang up, fail, and finalise abandoned generators.     *)
(***************************************************************************)
EXTENDS Integers, FiniteSets, Sequences

CONSTANTS Requests, Limits,
          MaxChunks,     \* bound: the chunks of one upstream stream (max_tokens)
          Control,       \* CONTROL_CONNECTIONS of the upstream pool
          MaxControl,    \* bound: /ready and /v1/models calls under way at once
          Faults         \* what the environment may do to the gateway

\* unrenderable: an upstream body JSONResponse cannot render (a NaN);
\* cancellation: the server cancels tasks, as when its loop is torn down.
AllFaults == {"unrenderable", "cancellation"}

ASSUME RequestsFinite == IsFiniteSet(Requests)
ASSUME LimitsPositive == Limits \subseteq Nat \ {0}
ASSUME FaultsKnown == Faults \subseteq AllFaults
ASSUME BoundsNatural == MaxChunks \in Nat /\ Control \in Nat /\ MaxControl \in Nat

VARIABLES capacity, may_queue, value, waiters, fut, interrupt, call,
          in_flight, waiting, admitted_total, rejected_total,
          kind,        \* payload.get("stream")
          at,          \* the await the request's task is suspended in
          client,      \* the caller's end of the connection
          upstream,    \* the request's connection to the engine
          chunks,      \* chunks wrapped() has relayed
          outcome,     \* wrapped()'s `completed`, once the stream has ended
          observed,    \* calls of observe_request for the request
          streams,     \* calls of observe_stream for the request
          control      \* connections held by control calls

A == INSTANCE AdmissionController

admission == <<capacity, may_queue, value, waiters, fut, interrupt, call,
               in_flight, waiting, admitted_total, rejected_total>>
stream_vars == <<chunks, outcome, streams>>
vars == <<admission, kind, at, client, upstream, stream_vars, observed, control>>

\* abandoned: both generators of a stream are suspended at a yield nobody will
\* resume; orphaned: wrapped() is finalised, the _relay() it read is not.
Places == {"idle", "reading", "acquiring", "forwarding", "opening", "draining",
           "relaying", "sending", "apologising", "unwinding",
           "abandoned", "orphaned", "done"}

\* Where a request owns an admission slot.
SlotPlaces == {"forwarding", "opening", "draining", "relaying", "sending",
               "apologising", "unwinding", "abandoned"}

TypeOK ==
  /\ A!TypeOK
  /\ kind \in [Requests -> {"plain", "stream"}]
  /\ at \in [Requests -> Places]
  /\ client \in [Requests -> {"there", "gone"}]
  /\ upstream \in [Requests -> {"none", "open"}]
  /\ chunks \in [Requests -> 0..MaxChunks]
  /\ outcome \in [Requests -> {"none", "streaming", "completed", "cut"}]
  /\ observed \in [Requests -> 0..1]
  /\ streams \in [Requests -> 0..1]
  /\ control \in 0..MaxControl

Init ==
  /\ A!Init
  /\ kind \in [Requests -> {"plain", "stream"}]
  /\ at = [r \in Requests |-> "idle"]
  /\ client = [r \in Requests |-> "there"]
  /\ upstream = [r \in Requests |-> "none"]
  /\ chunks = [r \in Requests |-> 0]
  /\ outcome = [r \in Requests |-> "none"]
  /\ observed = [r \in Requests |-> 0]
  /\ streams = [r \in Requests |-> 0]
  /\ control = 0

------------------------------------------------------------------------------
(* The parts the handlers share. *)

GoTo(r, place) == at' = [at EXCEPT ![r] = place]

\* The middleware's observe_request, when call_next returned a response.
Observe(r) == observed' = [observed EXCEPT ![r] = @ + 1]

\* admission.release(), n times in one go, on behalf of r.  It is
\* unconditional: nothing in the code checks that r holds a slot.
Releases(r, n) ==
  /\ A!ReleaseCalls(n)
  /\ call' = [call EXCEPT ![r] = "returned"]
  /\ UNCHANGED <<capacity, may_queue, waiters, interrupt, waiting,
                 admitted_total, rejected_total>>

Close(r) == upstream' = [upstream EXCEPT ![r] = "none"]

ConnectionsInUse == Cardinality({r \in Requests : upstream[r] = "open"}) + control

\* Mutant of PoolCap: the pool is sized from the admission limit alone.
PoolCap_NoControl == capacity

\* EngineProxy's max_connections plus CONTROL_CONNECTIONS.
PoolCap == capacity + Control

------------------------------------------------------------------------------
(* Up to the upstream call. *)

Arrive(r) ==
  /\ at[r] = "idle"
  /\ GoTo(r, "reading")
  /\ UNCHANGED <<admission, kind, client, upstream, stream_vars, observed, control>>

\* A bad key, an unknown path, or a body that is not a JSON object (a client
\* gone before it was read looks the same): an error response, no admission.
RejectEarly(r) ==
  /\ at[r] = "reading"
  /\ GoTo(r, "done")
  /\ Observe(r)
  /\ UNCHANGED <<admission, kind, client, upstream, stream_vars, control>>

\* Past `await admission.acquire()`: proxy.stream or proxy.forward begins.
Submit(r) ==
  /\ GoTo(r, IF kind[r] = "stream" THEN "opening" ELSE "forwarding")
  /\ UNCHANGED <<kind, client, upstream, stream_vars, observed, control>>

Admit(r) == at[r] = "reading" /\ A!AcquireFree(r) /\ Submit(r)

\* 429 at once: a zero wait budget.
Refuse(r) ==
  /\ at[r] = "reading"
  /\ A!AcquireRefused(r)
  /\ GoTo(r, "done")
  /\ Observe(r)
  /\ UNCHANGED <<kind, client, upstream, stream_vars, control>>

Queue(r) ==
  /\ at[r] = "reading"
  /\ A!AcquireQueued(r)
  /\ GoTo(r, "acquiring")
  /\ UNCHANGED <<kind, client, upstream, stream_vars, observed, control>>

QueueTimer(r) ==
  /\ at[r] = "acquiring"
  /\ A!TimerFires(r)
  /\ UNCHANGED <<kind, at, client, upstream, stream_vars, observed, control>>

CancelQueued(r) ==
  /\ "cancellation" \in Faults
  /\ at[r] = "acquiring"
  /\ A!CancelWaiter(r)
  /\ UNCHANGED <<kind, at, client, upstream, stream_vars, observed, control>>

AdmitLate(r) == at[r] = "acquiring" /\ A!ResumeAdmitted(r) /\ Submit(r)

\* 429 after the wait, or a cancelled task, which gets no response.
GiveUp(r) ==
  /\ at[r] = "acquiring"
  /\ A!ResumeInterrupted(r)
  /\ GoTo(r, "done")
  /\ IF interrupt[r] = "timeout" THEN Observe(r) ELSE UNCHANGED observed
  /\ UNCHANGED <<kind, client, upstream, stream_vars, control>>

------------------------------------------------------------------------------
(* The upstream call. *)

\* httpx has a connection for the request.
Connect(r) ==
  /\ at[r] \in {"forwarding", "opening"}
  /\ upstream[r] = "none"
  /\ ConnectionsInUse < PoolCap
  /\ upstream' = [upstream EXCEPT ![r] = "open"]
  /\ UNCHANGED <<admission, kind, at, client, stream_vars, observed, control>>

\* Connect, pool or read timeout, or any other httpx error: 504 or 502.
UpstreamFails(r) ==
  /\ at[r] \in {"forwarding", "opening"}
  /\ Close(r) /\ Releases(r, 1) /\ Observe(r) /\ GoTo(r, "done")
  /\ UNCHANGED <<kind, client, stream_vars, control>>

\* Mutant of ForwardAnswers: the plain path releases in a finally as well.
ForwardAnswers_Twice(r) ==
  /\ at[r] = "forwarding" /\ upstream[r] = "open"
  /\ Close(r) /\ Releases(r, 2) /\ Observe(r) /\ GoTo(r, "done")
  /\ UNCHANGED <<kind, client, stream_vars, control>>

ForwardAnswers(r) ==
  /\ at[r] = "forwarding" /\ upstream[r] = "open"
  /\ Close(r) /\ Releases(r, 1) /\ Observe(r) /\ GoTo(r, "done")
  /\ UNCHANGED <<kind, client, stream_vars, control>>

\* release(), then JSONResponse(...) raises and `except BaseException` releases
\* again; the exception leaves through the middleware, which records nothing.
RenderFails(r) ==
  /\ "unrenderable" \in Faults
  /\ at[r] = "forwarding" /\ upstream[r] = "open"
  /\ Close(r) /\ Releases(r, 2) /\ GoTo(r, "done")
  /\ UNCHANGED <<kind, client, stream_vars, observed, control>>

\* Mutant of StreamOpens: the slot is released when the handler returns.
StreamOpens_Releases(r) ==
  /\ at[r] = "opening" /\ upstream[r] = "open"
  /\ GoTo(r, "relaying") /\ Observe(r) /\ Releases(r, 1)
  /\ outcome' = [outcome EXCEPT ![r] = "streaming"]
  /\ UNCHANGED <<kind, client, upstream, chunks, streams, control>>

\* 200: the handler returns a StreamingResponse and the slot goes with it.  The
\* task sends http.response.start and enters the body iterator without an await
\* that could suspend it, and the middleware records the response.
StreamOpens(r) ==
  /\ at[r] = "opening" /\ upstream[r] = "open"
  /\ GoTo(r, "relaying") /\ Observe(r)
  /\ outcome' = [outcome EXCEPT ![r] = "streaming"]
  /\ UNCHANGED <<admission, kind, client, upstream, chunks, streams, control>>

StreamRefused(r) ==
  /\ at[r] = "opening" /\ upstream[r] = "open"
  /\ GoTo(r, "draining")
  /\ UNCHANGED <<admission, kind, client, upstream, stream_vars, observed, control>>

\* The engine's error status, as a GatewayError.
Drained(r) ==
  /\ at[r] = "draining"
  /\ Close(r) /\ Releases(r, 1) /\ Observe(r) /\ GoTo(r, "done")
  /\ UNCHANGED <<kind, client, stream_vars, control>>

\* aread() fails (httpx closes the connection itself), or the task is cancelled:
\* released by `except BaseException`, and no response passes the middleware.
Unhandled(r) ==
  /\ \/ at[r] = "draining"
     \/ "cancellation" \in Faults /\ at[r] \in {"forwarding", "opening"}
  /\ Close(r) /\ Releases(r, 1) /\ GoTo(r, "done")
  /\ UNCHANGED <<kind, client, stream_vars, observed, control>>

------------------------------------------------------------------------------
(* The relayed stream. *)

ChunkArrives(r) ==
  /\ at[r] = "relaying"
  /\ chunks[r] < MaxChunks
  /\ chunks' = [chunks EXCEPT ![r] = @ + 1]
  /\ GoTo(r, "sending")
  /\ UNCHANGED <<admission, kind, client, upstream, outcome, streams, observed, control>>

\* The client took the chunk, or the error event that ends a broken stream.
ChunkSent(r) ==
  /\ \/ at[r] = "sending" /\ GoTo(r, "relaying") /\ UNCHANGED outcome
     \/ /\ at[r] = "apologising" /\ GoTo(r, "unwinding")
        /\ outcome' = [outcome EXCEPT ![r] = "completed"]
  /\ UNCHANGED <<admission, kind, client, upstream, chunks, streams, observed, control>>

StreamFinishes(r) ==
  /\ at[r] = "relaying"
  /\ GoTo(r, "unwinding")
  /\ Close(r)
  /\ outcome' = [outcome EXCEPT ![r] = "completed"]
  /\ UNCHANGED <<admission, kind, client, chunks, streams, observed, control>>

\* An httpx error mid-stream: two chunks of an SSE error event end the stream.
StreamBreaks(r) ==
  /\ at[r] = "relaying"
  /\ GoTo(r, "apologising")
  /\ Close(r)
  /\ UNCHANGED <<admission, kind, client, stream_vars, observed, control>>

\* Mutant of CutWhileReading: _relay() has no finally to close the connection.
CutWhileReading_NoClose(r) ==
  /\ at[r] = "relaying"
  /\ client[r] = "gone" \/ "cancellation" \in Faults
  /\ GoTo(r, "unwinding")
  /\ outcome' = [outcome EXCEPT ![r] = "cut"]
  /\ UNCHANGED <<admission, kind, client, upstream, chunks, streams, observed, control>>

\* Cancelled while reading the engine: the exception unwinds _relay() first, and
\* the connection is closed before wrapped()'s finally runs.
CutWhileReading(r) ==
  /\ at[r] = "relaying"
  /\ client[r] = "gone" \/ "cancellation" \in Faults
  /\ GoTo(r, "unwinding")
  /\ Close(r)
  /\ outcome' = [outcome EXCEPT ![r] = "cut"]
  /\ UNCHANGED <<admission, kind, client, chunks, streams, observed, control>>

\* Cancelled while writing to the client: both generators stay suspended at
\* their yield, for the event loop to finalise.
CutWhileSending(r) ==
  /\ at[r] \in {"sending", "apologising"}
  /\ client[r] = "gone" \/ "cancellation" \in Faults
  /\ GoTo(r, "abandoned")
  /\ outcome' = [outcome EXCEPT ![r] = "cut"]
  /\ UNCHANGED <<admission, kind, client, upstream, chunks, streams, observed, control>>

\* Mutant of EndStream: the end of the stream is recorded as a request as well.
EndStream_ObservesAgain(r) ==
  /\ Releases(r, 1)
  /\ streams' = [streams EXCEPT ![r] = @ + 1]
  /\ Observe(r)
  /\ UNCHANGED <<kind, client, upstream, chunks, outcome, control>>

\* wrapped()'s finally: the slot first, then the metric.
EndStream(r) ==
  /\ Releases(r, 1)
  /\ streams' = [streams EXCEPT ![r] = @ + 1]
  /\ UNCHANGED <<kind, client, upstream, chunks, outcome, observed, control>>

StreamEnds(r) == at[r] = "unwinding" /\ EndStream(r) /\ GoTo(r, "done")

\* Mutant of Finalise: only a stream that was read to its end is recorded.
Finalise_Unrecorded(r) ==
  /\ at[r] = "abandoned"
  /\ Releases(r, 1)
  /\ GoTo(r, "orphaned")
  /\ UNCHANGED <<kind, client, upstream, stream_vars, observed, control>>

\* Mutant of Finalise: release() is not in a finally, so only a stream that was
\* read to its end gives its slot back.
Finalise_KeepsSlot(r) ==
  /\ at[r] = "abandoned"
  /\ GoTo(r, "orphaned")
  /\ UNCHANGED <<admission, kind, client, upstream, stream_vars, observed, control>>

\* wrapped() is finalised first; its slot is back while _relay() still has the
\* connection.
Finalise(r) == at[r] = "abandoned" /\ EndStream(r) /\ GoTo(r, "orphaned")

\* Mutant of CloseOrphan: nobody closes the generator that wrapped() read.
CloseOrphan_Forgotten(r) ==
  /\ at[r] = "orphaned"
  /\ GoTo(r, "done")
  /\ UNCHANGED <<admission, kind, client, upstream, stream_vars, observed, control>>

CloseOrphan(r) ==
  /\ at[r] = "orphaned"
  /\ GoTo(r, "done")
  /\ Close(r)
  /\ UNCHANGED <<admission, kind, client, stream_vars, observed, control>>

------------------------------------------------------------------------------
(* Clients and control calls. *)

HangUp(r) ==
  /\ at[r] \notin {"idle", "done", "orphaned"}
  /\ client[r] = "there"
  /\ client' = [client EXCEPT ![r] = "gone"]
  /\ UNCHANGED <<admission, kind, at, upstream, stream_vars, observed, control>>

\* /ready and /v1/models use the pool without asking admission.
ControlCall ==
  /\ control < MaxControl
  /\ ConnectionsInUse < PoolCap
  /\ control' = control + 1
  /\ UNCHANGED <<admission, kind, at, client, upstream, stream_vars, observed>>

ControlReturns ==
  /\ control > 0
  /\ control' = control - 1
  /\ UNCHANGED <<admission, kind, at, client, upstream, stream_vars, observed>>

Finished ==
  /\ \A r \in Requests : at[r] = "done"
  /\ control = 0
  /\ UNCHANGED vars

\* The steps the gateway takes by itself once a request is under way.
Waits(r) == AdmitLate(r) \/ GiveUp(r)
Calls(r) == \/ Connect(r) \/ UpstreamFails(r) \/ ForwardAnswers(r) \/ RenderFails(r)
            \/ StreamOpens(r) \/ StreamRefused(r) \/ Drained(r) \/ Unhandled(r)
Relays(r) == \/ ChunkArrives(r) \/ ChunkSent(r)
             \/ StreamFinishes(r) \/ StreamBreaks(r)
             \/ CutWhileReading(r) \/ CutWhileSending(r)
             \/ StreamEnds(r) \/ Finalise(r) \/ CloseOrphan(r)
Progress(r) == Waits(r) \/ Calls(r) \/ Relays(r)

Next ==
  \/ \E r \in Requests :
       \/ Arrive(r) \/ RejectEarly(r) \/ Admit(r) \/ Refuse(r) \/ Queue(r)
       \/ QueueTimer(r) \/ CancelQueued(r)
       \/ Progress(r)
       \/ HangUp(r)
  \/ ControlCall \/ ControlReturns
  \/ Finished

Spec == Init /\ [][Next]_vars

\* Ready tasks run; every wait on the engine is bounded by request_timeout_s;
\* a client in the middle of a stream reads what it is sent or hangs up; the
\* loop finalises abandoned generators.
Fairness == \A r \in Requests : WF_vars(Progress(r))
FairSpec == Spec /\ Fairness

------------------------------------------------------------------------------
(* Properties. *)

\* A request owns a slot from its admission until the last byte of its response
\* is relayed or given up, across the return of the handler that acquired it;
\* it waits for one only inside acquire().
SlotFollowsTheRequest ==
  \A r \in Requests :
    /\ call[r] = "holding" <=> at[r] \in SlotPlaces
    /\ call[r] = "waiting" <=> at[r] = "acquiring"
    /\ at[r] \in {"idle", "reading"} => call[r] = "idle"

\* The engine never works for a request that has no slot, but for a relay whose
\* wrapper has been finalised and which awaits its own finaliser; a request that
\* is over has no connection.
UpstreamCoveredBySlot ==
  \A r \in Requests :
    upstream[r] = "open" => call[r] = "holding" \/ at[r] = "orphaned"

\* Every stream that ends is recorded once and after its slot is back, a stream
\* is only called a disconnect when the client left or the server cancelled it,
\* and a request that was never relayed is not recorded as a stream.
StreamsRecordedOnce ==
  \A r \in Requests :
    /\ outcome[r] # "none" /\ at[r] \in {"orphaned", "done"} <=> streams[r] = 1
    /\ streams[r] = 1 => call[r] = "returned" /\ observed[r] = 1
    /\ outcome[r] = "cut" => client[r] = "gone" \/ "cancellation" \in Faults

\* Admission is the only limit an admitted request meets: as long as control
\* calls and relays awaiting finalisation stay within CONTROL_CONNECTIONS, a
\* request with a slot never waits for a connection of the pool.
Orphans == {r \in Requests : at[r] = "orphaned"}
PoolIsNotTheLimit ==
  control + Cardinality(Orphans) <= Control =>
    \A r \in Requests :
      at[r] \in {"forwarding", "opening"} /\ upstream[r] = "none"
        => ConnectionsInUse < PoolCap

\* The gateway uses the admission controller as its protocol demands: acquire()
\* once, and one release() for each slot it was given.
KeepsAdmissionProtocol == A!Spec

\* ... and gives every slot back, which is what the line relies on.
ReturnsEverySlot == A!FairSpec

\* A connection to the engine is closed in the end, also when the client
\* vanished between two chunks: the engine's batch slot is not lost.
UpstreamIsClosed == \A r \in Requests : upstream[r] = "open" ~> upstream[r] = "none"

\* limits.py:43: "Caps concurrent upstream requests and refuses the overflow."
CapsUpstreamRequests == Cardinality(A!In("holding")) <= capacity

\* metrics.py:233: "Called for every request, including errors."
EveryRequestObserved == \A r \in Requests : at[r] = "done" => observed[r] = 1

=============================================================================
