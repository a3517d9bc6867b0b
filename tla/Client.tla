------------------------------- MODULE Client -------------------------------
(***************************************************************************)
(* One measured request (engine/client.py EngineClient.chat_stream, and    *)
(* chat without streaming).  The server writes lines of an event stream,   *)
(* which wait in the connection until the client's event loop gets round   *)
(* to them; the client reads them one by one and keeps the times that      *)
(* every later figure is computed from.  Times are whole ticks.  The text, *)
(* the finish reason and the usage block's counts are left out.            *)
(***************************************************************************)
EXTENDS Integers, Sequences, FiniteSetsExt

CONSTANTS MaxLines,   \* bound: lines the server writes
          MaxClock    \* bound: ticks

ASSUME ClientBounds == {MaxLines, MaxClock} \subseteq Nat

\* Lines, by what the client times: a delta with content, a delta without (a role,
\* a finish reason), the sentinel, and what it passes over: a line without data,
\* data that is no JSON, an event without choices, be it the usage block or the
\* error event of the gateway or the engine.
Deltas == {"content", "bare"}
Lines == Deltas \cup {"done", "other"}

NONE == -1

VARIABLES now,       \* perf_counter
          phase,     \* where the call is
          wire,      \* every line the server wrote: its kind and when
          closing,   \* how the server left the connection
          result     \* the CompletionResult, with last_token_at and the lines read

client == <<now, phase, wire, closing, result>>

Result == [status : {0, 200, 500}, error : BOOLEAN, start : Nat, ttft : Nat \cup {NONE},
           itl : Seq(Nat), last : Nat \cup {NONE},
           e2e : Nat, read : Nat]

ClientTypeOK ==
  /\ now \in 0..MaxClock
  /\ phase \in {"idle", "sent", "posted", "reading", "returned"}
  /\ wire \in Seq([kind : Lines, at : 0..MaxClock])
  /\ closing \in {"open", "ended", "broken"}
  /\ result \in Result /\ result.read <= Len(wire)

ClientInit ==
  /\ now = 0 /\ phase = "idle" /\ wire = <<>> /\ closing = "open"
  /\ result = [status |-> 0, error |-> FALSE, start |-> 0, ttft |-> NONE, itl |-> <<>>,
               last |-> NONE, e2e |-> 0, read |-> 0]

Tick == now < MaxClock /\ now' = now + 1 /\ UNCHANGED <<phase, wire, closing, result>>

------------------------------------------------------------------------------
(* The call. *)

\* Mutant of Tokens: the delta that opens the stream counts as its first token.
Tokens_AnyDelta == Deltas

\* Deltas with content, the only ones that are timed.
Tokens == {"content"}

\* The first token sets ttft_s, each later one adds a gap.
Timed(res) ==
  IF res.last = NONE THEN [res EXCEPT !.ttft = now - res.start, !.last = now]
  ELSE [res EXCEPT !.itl = Append(@, now - res.last), !.last = now]

\* finally: the end-to-end time, whichever way out.
Returns(res) ==
  /\ phase' = "returned"
  /\ result' = [res EXCEPT !.e2e = now - res.start]

\* chat_stream, or chat.
Sends ==
  /\ phase = "idle"
  /\ phase' \in {"sent", "posted"}
  /\ result' = [result EXCEPT !.start = now]
  /\ UNCHANGED <<now, wire, closing>>

\* The answer begins: 200 and a stream, or a refusal, whose body is read.
Answers ==
  /\ phase = "sent"
  /\ \/ phase' = "reading" /\ result' = [result EXCEPT !.status = 200]
     \/ Returns([result EXCEPT !.status = 500, !.error = TRUE])
  /\ UNCHANGED <<now, wire, closing>>

\* chat: a body with a choice; one without (KeyError, ValueError); a refusal.  No
\* token is observable.
AnswersWhole ==
  /\ phase = "posted"
  /\ \/ Returns([result EXCEPT !.status = 200])
     \/ Returns([result EXCEPT !.status = 200, !.error = TRUE])
     \/ Returns([result EXCEPT !.status = 500, !.error = TRUE])
  /\ UNCHANGED <<now, wire, closing>>

\* httpx.HTTPError: no connection, a read timeout while nothing arrives, or a
\* connection that breaks once what it had delivered is read.
Fails ==
  /\ \/ phase \in {"sent", "posted"}
     \/ phase = "reading" /\ result.read = Len(wire) /\ closing # "ended"
  /\ Returns([result EXCEPT !.error = TRUE])
  /\ UNCHANGED <<now, wire, closing>>

\* One line of aiter_lines.
ReadsLine ==
  /\ phase = "reading" /\ result.read < Len(wire)
  /\ LET kind == wire[result.read + 1].kind
         res == [result EXCEPT !.read = @ + 1]
     IN  CASE kind = "done" -> Returns(res)
           [] kind \in Tokens -> result' = Timed(res) /\ UNCHANGED phase
           [] OTHER -> result' = res /\ UNCHANGED phase
  /\ UNCHANGED <<now, wire, closing>>

\* The stream ends without the sentinel: the loop is over and nothing is said.
StreamEnds ==
  /\ phase = "reading" /\ result.read = Len(wire) /\ closing = "ended"
  /\ Returns(result)
  /\ UNCHANGED <<now, wire, closing>>

------------------------------------------------------------------------------
(* The server. *)

Writes(kind) ==
  /\ phase = "reading" /\ closing = "open" /\ Len(wire) < MaxLines
  /\ wire' = Append(wire, [kind |-> kind, at |-> now])
  /\ UNCHANGED <<now, phase, closing, result>>

Closes ==
  /\ phase = "reading" /\ closing = "open"
  /\ closing' \in {"ended", "broken"}
  /\ UNCHANGED <<now, phase, wire, result>>

ClientNext ==
  \/ Tick \/ Sends \/ Answers \/ AnswersWhole \/ Fails \/ ReadsLine \/ StreamEnds \/ Closes
  \/ \E kind \in Lines : Writes(kind)

ClientSpec == ClientInit /\ [][ClientNext]_client

------------------------------------------------------------------------------
(* What is computed from a result. *)

Ok(res) == ~res.error

\* output_tokens_observed
Observed(res) == Len(res.itl) + (IF res.ttft # NONE THEN 1 ELSE 0)

\* The sum of the first m gaps.
Total(res, m) == MapThenSumSet(LAMBDA g : res.itl[g], 1..m)

\* When token i was read, by the figures of the result.
TokenAt(res, i) == res.start + res.ttft + Total(res, i - 1)

\* tpot_s as a fraction, when there is one.
Tpot(res) == <<Total(res, Len(res.itl)), Len(res.itl)>>

\* The lines with content among those read, and the how-manieth of them line j is.
Seen == {j \in 1..result.read : wire[j].kind = "content"}
Which(j) == Cardinality({k \in Seen : k <= j})

\* What a result says agrees with what was written on the wire: a token for every
\* delta with content that was read and for nothing else, none of them earlier than
\* the server wrote it, the last one where the clock was when it was read and
\* within the request; the mean gap between them is the time from the first to the
\* last over their number; no token without a stream, and none is ok without a 200.
TimesAreTheStream ==
  LET n == Cardinality(Seen)
  IN  /\ Observed(result) = n
      /\ (result.ttft = NONE) = (n = 0)
      /\ \A j \in Seen : TokenAt(result, Which(j)) >= wire[j].at
      /\ n > 0 => TokenAt(result, n) = result.last
      /\ n > 1 => Tpot(result) = <<result.last - TokenAt(result, 1), n - 1>>
      /\ phase = "returned" =>
           /\ n > 0 => TokenAt(result, n) <= result.start + result.e2e
           /\ Ok(result) => result.status = 200

=============================================================================
