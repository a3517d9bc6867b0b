------------------------------- MODULE Report -------------------------------
(***************************************************************************)
(* What is computed from the records of one rate step: the figures of      *)
(* bench/report.py, on the live result and on one rebuilt from its JSONL   *)
(* file by bench/records.py.  Times are whole ticks from the run's origin. *)
(* A rate is kept as <<count, window>> rather than divided.                *)
(***************************************************************************)
EXTENDS Orders, Sequences, SequencesExt

\* ArrivalSchedule.duration_s: the last offset, not the largest.
Duration(offsets) == IF offsets = <<>> THEN 0 ELSE Last(offsets)

\* RequestRecord.schedule_lag_s
Lag(rec) == IF rec.sent > rec.scheduled THEN rec.sent - rec.scheduled ELSE 0

\* RequestRecord.e2e_from_schedule_s
E2EFromSchedule(rec) == rec.e2e + Lag(rec)

\* Mutant of ByIndex: the records stay in the order of their completion.
ByIndex_Unsorted(recs) == recs

\* records.sort(key=index)
Indices(recs) == [i \in DOMAIN recs |-> recs[i].index]

ByIndex(recs) == SortedBy(recs, Indices(recs))

Real(recs) == {i \in DOMAIN recs : recs[i].index >= 0}

\* Mutant of OverlapAt: a send counts before a finish at the same instant.
OverlapAt_SendsFirst(recs, t) ==
  Cardinality({i \in Real(recs) : recs[i].sent <= t})
    - Cardinality({i \in Real(recs) : recs[i].finished < t})

\* Requests open at t, by the records: finishes sort before sends.
OverlapAt(recs, t) ==
  Cardinality({i \in Real(recs) : recs[i].sent <= t})
    - Cardinality({i \in Real(recs) : recs[i].finished <= t})

\* _client_peak_in_flight, when the result does not carry the live peak.
RebuiltPeak(recs) ==
  Greatest({0} \cup {OverlapAt(recs, recs[i].sent) : i \in Real(recs)})

\* summarise_step's window: the schedule's span, or the run's when it has none.
Window(result) ==
  IF Duration(result.offsets) # 0 THEN Duration(result.offsets) ELSE result.wall

Completed(result) == {i \in DOMAIN result.records : result.records[i].ok}

InWindow(result) ==
  {i \in Completed(result) : result.records[i].finished <= Window(result)}

SameRate(a, b) == a[1] * b[2] = b[1] * a[2]

OfferedRate(result) == <<Len(result.offsets), Duration(result.offsets)>>

CompletedRate(result) == <<Cardinality(InWindow(result)), Window(result)>>

Latencies(result) ==
  [i \in Completed(result) |-> E2EFromSchedule(result.records[i])]

\* records.load_step: the schedule is read back from the sorted records.
LoadStep(recs) ==
  LET rows == ByIndex(recs) IN
    [offsets |-> [i \in DOMAIN rows |-> rows[i].scheduled],
     records |-> rows,
     wall    |-> Greatest({0} \cup {rows[i].finished : i \in DOMAIN rows})]

=============================================================================
