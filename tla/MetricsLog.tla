----------------------------- MODULE MetricsLog -----------------------------
(***************************************************************************)
(* MetricsLogger: every log_* call writes a record to the JSONL file and   *)
(* the database at once, bumps its counters and stretches the run's        *)
(* boundaries; a summary is built from the counters, not from the records. *)
(* MetricsAggregator reads the file back.  A payload is reduced to the     *)
(* size of an order or fill and the latency of an order.                   *)
(***************************************************************************)
EXTENDS Integers, FiniteSets, Sequences, SequencesExt

CONSTANTS
  Stamps,      (* time stamps a record may have                           *)
  Volumes,     (* sizes of orders and fills                               *)
  Latencies,   (* decision-to-order latencies, in ns                      *)
  NoValue,     (* Python's None                                           *)
  MaxRecords   (* bound: records of a run                                 *)

VARIABLES
  records,   (* the JSONL file                                            *)
  orders,    (* [count, volume] of _order_count and _order_volume         *)
  fills,     (* [count, volume] of _fill_count and _fill_volume           *)
  latencies, (* _latencies                                                *)
  start,     (* _run_start_ns                                             *)
  end,       (* _run_end_ns                                               *)
  summary    (* the latest RunSummary, or NoValue                         *)

vars == <<records, orders, fills, latencies, start, end, summary>>

Zero == [count |-> 0, volume |-> 0]

Init ==
  /\ records = <<>> /\ orders = Zero /\ fills = Zero /\ latencies = <<>>
  /\ start = NoValue /\ end = NoValue /\ summary = NoValue

Write(type, stamp, size, latency) ==
  records' = Append(records, [type |-> type, time |-> stamp, size |-> size,
                              latency |-> latency])

\* Mutant: the first record fixes the start of the run.
EarlierNever(stamp) == start = NoValue

\* Fills may carry an earlier time than what was logged before them.
Earlier(stamp) == start = NoValue \/ (start # NoValue => stamp < start)

MarkRunBoundary(stamp) ==
  /\ start' = IF Earlier(stamp) THEN stamp ELSE start
  /\ end' = IF end = NoValue THEN stamp ELSE Max({end, stamp})

Counted(counter, size) == [count |-> counter.count + 1, volume |-> counter.volume + size]

LogOrder(stamp, size, latency) ==
  /\ Write("order", stamp, size, latency)
  /\ orders' = Counted(orders, size)
  /\ latencies' = IF latency = NoValue THEN latencies ELSE Append(latencies, latency)
  /\ MarkRunBoundary(stamp)
  /\ UNCHANGED <<fills, summary>>

LogFill(stamp, size) ==
  /\ Write("fill", stamp, size, NoValue)
  /\ fills' = Counted(fills, size)
  /\ MarkRunBoundary(stamp)
  /\ UNCHANGED <<orders, latencies, summary>>

\* Cancels, control violations and snapshots only mark the boundaries.
LogOther(type, stamp) ==
  /\ Write(type, stamp, 0, NoValue)
  /\ MarkRunBoundary(stamp)
  /\ UNCHANGED <<orders, fills, latencies, summary>>

\* Python's round: to the nearest integer, a half to the even one.  The
\* argument is in hundredths.
Round(hundredths) ==
  LET low == hundredths \div 100
      rest == hundredths % 100
  IN IF rest > 50 \/ (rest = 50 /\ low % 2 = 1) THEN low + 1 ELSE low

Percentile(samples, percent) ==
  IF samples = <<>> THEN NoValue
  ELSE SortSeq(samples, <)[Round(percent * (Len(samples) - 1)) + 1]

\* Volumes are kept so that the two ratios, order_to_trade_ratio and
\* fill_efficiency, can be read off.
BuildSummary ==
  [orders |-> orders, fills |-> fills, start |-> start, end |-> end,
   duration |-> IF start = NoValue THEN NoValue ELSE end - start,
   p95 |-> Percentile(latencies, 95), p99 |-> Percentile(latencies, 99),
   max |-> Percentile(latencies, 100)]

\* The summary is itself a record, at the run's end; it marks no boundary.
LogRunSummary ==
  /\ summary' = BuildSummary
  /\ Write("run_summary", IF end = NoValue THEN 0 ELSE end, 0, NoValue)
  /\ UNCHANGED <<orders, fills, latencies, start, end>>

Next ==
  /\ Len(records) < MaxRecords
  /\ \/ \E t \in Stamps, n \in Volumes, l \in Latencies \cup {NoValue} : LogOrder(t, n, l)
     \/ \E t \in Stamps, n \in Volumes : LogFill(t, n)
     \/ \E type \in {"cancel", "control_violation", "snapshot"}, t \in Stamps :
          LogOther(type, t)
     \/ LogRunSummary

Spec == Init /\ [][Next]_vars

-----------------------------------------------------------------------------
(***************************************************************************)
(* MetricsAggregator over the same file.                                   *)
(***************************************************************************)

OfType(type) == SelectSeq(records, LAMBDA r : r.type = type)

Aggregated(type) ==
  [count |-> Len(OfType(type)), volume |-> FoldLeft(LAMBDA x, r : x + r.size, 0, OfType(type))]

Times == {records[i].time : i \in {k \in DOMAIN records : records[k].type # "run_summary"}}

(***************************************************************************)
(* What the summary counts is what the file says: reading the records back *)
(* gives the same orders, fills and volumes, and the run's boundaries are  *)
(* the earliest and latest time stamps in it, in whatever order the        *)
(* records were logged (logging.py:181-219, 413-417, 445-450).             *)
(***************************************************************************)
CountersMatchFile ==
  /\ orders = Aggregated("order")
  /\ fills = Aggregated("fill")
  /\ IF Times = {} THEN start = NoValue /\ end = NoValue
     ELSE start = Min(Times) /\ end = Max(Times)

(***************************************************************************)
(* The reported latency percentiles are latencies of the run in the file,  *)
(* in order, and no more than one sample in ten lies above the 95th once   *)
(* there are enough of them (logging.py:334-347, 371-385).                 *)
(***************************************************************************)
PercentilesAreSamples ==
  summary # NoValue /\ summary.p95 # NoValue =>
    LET logged == {records[i].latency : i \in DOMAIN records} \ {NoValue}
        above  == SelectSeq(latencies, LAMBDA l : l > summary.p95)
    IN /\ {summary.p95, summary.p99, summary.max} \subseteq logged
       /\ summary.p95 <= summary.p99 /\ summary.p99 <= summary.max
       /\ records[Len(records)].type = "run_summary" => 10 * Len(above) <= Len(latencies)

(***************************************************************************)
(* The summary of a run agrees with its file (logging.py:181-247,          *)
(* 334-417).                                                               *)
(***************************************************************************)
SummaryMatchesFile == CountersMatchFile /\ PercentilesAreSamples

=============================================================================
