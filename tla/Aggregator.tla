------------------------------ MODULE Aggregator ------------------------------
(***************************************************************************)
(* A bucket of the EventAggregator that errors are stored in: occurrences  *)
(* of one name are summarised, a harvest takes the summary and may keep it *)
(* for a retry, which merges it with what was stored meanwhile.            *)
(*                                                                         *)
(* The operators work on a, the record of the variable agg.                *)
(***************************************************************************)
EXTENDS Naturals, SequencesExt

CONSTANTS
  Value,      \* a sequence: what is measured of each occurrence
  MaxErrorRequests  \* bound: requests without an answer

ASSUME AggregatorAssumption == Value \in Seq(Nat) /\ MaxErrorRequests \in Nat

VARIABLE agg

\* A metric of one occurrence is its value alone: it has no field c
Condensed(m) == "c" \notin DOMAIN m
CreateMetricObject(v) == [t |-> v, min |-> v, max |-> v, sos |-> v * v, c |-> 1]
NoBucket == [params |-> 0, count |-> 0, time |-> [t |-> 0]]

(***************************************************************************)
(* saved is #savedNamesToBuckets for the types of the feature.  History:   *)
(* the last occurrence, those here, in the bucket, and there, in the saved *)
(* copy.                                                                   *)
(***************************************************************************)
AggInit == agg = [bucket |-> NoBucket, saved |-> NoBucket, requests |-> 0,
                  last |-> 0, here |-> <<>>, there |-> <<>>]
-----------------------------------------------------------------------------
UpdateMetric(v, metric) ==
  LET m == IF Condensed(metric) THEN CreateMetricObject(metric.t) ELSE metric
  IN [t |-> m.t + v, sos |-> m.sos + v * v, c |-> m.c + 1,
      max |-> IF v > m.max THEN v ELSE m.max, min |-> IF v < m.min THEN v ELSE m.min]

\* store(): params are those of the first occurrence
StoreIn(b, n) ==
  IF b = NoBucket THEN [params |-> n, count |-> 1, time |-> [t |-> Value[n]]]
  ELSE [b EXCEPT !.count = @ + 1, !.time = UpdateMetric(Value[n], @)]

MergeMetric(new, metric) ==
  LET m == IF Condensed(metric) THEN CreateMetricObject(metric.t) ELSE metric
  IN [t |-> m.t + new.t, sos |-> m.sos + new.sos, c |-> m.c + new.c,
      max |-> Max({m.max, new.max}), min |-> Min({m.min, new.min})]

MergeWithoutParams(b, s) ==  \* mutant: the newer params stay
  IF b = NoBucket THEN s
  ELSE [b EXCEPT !.count = @ + s.count,
                 !.time = IF Condensed(s.time) THEN UpdateMetric(s.time.t, @) ELSE MergeMetric(s.time, @)]

\* merge() of the bucket with a saved one, whose params take its place
Merge(b, s) ==
  IF b = NoBucket THEN s
  ELSE [params |-> s.params, count |-> b.count + s.count,
        time |-> IF Condensed(s.time) THEN UpdateMetric(s.time.t, b.time) ELSE MergeMetric(s.time, b.time)]

StoreError(a, n) ==
  [a EXCEPT !.last = n, !.bucket = StoreIn(@, n), !.here = Append(@, n)]

\* A harvest takes the bucket; save() keeps it if the request can be retried
TakeErrors(a, retry) ==
  IF a.bucket = NoBucket THEN a
  ELSE [a EXCEPT !.bucket = NoBucket, !.here = <<>>,
                 !.saved = IF retry THEN a.bucket ELSE @,
                 !.there = IF retry THEN a.here ELSE @,
                 !.requests = IF retry THEN @ + 1 ELSE @]

ClearSave(a) == [a EXCEPT !.saved = NoBucket, !.there = <<>>]

\* Without a saved copy reloadSave throws
ReloadSave(a) ==
  IF a.saved = NoBucket THEN a
  ELSE [a EXCEPT !.bucket = Merge(@, a.saved), !.here = a.there \o @]

\* postHarvestCleanup
ErrorsAnswered(a, retry) ==
  LET b == [a EXCEPT !.requests = @ - 1] IN ClearSave(IF retry THEN ReloadSave(b) ELSE b)

AggStep ==
  \/ agg.last < Len(Value) /\ agg' = StoreError(agg, agg.last + 1)
  \/ agg.requests < MaxErrorRequests /\ agg.bucket # NoBucket /\ agg' = TakeErrors(agg, TRUE)
  \/ agg.requests > 0 /\ \E retry \in BOOLEAN : agg' = ErrorsAnswered(agg, retry)
-----------------------------------------------------------------------------
\* The reference: what a bucket has to say of a sequence of occurrences
Summary(s) ==
  LET values == [i \in DOMAIN s |-> Value[s[i]]]
      Total(f) == FoldLeft(+, 0, f)
  IN IF s = <<>> THEN NoBucket
     ELSE [params |-> s[1], count |-> Len(s),
           time |-> IF Len(s) = 1 THEN [t |-> values[1]]
                    ELSE [t |-> Total(values), sos |-> Total([i \in DOMAIN s |-> values[i] * values[i]]),
                          c |-> Len(s), min |-> Min(ToSet(values)), max |-> Max(ToSet(values))]]

(***************************************************************************)
(* A bucket, and the copy kept for a retry, summarise exactly the          *)
(* occurrences put into them, in whatever order they were stored, taken    *)
(* and merged again, and their params are those of the first of them: only *)
(* that one has the stack trace (event-aggregator.js:76).                  *)
(***************************************************************************)
BucketsAreExact ==
  agg.bucket = Summary(agg.here) /\ agg.saved = Summary(agg.there)
=============================================================================
