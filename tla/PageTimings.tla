------------------------------ MODULE PageTimings ------------------------------
(***************************************************************************)
(* The page view timings.  The vital metrics of the page keep their        *)
(* history until the feature subscribes; some have a candidate which is    *)
(* their value when the page is hidden; the first input is looked up       *)
(* whenever a timing is added; layout shifts are added when the page is    *)
(* hidden.  The browser and the web-vitals library are external.           *)
(*                                                                         *)
(* The operators work on p, the record of the variable pvt.                *)
(***************************************************************************)
EXTENDS Naturals, FiniteSetsExt

VARIABLE pvt

Vitals == {"fcp", "load", "lcp", "inp"}
OnceTimings == {"fcp", "load", "lcp", "fi", "pageHide", "unload"}  \* reported once at most
Timings == OnceTimings \cup {"inp", "cls"}

\* A vital is "none", a "candidate" or "final"; cls and input tell whether there was one.
\* added counts how often a timing was recorded, up to 2.
PvtInit ==
  pvt = [vital |-> [v \in Vitals |-> "none"], cls |-> FALSE, input |-> FALSE, subscribed |-> FALSE, history |-> {},
         curSessEndRecorded |-> FALSE, firstIxnRecorded |-> FALSE,
         buffer |-> {}, sent |-> {}, added |-> [t \in Timings |-> 0]]
-----------------------------------------------------------------------------
Record(p, t) ==
  [p EXCEPT !.buffer = @ \cup {t}, !.added[t] = IF @ = 2 THEN 2 ELSE @ + 1]

CheckForFirstInteraction(p) ==
  IF p.firstIxnRecorded \/ ~p.input THEN p
  ELSE Record([p EXCEPT !.firstIxnRecorded = TRUE], "fi")

AddTiming(p, t) == CheckForFirstInteraction(Record(p, t))

Candidate(p, v) == [p EXCEPT !.vital[v] = "candidate"]

\* VitalMetric.update: it has a value, and subscribers are told
Update(p, v) ==
  LET q == [p EXCEPT !.vital[v] = "final", !.history = @ \cup {v}]
  IN IF p.subscribed THEN AddTiming(q, v) ELSE q

\* VitalMetric.subscribe: the subscriber is told the history
Subscribe(p) ==
  FoldSet(LAMBDA v, q : AddTiming(q, v), [p EXCEPT !.subscribed = TRUE], p.history)

EndCurrentSession(p) ==
  IF p.curSessEndRecorded THEN p
  ELSE [AddTiming(p, "pageHide") EXCEPT !.curSessEndRecorded = TRUE]

\* The page is hidden: the library's listeners and the feature's, in the capture phase
VitalsHidden(p) ==
  LET last == {v \in Vitals : p.vital[v] = "candidate"}
      q == FoldSet(LAMBDA v, r : Update(r, v), p, last)
  IN IF q.subscribed /\ q.cls THEN AddTiming(q, "cls") ELSE q

\* makeHarvestPayload: preHarvestChecks is not reached if there is nothing to send
SendTimings(p) ==
  LET v == CheckForFirstInteraction(p)
  IN IF p.buffer = {} THEN p ELSE [v EXCEPT !.sent = @ \cup v.buffer, !.buffer = {}]
=============================================================================
