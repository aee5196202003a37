-------------------------------- MODULE Metrics --------------------------------
(***************************************************************************)
(* The supportability metrics: features report them through the emitter,   *)
(* and they are kept for the final harvest.  Which metric it is does not   *)
(* matter here; they are counted.  What is reported of the configuration   *)
(* when the flags arrive is left out.                                      *)
(*                                                                         *)
(* The operators work on m, the record of the variable met.                *)
(***************************************************************************)
EXTENDS Naturals

VARIABLE met

\* audits counts the reports of the harvest metadata, which is known with the drain
MetricsInit == met = [blocked |-> FALSE, buffer |-> 0, sent |-> 0, audits |-> 0]

StoreSupportabilityMetrics(m, n) == IF m.blocked THEN m ELSE [m EXCEPT !.buffer = @ + n]

\* beforeUnload: what is known of the harvests so far becomes metrics
EvaluateHarvestMetadata(m) ==
  [StoreSupportabilityMetrics(m, 1) EXCEPT !.audits = IF m.blocked THEN @ ELSE @ + 1]

\* Without the flag err the feature is blocked
MetricsDecide(m, err) == [m EXCEPT !.blocked = ~err]

\* preHarvestChecks: only a final harvest sends, and only after the drain
SendMetrics(m) == IF m.blocked THEN m ELSE [m EXCEPT !.sent = @ + m.buffer, !.buffer = 0]
=============================================================================
