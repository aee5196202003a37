------------------------------ MODULE MCHarvest ------------------------------
(***************************************************************************)
(* Instances of Harvest for TLC: jserrors keeps its events in the shared   *)
(* aggregator, ajax in an EventBuffer with room for two or three events.   *)
(***************************************************************************)
EXTENDS Harvest

MCSize == [e \in Event |-> IF e % 2 = 1 THEN 2 ELSE 1]
NoAttributes == [f \in Feature |-> 0]
=============================================================================
