--------------------------- MODULE MCSessionReplay ---------------------------
(***************************************************************************)
(* Instances of SessionReplay for TLC.  Nodes 1 and 2 are the first full   *)
(* snapshot; a payload with node 3 has the ideal size, one with node 6 is  *)
(* too large.                                                              *)
(***************************************************************************)
EXTENDS SessionReplay
=============================================================================
