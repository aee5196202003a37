------------------------------- MODULE MCDrain -------------------------------
(***************************************************************************)
(* Instances of Drain for TLC: a feature that starts by itself and one     *)
(* that waits for newrelic.start().  What either handles goes on to the    *)
(* other.                                                                  *)
(***************************************************************************)
EXTENDS Drain

MCPriority == [g \in Group |->
  CASE g = "metrics" -> 3 [] g = "jserrors" -> 4 [] g = "soft_navigations" -> 5
    [] OTHER -> 0]
BothCascadeTo == [g \in Group |->
  CASE g = "jserrors" -> "soft_navigations" [] g = "soft_navigations" -> "jserrors"
    [] OTHER -> None]
=============================================================================
