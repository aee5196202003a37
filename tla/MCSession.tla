------------------------------ MODULE MCSession ------------------------------
(***************************************************************************)
(* Instances of Session for TLC: one tab that is reloaded, with sessions   *)
(* of three units, two without activity; and two tabs, with sessions of    *)
(* one unit.                                                               *)
(***************************************************************************)
EXTENDS Session, TLC

Tabs == Permutations(Tab)
=============================================================================
