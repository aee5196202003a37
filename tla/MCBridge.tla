------------------------------- MODULE MCBridge --------------------------------
(***************************************************************************)
(* Instances of Bridge for TLC.                                            *)
(***************************************************************************)
EXTENDS Bridge

MCContainers ==
  { [domain |-> TRUE, valid |-> TRUE], [domain |-> TRUE, valid |-> FALSE],
    [domain |-> FALSE, valid |-> TRUE] }
MCKinds == {"report", "deregister", "vitals"}
=============================================================================
