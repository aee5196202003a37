------------------------------- MODULE Handover -------------------------------
(***************************************************************************)
(* What the ajax and the error feature rely on when they hand an event to  *)
(* soft navigations: the event is kept while an interaction is open and    *)
(* then has exactly one outcome, which is final.  Only an event that the   *)
(* feature has not looked at yet can be dropped.                           *)
(***************************************************************************)
CONSTANT Event
VARIABLE fate

Fates == {"new", "queued", "kept", "alone", "attached", "dropped"}

Moves ==
  [new      |-> {"new", "queued", "kept", "alone", "attached", "dropped"},
   queued   |-> {"queued", "kept", "alone", "attached", "dropped"},
   kept     |-> {"kept", "alone", "attached"},
   alone    |-> {"alone"},
   attached |-> {"attached"},
   dropped  |-> {"dropped"}]

Init == fate = [e \in Event |-> "new"]

Next ==
  /\ fate' \in [Event -> Fates]
  /\ \A e \in Event : fate'[e] \in Moves[fate[e]]

Spec == Init /\ [][Next]_fate
=============================================================================
