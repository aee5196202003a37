---------------------------- MODULE EventDelivery ----------------------------
(***************************************************************************)
(* What the harvesting machinery promises about the events that features   *)
(* hand to their event store: an event that was accepted stays pending     *)
(* until it is delivered or given up, it is never pending again after      *)
(* that, and nothing is delivered that was not recorded.  An event that    *)
(* the store refuses is given up at once.  Harvest.tla implements this     *)
(* specification when no two harvests of a feature overlap.                *)
(***************************************************************************)
EXTENDS Naturals

CONSTANT Event

Fate == {"new", "pending", "delivered", "givenUp"}

VARIABLE fate

Init == fate = [e \in Event |-> "new"]

Accept(e) ==
  /\ fate[e] = "new"
  /\ fate' = [fate EXCEPT ![e] = "pending"]

Refuse(e) ==
  /\ fate[e] = "new"
  /\ fate' = [fate EXCEPT ![e] = "givenUp"]

\* A set of pending events is settled: some delivered, the rest given up.
Settle ==
  \E D, G \in SUBSET {e \in Event : fate[e] = "pending"} :
    fate' = [e \in Event |-> IF e \in D THEN "delivered"
                             ELSE IF e \in G THEN "givenUp" ELSE fate[e]]

Next ==
  \/ \E e \in Event : Accept(e) \/ Refuse(e)
  \/ Settle

Spec == Init /\ [][Next]_fate

TypeOK == fate \in [Event -> Fate]
=============================================================================
