------------------------------ MODULE UserActions ------------------------------
(***************************************************************************)
(* The user actions of the generic events feature.  Events on the same     *)
(* element are aggregated to one action, which is reported when another    *)
(* begins or the page is hidden.  For two seconds a click on a button is   *)
(* watched: it is dead if nothing on the page changes, and an error click  *)
(* if there is an error.                                                   *)
(*                                                                         *)
(* The operators work on u, the record of the variable ua.                 *)
(***************************************************************************)
EXTENDS Naturals

CONSTANTS
  Elements,   \* elements of the page
  Buttons,    \* those that are buttons or links
  MaxActions  \* bound: actions of a page

NoElement == "none"

ASSUME UserActionsAssumption ==
  /\ Buttons \subseteq Elements /\ NoElement \notin Elements
  /\ MaxActions \in Nat

VARIABLE ua

Actions == 1..MaxActions
NoAction == 0

(***************************************************************************)
(* An action's state is "current", "buffered" or "sent".  History: open if *)
(* it is a watched click and its two seconds are not over, lasted if it    *)
(* was the current one through them, touched and erred if something        *)
(* changed or failed in them while it was.                                 *)
(***************************************************************************)
NewAction(el) ==
  [count |-> 1, dead |-> FALSE, error |-> FALSE, state |-> "current",
   open |-> el \in Buttons, lasted |-> FALSE, touched |-> FALSE, erred |-> FALSE]
Unused == [NewAction(NoElement) EXCEPT !.count = 0, !.state = "none"]

UaInit ==
  ua = [action |-> [n \in Actions |-> Unused], cur |-> NoAction, last |-> NoAction,
        key |-> NoElement, deadTimer |-> NoAction, errTimer |-> NoAction]
-----------------------------------------------------------------------------
\* addUserAction, for the aggregation that is done
AddUserAction(u, n) == IF n = NoAction THEN u ELSE [u EXCEPT !.action[n].state = "buffered"]

\* The getter aggregationEvent ends the aggregation, but not its timers
AggregationEvent(u) ==
  [AddUserAction(u, u.cur) EXCEPT !.cur = NoAction, !.key = NoElement]

ProcessKeepsTimers(u, el) ==  \* mutant: #deadClickCleanup and #errorClickCleanup are gone
  LET n == u.last + 1
      v == AddUserAction(u, u.cur)
  IN IF el = u.key THEN [u EXCEPT !.action[u.cur].count = @ + 1]
     ELSE [v EXCEPT !.action[n] = NewAction(el), !.cur = n, !.last = n, !.key = el,
                    !.deadTimer = IF el \in Buttons /\ @ = NoAction THEN n ELSE @,
                    !.errTimer = IF el \in Buttons THEN n ELSE @]

\* process()
Process(u, el) ==
  LET n == u.last + 1
      v == AddUserAction(u, u.cur)
      t == IF el \in Buttons THEN n ELSE NoAction
  IN IF el = u.key THEN [u EXCEPT !.action[u.cur].count = @ + 1]
     ELSE [v EXCEPT !.action[n] = NewAction(el), !.cur = n, !.last = n, !.key = el,
                    !.deadTimer = t, !.errTimer = t]

Watched(u) == u.cur # NoAction /\ u.action[u.cur].open

\* isLiveClick, for whatever changes on the page
IsLiveClick(u) ==
  LET v == [u EXCEPT !.deadTimer = NoAction]
  IN IF Watched(u) THEN [v EXCEPT !.action[u.cur].touched = TRUE] ELSE v

MarkAsErrorClick(u) ==
  LET v == IF Watched(u) THEN [u EXCEPT !.action[u.cur].erred = TRUE] ELSE u
  IN IF u.cur = NoAction \/ u.errTimer = NoAction THEN v
     ELSE [v EXCEPT !.action[u.cur].error = TRUE, !.errTimer = NoAction]

\* Two seconds after click n the timers set for it fire, one after the other.  A report
\* is a copy: it does not change.
FrustrationTimeout(u, n) ==
  [u EXCEPT !.action[n].open = FALSE,
            !.action[n].lasted = n = u.cur,
            !.action[n].dead = u.deadTimer = n /\ u.action[n].state = "current",
            !.deadTimer = IF @ = n THEN NoAction ELSE @,
            !.errTimer = IF @ = n THEN NoAction ELSE @]

\* The MutationObserver is connected while a dead click is looked for
Observes(u) == u.deadTimer # NoAction

SendActions(u) ==
  [u EXCEPT !.action = [n \in Actions |->
     IF @[n].state = "buffered" THEN [@[n] EXCEPT !.state = "sent"] ELSE @[n]]]
-----------------------------------------------------------------------------
(***************************************************************************)
(* A click is reported as dead if and only if nothing changed in the two   *)
(* seconds in which it was the last action, and as an error click if and   *)
(* only if there was an error in them, whatever was clicked, hidden or     *)
(* reported before (user-actions-aggregator.js:56, :64, :78).              *)
(***************************************************************************)
FrustrationIsTrue ==
  \A n \in 1..ua.last :
    /\ ua.action[n].dead = (ua.action[n].lasted /\ ~ua.action[n].touched)
    /\ ua.action[n].error = ua.action[n].erred
=============================================================================
