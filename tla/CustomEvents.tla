----------------------------- MODULE CustomEvents -----------------------------
(***************************************************************************)
(* The events an application records: page actions, custom events,         *)
(* measures and the like through the API, marks through the browser's      *)
(* performance timeline, which hands them over later.                      *)
(*                                                                         *)
(* The operators work on g, the record of the variable custom.             *)
(***************************************************************************)
EXTENDS Naturals

VARIABLE custom

\* calls and marks count what the application did; waiting are marks not handed over
CustomInit == custom = [calls |-> 0, marks |-> 0, waiting |-> 0, buffer |-> 0, sent |-> 0]

AddEvents(g, n) == [g EXCEPT !.buffer = @ + n]
MarksObserved(g) == [AddEvents(g, g.waiting) EXCEPT !.waiting = 0]
SendCustom(g) == [g EXCEPT !.sent = @ + g.buffer, !.buffer = 0]
=============================================================================
