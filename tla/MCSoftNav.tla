------------------------------- MODULE MCSoftNav -------------------------------
(***************************************************************************)
(* Instances of SoftNav for TLC.                                           *)
(***************************************************************************)
EXTENDS SoftNav

CONSTANTS a1, e1, e2
MCRequests == {a1}
MCErrors == {e1, e2}
Visit(stage, inputs, events) ==
  [stage |-> stage, big |-> FALSE, inputs |-> inputs, events |-> events]
MCVisits ==
  { Visit("waiting", {"click", "popstate", "url"}, {a1}),
    Visit("waiting", {"api", "url"}, {a1}),
    Visit("on", {"click", "popstate", "url", "longtask", "hide"}, {a1}),
    [Visit("on", {"click", "url", "longtask"}, {a1}) EXCEPT !.big = TRUE],
    Visit("on", {"click", "api", "url"}, {a1}),
    Visit("on", {"api", "hide"}, {a1}),
    Visit("on", {"click", "url", "hide"}, {e1, e2}),
    Visit("absent", {}, {a1, e1, e2}) }
=============================================================================
