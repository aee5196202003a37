---------------------------- MODULE MCPageActivity ----------------------------
(***************************************************************************)
(* Instances of PageActivity for TLC.                                      *)
(***************************************************************************)
EXTENDS PageActivity

Page(drained, script, inputs) == [drained |-> drained, script |-> script, inputs |-> inputs]

MCPages ==
  { Page(FALSE, {}, {"user", "error", "change"}),
    Page(TRUE, {}, {"user", "change", "hide"}),
    Page(FALSE, {}, {"user", "vitals", "hide", "close"}),
    Page(TRUE, {}, {"user", "xhr"}),
    Page(TRUE, {"listeners", "onload"}, {"xhr"}),
    Page(TRUE, {"listeners", "abort", "reuse"}, {"xhr"}),
    Page(FALSE, {}, {"sockets", "hide", "close"}),
    Page(FALSE, {}, {"paints", "hide", "close"}),
    Page(FALSE, {}, {"api", "hide", "close"}),
    Page(FALSE, {}, {"register", "close"}),
    Page(TRUE, {}, {"register", "hide", "close"}),
    Page(FALSE, {}, {"fetch", "hide", "close"}),
    Page(FALSE, {}, {"register", "fetch"}),
    Page(TRUE, {}, {"register", "fetch", "capture"}),
    Page(TRUE, {}, {"errors", "hide", "close"}),
    Page(TRUE, {}, {"mfe", "hide"}) }

MCValue == <<2, 1, 3, 2, 1>>

\* Two instances: root1 with an image in it, and a card that brings the other root
MCInstances == <<"i1", "i2">>
MCNodes == {"root1", "image", "card", "root2", "text"}
MCRootOf == [n \in MCNodes |-> CASE n \in {"root1", "image"} -> "root1"
                                 [] n \in {"root2", "text"} -> "root2"
                                 [] OTHER -> Outside]
MCBrings == [n \in MCNodes |-> IF n = "card" THEN {"root2"} ELSE {}]
MCArea == [n \in MCNodes |-> CASE n = "root1" -> 1 [] n = "image" -> 2 [] OTHER -> 3]
MCBatches == {<<"root1">>, <<"image">>, <<"card">>, <<"text">>, <<"root1", "card">>}
=============================================================================
