---------------------------- MODULE MCSessionTrace ----------------------------
(***************************************************************************)
(* Instances of SessionTrace for TLC.                                      *)
(***************************************************************************)
EXTENDS SessionTrace

Page(features, tracking, diff, cached, mode) ==
  [features |-> features, tracking |-> tracking, diff |-> diff, cached |-> cached,
   consentMode |-> mode]
On == [auto |-> "off", api |-> "on"]
FlagsOf(st, sts, modes) == [st |-> st, sts |-> sts, log |-> modes]
Held(app, sts) == [app |-> app, flags |-> FlagsOf(TRUE, sts, Off)]

\* A first page, which asks for consent, two that find an answer, one of which has
\* no time yet, and a page without a session; with logs, a page of a known session
\* and one without
PageSet == {Page({"trace", "replay"}, TRUE, FALSE, NotCached, TRUE),
            Page({"trace"}, TRUE, TRUE, Held("timed", "error"), FALSE),
            Page({"trace"}, TRUE, FALSE, Held("untimed", "full"), FALSE),
            Page({"trace"}, FALSE, FALSE, NotCached, FALSE),
            Page({"logging"}, TRUE, TRUE, NotCached, FALSE),
            Page({"logging"}, FALSE, FALSE, NotCached, FALSE)}

FlagSet == {FlagsOf(TRUE, "error", On), FlagsOf(FALSE, "off", Off)}

\* Another tab of this session stops the trace, with a copy of the session that
\* has no cached answer; another tab has started session 2
TabStates ==
  {[value |-> 1, traceMode |-> "off", replayMode |-> None,
    cached |-> NotCached, logModes |-> Off],
   [value |-> 2, traceMode |-> "error", replayMode |-> "full",
    cached |-> NotCached, logModes |-> NoModes]}
=============================================================================
