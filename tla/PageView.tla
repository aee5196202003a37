------------------------------- MODULE PageView -------------------------------
(***************************************************************************)
(* The RUM call of a page.  The page view event's aggregate sends it, its  *)
(* answer decides whether the agent runs: it starts the harvest timer and  *)
(* tells the features their flags, or it aborts the agent.  A retry, an    *)
(* answer cached in the session, the session's stored time difference and  *)
(* the visitor's consent come in between.                                  *)
(*                                                                         *)
(* A callback is a composition of methods on a world w, a record of the    *)
(* variables; SessionTrace extends the world by the trace of the page.     *)
(***************************************************************************)
EXTENDS Naturals, FiniteSets, SequencesExt

CONSTANTS
  Pages,        \* pages that load: [tracking |-> is there a session?, diff |-> has it a
                \* time difference?, cached |-> the answer it holds, consentMode |->
                \* init.browser_consent_mode.enabled, features |-> what it loads besides]
  Flags,        \* the flags an answer may carry
  PveInputs,    \* what else happens: "consent", "withdraw", "hide"
  MaxBodies     \* bound: bodies that wait in the buffer

None == "none"
LogModes == [auto : {"unset", None, "off", "on"}, api : {"unset", None, "off", "on"}]
NoModes == [auto |-> None, api |-> None]  \* null in the session
NoFlags == [st |-> FALSE, sts |-> None, log |-> NoModes]
AnswerFlags == [st : BOOLEAN, sts : {"off", "error", "full"}, log : LogModes]
Cached == [app : {"untimed", "timed"}, flags : AnswerFlags]  \* the answer a session may hold
NotCached == [app |-> None, flags |-> NoFlags]

ASSUME FlagsAssumption == Flags \subseteq AnswerFlags
ASSUME PveAssumption ==
  /\ Pages \subseteq [tracking : BOOLEAN, diff : BOOLEAN, cached : Cached \cup {NotCached},
                      consentMode : BOOLEAN, features : SUBSET {"trace", "replay", "logging"}]
  /\ \A p \in Pages : p.tracking \/ (~p.diff /\ p.cached = NotCached)
  /\ PveInputs \subseteq {"consent", "withdraw", "hide"}
  /\ MaxBodies \in Nat

VARIABLES
  pve,     \* the aggregate: buffer and backup (a number of bodies), flags, timers
  page,    \* what the runtime shares: consent, time keeper, harvester, activated
           \* flags, the emitter's end; history: a retry that sent nothing
  session  \* the session as this tab knows it

(***************************************************************************)
(* An answer has a status ("ok", "retry", "reject", or "lost" for 0), the  *)
(* app of its body, "timed" if it has a server time, and flags.            *)
(***************************************************************************)
Failures == [status : {"retry", "reject", "lost"}, app : {None}, flags : {NoFlags}]
Answers == [status : {"ok"}, app : {None, "untimed", "timed"}, flags : Flags] \cup Failures

PveInit ==
  /\ pve = [stage |-> "importing", waiting |-> FALSE, sentRum |-> FALSE,
            buffer |-> 0, backup |-> 0, isRetrying |-> FALSE, retried |-> FALSE,
            retryTimer |-> FALSE, blocked |-> FALSE, inflight |-> 0]
  /\ \E p \in Pages :
       /\ page = [tracking |-> p.tracking, consentMode |-> p.consentMode,
                  features |-> p.features, consented |-> FALSE, ready |-> FALSE, aborted |-> FALSE,
                  started |-> FALSE, flags |-> NoFlags, lapsed |-> FALSE]
       /\ session = [value |-> 1, diff |-> p.diff, cached |-> p.cached,
                     traceMode |-> None, replayMode |-> None, logModes |-> NoModes]
-----------------------------------------------------------------------------
HasConsent(w) == w.page.consentMode => w.page.consented

HarvestRumUnchecked(w, final) ==  \* mutant: preHarvestChecks is gone
  IF w.pve.buffer = 0 \/ ~HasConsent(w) THEN w
  ELSE [w EXCEPT !.pve.backup = IF final THEN @ ELSE w.pve.buffer,
                 !.pve.buffer = 0, !.pve.inflight = IF final THEN @ ELSE @ + 1]

\* triggerHarvestFor(pve): one body goes out, whatever the buffer holds.  A final
\* harvest leaves by beacon, saves nothing and is not answered.
HarvestRum(w, final) ==
  IF w.pve.blocked \/ w.page.aborted \/ ~HasConsent(w) \/ w.pve.buffer = 0 THEN w
  ELSE [w EXCEPT !.pve.backup = IF final THEN @ ELSE w.pve.buffer,
                 !.pve.buffer = 0, !.pve.inflight = IF final THEN @ ELSE @ + 1]

SendRum(w) ==
  LET v == HarvestRum([w EXCEPT !.pve.buffer = @ + 1], FALSE)
  IN [v EXCEPT !.pve.sentRum = @ \/ v.pve.inflight > w.pve.inflight]

\* drain(), startTimer() and activateFeatures(flags), which only counts once
Activate(w, flags) ==
  LET v == [w EXCEPT !.page.started = TRUE]
  IN IF flags = NoFlags \/ w.page.flags # NoFlags THEN v
     ELSE [v EXCEPT !.page.flags = flags]

AbortAgent(w) == [w EXCEPT !.page.aborted = TRUE, !.pve.blocked = TRUE]

\* The constructor, with the consent calls that waited for the aggregate
Construct(w) ==
  LET timed == [w EXCEPT !.pve.stage = "timer",
                         !.page.ready = w.page.tracking /\ w.session.diff]
      v == IF w.session.cached = NotCached THEN timed ELSE Activate(timed, w.session.cached.flags)
  IN IF w.pve.waiting /\ ~w.pve.sentRum THEN SendRum(v) ELSE v

\* TimeKeeper.processRumRequest: FALSE stands for the error it throws
RumTimeIsKnown(w, app) ==
  app # None /\ (w.page.ready \/ w.session.diff \/ app = "timed")
ProcessRumRequest(w) ==
  [w EXCEPT !.page.ready = TRUE, !.session.diff = @ \/ w.page.tracking]

\* AggregateBase.postHarvestCleanup
Cleanup(w, retry) ==
  [w EXCEPT !.pve.isRetrying = retry,
            !.pve.buffer = IF retry THEN @ + w.pve.backup ELSE @,
            !.pve.backup = 0, !.pve.inflight = @ - 1]

AnswerWithoutRetry(w, a) ==  \* mutant: the retry is not scheduled
  LET hasCached == w.session.cached # NotCached
      app   == IF a.app = None /\ hasCached THEN w.session.cached.app ELSE a.app
      flags == IF hasCached THEN w.session.cached.flags ELSE a.flags
      v     == Cleanup(w, a.status = "retry" /\ ~hasCached)
      kept  == IF a.status = "ok" /\ w.page.tracking /\ ~hasCached /\ app # None
               THEN [v EXCEPT !.session.cached = [app |-> app, flags |-> flags]] ELSE v
  IN IF v.pve.isRetrying /\ ~w.pve.retried
     THEN [v EXCEPT !.pve.retried = TRUE]
     ELSE IF (a.status # "ok" /\ ~hasCached) \/ ~RumTimeIsKnown(v, app)
     THEN AbortAgent(kept)
     ELSE Activate(ProcessRumRequest(kept), flags)

\* postHarvestCleanup of the aggregate
Answer(w, a) ==
  LET hasCached == w.session.cached # NotCached
      app   == IF a.app = None /\ hasCached THEN w.session.cached.app ELSE a.app
      flags == IF hasCached THEN w.session.cached.flags ELSE a.flags
      v     == Cleanup(w, a.status = "retry" /\ ~hasCached)
      kept  == IF a.status = "ok" /\ w.page.tracking /\ ~hasCached /\ app # None
               THEN [v EXCEPT !.session.cached = [app |-> app, flags |-> flags]] ELSE v
  IN IF v.pve.isRetrying /\ ~w.pve.retried
     THEN [v EXCEPT !.pve.retried = TRUE, !.pve.retryTimer = TRUE]
     ELSE IF (a.status # "ok" /\ ~hasCached) \/ ~RumTimeIsKnown(v, app)
     THEN AbortAgent(kept)
     ELSE Activate(ProcessRumRequest(kept), flags)

\* The retry after five seconds.  It finds nothing to send when a beacon took the
\* body, and may not send without consent: history notes that it lapsed.
Retry(w) ==
  LET v == HarvestRum([w EXCEPT !.pve.retryTimer = FALSE], FALSE)
  IN [v EXCEPT !.page.lapsed = @ \/ v.pve.inflight = w.pve.inflight]

\* newrelic.consent(accept)
Consent(w, accept) ==
  LET v == [w EXCEPT !.page.consented = accept,
                     !.pve.waiting = @ \/ (accept /\ w.pve.stage = "importing")]
  IN IF accept /\ w.pve.stage # "importing" /\ ~w.pve.sentRum THEN SendRum(v) ELSE v
=============================================================================
