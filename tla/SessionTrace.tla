----------------------------- MODULE SessionTrace -----------------------------
(***************************************************************************)
(* The session trace of a page, composed with the RUM call that activates  *)
(* it and, on other pages, with the logs: the two meet only in what the    *)
(* session holds.  The trace waits for the flags, runs in the mode of the  *)
(* session or of the sampling decision, keeps a bounded number of nodes,   *)
(* and stops when the session it started in ends, here or in another tab.  *)
(***************************************************************************)
EXTENDS Logging

CONSTANTS
  OtherTabs,   \* what another tab may write: the session without its time
  TraceInputs, \* what else happens: "error", "smear", "reset"
  MaxStored,   \* MAX_NODES_PER_HARVEST
  MaxNodes     \* bound: nodes of the page

Modes == {"off", "error", "full"}
Kinds == {"timing", "plain"} \cup (TraceInputs \cap {"error", "smear"})

ASSUME TraceAssumption ==
  /\ TraceInputs \subseteq {"error", "smear", "reset"}
  /\ OtherTabs \subseteq [value : Nat, traceMode : Modes \cup {None}, replayMode : Modes \cup {None},
                          cached : Cached \cup {NotCached}, logModes : LogModes]
  /\ \A p \in Pages : p.features \in {{"trace"}, {"trace", "replay"}, {"logging"}}
  /\ MaxStored \in Nat \ {0} /\ MaxNodes \in Nat

VARIABLE
  trace  \* the aggregate: flags, mode, nodes and backup (a node is its kind and the
         \* session it was received in); the kinds buffered before the drain; the
         \* number of requests without an answer; history: nodes so far, was a payload
         \* not of one session, the current one?

vars == <<pve, page, session, trace, log>>
World == [pve |-> pve, page |-> page, session |-> session, trace |-> trace,
          log |-> log]
Apply(w) == /\ pve' = w.pve /\ page' = w.page
            /\ session' = w.session /\ trace' = w.trace /\ log' = w.log

Init ==
  /\ PveInit /\ LogInit
  /\ trace = [stage |-> "waiting", entitled |-> FALSE, initialized |-> FALSE,
              mode |-> None, blocked |-> FALSE, sessionId |-> 0,
              listening |-> FALSE, onError |-> FALSE, backlog |-> <<>>, live |-> FALSE,
              nodes |-> <<>>, backup |-> <<>>, inflight |-> 0, mixed |-> FALSE, n |-> 0]
-----------------------------------------------------------------------------
Full(w) == Len(w.trace.nodes) >= MaxStored
Without(w, nodes) == [w EXCEPT !.trace.nodes = nodes]

TrimByIndex(w, index) == Without(w, SubSeq(w.trace.nodes, index + 1, Len(w.trace.nodes)))

\* trimSTNsByTime: `now` is the imported function, now - lookbackDuration is NaN,
\* and no node's end is >= NaN: everything goes
TrimByTime(w) == Without(w, <<>>)

\* #canStoreNewNode: in error mode room is made
CanStore(w) == ~w.trace.blocked /\ (Full(w) => w.trace.mode = "error")
MakeRoom(w) ==
  IF ~Full(w) THEN w
  ELSE LET v == TrimByTime(w) IN IF Full(v) THEN TrimByIndex(v, 1) ELSE v

\* #smear: LENGTHS and GAPS are looked up by the origin of the node, not by its
\* name, so that only origin and name decide; the smeared node keeps its place
Smears(w, kind) ==
  kind = "smear" /\ \E i \in DOMAIN w.trace.nodes : w.trace.nodes[i].kind = "smear"

\* #storeSTN
Store(w, kind) ==
  IF ~CanStore(w) THEN w
  ELSE LET v == MakeRoom(w)
       IN IF Smears(v, kind) THEN v
          ELSE Without(v, Append(v.trace.nodes, [kind |-> kind, session |-> w.session.value]))
-----------------------------------------------------------------------------
\* abort(): the mode is written to whatever session this tab knows
Abort(w) ==
  Without([w EXCEPT !.trace.blocked = TRUE, !.trace.mode = "off",
                    !.session.traceMode = "off"], <<>>)

SendNodes(w, final) ==
  [w EXCEPT !.trace.backup = IF final THEN @ ELSE w.trace.nodes, !.trace.nodes = <<>>,
            !.trace.inflight = IF final THEN @ ELSE @ + 1,
            !.trace.mixed = @ \/ w.trace.sessionId # w.session.value
                              \/ \E i \in DOMAIN w.trace.nodes :
                                   w.trace.nodes[i].session # w.session.value]

HarvestUnchecked(w, final) ==  \* mutant: mode, time and session are not checked
  IF w.trace.blocked \/ ~HasConsent(w) \/ w.trace.nodes = <<>> THEN w
  ELSE SendNodes(w, final)

\* triggerHarvestFor(trace) with makeHarvestPayload and preHarvestChecks
Harvest(w, final) ==
  IF w.trace.blocked \/ ~HasConsent(w) \/ w.trace.nodes = <<>> THEN w
  ELSE IF w.trace.mode # "full" \/ ~w.page.ready THEN w
  ELSE IF w.trace.sessionId # w.session.value THEN Abort(w)
  ELSE SendNodes(w, final)

\* A live feature with handlers gets an event at once, one that has not drained
\* finds it in the backlog; after a deregistration without handlers it is dropped.
\* The second handler of an error leaves error mode, if the feature started in it.
StartHandlers(w) ==
  IF w.trace.mode = "off" THEN w
  ELSE [w EXCEPT !.trace.listening = TRUE, !.trace.onError = @ \/ w.trace.mode = "error"]

\* The rest of initialize once the mode is written: deregisterDrain() gives up the
\* backlog, drain() stages the group or, for a group already gone, opens it
Stage(w) ==
  IF w.trace.mode = "off" THEN [w EXCEPT !.trace.backlog = <<>>, !.trace.live = TRUE]
  ELSE IF w.trace.live THEN w ELSE [w EXCEPT !.trace.stage = "staged"]

\* initialize(mode): the stored mode wins over the sampled one; the timing entries
\* of the page are stored the first time
ChooseMode(w, mode) ==
  LET m == IF w.session.traceMode # None THEN w.session.traceMode ELSE mode
      v == [w EXCEPT !.trace.mode = m, !.session.traceMode = m]
  IN StartHandlers(v)

\* switchToFull().  The write tells this tab's own listener, which aborts a trace
\* of another session before the rest runs.
SwitchToFull(w) ==
  IF w.trace.mode = "full" \/ ~w.trace.entitled \/ w.trace.blocked THEN w
  ELSE LET written == [w EXCEPT !.trace.mode = "full", !.session.traceMode = "full"]
           v == IF w.trace.sessionId # w.session.value THEN Abort(written) ELSE written
       IN IF w.trace.mode = "off" THEN Stage(ChooseMode(v, v.trace.mode))
          ELSE Harvest(TrimByTime(v), FALSE)

Initialize(w, flags) ==
  LET v == [w EXCEPT !.trace.entitled = flags.st]
  IN IF ~flags.st THEN Stage(Abort(v))
     ELSE LET first == [v EXCEPT !.trace.initialized = TRUE, !.trace.sessionId = w.session.value,
                                 !.trace.n = @ + 1]
              timed == Store(first, "timing")
              begun == ChooseMode(timed, flags.sts)
          IN Stage(IF begun.session.replayMode = "full" THEN SwitchToFull(begun) ELSE begun)

\* SESSION_EVENTS.UPDATE, which carries the state by reference
OnUpdate(w, crossTab) ==
  IF ~w.trace.initialized \/ w.trace.blocked \/ w.page.aborted THEN w
  ELSE LET v == IF w.trace.mode # "full"
                     /\ "full" \in {w.session.replayMode, w.session.traceMode}
                THEN SwitchToFull(w) ELSE w
       IN IF \/ v.trace.sessionId # v.session.value
             \/ crossTab /\ v.session.traceMode = "off"
          THEN Abort(v) ELSE v

\* SESSION_EVENTS.RESET, then the fields of the new session
OnReset(w) ==
  LET v == IF w.trace.initialized /\ ~w.trace.blocked /\ ~w.page.aborted
           THEN Abort(w) ELSE w
      u == IF "logging" \in w.page.features THEN LogReset(v) ELSE v
  IN [u EXCEPT !.session.value = @ + 1, !.session.cached = NotCached,
               !.session.traceMode = None, !.session.replayMode = None,
               !.session.logModes = NoModes]

\* What the handlers do with an event, in the order they were registered
Handle(w, kind) ==
  LET v == Store(w, kind)
  IN IF kind = "error" /\ v.trace.onError /\ v.trace.mode = "error"
     THEN SwitchToFull(v) ELSE v

\* handle() of the instrument
Record(w, kind) ==
  LET v == [w EXCEPT !.trace.n = @ + 1]
  IN IF w.page.aborted THEN v
     ELSE IF ~w.trace.live THEN [v EXCEPT !.trace.backlog = Append(@, kind)]
     ELSE IF w.trace.listening THEN Handle(v, kind) ELSE v

\* drainGroup: the backlog is replayed, then the handlers listen
Drain(w) ==
  LET v == [w EXCEPT !.trace.live = TRUE, !.trace.stage = "done", !.trace.backlog = <<>>]
  IN IF w.page.aborted THEN [w EXCEPT !.trace.stage = "done"]
     ELSE FoldLeft(Handle, v, w.trace.backlog)

Answered(w, status) ==
  LET v == [w EXCEPT !.trace.inflight = @ - 1, !.trace.backup = <<>>]
  IN IF status = "retry" THEN Without(v, w.trace.backup \o w.trace.nodes) ELSE v
-----------------------------------------------------------------------------
\* The page view event
LoadAggregate == pve.stage = "importing" /\ Apply(Construct(World))
RumTimer == pve.stage = "timer" /\ Apply(SendRum([World EXCEPT !.pve.stage = "running"]))
RumAnswer == pve.inflight > 0 /\ \E a \in Answers : Apply(Answer(World, a))
RetryTimer == pve.retryTimer /\ Apply(Retry(World))
GiveConsent ==
  /\ "consent" \in PveInputs /\ ~page.consented /\ pve.buffer < MaxBodies
  /\ Apply(Consent(World, TRUE))
WithdrawConsent ==  \* without the mode nobody looks at it
  "withdraw" \in PveInputs /\ page.consentMode /\ page.consented /\ Apply(Consent(World, FALSE))

\* The interval, a drain's timer and an early harvest take the features one by one
OnHarvest ==
  page.started /\ \/ Apply(HarvestRum(World, FALSE))
                  \/ Apply(Harvest(World, FALSE))
                  \/ Apply(HarvestLogs(World, FALSE))
OnEndOfLife ==
  "hide" \in PveInputs /\ Apply(HarvestLogs(Harvest(HarvestRum(World, TRUE), TRUE), TRUE))

\* The trace
FlagsArrive ==
  /\ "trace" \in page.features
  /\ trace.stage = "waiting" /\ page.flags # NoFlags /\ page.tracking
  /\ Apply(Initialize([World EXCEPT !.trace.stage = "running"], page.flags))
DrainTrace == trace.stage = "staged" /\ Apply(Drain(World))
Node ==
  /\ "trace" \in page.features /\ trace.n < MaxNodes
  /\ \E kind \in Kinds \ {"timing"} : Apply(Record(World, kind))
TraceAnswer ==
  trace.inflight > 0 /\ \E s \in {"accepted", "retry", "lost"} : Apply(Answered(World, s))

\* The logs
LogFlagsArrive ==
  /\ "logging" \in page.features /\ log.stage = "waiting" /\ page.flags # NoFlags
  /\ Apply(LogFlags(World))
DrainLogging == log.stage = "staged" /\ Apply(DrainLogs(World))
SubmitLog ==
  /\ "logging" \in page.features /\ log.n < MaxNodes
  /\ \E origin \in Origins : Apply(BufferLog(World, origin))
LogAnswer ==
  log.inflight > 0 /\ \E s \in {"accepted", "retry", "lost"} : Apply(LogsAnswered(World, s))

\* The session
ResetSession == "reset" \in TraceInputs /\ page.tracking /\ session.value < 2 /\ Apply(OnReset(World))
ReplayIsFull ==
  /\ "replay" \in page.features /\ page.tracking /\ session.replayMode # "full"
  /\ Apply(OnUpdate([World EXCEPT !.session.replayMode = "full"], FALSE))
OtherTabWrites ==
  \E s \in OtherTabs :
    /\ page.tracking /\ s.value >= session.value
    /\ LET w == [World EXCEPT !.session.value = s.value, !.session.cached = s.cached]
       IN Apply(IF "logging" \in page.features  \* what the page does not read is not kept
                THEN LogUpdate([w EXCEPT !.session.logModes = s.logModes])
                ELSE OnUpdate([w EXCEPT !.session.traceMode = s.traceMode,
                                        !.session.replayMode = s.replayMode], TRUE))

Next ==
  \/ LoadAggregate \/ RumTimer \/ RumAnswer \/ RetryTimer
  \/ GiveConsent \/ WithdrawConsent \/ OnHarvest \/ OnEndOfLife
  \/ FlagsArrive \/ DrainTrace \/ Node \/ TraceAnswer
  \/ LogFlagsArrive \/ DrainLogging \/ SubmitLog \/ LogAnswer
  \/ ResetSession \/ ReplayIsFull \/ OtherTabWrites

(***************************************************************************)
(* Timers fire, requests end and microtasks run.                           *)
(***************************************************************************)
Fairness ==
  /\ WF_vars(LoadAggregate) /\ WF_vars(RumTimer) /\ WF_vars(RumAnswer)
  /\ WF_vars(RetryTimer)
Spec == Init /\ [][Next]_vars /\ Fairness
-----------------------------------------------------------------------------
Undecided == page.flags = NoFlags /\ ~page.aborted

(***************************************************************************)
(* The RUM call is decided in the end: the agent runs or it is aborted.    *)
(* The code's own exceptions: consent that stays away, a page that is      *)
(* hidden before (a beacon takes the body a retry would send), and a retry *)
(* that fires while consent is withdrawn, after which consent() sends no   *)
(* other because sentRum is set.                                           *)
(***************************************************************************)
RumIsDecided ==
  <>[](HasConsent(World) /\ ~page.lapsed) => <>~Undecided

(***************************************************************************)
(* What was ended stays ended: an aborted trace stays off and sends        *)
(* nothing more, neither do the logs ("must abort and never resume",       *)
(* logging/aggregate/index.js:38), nor the page view event after a failed  *)
(* RUM call, whatever timers, late answers, retries and updates from other *)
(* tabs follow.                                                            *)
(***************************************************************************)
EndStands ==
  [][/\ trace.blocked => /\ trace'.mode = "off" /\ trace'.inflight <= trace.inflight
                         /\ Len(trace'.nodes) >= Len(trace.nodes)
     /\ log.blocked => /\ log'.blocked /\ log'.modes = Off /\ log'.buffer = 0
                       /\ log'.inflight <= log.inflight
     /\ pve.blocked => pve'.inflight <= pve.inflight /\ pve'.buffer >= pve.buffer]_vars

(***************************************************************************)
(* A trace request carries the id of one session, the one that is current, *)
(* and only nodes the trace received in that session: a reset, another     *)
(* tab's session, a failed request put back, and a feature that drains     *)
(* late cannot mix them.                                                   *)
(***************************************************************************)
OneSessionPerPayload == ~trace.mixed

(***************************************************************************)
(* Leaving error mode keeps what led to the error: the nodes of the last   *)
(* seconds are still there or on their way.  (All nodes of the model are   *)
(* recent.)                                                                *)
(***************************************************************************)
ErrorWindowKept ==
  [][trace.mode = "error" /\ trace'.mode = "full" /\ trace.nodes # <<>> =>
       trace'.nodes # <<>> \/ trace'.inflight > trace.inflight]_vars
=============================================================================
