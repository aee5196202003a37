------------------------------ MODULE TraceProofs ------------------------------
(***************************************************************************)
(* Proofs about SessionTrace for any pages, flags, other tabs and bounds:  *)
(* types, that no trace request mixes sessions, and that what was ended    *)
(* (trace, logs, page view event) stays ended.                             *)
(*                                                                         *)
(* A callback composes functions on worlds.  Each function gets one lemma  *)
(* that says what it preserves in the part it works on and what it leaves  *)
(* alone; a step is then a chain of such lemmas.                           *)
(***************************************************************************)
EXTENDS SessionTrace, SequenceTheorems, TLAPS

FlagType == [st : BOOLEAN, sts : Modes \cup {None}, log : LogModes]
CachedType == [app : {None, "untimed", "timed"}, flags : FlagType]
PveType ==
  [stage : {"importing", "timer", "running"}, waiting : BOOLEAN, sentRum : BOOLEAN,
   buffer : Nat, backup : Nat, isRetrying : BOOLEAN, retried : BOOLEAN,
   retryTimer : BOOLEAN, blocked : BOOLEAN, inflight : Nat]
PageType ==
  [tracking : BOOLEAN, consentMode : BOOLEAN, features : SUBSET {"trace", "replay", "logging"},
   consented : BOOLEAN, ready : BOOLEAN, aborted : BOOLEAN, started : BOOLEAN,
   flags : FlagType, lapsed : BOOLEAN]
SessionType ==
  [value : Nat, diff : BOOLEAN, cached : CachedType, traceMode : Modes \cup {None},
   replayMode : Modes \cup {None}, logModes : LogModes]
NodeType == [kind : {"timing", "plain", "error", "smear"}, session : Nat]
EventKinds == {"plain", "error", "smear"}
TraceType ==
  [stage : {"waiting", "running", "staged", "done"}, entitled : BOOLEAN,
   initialized : BOOLEAN, mode : Modes \cup {None}, blocked : BOOLEAN, sessionId : Nat,
   listening : BOOLEAN, onError : BOOLEAN, backlog : Seq(EventKinds), live : BOOLEAN,
   nodes : Seq(NodeType), backup : Seq(NodeType), inflight : Nat, mixed : BOOLEAN, n : Nat]
LogType ==
  [stage : {"waiting", "staged", "done"}, modes : LogModes, blocked : BOOLEAN,
   live : BOOLEAN, listening : BOOLEAN, backlog : Seq(Origins), buffer : Nat,
   backup : Nat, inflight : Nat, n : Nat]
Worlds == [pve : PveType, page : PageType, session : SessionType, trace : TraceType,
           log : LogType]

LEMMA Constants ==
  /\ NoModes \in LogModes /\ Unset \in LogModes /\ Off \in LogModes
  /\ NoFlags \in FlagType /\ NotCached \in CachedType
  /\ Flags \subseteq FlagType /\ Cached \subseteq CachedType
<1>1. NoModes \in LogModes /\ Unset \in LogModes /\ Off \in LogModes
  BY DEF NoModes, Unset, Off, LogModes, None
<1>2. NoFlags \in FlagType
  BY <1>1 DEF NoFlags, FlagType
<1>3. NotCached \in CachedType
  BY <1>2 DEF NotCached, CachedType
<1>4. AnswerFlags \subseteq FlagType /\ Flags \subseteq FlagType
  BY FlagsAssumption DEF FlagType, AnswerFlags, Modes
<1>5. Cached \subseteq CachedType
  BY <1>4 DEF Cached, CachedType
<1>6. QED BY <1>1, <1>2, <1>3, <1>4, <1>5

-----------------------------------------------------------------------------
(***************************************************************************)
(* The page view event: what its methods do not touch, and what stays as   *)
(* it is once it is blocked.                                               *)
(***************************************************************************)
PveEnds(w, v) ==
  w.pve.blocked => v.pve.blocked /\ v.pve.inflight <= w.pve.inflight
                                 /\ v.pve.buffer >= w.pve.buffer
PveStep(w, v) ==
  /\ v \in Worlds /\ v.trace = w.trace /\ v.log = w.log
  /\ v.session.value = w.session.value
  /\ PveEnds(w, v)

LEMMA PveStepsCompose ==
  ASSUME NEW u \in Worlds, NEW w, NEW v, PveStep(u, w), PveStep(w, v) PROVE PveStep(u, v)
BY DEF PveStep, PveEnds, Worlds, PveType

LEMMA HarvestRumStep ==
  ASSUME NEW w \in Worlds, NEW final \in BOOLEAN
  PROVE  PveStep(w, HarvestRum(w, final)) /\ HarvestRum(w, final).page = w.page
<1> DEFINE v == HarvestRum(w, final)
           b == IF final THEN w.pve.backup ELSE w.pve.buffer
           i == IF final THEN w.pve.inflight ELSE w.pve.inflight + 1
           p == [w.pve EXCEPT !.backup = b, !.buffer = 0, !.inflight = i]
<1>1. CASE v = w
  BY <1>1 DEF PveStep, PveEnds, Worlds, PveType
<1>2. CASE ~w.pve.blocked /\ v = [w EXCEPT !.pve = p]
  <2>0. w.pve \in PveType
    BY DEF Worlds
  <2>b. b \in Nat /\ i \in Nat
    BY <2>0 DEF PveType
  <2> HIDE DEF b, i
  <2>1. p \in PveType
    BY <2>0, <2>b DEF PveType
  <2> HIDE DEF p, v
  <2>2. v \in Worlds /\ v.trace = w.trace /\ v.log = w.log /\ v.session = w.session
        /\ v.page = w.page
    BY <1>2, <2>1 DEF Worlds
  <2>3. QED BY <1>2, <2>2 DEF PveStep, PveEnds, v
<1>3. v = w \/ (~w.pve.blocked /\ v = [w EXCEPT !.pve = p])
  BY DEF HarvestRum, Worlds, PveType
<1>4. QED BY <1>1, <1>2, <1>3

LEMMA SendRumStep == ASSUME NEW w \in Worlds PROVE PveStep(w, SendRum(w))
<1> DEFINE p == [w.pve EXCEPT !.buffer = w.pve.buffer + 1]
           u == [w EXCEPT !.pve = p]
           v == HarvestRum(u, FALSE)
           q == [v.pve EXCEPT !.sentRum = v.pve.sentRum \/ v.pve.inflight > w.pve.inflight]
<1>1. SendRum(w) = [v EXCEPT !.pve = q]
  <2>1. [w EXCEPT !.pve.buffer = w.pve.buffer + 1] = u
    BY DEF Worlds, PveType
  <2>2. SendRum(w) = [v EXCEPT !.pve.sentRum = v.pve.sentRum \/ v.pve.inflight > w.pve.inflight]
    BY <2>1 DEF SendRum
  <2> HIDE DEF v, u
  <2>3. QED BY <2>2
<1>2. PveStep(w, u)
  <2>1. p \in PveType
    BY DEF Worlds, PveType
  <2>2. p.blocked = w.pve.blocked /\ p.inflight = w.pve.inflight /\ p.buffer = w.pve.buffer + 1
        /\ w.pve.buffer \in Nat /\ w.pve.inflight \in Nat
    BY DEF Worlds, PveType
  <2> HIDE DEF p
  <2>3. QED BY <2>1, <2>2 DEF PveStep, PveEnds, Worlds
<1> HIDE DEF u
<1>3. PveStep(u, v)
  BY <1>2, HarvestRumStep DEF PveStep
<1> HIDE DEF v
<1>4. PveStep(v, [v EXCEPT !.pve = q])
  <2>1. v \in Worlds /\ v.pve \in PveType
    BY <1>3 DEF PveStep, Worlds
  <2>2. q \in PveType
    BY <2>1 DEF PveType
  <2>3. q.blocked = v.pve.blocked /\ q.inflight = v.pve.inflight /\ q.buffer = v.pve.buffer
        /\ v.pve.buffer \in Nat /\ v.pve.inflight \in Nat
    BY <2>1 DEF PveType
  <2> HIDE DEF q
  <2>4. QED BY <2>1, <2>2, <2>3 DEF PveStep, PveEnds, Worlds
<1>5. PveStep(w, v)
  BY <1>2, <1>3, PveStepsCompose DEF PveStep
<1>6. QED BY <1>1, <1>4, <1>5, PveStepsCompose

LEMMA ActivateStep ==
  ASSUME NEW w \in Worlds, NEW flags \in FlagType PROVE PveStep(w, Activate(w, flags))
<1> DEFINE g == [w.page EXCEPT !.started = TRUE]
           h == [w.page EXCEPT !.started = TRUE, !.flags = flags]
<1>1. g \in PageType /\ h \in PageType
  BY DEF Worlds, PageType
<1>2. Activate(w, flags) \in {[w EXCEPT !.page = g], [w EXCEPT !.page = h]}
  BY DEF Activate, Worlds, PageType
<1> HIDE DEF g, h
<1>3. QED BY <1>1, <1>2 DEF PveStep, PveEnds, Worlds, PveType

LEMMA AbortAgentStep == ASSUME NEW w \in Worlds PROVE PveStep(w, AbortAgent(w))
<1> DEFINE g == [w.page EXCEPT !.aborted = TRUE]
           p == [w.pve EXCEPT !.blocked = TRUE]
<1>1. g \in PageType /\ p \in PveType /\ p.blocked /\ p.inflight = w.pve.inflight
      /\ p.buffer = w.pve.buffer /\ w.pve.inflight \in Nat /\ w.pve.buffer \in Nat
  BY DEF Worlds, PageType, PveType
<1>2. PICK v : v = AbortAgent(w)
  OBVIOUS
<1>3. v = [w EXCEPT !.page = g, !.pve = p]
  BY <1>2 DEF AbortAgent, Worlds, PageType, PveType
<1> HIDE DEF g, p
<1>4. v \in Worlds /\ v.pve = p /\ v.session = w.session /\ v.trace = w.trace /\ v.log = w.log
  BY <1>1, <1>3 DEF Worlds
<1>5. PveStep(w, v)
  BY <1>1, <1>4 DEF PveStep, PveEnds
<1>6. QED BY <1>2, <1>5

LEMMA ConstructStep ==
  ASSUME NEW w \in Worlds PROVE PveStep(w, Construct(w))
<1> DEFINE p == [w.pve EXCEPT !.stage = "timer"]
           g == [w.page EXCEPT !.ready = w.page.tracking /\ w.session.diff]
           timed == [w EXCEPT !.pve = p, !.page = g]
           v == IF w.session.cached = NotCached THEN timed
                ELSE Activate(timed, w.session.cached.flags)
<1>1. p \in PveType /\ g \in PageType /\ p.blocked = w.pve.blocked
      /\ p.inflight = w.pve.inflight /\ p.buffer = w.pve.buffer
      /\ w.pve.inflight \in Nat /\ w.pve.buffer \in Nat
      /\ w.session.cached.flags \in FlagType
  BY DEF Worlds, PageType, PveType, SessionType, CachedType
<1>2. [w EXCEPT !.pve.stage = "timer", !.page.ready = w.page.tracking /\ w.session.diff] = timed
  BY DEF Worlds, PageType, PveType
<1>3. Construct(w) = IF w.pve.waiting /\ ~w.pve.sentRum THEN SendRum(v) ELSE v
  BY <1>2 DEF Construct
<1>t. timed = [w EXCEPT !.pve = p, !.page = g]
  OBVIOUS
<1> HIDE DEF p, g, timed
<1>u. timed \in Worlds /\ timed.pve = p /\ timed.session = w.session
      /\ timed.trace = w.trace /\ timed.log = w.log
  BY <1>1, <1>t DEF Worlds
<1>4. PveStep(w, timed)
  BY <1>1, <1>u DEF PveStep, PveEnds
<1>5. PveStep(w, v)
  <2>1. timed \in Worlds
    BY <1>4 DEF PveStep
  <2>2. PveStep(timed, Activate(timed, w.session.cached.flags))
    BY <1>1, <2>1, ActivateStep
  <2>3. QED BY <1>4, <2>2, PveStepsCompose
<1> HIDE DEF v
<1>6. v \in Worlds
  BY <1>5 DEF PveStep
<1>7. QED BY <1>3, <1>5, <1>6, SendRumStep, PveStepsCompose

\* What the answer of the RUM call changes before it is looked at
LEMMA CleanupStep ==
  ASSUME NEW w \in Worlds, w.pve.inflight > 0, NEW retry \in BOOLEAN
  PROVE  PveStep(w, Cleanup(w, retry))
<1> DEFINE b == IF retry THEN w.pve.buffer + w.pve.backup ELSE w.pve.buffer
           i == w.pve.inflight - 1
           p == [w.pve EXCEPT !.isRetrying = retry, !.buffer = b, !.backup = 0, !.inflight = i]
<1>1. w.pve \in PveType
  BY DEF Worlds
<1>b. b \in Nat /\ i \in Nat /\ b >= w.pve.buffer /\ i <= w.pve.inflight
  BY <1>1 DEF PveType
<1> HIDE DEF b, i
<1>2. p \in PveType /\ p.blocked = w.pve.blocked /\ p.inflight = i /\ p.buffer = b
  BY <1>1, <1>b DEF PveType
<1>3. Cleanup(w, retry) = [w EXCEPT !.pve = p]
  BY <1>1 DEF Cleanup, Worlds, PveType, b, i
<1> HIDE DEF p
<1>4. QED BY <1>b, <1>2, <1>3 DEF PveStep, PveEnds, Worlds

LEMMA TimeStep == ASSUME NEW w \in Worlds PROVE PveStep(w, ProcessRumRequest(w))
<1> DEFINE g == [w.page EXCEPT !.ready = TRUE]
           s == [w.session EXCEPT !.diff = w.session.diff \/ w.page.tracking]
<1>1. /\ g \in PageType /\ s \in SessionType /\ s.value = w.session.value
      /\ w.pve.inflight \in Nat /\ w.pve.buffer \in Nat
  BY DEF Worlds, PageType, SessionType, PveType
<1>2. PICK v : v = ProcessRumRequest(w)
  OBVIOUS
<1>3. v = [w EXCEPT !.page = g, !.session = s]
  BY <1>2 DEF ProcessRumRequest, Worlds, PageType, SessionType
<1> HIDE DEF g, s
<1>4. v \in Worlds /\ v.pve = w.pve /\ v.session = s /\ v.trace = w.trace /\ v.log = w.log
  BY <1>1, <1>3 DEF Worlds
<1>5. PveStep(w, v)
  BY <1>1, <1>4 DEF PveStep, PveEnds
<1>6. QED BY <1>2, <1>5

LEMMA AnswerStep ==
  ASSUME NEW w \in Worlds, w.pve.inflight > 0, NEW a \in Answers PROVE PveStep(w, Answer(w, a))
<1> DEFINE hasCached == w.session.cached # NotCached
           app == IF a.app = None /\ hasCached THEN w.session.cached.app ELSE a.app
           flags == IF hasCached THEN w.session.cached.flags ELSE a.flags
           v == Cleanup(w, a.status = "retry" /\ ~hasCached)
           s == [v.session EXCEPT !.cached = [app |-> app, flags |-> flags]]
           timer == [v.pve EXCEPT !.retried = TRUE, !.retryTimer = TRUE]
           kept == IF a.status = "ok" /\ w.page.tracking /\ ~hasCached /\ app # None
                   THEN [v EXCEPT !.session.cached = [app |-> app, flags |-> flags]] ELSE v
           retried == [v EXCEPT !.pve.retried = TRUE, !.pve.retryTimer = TRUE]
<1>1. a.app \in {None, "untimed", "timed"} /\ a.flags \in FlagType
  BY Constants DEF Answers, Failures
<1>2. /\ w.session \in SessionType /\ w.session.cached \in CachedType
      /\ w.session.cached.app \in {None, "untimed", "timed"}
      /\ w.session.cached.flags \in FlagType
  BY DEF Worlds, SessionType, CachedType
<1>3. app \in {None, "untimed", "timed"} /\ flags \in FlagType
  BY <1>1, <1>2
<1>4. Answer(w, a) \in {retried, AbortAgent(kept), Activate(ProcessRumRequest(kept), flags)}
  BY DEF Answer
<1>5. PveStep(w, v) /\ v \in Worlds
  BY CleanupStep DEF PveStep
<1> HIDE DEF app, flags, v
<1>6. v.session \in SessionType /\ v.pve \in PveType
  BY <1>5 DEF Worlds
<1>7. PveStep(v, retried)
  <2>1. timer \in PveType /\ timer.blocked = v.pve.blocked /\ timer.inflight = v.pve.inflight
        /\ timer.buffer = v.pve.buffer /\ v.pve.inflight \in Nat /\ v.pve.buffer \in Nat
    BY <1>6 DEF PveType
  <2>2. retried = [v EXCEPT !.pve = timer]
    BY <1>5 DEF Worlds, PveType
  <2> HIDE DEF timer, retried
  <2>3. retried \in Worlds /\ retried.pve = timer /\ retried.session = v.session
        /\ retried.trace = v.trace /\ retried.log = v.log
    BY <1>5, <2>1, <2>2 DEF Worlds
  <2>4. QED BY <2>1, <2>3 DEF PveStep, PveEnds
<1>8. PveStep(v, kept)
  <2>1. [app |-> app, flags |-> flags] \in CachedType
    BY <1>3 DEF CachedType
  <2>2. s \in SessionType /\ s.value = v.session.value
    BY <1>6, <2>1 DEF SessionType
  <2>3. kept = v \/ kept = [v EXCEPT !.session = s]
    BY <1>5 DEF Worlds, SessionType
  <2>4. v.pve.inflight \in Nat /\ v.pve.buffer \in Nat
    BY <1>6 DEF PveType
  <2> HIDE DEF s, kept
  <2>5. kept \in Worlds /\ kept.pve = v.pve /\ kept.session.value = v.session.value
        /\ kept.trace = v.trace /\ kept.log = v.log
    BY <1>5, <2>2, <2>3 DEF Worlds
  <2>6. QED BY <2>4, <2>5 DEF PveStep, PveEnds
<1> HIDE DEF kept, retried
<1>9. kept \in Worlds
  BY <1>8 DEF PveStep
<1>10. PveStep(v, AbortAgent(kept))
  BY <1>5, <1>8, <1>9, AbortAgentStep, PveStepsCompose
<1>11. PveStep(v, Activate(ProcessRumRequest(kept), flags))
  <2>1. PveStep(v, ProcessRumRequest(kept))
    BY <1>5, <1>8, <1>9, TimeStep, PveStepsCompose
  <2>2. ProcessRumRequest(kept) \in Worlds
    BY <2>1 DEF PveStep
  <2>3. QED BY <1>3, <1>5, <2>1, <2>2, ActivateStep, PveStepsCompose
<1>12. PveStep(v, Answer(w, a))
  BY <1>4, <1>7, <1>10, <1>11
<1>13. QED BY <1>5, <1>12, PveStepsCompose

LEMMA RetryStep == ASSUME NEW w \in Worlds PROVE PveStep(w, Retry(w))
<1> DEFINE p == [w.pve EXCEPT !.retryTimer = FALSE]
           u == [w EXCEPT !.pve = p]
           v == HarvestRum(u, FALSE)
           g == [v.page EXCEPT !.lapsed = v.page.lapsed \/ v.pve.inflight = w.pve.inflight]
<1>1. p \in PveType /\ p.blocked = w.pve.blocked /\ p.inflight = w.pve.inflight
      /\ p.buffer = w.pve.buffer /\ w.pve.inflight \in Nat /\ w.pve.buffer \in Nat
  BY DEF Worlds, PveType
<1>2. [w EXCEPT !.pve.retryTimer = FALSE] = u
  BY DEF Worlds, PveType
<1>3. Retry(w) = [v EXCEPT !.page.lapsed = v.page.lapsed \/ v.pve.inflight = w.pve.inflight]
  BY <1>2 DEF Retry
<1> HIDE DEF p
<1>4. PveStep(w, u)
  BY <1>1 DEF PveStep, PveEnds, Worlds
<1> HIDE DEF u
<1>5. PveStep(u, v)
  BY <1>4, HarvestRumStep DEF PveStep
<1>6. PveStep(w, v) /\ v \in Worlds
  BY <1>4, <1>5, PveStepsCompose DEF PveStep
<1> HIDE DEF v
<1>7. g \in PageType /\ Retry(w) = [v EXCEPT !.page = g]
  BY <1>3, <1>6 DEF Worlds, PageType
<1> HIDE DEF g
<1>8. PveStep(v, Retry(w))
  <2>1. v.pve \in PveType /\ v.pve.inflight \in Nat /\ v.pve.buffer \in Nat
    BY <1>6 DEF Worlds, PveType
  <2>2. QED BY <1>6, <1>7, <2>1 DEF PveStep, PveEnds, Worlds
<1>9. QED BY <1>6, <1>8, PveStepsCompose

LEMMA ConsentStep ==
  ASSUME NEW w \in Worlds, NEW accept \in BOOLEAN PROVE PveStep(w, Consent(w, accept))
<1> DEFINE g == [w.page EXCEPT !.consented = accept]
           p == [w.pve EXCEPT !.waiting = w.pve.waiting \/ (accept /\ w.pve.stage = "importing")]
           v == [w EXCEPT !.page = g, !.pve = p]
<1>1. /\ g \in PageType /\ p \in PveType /\ p.blocked = w.pve.blocked
      /\ p.inflight = w.pve.inflight /\ p.buffer = w.pve.buffer
      /\ w.pve.inflight \in Nat /\ w.pve.buffer \in Nat
  BY DEF Worlds, PageType, PveType
<1>2. [w EXCEPT !.page.consented = accept,
                !.pve.waiting = w.pve.waiting \/ (accept /\ w.pve.stage = "importing")] = v
  BY DEF Worlds, PageType, PveType
<1>3. Consent(w, accept) \in {v, SendRum(v)}
  BY <1>2 DEF Consent
<1>t. v = [w EXCEPT !.page = g, !.pve = p]
  OBVIOUS
<1> HIDE DEF g, p, v
<1>4. v \in Worlds /\ v.pve = p /\ v.session = w.session /\ v.trace = w.trace /\ v.log = w.log
  BY <1>1, <1>t DEF Worlds
<1>5. PveStep(w, v)
  BY <1>1, <1>4 DEF PveStep, PveEnds
<1>6. QED BY <1>3, <1>4, <1>5, SendRumStep, PveStepsCompose

-----------------------------------------------------------------------------
(***************************************************************************)
(* The logs: blocked, they are off and keep nothing that an answer could   *)
(* bring back.                                                             *)
(***************************************************************************)
LogGood(g) ==
  /\ g \in LogType
  /\ g.blocked => g.modes = Off /\ g.buffer = 0 /\ g.backup = 0
  /\ g.stage = "waiting" => g.buffer = 0 /\ g.backup = 0 /\ ~g.listening
LogEnds(g, h) == g.blocked => h.blocked /\ h.inflight <= g.inflight
LogStep(w, v) ==
  /\ v \in Worlds /\ v.trace = w.trace /\ v.pve = w.pve
  /\ v.page = w.page /\ v.session.value = w.session.value
  /\ LogGood(v.log) /\ LogEnds(w.log, v.log)

\* A step that changes the logs and, of the session, only their modes
LEMMA LogsChange ==
  ASSUME NEW w \in Worlds, NEW h, LogGood(h), LogEnds(w.log, h),
         NEW m \in LogModes, NEW v,
         v = [w EXCEPT !.log = h] \/ v = [w EXCEPT !.log = h, !.session.logModes = m]
  PROVE  LogStep(w, v)
<1> DEFINE s == [w.session EXCEPT !.logModes = m]
<1>1. h \in LogType
  BY DEF LogGood
<1>2. s \in SessionType /\ s.value = w.session.value
  BY DEF Worlds, SessionType
<1>3. v = [w EXCEPT !.log = h] \/ v = [w EXCEPT !.log = h, !.session = s]
  BY DEF Worlds, SessionType
<1> HIDE DEF s
<1>4. v \in Worlds /\ v.trace = w.trace /\ v.pve = w.pve /\ v.page = w.page /\ v.log = h
      /\ v.session.value = w.session.value
  BY <1>1, <1>2, <1>3 DEF Worlds
<1>5. QED BY <1>4 DEF LogStep

LEMMA LogStepsCompose ==
  ASSUME NEW u \in Worlds, NEW w, NEW v, LogStep(u, w), LogStep(w, v) PROVE LogStep(u, v)
BY SMTT(20), ZenonT(60) DEF LogStep, LogEnds, Worlds, LogType

LEMMA HandleLogGood ==
  ASSUME NEW w \in Worlds, LogGood(w.log), w.log.stage # "waiting", NEW origin \in Origins
  PROVE  LogStep(w, HandleLog(w, origin)) /\ HandleLog(w, origin).log.stage # "waiting"
<1> DEFINE h == [w.log EXCEPT !.buffer = w.log.buffer + 1]
<1>0. w.log \in LogType /\ w.session.logModes \in LogModes
  BY DEF Worlds, SessionType
<1>1. CASE HandleLog(w, origin) = w
  BY <1>0, <1>1 DEF LogStep, LogEnds, LogType
<1>2. CASE ~w.log.blocked /\ HandleLog(w, origin) = [w EXCEPT !.log = h]
  <2>1. LogGood(h) /\ LogEnds(w.log, h) /\ h.stage = w.log.stage
    BY <1>0, <1>2 DEF LogGood, LogEnds, LogType
  <2> HIDE DEF h
  <2>2. LogStep(w, HandleLog(w, origin))
    BY <1>0, <1>2, <2>1, LogsChange
  <2>3. HandleLog(w, origin).log = h
    BY <1>2 DEF Worlds
  <2>4. QED BY <2>1, <2>2, <2>3
<1>3. HandleLog(w, origin) = w \/ (~w.log.blocked /\ HandleLog(w, origin) = [w EXCEPT !.log = h])
  BY DEF HandleLog, Worlds, LogType
<1>4. QED BY <1>1, <1>2, <1>3

LEMMA WriteLogModesStep ==
  ASSUME NEW w \in Worlds, LogGood(w.log), NEW m \in LogModes
  PROVE  LogStep(w, WriteLogModes(w, m)) /\ WriteLogModes(w, m).log = w.log
<1> DEFINE s == [w.session EXCEPT !.logModes = m]
<1>1. s \in SessionType /\ s.value = w.session.value /\ w.log \in LogType
  BY DEF Worlds, SessionType
<1>2. WriteLogModes(w, m) = w \/ WriteLogModes(w, m) = [w EXCEPT !.session = s]
  BY DEF WriteLogModes, Worlds, SessionType
<1> HIDE DEF s
<1>3. QED BY <1>1, <1>2 DEF LogStep, LogEnds, Worlds, LogType

LEMMA ReleaseLogsStep ==
  ASSUME NEW w \in Worlds, LogGood(w.log) PROVE LogStep(w, ReleaseLogs(w))
<1> DEFINE st == IF w.log.stage = "waiting" THEN w.log.stage ELSE "done"
           h == [w.log EXCEPT !.backlog = <<>>, !.live = TRUE, !.stage = st]
<1>0. w.log \in LogType /\ <<>> \in Seq(Origins) /\ w.session.logModes \in LogModes
  BY DEF Worlds, SessionType
<1>1. st \in {"waiting", "done"} /\ (st = "waiting" => w.log.stage = "waiting")
  BY <1>0 DEF LogType
<1>2. ReleaseLogs(w) = [w EXCEPT !.log = h]
  BY DEF ReleaseLogs, Worlds, LogType
<1> HIDE DEF st
<1>3. h \in LogType /\ h.blocked = w.log.blocked /\ h.modes = w.log.modes /\ h.stage = st
      /\ h.buffer = w.log.buffer /\ h.backup = w.log.backup /\ h.listening = w.log.listening
      /\ h.inflight = w.log.inflight /\ w.log.inflight \in Nat
  BY <1>0, <1>1 DEF LogType
<1> HIDE DEF h
<1>4. LogGood(h) /\ LogEnds(w.log, h)
  BY <1>1, <1>3 DEF LogGood, LogEnds
<1>5. QED BY <1>0, <1>2, <1>4, LogsChange

LEMMA AbortLogsStep ==
  ASSUME NEW w \in Worlds, LogGood(w.log) PROVE LogStep(w, AbortLogs(w))
<1> DEFINE h == [w.log EXCEPT !.blocked = TRUE, !.buffer = 0, !.backup = 0, !.modes = Off]
           v == [w EXCEPT !.log = h]
           u == WriteLogModes(v, Off)
<1>0. w.log \in LogType /\ Off \in LogModes /\ w.session.logModes \in LogModes
  BY Constants DEF Worlds, SessionType
<1>1. h \in LogType /\ h.blocked /\ h.modes = Off /\ h.buffer = 0 /\ h.backup = 0
      /\ h.stage = w.log.stage /\ h.listening = w.log.listening
      /\ h.inflight = w.log.inflight /\ w.log.inflight \in Nat
  BY <1>0 DEF LogType
<1>2. AbortLogs(w) = ReleaseLogs(u)
  <2>1. [w EXCEPT !.log.blocked = TRUE, !.log.buffer = 0, !.log.backup = 0,
                  !.log.modes = Off] = v
    BY DEF Worlds, LogType
  <2>2. QED BY <2>1 DEF AbortLogs
<1>t. v = [w EXCEPT !.log = h]
  OBVIOUS
<1> HIDE DEF h, v
<1>3. LogGood(h) /\ LogEnds(w.log, h)
  BY <1>1 DEF LogGood, LogEnds
<1>4. LogStep(w, v)
  BY <1>0, <1>3, <1>t, LogsChange
<1>5. LogStep(v, u)
  BY <1>0, <1>4, WriteLogModesStep DEF LogStep
<1> HIDE DEF u
<1>6. LogStep(u, ReleaseLogs(u))
  BY <1>5, ReleaseLogsStep DEF LogStep
<1>7. LogStep(w, u)
  BY <1>4, <1>5, LogStepsCompose
<1>8. QED BY <1>2, <1>6, <1>7, LogStepsCompose

\* The flags set the modes first; logs that are off by then end at once.
LEMMA LogFlagsStep ==
  ASSUME NEW w \in Worlds, LogGood(w.log), w.log.stage = "waiting"
  PROVE  LogStep(w, LogFlags(w))
<1> DEFINE own == IF w.log.modes = Unset THEN w.page.flags.log ELSE w.log.modes
           stored == w.session.logModes
           Changed(h) == [w EXCEPT !.log = h]
           With(m) == [w.log EXCEPT !.modes = m]
           done == [w.log EXCEPT !.stage = "done"]
           v == IF ~w.page.tracking THEN [w EXCEPT !.log.modes = own]
                ELSE IF None \in {stored.auto, stored.api}
                THEN WriteLogModes([w EXCEPT !.log.modes = own], own)
                ELSE [w EXCEPT !.log.modes = stored]
<1>0. w.log \in LogType /\ w.page.flags.log \in LogModes /\ stored \in LogModes
      /\ own \in LogModes /\ w.log.inflight \in Nat
  BY DEF Worlds, LogType, PageType, SessionType, FlagType
<1>1. CASE w.log.blocked
  <2>1. LogFlags(w) = Changed(done)
    BY <1>1 DEF LogFlags, Worlds, LogType
  <2>2. done \in LogType /\ done.stage = "done" /\ done.modes = w.log.modes /\ done.blocked
        /\ done.buffer = w.log.buffer /\ done.backup = w.log.backup
        /\ done.inflight = w.log.inflight
    BY <1>0, <1>1 DEF LogType
  <2> HIDE DEF done
  <2>3. LogGood(done) /\ LogEnds(w.log, done)
    BY <1>0, <1>1, <2>2 DEF LogGood, LogEnds
  <2>4. QED BY <1>0, <2>1, <2>3, LogsChange
<1>2. CASE ~w.log.blocked
  <2>1. ASSUME NEW m \in LogModes
        PROVE  /\ [w EXCEPT !.log.modes = m] = Changed(With(m))
               /\ LogStep(w, Changed(With(m))) /\ Changed(With(m)).log = With(m)
               /\ With(m).blocked = FALSE /\ With(m).stage = "waiting"
    <3>1. [w EXCEPT !.log.modes = m] = Changed(With(m)) /\ Changed(With(m)).log = With(m)
      BY DEF Worlds, LogType
    <3>2. With(m) \in LogType /\ ~With(m).blocked /\ With(m).stage = "waiting"
          /\ With(m).buffer = w.log.buffer /\ With(m).backup = w.log.backup
          /\ With(m).listening = w.log.listening
      BY <1>0, <1>2 DEF LogType
    <3> DEFINE h == With(m)
    <3>3. h = With(m)
      OBVIOUS
    <3> HIDE DEF h, With
    <3>4. LogGood(h) /\ LogEnds(w.log, h)
      BY <1>2, <3>2, <3>3 DEF LogGood, LogEnds
    <3>5. LogStep(w, Changed(h))
      BY <1>0, <3>4, LogsChange
    <3>6. With(m).blocked = FALSE
      BY <3>2 DEF LogType
    <3>7. QED BY <3>1, <3>2, <3>3, <3>5, <3>6
  <2>2. LogStep(w, v) /\ ~v.log.blocked /\ v.log.stage = "waiting"
    <3>1. LogStep(w, [w EXCEPT !.log.modes = own]) /\ ~[w EXCEPT !.log.modes = own].log.blocked
          /\ [w EXCEPT !.log.modes = own].log.stage = "waiting"
      <4> HIDE DEF own
      <4>1. QED BY <1>0, <2>1
    <3>2. LogStep(w, [w EXCEPT !.log.modes = stored]) /\ ~[w EXCEPT !.log.modes = stored].log.blocked
          /\ [w EXCEPT !.log.modes = stored].log.stage = "waiting"
      BY <1>0, <2>1
    <3> DEFINE x == [w EXCEPT !.log.modes = own]
    <3> HIDE DEF x
    <3>3. x \in Worlds /\ LogGood(x.log)
      BY <3>1 DEF LogStep, x
    <3>4. LogStep(x, WriteLogModes(x, own)) /\ WriteLogModes(x, own).log = x.log
      BY <1>0, <3>3, WriteLogModesStep
    <3>5. LogStep(w, WriteLogModes(x, own))
      BY <3>1, <3>4, LogStepsCompose DEF x
    <3>6. QED BY <3>1, <3>2, <3>4, <3>5 DEF x
  <2>3. LogFlags(w) = IF v.log.modes = Off
                      THEN ReleaseLogs([v EXCEPT !.log.blocked = TRUE, !.log.stage = "done"])
                      ELSE [v EXCEPT !.log.stage = "staged"]
    BY <1>2 DEF LogFlags
  <2> HIDE DEF v
  <2>4. v \in Worlds /\ LogGood(v.log) /\ v.log \in LogType /\ v.session.logModes \in LogModes
    BY <2>2 DEF LogStep, LogGood, Worlds, SessionType
  <2>5. CASE v.log.modes = Off
    <3> DEFINE h == [v.log EXCEPT !.blocked = TRUE, !.stage = "done"]
               u == [v EXCEPT !.log = h]
    <3>1. h \in LogType /\ h.modes = Off /\ h.stage = "done" /\ h.buffer = v.log.buffer
          /\ h.backup = v.log.backup
      BY <2>4, <2>5 DEF LogType
    <3>2. [v EXCEPT !.log.blocked = TRUE, !.log.stage = "done"] = u
      BY <2>4 DEF Worlds, LogType
    <3>t. u = [v EXCEPT !.log = h]
      OBVIOUS
    <3> HIDE DEF h, u
    <3>3. LogGood(h) /\ LogEnds(v.log, h)
      BY <2>2, <2>4, <3>1 DEF LogGood, LogEnds
    <3>4. LogStep(v, u)
      BY <2>4, <3>3, <3>t, LogsChange
    <3>5. LogStep(u, ReleaseLogs(u))
      BY <3>4, ReleaseLogsStep DEF LogStep
    <3>6. LogStep(w, u)
      BY <2>2, <3>4, LogStepsCompose
    <3>7. QED BY <2>3, <2>5, <3>2, <3>5, <3>6, LogStepsCompose
  <2>6. CASE v.log.modes # Off
    <3> DEFINE h == [v.log EXCEPT !.stage = "staged"]
    <3>1. h \in LogType /\ ~h.blocked /\ h.stage = "staged"
      BY <2>2, <2>4 DEF LogType
    <3>2. LogFlags(w) = [v EXCEPT !.log = h]
      BY <2>3, <2>4, <2>6 DEF Worlds, LogType
    <3> HIDE DEF h
    <3>3. LogGood(h) /\ LogEnds(v.log, h)
      BY <2>2, <3>1 DEF LogGood, LogEnds
    <3>4. LogStep(v, LogFlags(w))
      BY <2>4, <3>2, <3>3, LogsChange
    <3>5. QED BY <2>2, <3>4, LogStepsCompose
  <2>7. QED BY <2>5, <2>6
<1>3. QED BY <1>1, <1>2

LEMMA LogUpdateStep ==
  ASSUME NEW w \in Worlds, LogGood(w.log) PROVE LogStep(w, LogUpdate(w))
<1> DEFINE h == [w.log EXCEPT !.modes = w.session.logModes]
<1>0. w.log \in LogType /\ w.session.logModes \in LogModes /\ w.log.inflight \in Nat
  BY DEF Worlds, LogType, SessionType
<1>1. CASE LogUpdate(w) = w
  BY <1>0, <1>1 DEF LogStep, LogEnds
<1>2. CASE LogUpdate(w) = AbortLogs(w)
  BY <1>2, AbortLogsStep
<1>3. CASE ~w.log.blocked /\ LogUpdate(w) = [w EXCEPT !.log.modes = w.session.logModes]
  <2>1. LogGood(h) /\ LogEnds(w.log, h)
    BY <1>0, <1>3 DEF LogGood, LogEnds, LogType
  <2>2. LogUpdate(w) = [w EXCEPT !.log = h]
    BY <1>3 DEF Worlds, LogType
  <2> HIDE DEF h
  <2>3. QED BY <1>0, <2>1, <2>2, LogsChange
<1>4. QED BY <1>1, <1>2, <1>3 DEF LogUpdate

LEMMA LogResetStep ==
  ASSUME NEW w \in Worlds, LogGood(w.log) PROVE LogStep(w, LogReset(w))
<1>1. w.log.inflight \in Nat
  BY DEF Worlds, LogType
<1>2. QED BY <1>1, AbortLogsStep DEF LogReset, LogStep, LogEnds

LEMMA HarvestLogsStep ==
  ASSUME NEW w \in Worlds, LogGood(w.log), NEW final \in BOOLEAN
  PROVE  LogStep(w, HarvestLogs(w, final))
<1> DEFINE b == IF final THEN w.log.backup ELSE w.log.buffer
           i == IF final THEN w.log.inflight ELSE w.log.inflight + 1
           h == [w.log EXCEPT !.backup = b, !.buffer = 0, !.inflight = i]
<1>0. w.log \in LogType /\ w.session.logModes \in LogModes /\ b \in Nat /\ i \in Nat
  BY DEF Worlds, LogType, SessionType
<1>1. CASE HarvestLogs(w, final) = w
  BY <1>0, <1>1 DEF LogStep, LogEnds, LogType
<1>2. CASE ~w.log.blocked /\ w.log.buffer # 0 /\ HarvestLogs(w, final) = [w EXCEPT !.log = h]
  <2>1. LogGood(h) /\ LogEnds(w.log, h)
    <3> HIDE DEF b, i
    <3>1. QED BY <1>0, <1>2 DEF LogGood, LogEnds, LogType
  <2> HIDE DEF h
  <2>2. QED BY <1>0, <1>2, <2>1, LogsChange
<1>3. \/ HarvestLogs(w, final) = w
      \/ ~w.log.blocked /\ w.log.buffer # 0 /\ HarvestLogs(w, final) = [w EXCEPT !.log = h]
  BY DEF HarvestLogs, Worlds, LogType
<1>4. QED BY <1>1, <1>2, <1>3

LEMMA LogsAnsweredStep ==
  ASSUME NEW w \in Worlds, LogGood(w.log), w.log.inflight > 0, NEW status
  PROVE  LogStep(w, LogsAnswered(w, status))
<1> DEFINE b == IF status = "retry" THEN w.log.buffer + w.log.backup ELSE w.log.buffer
           i == w.log.inflight - 1
           h == [w.log EXCEPT !.inflight = i, !.backup = 0, !.buffer = b]
<1>0. w.log \in LogType /\ w.session.logModes \in LogModes /\ i \in Nat
      /\ i <= w.log.inflight
  BY DEF Worlds, LogType, SessionType
<1>1. b \in Nat /\ (LogGood(w.log) /\ (w.log.blocked \/ w.log.stage = "waiting") => b = 0)
  BY <1>0 DEF LogGood, LogType
<1>2. LogGood(h) /\ LogEnds(w.log, h)
  <2> HIDE DEF b, i
  <2>1. h \in LogType /\ h.blocked = w.log.blocked /\ h.modes = w.log.modes
        /\ h.stage = w.log.stage /\ h.buffer = b /\ h.backup = 0
        /\ h.listening = w.log.listening /\ h.inflight <= w.log.inflight
    BY <1>0, <1>1 DEF LogType
  <2> HIDE DEF h
  <2>2. QED BY <1>1, <2>1 DEF LogGood, LogEnds
<1>3. LogsAnswered(w, status) = [w EXCEPT !.log = h]
  BY DEF LogsAnswered, Worlds, LogType
<1> HIDE DEF h
<1>4. QED BY <1>0, <1>2, <1>3, LogsChange

LEMMA BufferLogStep ==
  ASSUME NEW w \in Worlds, LogGood(w.log), NEW origin \in Origins
  PROVE  LogStep(w, BufferLog(w, origin))
<1> DEFINE h == [w.log EXCEPT !.n = w.log.n + 1]
           v == [w EXCEPT !.log = h]
           g == [h EXCEPT !.backlog = Append(h.backlog, origin)]
<1>0. w.log \in LogType /\ w.session.logModes \in LogModes
  BY DEF Worlds, SessionType
<1>1. LogGood(h) /\ LogEnds(w.log, h) /\ h \in LogType
  BY <1>0 DEF LogGood, LogEnds, LogType
<1>2. LogGood(g) /\ LogEnds(h, g)
  <2>1. Append(h.backlog, origin) \in Seq(Origins) /\ h.inflight \in Nat
    BY <1>1 DEF LogType
  <2>2. g \in LogType /\ g.blocked = h.blocked /\ g.modes = h.modes /\ g.stage = h.stage
        /\ g.buffer = h.buffer /\ g.backup = h.backup /\ g.listening = h.listening
        /\ g.inflight = h.inflight
    <3> HIDE DEF h
    <3>1. QED BY <1>1, <2>1 DEF LogType
  <2> HIDE DEF g, h
  <2>3. QED BY <1>1, <2>1, <2>2 DEF LogGood, LogEnds
<1>3. BufferLog(w, origin) = IF w.page.aborted THEN v
                             ELSE IF ~w.log.live THEN [v EXCEPT !.log = g]
                             ELSE IF w.log.listening THEN HandleLog(v, origin) ELSE v
  BY <1>0 DEF BufferLog, Worlds, LogType
<1>4. h.listening = w.log.listening
  BY <1>0 DEF LogType
<1>t. v = [w EXCEPT !.log = h]
  OBVIOUS
<1> HIDE DEF h, v, g
<1>5. LogStep(w, v) /\ v.log = h /\ v \in Worlds
  <2>1. LogStep(w, v)
    BY <1>0, <1>1, <1>t, LogsChange
  <2>2. v.log = h
    BY <1>t DEF Worlds
  <2>3. QED BY <2>1, <2>2 DEF LogStep
<1>6. CASE BufferLog(w, origin) = v
  BY <1>5, <1>6
<1>7. CASE BufferLog(w, origin) = [v EXCEPT !.log = g]
  <2>1. v.session.logModes \in LogModes
    BY <1>5 DEF Worlds, SessionType
  <2>2. LogStep(v, BufferLog(w, origin))
    BY <1>2, <1>5, <1>7, <2>1, LogsChange
  <2>3. QED BY <1>5, <2>2, LogStepsCompose
<1>8. CASE w.log.listening /\ BufferLog(w, origin) = HandleLog(v, origin)
  <2>1. v.log.stage # "waiting"
    BY <1>1, <1>4, <1>5, <1>8 DEF LogGood
  <2>2. LogStep(v, HandleLog(v, origin))
    BY <1>1, <1>5, <2>1, HandleLogGood
  <2>3. QED BY <1>5, <1>8, <2>2, LogStepsCompose
<1>9. QED BY <1>3, <1>6, <1>7, <1>8

LogFold == INSTANCE Folding WITH Op <- HandleLog

LEMMA SameLogFold == \A v, q : FoldLeft(HandleLog, v, q) = LogFold!FoldLeft(HandleLog, v, q)
BY DEF FoldLeft, LogFold!FoldLeft, MapThenFoldSet, LogFold!MapThenFoldSet, Max, LogFold!Max

LEMMA DrainLogsStep ==
  ASSUME NEW w \in Worlds, LogGood(w.log) PROVE LogStep(w, DrainLogs(w))
<1> DEFINE h == [w.log EXCEPT !.stage = "done"]
           g == [w.log EXCEPT !.stage = "done", !.live = TRUE, !.listening = TRUE,
                              !.backlog = <<>>]
           v == [w EXCEPT !.log = g]
           W == {u \in Worlds : LogStep(v, u) /\ u.log.stage # "waiting"}
<1>0. w.log \in LogType /\ w.session.logModes \in LogModes /\ w.log.backlog \in Seq(Origins)
      /\ w.log.inflight \in Nat
  BY DEF Worlds, LogType, SessionType
<1>1. LogGood(h) /\ LogEnds(w.log, h)
  BY <1>0 DEF LogGood, LogEnds, LogType
<1>2. g \in LogType /\ LogGood(g) /\ LogEnds(w.log, g) /\ g.stage = "done"
  <2>1. <<>> \in Seq(Origins)
    OBVIOUS
  <2>2. g \in LogType /\ g.stage = "done" /\ g.blocked = w.log.blocked /\ g.modes = w.log.modes
        /\ g.buffer = w.log.buffer /\ g.backup = w.log.backup /\ g.inflight = w.log.inflight
    BY <1>0, <2>1 DEF LogType
  <2> HIDE DEF g
  <2>3. QED BY <1>0, <2>2 DEF LogGood, LogEnds
<1>3. DrainLogs(w) = IF w.page.aborted THEN [w EXCEPT !.log = h]
                     ELSE FoldLeft(HandleLog, v, w.log.backlog)
  <2>1. [w EXCEPT !.log.stage = "done", !.log.live = TRUE, !.log.listening = TRUE,
                  !.log.backlog = <<>>] = v
    BY DEF Worlds, LogType
  <2>2. [w EXCEPT !.log.stage = "done"] = [w EXCEPT !.log = h]
    BY DEF Worlds, LogType
  <2> HIDE DEF v, h
  <2>3. QED BY <2>1, <2>2 DEF DrainLogs
<1>t. v = [w EXCEPT !.log = g]
  OBVIOUS
<1> HIDE DEF h, g, v
<1>4. CASE w.page.aborted
  BY <1>0, <1>1, <1>3, <1>4, LogsChange
<1>5. CASE ~w.page.aborted
  <2>1. LogStep(w, v) /\ v \in Worlds /\ v.log = g
    <3>1. LogStep(w, v)
      BY <1>0, <1>2, <1>t, LogsChange
    <3>2. v.log = g
      BY <1>t DEF Worlds
    <3>3. QED BY <3>1, <3>2 DEF LogStep
  <2>2. v \in W
    <3>1. LogStep(v, v)
      BY <1>2, <2>1 DEF LogStep, LogEnds, LogType
    <3>2. QED BY <1>2, <2>1, <3>1
  <2>3. ASSUME NEW u \in W, NEW e \in Origins PROVE HandleLog(u, e) \in W
    <3>1. u \in Worlds /\ LogGood(u.log) /\ u.log.stage # "waiting" /\ LogStep(v, u)
      BY DEF LogStep
    <3>2. LogStep(u, HandleLog(u, e)) /\ HandleLog(u, e).log.stage # "waiting"
      BY <3>1, HandleLogGood
    <3>3. LogStep(v, HandleLog(u, e)) /\ HandleLog(u, e) \in Worlds
      BY <2>1, <3>1, <3>2, LogStepsCompose DEF LogStep
    <3>4. QED BY <3>2, <3>3
  <2> HIDE DEF W
  <2>4. LogFold!FoldLeft(HandleLog, v, w.log.backlog) \in W
    BY <1>0, <2>2, <2>3, LogFold!FoldStays, Zenon
  <2>5. LogStep(v, FoldLeft(HandleLog, v, w.log.backlog))
    BY <2>4, SameLogFold DEF W
  <2>6. QED BY <1>3, <1>5, <2>1, <2>5, LogStepsCompose
<1>6. QED BY <1>4, <1>5
-----------------------------------------------------------------------------
(***************************************************************************)
(* The trace.  It belongs to the session it started in: that session and   *)
(* those of its nodes lie in a span that ends with the current one, so     *)
(* that a trace whose session is the current one only has nodes of it.     *)
(***************************************************************************)
Span(first, last) == {node \in NodeType : first <= node.session /\ node.session <= last}

TraceGood(t, now) ==
  /\ t \in TraceType /\ ~t.mixed
  /\ t.blocked => t.mode = "off"
  /\ t.sessionId <= now
  /\ t.nodes \in Seq(Span(t.sessionId, now)) /\ t.backup \in Seq(Span(t.sessionId, now))
  /\ ~t.initialized => t.nodes = <<>> /\ t.backup = <<>> /\ t.sessionId = 0
  /\ t.stage = "waiting" <=> ~(t.initialized \/ t.blocked)
  /\ t.stage = "waiting" => ~t.live

Good(w) == w \in Worlds /\ TraceGood(w.trace, w.session.value)
Ready(w) == w.trace.initialized \/ w.trace.blocked

TraceKeep(w, v) ==
  /\ Good(v) /\ v.pve = w.pve /\ v.page = w.page /\ v.log = w.log
  /\ v.session.value = w.session.value
  /\ w.trace.initialized => v.trace.initialized
  /\ w.trace.blocked => v.trace.blocked
TraceEnds(w, v) ==
  w.trace.blocked => /\ v.trace.inflight <= w.trace.inflight
                     /\ Len(v.trace.nodes) >= Len(w.trace.nodes)

LEMMA SpanSeq == \A a, b, q : q \in Seq(Span(a, b)) => q \in Seq(NodeType)
BY DEF Span

LEMMA SpanGrows ==
  ASSUME NEW a \in Nat, NEW b \in Nat, NEW c \in Nat, b <= c
  PROVE  \A q : q \in Seq(Span(a, b)) => q \in Seq(Span(a, c))
<1>1. Span(a, b) \subseteq Span(a, c)
  BY DEF Span, NodeType
<1> DEFINE S == Span(a, b)
           T == Span(a, c)
<1> HIDE DEF S, T
<1>2. \A q : q \in Seq(S) => q \in Seq(T)
  BY <1>1 DEF S, T
<1>3. QED BY <1>2 DEF S, T

LEMMA TraceGoodLater ==
  ASSUME NEW a \in Nat, NEW b \in Nat, a <= b, NEW t, TraceGood(t, a) PROVE TraceGood(t, b)
<1>1. t.sessionId \in Nat
  BY DEF TraceGood, TraceType
<1>2. QED BY <1>1, SpanGrows DEF TraceGood

LEMMA KeepItself == ASSUME NEW w, Good(w) PROVE TraceKeep(w, w) /\ TraceEnds(w, w)
<1>1. w.trace.inflight \in Nat /\ Len(w.trace.nodes) \in Nat
  BY DEF Good, Worlds, TraceType
<1>2. QED BY <1>1 DEF TraceKeep, TraceEnds

LEMMA KeepsCompose ==
  ASSUME NEW u, NEW w, NEW v, TraceKeep(u, w), TraceKeep(w, v) PROVE TraceKeep(u, v)
BY DEF TraceKeep

LEMMA ReadyStays == ASSUME NEW w, NEW v, TraceKeep(w, v), Ready(w) PROVE Ready(v)
BY DEF TraceKeep, Ready

\* A step that changes the trace, and one that changes the session as well
LEMMA TraceChanges ==
  ASSUME NEW w \in Worlds, NEW t, TraceGood(t, w.session.value),
         w.trace.initialized => t.initialized, w.trace.blocked => t.blocked,
         NEW v, v = [w EXCEPT !.trace = t]
  PROVE  TraceKeep(w, v) /\ v.trace = t
<1>1. t \in TraceType
  BY DEF TraceGood
<1>2. v \in Worlds /\ v.trace = t /\ v.pve = w.pve /\ v.page = w.page /\ v.log = w.log
      /\ v.session = w.session
  BY <1>1 DEF Worlds
<1>3. QED BY <1>2 DEF TraceKeep, Good

LEMMA TraceAndModeChange ==
  ASSUME NEW w \in Worlds, NEW t, TraceGood(t, w.session.value),
         w.trace.initialized => t.initialized, w.trace.blocked => t.blocked,
         NEW s \in SessionType, s.value = w.session.value,
         NEW v, v = [w EXCEPT !.trace = t, !.session = s]
  PROVE  TraceKeep(w, v) /\ v.trace = t /\ v.session = s
<1>1. t \in TraceType
  BY DEF TraceGood
<1>2. v \in Worlds /\ v.trace = t /\ v.pve = w.pve /\ v.page = w.page /\ v.log = w.log
      /\ v.session = s
  BY <1>1 DEF Worlds
<1>3. QED BY <1>2 DEF TraceKeep, Good

LEMMA WithoutKeep ==
  ASSUME NEW w, Good(w), w.trace.initialized,
         NEW q \in Seq(Span(w.trace.sessionId, w.session.value))
  PROVE  TraceKeep(w, Without(w, q)) /\ Without(w, q).trace.nodes = q
         /\ Without(w, q).trace.blocked = w.trace.blocked
         /\ Without(w, q) = [w EXCEPT !.trace = [w.trace EXCEPT !.nodes = q]]
<1> DEFINE t == [w.trace EXCEPT !.nodes = q]
<1>0. w \in Worlds /\ w.trace \in TraceType /\ q \in Seq(NodeType)
  BY SpanSeq DEF Good, Worlds
<1>1. t \in TraceType /\ t.nodes = q /\ t.mixed = w.trace.mixed /\ t.blocked = w.trace.blocked
      /\ t.mode = w.trace.mode /\ t.sessionId = w.trace.sessionId /\ t.backup = w.trace.backup
      /\ t.initialized = w.trace.initialized /\ t.stage = w.trace.stage /\ t.live = w.trace.live
  BY <1>0 DEF TraceType
<1>2. Without(w, q) = [w EXCEPT !.trace = t]
  BY <1>0 DEF Without, Worlds, TraceType
<1>t. t = [w.trace EXCEPT !.nodes = q]
  OBVIOUS
<1> HIDE DEF t
<1>3. TraceGood(t, w.session.value)
  BY <1>1 DEF TraceGood, Good
<1>4. TraceKeep(w, Without(w, q)) /\ Without(w, q).trace = t
  <2>1. w.trace.initialized => t.initialized
    BY <1>1
  <2>2. w.trace.blocked => t.blocked
    BY <1>1
  <2>3. w \in Worlds /\ Without(w, q) = [w EXCEPT !.trace = t]
    BY <1>0, <1>2
  <2> DEFINE v == Without(w, q)
  <2> HIDE DEF v
  <2>4. v = [w EXCEPT !.trace = t]
    BY <2>3 DEF v
  <2>5. TraceKeep(w, v) /\ v.trace = t
    BY <1>3, <2>1, <2>2, <2>3, <2>4, TraceChanges
  <2>6. QED BY <2>5 DEF v
<1>5. QED BY <1>1, <1>2, <1>4, <1>t

LEMMA MakeRoomKeep ==
  ASSUME NEW w, Good(w), w.trace.initialized
  PROVE  TraceKeep(w, MakeRoom(w)) /\ MakeRoom(w).session = w.session
         /\ MakeRoom(w).trace.sessionId = w.trace.sessionId
         /\ MakeRoom(w).trace.blocked = w.trace.blocked
<1> DEFINE v == Without(w, <<>>)
<1>0. w \in Worlds
  BY DEF Good
<1>1. <<>> \in Seq(Span(w.trace.sessionId, w.session.value))
  OBVIOUS
<1>2. TraceKeep(w, v) /\ v.trace.nodes = <<>> /\ v.trace.blocked = w.trace.blocked
      /\ v = [w EXCEPT !.trace = [w.trace EXCEPT !.nodes = <<>>]]
  BY <1>1, WithoutKeep
<1>3. v.session = w.session /\ v.trace.sessionId = w.trace.sessionId
  BY <1>0, <1>2 DEF Worlds, TraceType
<1> HIDE DEF v
<1>4. ~Full(v)
  BY <1>2, TraceAssumption DEF Full
<1>5. MakeRoom(w) = w \/ MakeRoom(w) = v
  BY <1>4 DEF MakeRoom, TrimByTime, v
<1>6. QED BY <1>2, <1>3, <1>5, KeepItself

LEMMA StoreKeep ==
  ASSUME NEW w, Good(w), Ready(w), NEW kind \in {"timing"} \cup EventKinds
  PROVE  TraceKeep(w, Store(w, kind)) /\ (w.trace.blocked => Store(w, kind) = w)
         /\ Store(w, kind).trace.blocked = w.trace.blocked
<1> DEFINE v == MakeRoom(w)
           node == [kind |-> kind, session |-> w.session.value]
           u == Without(v, Append(v.trace.nodes, node))
<1>1. CASE ~CanStore(w)
  BY <1>1, KeepItself DEF Store
<1>2. CASE CanStore(w)
  <2>1. ~w.trace.blocked /\ w.trace.initialized
    BY <1>2 DEF CanStore, Ready
  <2>2. TraceKeep(w, v) /\ v.session = w.session /\ v.trace.sessionId = w.trace.sessionId
        /\ v.trace.blocked = w.trace.blocked
    BY <2>1, MakeRoomKeep
  <2>3. Store(w, kind) = v \/ Store(w, kind) = u
    BY <1>2 DEF Store
  <2> HIDE DEF v
  <2>4. Good(v) /\ v.trace.initialized
    BY <2>1, <2>2 DEF TraceKeep
  <2>5. node \in Span(v.trace.sessionId, v.session.value)
    BY <2>2, <2>4 DEF Good, Span, NodeType, EventKinds, TraceGood, Worlds, SessionType, TraceType
  <2>6. Append(v.trace.nodes, node) \in Seq(Span(v.trace.sessionId, v.session.value))
    <3> HIDE DEF node
    <3>1. v.trace.nodes \in Seq(Span(v.trace.sessionId, v.session.value))
      BY <2>4 DEF Good, TraceGood
    <3>2. QED BY <2>5, <3>1
  <2>7. TraceKeep(v, u) /\ u.trace.blocked = v.trace.blocked
    <3> DEFINE q == Append(v.trace.nodes, node)
    <3> HIDE DEF q
    <3>1. q \in Seq(Span(v.trace.sessionId, v.session.value))
      BY <2>6 DEF q
    <3>2. QED BY <2>4, <3>1, WithoutKeep DEF q
  <2>8. QED BY <2>1, <2>2, <2>3, <2>7, KeepsCompose
<1>3. QED BY <1>1, <1>2

\* abort(): the trace is blocked and off, and so is the mode of the session
LEMMA AbortKeep ==
  ASSUME NEW w, Good(w), Ready(w)
  PROVE  TraceKeep(w, Abort(w)) /\ Abort(w).trace.blocked
         /\ Abort(w).session.traceMode = "off" /\ Abort(w).trace.mode = "off"
<1> DEFINE t == [w.trace EXCEPT !.blocked = TRUE, !.mode = "off", !.nodes = <<>>]
           s == [w.session EXCEPT !.traceMode = "off"]
<1>0. w \in Worlds /\ w.trace \in TraceType /\ "off" \in Modes \cup {None}
      /\ <<>> \in Seq(Span(w.trace.sessionId, w.session.value)) /\ <<>> \in Seq(NodeType)
  BY DEF Good, Worlds, Modes
<1>p. PICK v : v = Abort(w)
  OBVIOUS
<1>1. t \in TraceType /\ t.nodes = <<>> /\ t.mixed = w.trace.mixed /\ t.blocked /\ t.mode = "off"
      /\ t.sessionId = w.trace.sessionId /\ t.backup = w.trace.backup
      /\ t.initialized = w.trace.initialized /\ t.stage = w.trace.stage /\ t.live = w.trace.live
  BY <1>0 DEF TraceType
<1>2. v = [w EXCEPT !.trace = t, !.session = s]
  BY <1>0, <1>p DEF Abort, Without, Worlds, TraceType, SessionType
<1> HIDE DEF t
<1>3. TraceGood(t, w.session.value)
  BY <1>0, <1>1 DEF TraceGood, Good, Ready
<1>4. (w.trace.initialized => t.initialized) /\ (w.trace.blocked => t.blocked)
  BY <1>1
<1>5. s \in SessionType /\ s.value = w.session.value /\ s.traceMode = "off"
  BY <1>0 DEF Worlds, SessionType
<1> HIDE DEF s
<1>6. TraceKeep(w, v) /\ v.trace = t /\ v.session = s
  <2>1. w \in Worlds /\ s \in SessionType /\ s.value = w.session.value
    BY <1>0, <1>5
  <2>2. v \in Worlds /\ v.trace = t /\ v.session = s /\ v.pve = w.pve /\ v.page = w.page
        /\ v.log = w.log
    BY <1>1, <1>2, <2>1 DEF Worlds
  <2>3. QED BY <1>3, <1>4, <2>1, <2>2 DEF TraceKeep, Good
<1>7. QED BY <1>1, <1>5, <1>6, <1>p

\* A request leaves when the session of the trace is the current one
LEMMA SendNodesKeep ==
  ASSUME NEW w, Good(w), w.trace.sessionId = w.session.value, NEW final \in BOOLEAN
  PROVE  TraceKeep(w, SendNodes(w, final))
<1> DEFINE b == IF final THEN w.trace.backup ELSE w.trace.nodes
           i == IF final THEN w.trace.inflight ELSE w.trace.inflight + 1
           x == \/ w.trace.mixed
                \/ w.trace.sessionId # w.session.value
                \/ \E k \in DOMAIN w.trace.nodes : w.trace.nodes[k].session # w.session.value
           t == [w.trace EXCEPT !.backup = b, !.nodes = <<>>, !.inflight = i, !.mixed = x]
           v == SendNodes(w, final)
           R == Span(w.trace.sessionId, w.session.value)
<1>0. w \in Worlds /\ w.trace \in TraceType /\ <<>> \in Seq(R) /\ <<>> \in Seq(NodeType)
      /\ w.trace.nodes \in Seq(R) /\ b \in Seq(R) /\ i \in Nat /\ w.session.value \in Nat
  BY DEF Good, Worlds, TraceType, TraceGood, SessionType
<1>1. x = FALSE
  <2>1. ASSUME NEW k \in DOMAIN w.trace.nodes PROVE w.trace.nodes[k].session = w.session.value
    <3>1. w.trace.nodes[k] \in R
      BY <1>0
    <3>2. QED BY <1>0, <3>1 DEF Span, NodeType
  <2>2. ~w.trace.mixed
    BY DEF Good, TraceGood
  <2>3. QED BY <2>1, <2>2
<1>2. b \in Seq(NodeType)
  BY <1>0, SpanSeq
<1>3. v = [w EXCEPT !.trace = t]
  BY <1>0 DEF SendNodes, Worlds, TraceType
<1> HIDE DEF b, i, x, v
<1>4. t \in TraceType /\ t.nodes = <<>> /\ t.mixed = FALSE /\ t.blocked = w.trace.blocked
      /\ t.mode = w.trace.mode /\ t.sessionId = w.trace.sessionId /\ t.backup = b
      /\ t.initialized = w.trace.initialized /\ t.stage = w.trace.stage /\ t.live = w.trace.live
  BY <1>0, <1>1, <1>2 DEF TraceType
<1>5. ~w.trace.initialized => b = <<>>
  BY DEF b, Good, TraceGood
<1> HIDE DEF t
<1>6. TraceGood(t, w.session.value)
  BY <1>0, <1>4, <1>5 DEF TraceGood, Good
<1>7. (w.trace.initialized => t.initialized) /\ (w.trace.blocked => t.blocked)
  BY <1>4
<1>8. TraceKeep(w, v)
  BY <1>0, <1>3, <1>6, <1>7, TraceChanges
<1>9. QED BY <1>8 DEF v

LEMMA HarvestKeep ==
  ASSUME NEW w, Good(w), NEW final \in BOOLEAN
  PROVE  TraceKeep(w, Harvest(w, final)) /\ (w.trace.blocked => Harvest(w, final) = w)
<1>1. CASE Harvest(w, final) = w
  BY <1>1, KeepItself
<1>2. CASE ~w.trace.blocked /\ w.trace.nodes # <<>> /\ Harvest(w, final) = Abort(w)
  <2>1. Ready(w)
    BY <1>2 DEF Good, TraceGood, Ready
  <2>2. QED BY <1>2, <2>1, AbortKeep
<1>3. CASE /\ ~w.trace.blocked /\ w.trace.sessionId = w.session.value
           /\ Harvest(w, final) = SendNodes(w, final)
  BY <1>3, SendNodesKeep
<1>4. QED BY <1>1, <1>2, <1>3 DEF Harvest

\* The stored mode wins, which is "off" where a trace was aborted
LEMMA ChooseModeKeep ==
  ASSUME NEW w, Good(w), NEW mode \in Modes \cup {None},
         w.trace.blocked => w.session.traceMode = "off"
  PROVE  TraceKeep(w, ChooseMode(w, mode))
<1> DEFINE m == IF w.session.traceMode # None THEN w.session.traceMode ELSE mode
           t == [w.trace EXCEPT !.mode = m]
           s == [w.session EXCEPT !.traceMode = m]
           v == [w EXCEPT !.trace = t, !.session = s]
           e == v.trace.onError \/ v.trace.mode = "error"
           y == [v.trace EXCEPT !.listening = TRUE, !.onError = e]
           u == [v EXCEPT !.trace = y]
<1>0. w \in Worlds /\ w.trace \in TraceType /\ m \in Modes \cup {None}
      /\ (w.trace.blocked => m = "off")
  BY DEF Good, Worlds, SessionType, None
<1>1. [w EXCEPT !.trace.mode = m, !.session.traceMode = m] = v
  BY <1>0 DEF Worlds, TraceType, SessionType
<1>2. ChooseMode(w, mode) = StartHandlers(v)
  BY <1>1 DEF ChooseMode
<1>t. v = [w EXCEPT !.trace = t, !.session = s]
  OBVIOUS
<1> HIDE DEF v, m
<1>s. s \in SessionType /\ s.value = w.session.value
  BY <1>0 DEF Worlds, SessionType
<1> HIDE DEF s
<1>3. t \in TraceType /\ t.nodes = w.trace.nodes /\ t.mixed = w.trace.mixed
      /\ t.blocked = w.trace.blocked /\ t.mode = m /\ t.sessionId = w.trace.sessionId
      /\ t.backup = w.trace.backup /\ t.initialized = w.trace.initialized
      /\ t.stage = w.trace.stage /\ t.live = w.trace.live
  BY <1>0 DEF TraceType
<1> HIDE DEF t
<1>4. TraceGood(t, w.session.value)
  BY <1>0, <1>3 DEF TraceGood, Good
<1>5. (w.trace.initialized => t.initialized) /\ (w.trace.blocked => t.blocked)
  BY <1>3
<1>6. TraceKeep(w, v)
  BY <1>0, <1>4, <1>5, <1>s, <1>t, TraceAndModeChange
<1>7. v \in Worlds /\ v.trace \in TraceType /\ Good(v)
  BY <1>6 DEF TraceKeep, Good, Worlds
<1>8. StartHandlers(v) = v \/ StartHandlers(v) = u
  BY <1>7 DEF StartHandlers, Worlds, TraceType
<1>9. TraceKeep(v, u)
  <2>1. y \in TraceType /\ y.nodes = v.trace.nodes /\ y.mixed = v.trace.mixed
        /\ y.blocked = v.trace.blocked /\ y.mode = v.trace.mode
        /\ y.sessionId = v.trace.sessionId /\ y.backup = v.trace.backup
        /\ y.initialized = v.trace.initialized /\ y.stage = v.trace.stage
        /\ y.live = v.trace.live
    <3>1. e \in BOOLEAN
      BY <1>7 DEF TraceType
    <3> HIDE DEF e
    <3>2. QED BY <1>7, <3>1 DEF TraceType
  <2>t. u = [v EXCEPT !.trace = y]
    OBVIOUS
  <2> HIDE DEF y, u
  <2>2. TraceGood(y, v.session.value)
    BY <1>7, <2>1 DEF TraceGood, Good
  <2>3. (v.trace.initialized => y.initialized) /\ (v.trace.blocked => y.blocked)
    BY <2>1
  <2>4. QED BY <1>7, <2>2, <2>3, <2>t, TraceChanges
<1> HIDE DEF u
<1>10. QED BY <1>2, <1>6, <1>8, <1>9, KeepsCompose

LEMMA StageKeep ==
  ASSUME NEW w, Good(w), Ready(w) PROVE TraceKeep(w, Stage(w))
<1> DEFINE t == IF w.trace.mode = "off" THEN [w.trace EXCEPT !.backlog = <<>>, !.live = TRUE]
                ELSE [w.trace EXCEPT !.stage = "staged"]
           v == Stage(w)
<1>0. w \in Worlds /\ w.trace \in TraceType /\ <<>> \in Seq(EventKinds)
  BY DEF Good, Worlds
<1>1. t \in TraceType /\ t.nodes = w.trace.nodes /\ t.mixed = w.trace.mixed
      /\ t.blocked = w.trace.blocked /\ t.mode = w.trace.mode
      /\ t.sessionId = w.trace.sessionId /\ t.backup = w.trace.backup
      /\ t.initialized = w.trace.initialized /\ t.stage # "waiting"
  BY <1>0 DEF TraceType, Good, TraceGood, Ready
<1>2. v = w \/ v = [w EXCEPT !.trace = t]
  BY <1>0 DEF Stage, Worlds, TraceType
<1> HIDE DEF t, v
<1>3. TraceGood(t, w.session.value)
  BY <1>1 DEF TraceGood, Good, Ready
<1>4. (w.trace.initialized => t.initialized) /\ (w.trace.blocked => t.blocked)
  BY <1>1
<1>5. TraceKeep(w, v)
  BY <1>0, <1>2, <1>3, <1>4, TraceChanges, KeepItself
<1>6. QED BY <1>5 DEF v

\* switchToFull() of a trace that runs: its session's listener may abort it at once
LEMMA SwitchToFullKeep ==
  ASSUME NEW w, Good(w), Ready(w)
  PROVE  TraceKeep(w, SwitchToFull(w)) /\ (w.trace.blocked => SwitchToFull(w) = w)
<1> DEFINE t == [w.trace EXCEPT !.mode = "full"]
           s == [w.session EXCEPT !.traceMode = "full"]
           written == [w EXCEPT !.trace.mode = "full", !.session.traceMode = "full"]
           v == IF w.trace.sessionId # w.session.value THEN Abort(written) ELSE written
<1>1. CASE SwitchToFull(w) = w
  BY <1>1, KeepItself
<1>2. CASE ~w.trace.blocked /\ SwitchToFull(w) = IF w.trace.mode = "off"
                                                 THEN Stage(ChooseMode(v, v.trace.mode))
                                                 ELSE Harvest(TrimByTime(v), FALSE)
  <2>0. w \in Worlds /\ w.trace \in TraceType /\ w.session \in SessionType
        /\ w.trace.initialized /\ "full" \in Modes \cup {None}
    BY <1>2 DEF Good, Worlds, Ready, Modes
  <2>1. t \in TraceType /\ t.nodes = w.trace.nodes /\ t.mixed = w.trace.mixed
        /\ t.blocked = w.trace.blocked /\ t.sessionId = w.trace.sessionId
        /\ t.backup = w.trace.backup /\ t.initialized = w.trace.initialized
        /\ t.stage = w.trace.stage /\ t.live = w.trace.live
    BY <2>0 DEF TraceType
  <2>2. s \in SessionType /\ s.value = w.session.value
    BY <2>0 DEF SessionType
  <2>t. written = [w EXCEPT !.trace = t, !.session = s]
    BY <2>0 DEF Worlds, TraceType, SessionType
  <2> HIDE DEF t, s, written
  <2>3. TraceGood(t, w.session.value)
    BY <1>2, <2>1 DEF TraceGood, Good
  <2>4. (w.trace.initialized => t.initialized) /\ (w.trace.blocked => t.blocked)
    BY <2>1
  <2>5. TraceKeep(w, written) /\ written.trace = t
    <3>1. written \in Worlds /\ written.trace = t /\ written.session = s /\ written.log = w.log
          /\ written.pve = w.pve /\ written.page = w.page
      BY <2>0, <2>1, <2>2, <2>t DEF Worlds
    <3>2. QED BY <2>2, <2>3, <2>4, <3>1 DEF TraceKeep, Good
  <2>6. Good(written) /\ Ready(written) /\ ~written.trace.blocked
    BY <1>2, <2>1, <2>5, ReadyStays DEF TraceKeep
  <2>7. TraceKeep(w, v) /\ (v.trace.blocked => v.session.traceMode = "off")
    <3>1. TraceKeep(written, Abort(written)) /\ Abort(written).session.traceMode = "off"
      BY <2>6, AbortKeep
    <3>2. QED BY <2>5, <2>6, <3>1, KeepsCompose
  <2> HIDE DEF v
  <2>8. Good(v) /\ Ready(v) /\ v.trace.initialized /\ v.trace.mode \in Modes \cup {None}
    BY <2>0, <2>7, ReadyStays DEF TraceKeep, Good, Worlds, TraceType
  <2>9. TraceKeep(w, Stage(ChooseMode(v, v.trace.mode)))
    <3>1. TraceKeep(v, ChooseMode(v, v.trace.mode))
      BY <2>7, <2>8, ChooseModeKeep
    <3> DEFINE c == ChooseMode(v, v.trace.mode)
    <3> HIDE DEF c
    <3>2. TraceKeep(v, c)
      BY <3>1 DEF c
    <3>3. Good(c) /\ Ready(c)
      BY <2>8, <3>2, ReadyStays DEF TraceKeep
    <3>4. TraceKeep(c, Stage(c))
      BY <3>3, StageKeep
    <3>5. TraceKeep(w, Stage(c))
      BY <2>7, <3>2, <3>4, KeepsCompose
    <3>6. QED BY <3>5 DEF c
  <2>10. TraceKeep(w, Harvest(TrimByTime(v), FALSE))
    <3>1. <<>> \in Seq(Span(v.trace.sessionId, v.session.value))
      OBVIOUS
    <3>2. TraceKeep(v, TrimByTime(v))
      BY <2>8, <3>1, WithoutKeep DEF TrimByTime
    <3> DEFINE c == TrimByTime(v)
    <3> HIDE DEF c
    <3>3. TraceKeep(v, c) /\ Good(c)
      BY <3>2 DEF c, TraceKeep
    <3>4. TraceKeep(c, Harvest(c, FALSE))
      BY <3>3, HarvestKeep
    <3>5. TraceKeep(w, Harvest(c, FALSE))
      BY <2>7, <3>3, <3>4, KeepsCompose
    <3>6. QED BY <3>5 DEF c
  <2>11. QED BY <1>2, <2>9, <2>10
<1>3. SwitchToFull(w) = w
      \/ (~w.trace.blocked /\ SwitchToFull(w) = IF w.trace.mode = "off"
                                                THEN Stage(ChooseMode(v, v.trace.mode))
                                                ELSE Harvest(TrimByTime(v), FALSE))
  BY DEF SwitchToFull
<1>4. QED BY <1>1, <1>2, <1>3

\* A trace that waits for its flags has not begun: what it begins with is good.
LEMMA InitializeKeep ==
  ASSUME NEW w, Good(w), w.trace.stage = "waiting", NEW flags \in FlagType
  PROVE  TraceKeep(w, Initialize([w EXCEPT !.trace.stage = "running"], flags))
<1> DEFINE u == [w EXCEPT !.trace.stage = "running"]
           v == [u EXCEPT !.trace.entitled = flags.st]
           a == [w.trace EXCEPT !.stage = "running", !.entitled = flags.st, !.blocked = TRUE,
                                !.mode = "off", !.nodes = <<>>]
           s == [w.session EXCEPT !.traceMode = "off"]
           n == w.trace.n + 1
           b == [w.trace EXCEPT !.stage = "running", !.entitled = flags.st, !.initialized = TRUE,
                                !.sessionId = w.session.value, !.n = n]
           first == [v EXCEPT !.trace.initialized = TRUE, !.trace.sessionId = w.session.value,
                              !.trace.n = v.trace.n + 1]
           timed == Store(first, "timing")
           begun == ChooseMode(timed, flags.sts)
<1>0. /\ w \in Worlds /\ w.trace \in TraceType /\ w.session \in SessionType
      /\ w.session.value \in Nat /\ flags.st \in BOOLEAN /\ flags.sts \in Modes \cup {None}
      /\ ~w.trace.initialized /\ ~w.trace.blocked /\ w.trace.nodes = <<>>
      /\ w.trace.backup = <<>> /\ ~w.trace.live /\ ~w.trace.mixed
  BY DEF Good, Worlds, TraceGood, FlagType, SessionType
<1>1. CASE ~flags.st
  <2>1. Initialize(u, flags) = Stage(Abort(v))
    BY <1>1 DEF Initialize
  <2>2. PICK x : x = Abort(v)
    OBVIOUS
  <2>3. x = [w EXCEPT !.trace = a, !.session = s]
    BY <1>0, <2>2 DEF Abort, Without, Worlds, TraceType, SessionType
  <2>4. a \in TraceType /\ a.nodes = <<>> /\ a.mixed = w.trace.mixed /\ a.blocked
        /\ a.mode = "off" /\ a.sessionId = w.trace.sessionId /\ a.backup = w.trace.backup
        /\ a.initialized = w.trace.initialized /\ a.stage = "running"
    <3>1. <<>> \in Seq(NodeType)
      OBVIOUS
    <3>2. QED BY <1>0, <3>1 DEF TraceType, Modes
  <2>5. s \in SessionType /\ s.value = w.session.value
    BY <1>0 DEF SessionType, Modes
  <2> HIDE DEF a, s
  <2>6. TraceGood(a, w.session.value)
    BY <1>0, <2>4 DEF TraceGood, Good
  <2>7. x \in Worlds /\ x.trace = a /\ x.session = s /\ x.pve = w.pve /\ x.page = w.page
        /\ x.log = w.log
    BY <1>0, <2>3, <2>4, <2>5 DEF Worlds
  <2>8. TraceKeep(w, x) /\ Good(x) /\ Ready(x)
    BY <1>0, <2>4, <2>5, <2>6, <2>7 DEF TraceKeep, Good, Ready
  <2>9. TraceKeep(w, Stage(x))
    BY <2>8, StageKeep, KeepsCompose
  <2>10. QED BY <2>1, <2>2, <2>9
<1>2. CASE flags.st
  <2>1. Initialize(u, flags)
        = Stage(IF begun.session.replayMode = "full" THEN SwitchToFull(begun) ELSE begun)
    <3>1. v.session.value = w.session.value /\ u.session.value = w.session.value
      BY <1>0 DEF Worlds
    <3>2. QED BY <1>2, <3>1 DEF Initialize
  <2>2. first = [w EXCEPT !.trace = b]
    BY <1>0 DEF Worlds, TraceType
  <2>3. b \in TraceType /\ b.nodes = <<>> /\ b.mixed = FALSE /\ b.blocked = FALSE
        /\ b.sessionId = w.session.value /\ b.backup = <<>> /\ b.initialized
        /\ b.stage = "running"
    <3>1. n \in Nat
      BY <1>0 DEF TraceType
    <3> HIDE DEF n
    <3>2. QED BY <1>0, <3>1 DEF TraceType
  <2> HIDE DEF b, first
  <2>4. TraceGood(b, w.session.value)
    <3>1. <<>> \in Seq(Span(b.sessionId, w.session.value))
      OBVIOUS
    <3>2. QED BY <1>0, <2>3, <3>1 DEF TraceGood
  <2>5. TraceKeep(w, first) /\ first.trace = b
    BY <1>0, <2>2, <2>3, <2>4, TraceChanges
  <2>6. TraceKeep(first, timed) /\ ~timed.trace.blocked
    BY <2>3, <2>5, StoreKeep DEF TraceKeep, Ready
  <2> HIDE DEF timed
  <2>7. Good(timed) /\ Ready(timed)
    BY <2>3, <2>5, <2>6 DEF TraceKeep, Ready
  <2>8. TraceKeep(timed, begun)
    BY <1>0, <2>6, <2>7, ChooseModeKeep
  <2> HIDE DEF begun
  <2>9. Good(begun) /\ Ready(begun) /\ TraceKeep(w, begun)
    BY <2>5, <2>6, <2>7, <2>8, ReadyStays, KeepsCompose DEF TraceKeep
  <2> DEFINE x == IF begun.session.replayMode = "full" THEN SwitchToFull(begun) ELSE begun
  <2>10. TraceKeep(begun, x)
    BY <2>9, SwitchToFullKeep, KeepItself
  <2> HIDE DEF x
  <2>11. Good(x) /\ Ready(x) /\ TraceKeep(w, x)
    BY <2>9, <2>10, ReadyStays, KeepsCompose DEF TraceKeep
  <2>12. TraceKeep(w, Stage(x))
    BY <2>11, StageKeep, KeepsCompose
  <2>13. QED BY <2>1, <2>12 DEF x
<1>3. QED BY <1>1, <1>2

LEMMA OnUpdateKeep ==
  ASSUME NEW w, Good(w), NEW crossTab
  PROVE  TraceKeep(w, OnUpdate(w, crossTab)) /\ (w.trace.blocked => OnUpdate(w, crossTab) = w)
<1> DEFINE v == IF w.trace.mode # "full"
                     /\ "full" \in {w.session.replayMode, w.session.traceMode}
                THEN SwitchToFull(w) ELSE w
<1>1. CASE OnUpdate(w, crossTab) = w
  BY <1>1, KeepItself
<1>2. CASE w.trace.initialized /\ ~w.trace.blocked /\ OnUpdate(w, crossTab) \in {v, Abort(v)}
  <2>1. Ready(w)
    BY <1>2 DEF Ready
  <2>2. TraceKeep(w, v)
    BY <2>1, SwitchToFullKeep, KeepItself
  <2> HIDE DEF v
  <2>3. Good(v) /\ Ready(v)
    BY <2>1, <2>2, ReadyStays DEF TraceKeep
  <2>4. TraceKeep(v, Abort(v))
    BY <2>3, AbortKeep
  <2>5. QED BY <1>2, <2>2, <2>4, KeepsCompose
<1>3. \/ OnUpdate(w, crossTab) = w
      \/ w.trace.initialized /\ ~w.trace.blocked /\ OnUpdate(w, crossTab) \in {v, Abort(v)}
  BY DEF OnUpdate
<1>4. QED BY <1>1, <1>2, <1>3

LEMMA HandleKeep ==
  ASSUME NEW w, Good(w), Ready(w), NEW kind \in EventKinds
  PROVE  TraceKeep(w, Handle(w, kind)) /\ (w.trace.blocked => Handle(w, kind) = w)
<1> DEFINE v == Store(w, kind)
<1>1. Handle(w, kind) \in {v, SwitchToFull(v)}
  BY DEF Handle
<1>2. TraceKeep(w, v) /\ (w.trace.blocked => v = w)
  BY StoreKeep
<1> HIDE DEF v
<1>3. Good(v) /\ Ready(v)
  BY <1>2, ReadyStays DEF TraceKeep
<1>4. TraceKeep(v, SwitchToFull(v)) /\ (v.trace.blocked => SwitchToFull(v) = v)
  BY <1>3, SwitchToFullKeep
<1>5. TraceKeep(w, SwitchToFull(v))
  BY <1>2, <1>4, KeepsCompose
<1>6. QED BY <1>1, <1>2, <1>4, <1>5

\* A step of the trace that leaves alone what its goodness is about
LEMMA BookkeepingKeep ==
  ASSUME NEW w, Good(w), NEW t \in TraceType,
         t.nodes = w.trace.nodes, t.mixed = w.trace.mixed, t.blocked = w.trace.blocked,
         t.mode = w.trace.mode, t.sessionId = w.trace.sessionId, t.backup = w.trace.backup,
         t.initialized = w.trace.initialized, t.inflight = w.trace.inflight,
         t.stage = "waiting" <=> w.trace.stage = "waiting", t.stage = "waiting" => ~t.live,
         NEW v, v = [w EXCEPT !.trace = t]
  PROVE  TraceKeep(w, v) /\ TraceEnds(w, v) /\ v.trace = t
<1>1. TraceGood(t, w.session.value)
  BY DEF TraceGood, Good
<1>2. TraceKeep(w, v) /\ v.trace = t
  BY <1>1, TraceChanges DEF Good
<1>3. w.trace.inflight \in Nat /\ Len(w.trace.nodes) \in Nat
  BY DEF Good, Worlds, TraceType
<1>4. QED BY <1>2, <1>3 DEF TraceEnds

LEMMA RecordKeep ==
  ASSUME NEW w, Good(w), NEW kind \in EventKinds
  PROVE  TraceKeep(w, Record(w, kind)) /\ TraceEnds(w, Record(w, kind))
<1> DEFINE n == w.trace.n + 1
           t == [w.trace EXCEPT !.n = n]
           v == [w EXCEPT !.trace = t]
           q == Append(w.trace.backlog, kind)
           y == [w.trace EXCEPT !.n = n, !.backlog = q]
           x == [w EXCEPT !.trace = y]
<1>0. w \in Worlds /\ w.trace \in TraceType /\ n \in Nat /\ q \in Seq(EventKinds)
  BY DEF Good, Worlds, TraceType
<1>1. \/ Record(w, kind) = v
      \/ Record(w, kind) = x
      \/ w.trace.live /\ Record(w, kind) = Handle(v, kind)
  <2>1. [w EXCEPT !.trace.n = n] = v
    BY <1>0 DEF Worlds, TraceType
  <2>2. [v EXCEPT !.trace.backlog = Append(v.trace.backlog, kind)] = x
    BY <1>0 DEF Worlds, TraceType
  <2> HIDE DEF v, x
  <2>3. QED BY <2>1, <2>2 DEF Record
<1>t. v = [w EXCEPT !.trace = t] /\ x = [w EXCEPT !.trace = y]
  OBVIOUS
<1> HIDE DEF n, q, v, x
<1>2. t \in TraceType /\ t.nodes = w.trace.nodes /\ t.mixed = w.trace.mixed
      /\ t.blocked = w.trace.blocked /\ t.mode = w.trace.mode
      /\ t.sessionId = w.trace.sessionId /\ t.backup = w.trace.backup
      /\ t.initialized = w.trace.initialized /\ t.inflight = w.trace.inflight
      /\ t.stage = w.trace.stage /\ t.live = w.trace.live
  BY <1>0 DEF TraceType
<1>3. y \in TraceType /\ y.nodes = w.trace.nodes /\ y.mixed = w.trace.mixed
      /\ y.blocked = w.trace.blocked /\ y.mode = w.trace.mode
      /\ y.sessionId = w.trace.sessionId /\ y.backup = w.trace.backup
      /\ y.initialized = w.trace.initialized /\ y.inflight = w.trace.inflight
      /\ y.stage = w.trace.stage /\ y.live = w.trace.live
  BY <1>0 DEF TraceType
<1>4. (t.stage = "waiting" => ~t.live) /\ (y.stage = "waiting" => ~y.live)
  BY <1>2, <1>3 DEF Good, TraceGood
<1> HIDE DEF t, y
<1>5. TraceKeep(w, v) /\ TraceEnds(w, v) /\ v.trace = t
  BY <1>2, <1>4, <1>t, BookkeepingKeep
<1>6. TraceKeep(w, x) /\ TraceEnds(w, x) /\ x.trace = y
  BY <1>3, <1>4, <1>t, BookkeepingKeep
<1>7. CASE w.trace.live /\ Record(w, kind) = Handle(v, kind)
  <2>1. Good(v) /\ Ready(v)
    BY <1>2, <1>5, <1>7 DEF TraceKeep, Good, TraceGood, Ready
  <2>2. TraceKeep(v, Handle(v, kind)) /\ (v.trace.blocked => Handle(v, kind) = v)
    BY <2>1, HandleKeep
  <2>3. TraceKeep(w, Handle(v, kind))
    BY <1>5, <2>2, KeepsCompose
  <2>4. TraceEnds(w, Handle(v, kind))
    BY <1>2, <1>5, <2>2 DEF TraceEnds
  <2>5. QED BY <1>7, <2>3, <2>4
<1>8. QED BY <1>1, <1>5, <1>6, <1>7

NodeFold == INSTANCE Folding WITH Op <- Handle

LEMMA SameNodeFold == \A v, q : FoldLeft(Handle, v, q) = NodeFold!FoldLeft(Handle, v, q)
BY DEF FoldLeft, NodeFold!FoldLeft, MapThenFoldSet, NodeFold!MapThenFoldSet, Max, NodeFold!Max

LEMMA DrainKeep ==
  ASSUME NEW w, Good(w), w.trace.stage = "staged"
  PROVE  TraceKeep(w, Drain(w)) /\ TraceEnds(w, Drain(w))
<1> DEFINE t == [w.trace EXCEPT !.live = TRUE, !.stage = "done", !.backlog = <<>>]
           y == [w.trace EXCEPT !.stage = "done"]
           v == [w EXCEPT !.trace = t]
           x == [w EXCEPT !.trace = y]
           W == {u \in Worlds : TraceKeep(v, u) /\ TraceEnds(v, u)}
<1>0. w \in Worlds /\ w.trace \in TraceType /\ <<>> \in Seq(EventKinds)
      /\ w.trace.backlog \in Seq(EventKinds)
  BY DEF Good, Worlds, TraceType
<1>1. Drain(w) = IF w.page.aborted THEN x ELSE FoldLeft(Handle, v, w.trace.backlog)
  <2>1. [w EXCEPT !.trace.live = TRUE, !.trace.stage = "done", !.trace.backlog = <<>>] = v
    BY <1>0 DEF Worlds, TraceType
  <2>2. [w EXCEPT !.trace.stage = "done"] = x
    BY <1>0 DEF Worlds, TraceType
  <2> HIDE DEF v, x
  <2>3. QED BY <2>1, <2>2 DEF Drain
<1>t. v = [w EXCEPT !.trace = t] /\ x = [w EXCEPT !.trace = y]
  OBVIOUS
<1> HIDE DEF v, x
<1>2. t \in TraceType /\ t.nodes = w.trace.nodes /\ t.mixed = w.trace.mixed
      /\ t.blocked = w.trace.blocked /\ t.mode = w.trace.mode
      /\ t.sessionId = w.trace.sessionId /\ t.backup = w.trace.backup
      /\ t.initialized = w.trace.initialized /\ t.inflight = w.trace.inflight
      /\ t.stage = "done"
  BY <1>0 DEF TraceType
<1>3. y \in TraceType /\ y.nodes = w.trace.nodes /\ y.mixed = w.trace.mixed
      /\ y.blocked = w.trace.blocked /\ y.mode = w.trace.mode
      /\ y.sessionId = w.trace.sessionId /\ y.backup = w.trace.backup
      /\ y.initialized = w.trace.initialized /\ y.inflight = w.trace.inflight
      /\ y.stage = "done"
  BY <1>0 DEF TraceType
<1> HIDE DEF t, y
<1>5. TraceKeep(w, v) /\ TraceEnds(w, v) /\ v.trace = t
  BY <1>2, <1>t, BookkeepingKeep
<1>6. TraceKeep(w, x) /\ TraceEnds(w, x) /\ x.trace = y
  BY <1>3, <1>t, BookkeepingKeep
<1>7. Good(v) /\ Ready(v)
  BY <1>2, <1>5 DEF TraceKeep, Good, TraceGood, Ready
<1>8. FoldLeft(Handle, v, w.trace.backlog) \in W
  <2>1. v \in W
    BY <1>7, KeepItself DEF Good
  <2>2. ASSUME NEW u \in W, NEW e \in EventKinds PROVE Handle(u, e) \in W
    <3>1. TraceKeep(v, u) /\ TraceEnds(v, u) /\ Good(u) /\ Ready(u)
      BY <1>7, ReadyStays DEF TraceKeep
    <3>2. TraceKeep(u, Handle(u, e)) /\ (u.trace.blocked => Handle(u, e) = u)
      BY <3>1, HandleKeep
    <3>3. TraceKeep(v, Handle(u, e)) /\ Handle(u, e) \in Worlds
      BY <3>1, <3>2, KeepsCompose DEF TraceKeep, Good
    <3>4. TraceEnds(v, Handle(u, e))
      BY <3>1, <3>2 DEF TraceEnds, TraceKeep
    <3>5. QED BY <3>3, <3>4
  <2> HIDE DEF W
  <2>3. NodeFold!FoldLeft(Handle, v, w.trace.backlog) \in W
    BY <1>0, <2>1, <2>2, NodeFold!FoldStays, Zenon
  <2>4. QED BY <2>3, SameNodeFold
<1>9. PICK f : f = FoldLeft(Handle, v, w.trace.backlog)
  OBVIOUS
<1>10. TraceKeep(v, f) /\ TraceEnds(v, f)
  BY <1>8, <1>9
<1>11. TraceKeep(w, f) /\ TraceEnds(w, f)
  <2>1. TraceKeep(w, f)
    BY <1>5, <1>10, KeepsCompose
  <2>2. TraceEnds(w, f)
    <3>1. w.trace.blocked => v.trace.blocked
      BY <1>2, <1>5
    <3>2. v.trace.inflight = w.trace.inflight /\ v.trace.nodes = w.trace.nodes
      BY <1>2, <1>5
    <3>3. QED BY <1>10, <3>1, <3>2 DEF TraceEnds
  <2>3. QED BY <2>1, <2>2
<1>12. QED BY <1>1, <1>6, <1>9, <1>11

LEMMA AnsweredKeep ==
  ASSUME NEW w, Good(w), w.trace.inflight > 0, NEW status
  PROVE  TraceKeep(w, Answered(w, status)) /\ TraceEnds(w, Answered(w, status))
<1> DEFINE i == w.trace.inflight - 1
           q == IF status = "retry" THEN w.trace.backup \o w.trace.nodes ELSE w.trace.nodes
           t == [w.trace EXCEPT !.inflight = i, !.backup = <<>>, !.nodes = q]
           v == Answered(w, status)
           R == Span(w.trace.sessionId, w.session.value)
<1>0. w \in Worlds /\ w.trace \in TraceType /\ i \in Nat /\ i <= w.trace.inflight
      /\ w.trace.nodes \in Seq(R) /\ w.trace.backup \in Seq(R)
      /\ <<>> \in Seq(R) /\ <<>> \in Seq(NodeType)
  BY DEF Good, Worlds, TraceType, TraceGood
<1>1. q \in Seq(R) /\ Len(q) >= Len(w.trace.nodes)
  <2> HIDE DEF R
  <2>1. w.trace.backup \o w.trace.nodes \in Seq(R)
        /\ Len(w.trace.backup \o w.trace.nodes) = Len(w.trace.backup) + Len(w.trace.nodes)
        /\ Len(w.trace.backup) \in Nat /\ Len(w.trace.nodes) \in Nat
    BY <1>0
  <2>2. CASE status = "retry"
    <3>1. q = w.trace.backup \o w.trace.nodes
      BY <2>2
    <3> DEFINE c == w.trace.backup \o w.trace.nodes
    <3> HIDE DEF q, c
    <3>2. c \in Seq(R) /\ Len(c) = Len(w.trace.backup) + Len(w.trace.nodes) /\ q = c
      BY <2>1, <3>1 DEF c
    <3>3. Len(c) >= Len(w.trace.nodes)
      <4> DEFINE m == Len(w.trace.backup)
                 n == Len(w.trace.nodes)
                 k == Len(c)
      <4>1. m \in Nat /\ n \in Nat /\ k = m + n
        BY <2>1, <3>2
      <4> HIDE DEF m, n, k
      <4>2. k >= n
        BY <4>1
      <4>3. QED BY <4>2 DEF k, n
    <3>4. QED BY <3>2, <3>3
  <2>3. CASE status # "retry"
    <3>1. q = w.trace.nodes
      BY <2>3
    <3> HIDE DEF q
    <3>2. QED BY <1>0, <2>1, <3>1
  <2>4. QED BY <2>2, <2>3
<1>2. ~w.trace.initialized => q = <<>>
  BY DEF Good, TraceGood
<1>3. v = [w EXCEPT !.trace = t]
  BY <1>0 DEF Answered, Without, Worlds, TraceType
<1>4. q \in Seq(NodeType)
  BY <1>1, SpanSeq
<1> HIDE DEF i, q, v
<1>5. t \in TraceType /\ t.nodes = q /\ t.mixed = w.trace.mixed /\ t.blocked = w.trace.blocked
      /\ t.mode = w.trace.mode /\ t.sessionId = w.trace.sessionId /\ t.backup = <<>>
      /\ t.initialized = w.trace.initialized /\ t.stage = w.trace.stage /\ t.live = w.trace.live
      /\ t.inflight = i
  BY <1>0, <1>4 DEF TraceType
<1> HIDE DEF t
<1>6. TraceGood(t, w.session.value)
  BY <1>0, <1>1, <1>2, <1>5 DEF TraceGood, Good
<1>7. (w.trace.initialized => t.initialized) /\ (w.trace.blocked => t.blocked)
  BY <1>5
<1>8. TraceKeep(w, v) /\ v.trace = t
  BY <1>0, <1>3, <1>6, <1>7, TraceChanges
<1>9. QED BY <1>0, <1>1, <1>5, <1>8 DEF v, TraceEnds

-----------------------------------------------------------------------------
(***************************************************************************)
(* The invariant, and a step: it keeps the invariant and what was ended.   *)
(***************************************************************************)
AllGood(w) == Good(w) /\ LogGood(w.log)
AllStep(w, v) ==
  /\ AllGood(v) /\ PveEnds(w, v) /\ LogEnds(w.log, v.log) /\ TraceEnds(w, v)
  /\ w.trace.blocked => v.trace.blocked

LEMMA NothingEnds ==
  ASSUME NEW w \in Worlds, NEW v
  PROVE  /\ v.pve = w.pve => PveEnds(w, v)
         /\ v.log = w.log => LogEnds(w.log, v.log)
         /\ v.trace = w.trace => TraceEnds(w, v)
<1>1. /\ w.pve.inflight \in Nat /\ w.pve.buffer \in Nat /\ w.log.inflight \in Nat
      /\ w.trace.inflight \in Nat /\ Len(w.trace.nodes) \in Nat
  BY DEF Worlds, PveType, LogType, TraceType
<1>2. QED BY <1>1 DEF PveEnds, LogEnds, TraceEnds

LEMMA PveStepIsStep ==
  ASSUME NEW w, AllGood(w), NEW v, PveStep(w, v) PROVE AllStep(w, v)
<1>1. w \in Worlds
  BY DEF AllGood, Good
<1>2. QED BY <1>1, NothingEnds DEF PveStep, AllStep, AllGood, Good

LEMMA LogStepIsStep ==
  ASSUME NEW w, AllGood(w), NEW v, LogStep(w, v) PROVE AllStep(w, v)
<1>1. w \in Worlds
  BY DEF AllGood, Good
<1>2. QED BY <1>1, NothingEnds DEF LogStep, AllStep, AllGood, Good

LEMMA TraceStepIsStep ==
  ASSUME NEW w, AllGood(w), NEW v, TraceKeep(w, v), TraceEnds(w, v) \/ (w.trace.blocked => v = w)
  PROVE  AllStep(w, v)
<1>1. w \in Worlds
  BY DEF AllGood, Good
<1>2. TraceEnds(w, v)
  BY <1>1, NothingEnds DEF TraceEnds
<1>3. QED BY <1>1, <1>2, NothingEnds DEF TraceKeep, AllStep, AllGood, Good

LEMMA AllStepsCompose ==
  ASSUME NEW u, AllGood(u), NEW w, NEW v, AllStep(u, w), AllStep(w, v) PROVE AllStep(u, v)
<1> DEFINE Numbers(x) == /\ x.pve.inflight \in Nat /\ x.pve.buffer \in Nat
                         /\ x.log.inflight \in Nat /\ x.trace.inflight \in Nat
                         /\ Len(x.trace.nodes) \in Nat
<1>1. Numbers(u) /\ Numbers(w) /\ Numbers(v)
  <2>1. u \in Worlds /\ w \in Worlds /\ v \in Worlds
    BY DEF AllStep, AllGood, Good
  <2>2. ASSUME NEW x \in Worlds PROVE Numbers(x)
    BY DEF Worlds, PveType, LogType, TraceType
  <2> HIDE DEF Numbers
  <2>3. QED BY <2>1, <2>2
<1>2. PveEnds(u, v)
  BY <1>1, SMTT(60) DEF AllStep, PveEnds
<1>3. LogEnds(u.log, v.log)
  BY <1>1 DEF AllStep, LogEnds
<1>4. TraceEnds(u, v)
  <2> SUFFICES ASSUME u.trace.blocked
               PROVE  /\ v.trace.inflight <= u.trace.inflight
                      /\ Len(v.trace.nodes) >= Len(u.trace.nodes)
    BY DEF TraceEnds
  <2>1. w.trace.inflight <= u.trace.inflight /\ Len(w.trace.nodes) >= Len(u.trace.nodes)
        /\ w.trace.blocked
    BY DEF AllStep, TraceEnds
  <2>2. v.trace.inflight <= w.trace.inflight /\ Len(v.trace.nodes) >= Len(w.trace.nodes)
    BY <2>1 DEF AllStep, TraceEnds
  <2>3. v.trace.inflight <= u.trace.inflight
    BY <1>1, <2>1, <2>2, SMTT(60)
  <2> DEFINE L(x) == Len(x.trace.nodes)
  <2>4. L(u) \in Nat /\ L(w) \in Nat /\ L(v) \in Nat /\ L(w) >= L(u) /\ L(v) >= L(w)
    BY <1>1, <2>1, <2>2
  <2> HIDE DEF L
  <2>5. L(v) >= L(u)
    BY <2>4
  <2>6. QED BY <2>3, <2>5 DEF L
<1>5. QED BY <1>2, <1>3, <1>4 DEF AllStep

\* The session changes by itself to one that is not older
LEMMA SessionChanges ==
  ASSUME NEW w, AllGood(w), NEW s \in SessionType, s.value >= w.session.value,
         NEW v, v = [w EXCEPT !.session = s]
  PROVE  AllStep(w, v)
<1>1. w \in Worlds /\ w.session.value \in Nat /\ s.value \in Nat
  BY DEF AllGood, Good, Worlds, SessionType
<1>2. v \in Worlds /\ v.session = s /\ v.trace = w.trace /\ v.log = w.log /\ v.pve = w.pve
  BY <1>1 DEF Worlds
<1>3. TraceGood(w.trace, s.value)
  BY <1>1, TraceGoodLater DEF AllGood, Good
<1>4. AllGood(v)
  BY <1>2, <1>3 DEF AllGood, Good
<1>5. QED BY <1>1, <1>2, <1>4, NothingEnds DEF AllStep

LEMMA ResetStep == ASSUME NEW w, AllGood(w) PROVE AllStep(w, OnReset(w))
<1> DEFINE v == IF w.trace.initialized /\ ~w.trace.blocked /\ ~w.page.aborted
                THEN Abort(w) ELSE w
           u == IF "logging" \in w.page.features THEN LogReset(v) ELSE v
           n == u.session.value + 1
           s == [u.session EXCEPT !.value = n, !.cached = NotCached, !.traceMode = None,
                                  !.replayMode = None, !.logModes = NoModes]
<1>0. Good(w) /\ w \in Worlds
  BY DEF AllGood, Good
<1>1. AllStep(w, v)
  <2>1. CASE w.trace.initialized /\ ~w.trace.blocked /\ ~w.page.aborted
    <3>1. TraceKeep(w, Abort(w))
      BY <1>0, <2>1, AbortKeep DEF Ready
    <3>2. QED BY <2>1, <3>1, TraceStepIsStep
  <2>2. CASE ~(w.trace.initialized /\ ~w.trace.blocked /\ ~w.page.aborted)
    BY <1>0, <2>2, KeepItself, TraceStepIsStep
  <2>3. QED BY <2>1, <2>2
<1> HIDE DEF v
<1>2. AllGood(v) /\ v \in Worlds /\ LogGood(v.log)
  BY <1>1 DEF AllStep, AllGood, Good
<1>3. AllStep(v, u)
  <2>1. AllStep(v, LogReset(v))
    BY <1>2, LogResetStep, LogStepIsStep
  <2>2. AllStep(v, v)
    BY <1>2, NothingEnds DEF AllStep
  <2>3. QED BY <2>1, <2>2
<1>4. OnReset(w) = [u EXCEPT !.session.value = n, !.session.cached = NotCached,
                             !.session.traceMode = None, !.session.replayMode = None,
                             !.session.logModes = NoModes]
  BY DEF OnReset, v
<1> HIDE DEF u
<1>5. AllGood(u) /\ u \in Worlds /\ u.session \in SessionType
  BY <1>3 DEF AllStep, AllGood, Good, Worlds
<1>6. s \in SessionType /\ s.value >= u.session.value
  <2>1. n \in Nat /\ n >= u.session.value
    BY <1>5 DEF SessionType
  <2> HIDE DEF n
  <2>2. QED BY <1>5, <2>1, Constants DEF SessionType
<1>7. PICK x : x = OnReset(w)
  OBVIOUS
<1>8. x = [u EXCEPT !.session = s]
  BY <1>4, <1>5, <1>7 DEF Worlds, SessionType
<1> HIDE DEF s
<1>9. AllStep(u, x)
  BY <1>5, <1>6, <1>8, SessionChanges
<1>10. AllStep(w, u)
  BY <1>1, <1>3, AllStepsCompose
<1>11. QED BY <1>7, <1>9, <1>10, AllStepsCompose

\* Another tab's session arrives, then the page's listener is told
LEMMA OtherTabStep ==
  ASSUME NEW w, AllGood(w), NEW s \in OtherTabs, s.value >= w.session.value
  PROVE  LET u == [w EXCEPT !.session.value = s.value, !.session.cached = s.cached]
         IN /\ AllStep(w, LogUpdate([u EXCEPT !.session.logModes = s.logModes]))
            /\ AllStep(w, OnUpdate([u EXCEPT !.session.traceMode = s.traceMode,
                                             !.session.replayMode = s.replayMode], TRUE))
<1> DEFINE u == [w EXCEPT !.session.value = s.value, !.session.cached = s.cached]
           a == [u EXCEPT !.session.logModes = s.logModes]
           b == [u EXCEPT !.session.traceMode = s.traceMode, !.session.replayMode = s.replayMode]
           p == [w.session EXCEPT !.value = s.value, !.cached = s.cached, !.logModes = s.logModes]
           q == [w.session EXCEPT !.value = s.value, !.cached = s.cached,
                                  !.traceMode = s.traceMode, !.replayMode = s.replayMode]
<1>0. w \in Worlds /\ w.session \in SessionType /\ s.value \in Nat /\ s.cached \in CachedType
      /\ s.logModes \in LogModes /\ s.traceMode \in Modes \cup {None}
      /\ s.replayMode \in Modes \cup {None}
  BY TraceAssumption, Constants DEF AllGood, Good, Worlds
<1>1. a = [w EXCEPT !.session = p] /\ b = [w EXCEPT !.session = q]
  BY <1>0 DEF Worlds, SessionType
<1>2. p \in SessionType /\ q \in SessionType /\ p.value >= w.session.value
      /\ q.value >= w.session.value
  BY <1>0 DEF SessionType
<1> HIDE DEF a, b, p, q
<1>3. AllStep(w, a) /\ AllStep(w, b)
  BY <1>1, <1>2, SessionChanges
<1>4. AllStep(a, LogUpdate(a))
  <2>1. AllGood(a) /\ a \in Worlds /\ LogGood(a.log)
    BY <1>3 DEF AllStep, AllGood, Good
  <2>2. QED BY <2>1, LogUpdateStep, LogStepIsStep
<1>5. AllStep(b, OnUpdate(b, TRUE))
  <2>1. AllGood(b) /\ Good(b)
    BY <1>3 DEF AllStep, AllGood
  <2>2. QED BY <2>1, OnUpdateKeep, TraceStepIsStep
<1>6. AllStep(w, LogUpdate(a)) /\ AllStep(w, OnUpdate(b, TRUE))
  BY <1>3, <1>4, <1>5, AllStepsCompose
<1>7. QED BY <1>6 DEF a, b

-----------------------------------------------------------------------------
(***************************************************************************)
(* The specification.                                                      *)
(***************************************************************************)
TypeOK == World \in Worlds
Inv == AllGood(World)

LEMMA WorldOfVars ==
  /\ World.pve = pve /\ World.page = page /\ World.session = session
  /\ World.trace = trace /\ World.log = log
BY DEF World

LEMMA ApplyIs ==
  ASSUME NEW v \in Worlds, Apply(v)
  PROVE  pve' = v.pve /\ page' = v.page /\ session' = v.session /\ trace' = v.trace
         /\ log' = v.log /\ World' = v
BY DEF Apply, World, Worlds

LEMMA InitGood == Init => Inv
<1> SUFFICES ASSUME Init PROVE Inv
  OBVIOUS
<1>1. pve \in PveType
  BY DEF Init, PveInit, PveType
<1>2. page \in PageType /\ session \in SessionType /\ session.value = 1
  <2>1. PICK p \in Pages :
          /\ page = [tracking |-> p.tracking, consentMode |-> p.consentMode,
                     features |-> p.features, consented |-> FALSE, ready |-> FALSE,
                     aborted |-> FALSE, started |-> FALSE, flags |-> NoFlags, lapsed |-> FALSE]
          /\ session = [value |-> 1, diff |-> p.diff, cached |-> p.cached,
                        traceMode |-> None, replayMode |-> None, logModes |-> NoModes]
    BY DEF Init, PveInit
  <2>2. /\ p.tracking \in BOOLEAN /\ p.consentMode \in BOOLEAN /\ p.diff \in BOOLEAN
        /\ p.features \in SUBSET {"trace", "replay", "logging"} /\ p.cached \in CachedType
    BY PveAssumption, Constants
  <2>3. page \in PageType
    BY <2>1, <2>2, Constants DEF PageType
  <2>4. session \in SessionType /\ session.value = 1
    BY <2>1, <2>2, Constants DEF SessionType
  <2>5. QED BY <2>3, <2>4
<1>3. log \in LogType /\ LogGood(log)
  <2>1. <<>> \in Seq(Origins)
    OBVIOUS
  <2>2. log \in LogType /\ ~log.blocked /\ log.buffer = 0 /\ log.backup = 0 /\ ~log.listening
    BY <2>1, Constants DEF Init, LogInit, LogType
  <2>3. QED BY <2>2 DEF LogGood
<1>4. TraceGood(trace, 1) /\ trace \in TraceType
  <2>1. <<>> \in Seq(NodeType) /\ <<>> \in Seq(EventKinds) /\ <<>> \in Seq(Span(0, 1))
    OBVIOUS
  <2>2. trace \in TraceType /\ ~trace.mixed /\ ~trace.blocked /\ trace.sessionId = 0
        /\ trace.nodes = <<>> /\ trace.backup = <<>> /\ ~trace.initialized
        /\ trace.stage = "waiting" /\ ~trace.live
    BY <2>1 DEF Init, TraceType
  <2>3. QED BY <2>1, <2>2 DEF TraceGood
<1>5. World \in Worlds
  BY <1>1, <1>2, <1>3, <1>4 DEF World, Worlds
<1>6. QED BY <1>2, <1>3, <1>4, <1>5, WorldOfVars DEF Inv, AllGood, Good

\* A callback that applies a step is a step, and one that changes nothing too.
LEMMA StepOfApply ==
  ASSUME Inv, NEW v, AllStep(World, v), Apply(v) PROVE AllStep(World, World')
<1>1. v \in Worlds
  BY DEF AllStep, AllGood, Good
<1>2. World' = v
  BY <1>1, ApplyIs
<1>3. QED BY <1>2

LEMMA PageViewSteps ==
  ASSUME Inv,
         \/ LoadAggregate \/ RumTimer \/ RumAnswer \/ RetryTimer \/ GiveConsent \/ WithdrawConsent
  PROVE  AllStep(World, World')
<1> DEFINE w == World
<1>0. AllGood(w) /\ w \in Worlds /\ w.pve = pve
  BY WorldOfVars DEF Inv, AllGood, Good
<1> HIDE DEF w
<1>a. ASSUME NEW v, PveStep(w, v), Apply(v) PROVE AllStep(World, World')
  BY <1>0, <1>a, PveStepIsStep, StepOfApply DEF w
<1>1. CASE LoadAggregate
  BY <1>0, <1>1, <1>a, ConstructStep DEF LoadAggregate, w
<1>2. CASE RumTimer
  <2> DEFINE p == [w.pve EXCEPT !.stage = "running"]
             u == [w EXCEPT !.pve = p]
  <2>1. p \in PveType /\ p.blocked = w.pve.blocked /\ p.inflight = w.pve.inflight
        /\ p.buffer = w.pve.buffer /\ w.pve.inflight \in Nat /\ w.pve.buffer \in Nat
    BY <1>0 DEF Worlds, PveType
  <2>2. [w EXCEPT !.pve.stage = "running"] = u
    BY <1>0 DEF Worlds, PveType
  <2>3. Apply(SendRum(u))
    BY <1>2, <2>2 DEF RumTimer, w
  <2> HIDE DEF p
  <2>4. PveStep(w, u)
    BY <1>0, <2>1 DEF Worlds, PveStep, PveEnds
  <2> HIDE DEF u
  <2>5. PveStep(u, SendRum(u))
    BY <2>4, SendRumStep DEF PveStep
  <2>6. PveStep(w, SendRum(u))
    BY <1>0, <2>4, <2>5, PveStepsCompose
  <2>7. QED BY <1>a, <2>3, <2>6
<1>3. CASE RumAnswer
  <2>1. PICK a \in Answers : Apply(Answer(w, a)) /\ w.pve.inflight > 0
    BY <1>0, <1>3 DEF RumAnswer, w
  <2>2. QED BY <1>0, <1>a, <2>1, AnswerStep
<1>4. CASE RetryTimer
  BY <1>0, <1>4, <1>a, RetryStep DEF RetryTimer, w
<1>5. CASE GiveConsent
  BY <1>0, <1>5, <1>a, ConsentStep DEF GiveConsent, w
<1>6. CASE WithdrawConsent
  BY <1>0, <1>6, <1>a, ConsentStep DEF WithdrawConsent, w
<1>7. QED BY <1>1, <1>2, <1>3, <1>4, <1>5, <1>6

LEMMA HarvestSteps ==
  ASSUME Inv, OnHarvest \/ OnEndOfLife PROVE AllStep(World, World')
<1> DEFINE w == World
<1>0. AllGood(w) /\ w \in Worlds /\ Good(w) /\ LogGood(w.log)
  BY DEF Inv, AllGood, Good
<1> HIDE DEF w
<1>1. ASSUME NEW u, AllGood(u), NEW final \in BOOLEAN
      PROVE  AllStep(u, HarvestRum(u, final)) /\ AllStep(u, Harvest(u, final))
             /\ AllStep(u, HarvestLogs(u, final))
  <2>1. u \in Worlds /\ Good(u) /\ LogGood(u.log)
    BY <1>1 DEF AllGood, Good
  <2>2. AllStep(u, HarvestRum(u, final))
    BY <1>1, <2>1, HarvestRumStep, PveStepIsStep
  <2>3. AllStep(u, Harvest(u, final))
    BY <1>1, <2>1, HarvestKeep, TraceStepIsStep
  <2>4. AllStep(u, HarvestLogs(u, final))
    BY <1>1, <2>1, HarvestLogsStep, LogStepIsStep
  <2>5. QED BY <2>2, <2>3, <2>4
<1>2. CASE OnHarvest
  BY <1>0, <1>1, <1>2, StepOfApply DEF OnHarvest, w
<1>3. CASE OnEndOfLife
  <2> DEFINE a == HarvestRum(w, TRUE)
             b == Harvest(a, TRUE)
             c == HarvestLogs(b, TRUE)
  <2>1. AllStep(w, a)
    BY <1>0, <1>1
  <2> HIDE DEF a
  <2>2. AllStep(a, b) /\ AllGood(a)
    BY <1>1, <2>1 DEF AllStep
  <2> HIDE DEF b
  <2>3. AllStep(b, c)
    BY <1>1, <2>2 DEF AllStep
  <2>4. Apply(c)
    BY <1>3 DEF OnEndOfLife, a, b, w
  <2> HIDE DEF c
  <2>5. AllStep(w, c)
    BY <1>0, <2>1, <2>2, <2>3, AllStepsCompose
  <2>6. QED BY <2>4, <2>5, StepOfApply DEF w
<1>4. QED BY <1>2, <1>3

LEMMA TraceSteps ==
  ASSUME Inv, FlagsArrive \/ DrainTrace \/ Node \/ TraceAnswer PROVE AllStep(World, World')
<1> DEFINE w == World
<1>0. AllGood(w) /\ w \in Worlds /\ Good(w) /\ w.trace = trace /\ w.page = page
      /\ page.flags \in FlagType
  BY WorldOfVars DEF Inv, AllGood, Good, Worlds, PageType
<1> HIDE DEF w
<1>a. ASSUME NEW v, TraceKeep(w, v), TraceEnds(w, v), Apply(v) PROVE AllStep(World, World')
  BY <1>0, <1>a, TraceStepIsStep, StepOfApply DEF w
<1>1. CASE FlagsArrive
  <2> DEFINE v == Initialize([w EXCEPT !.trace.stage = "running"], page.flags)
  <2>1. Apply(v) /\ w.trace.stage = "waiting"
    BY <1>0, <1>1 DEF FlagsArrive, w
  <2>2. TraceKeep(w, v)
    BY <1>0, <2>1, InitializeKeep
  <2>3. TraceEnds(w, v)
    BY <1>0, <2>1 DEF TraceEnds, Good, TraceGood
  <2> HIDE DEF v
  <2>4. QED BY <1>a, <2>1, <2>2, <2>3
<1>2. CASE DrainTrace
  BY <1>0, <1>2, <1>a, DrainKeep DEF DrainTrace, w
<1>3. CASE Node
  <2>1. PICK kind \in EventKinds : Apply(Record(w, kind))
    BY <1>3, TraceAssumption DEF Node, Kinds, EventKinds, w
  <2>2. QED BY <1>0, <1>a, <2>1, RecordKeep
<1>4. CASE TraceAnswer
  <2>1. PICK s : Apply(Answered(w, s)) /\ w.trace.inflight > 0
    BY <1>0, <1>4 DEF TraceAnswer, w
  <2>2. QED BY <1>0, <1>a, <2>1, AnsweredKeep
<1>5. QED BY <1>1, <1>2, <1>3, <1>4

LEMMA LogSteps ==
  ASSUME Inv, LogFlagsArrive \/ DrainLogging \/ SubmitLog \/ LogAnswer
  PROVE  AllStep(World, World')
<1> DEFINE w == World
<1>0. AllGood(w) /\ w \in Worlds /\ LogGood(w.log) /\ w.log = log
  BY WorldOfVars DEF Inv, AllGood, Good
<1> HIDE DEF w
<1>a. ASSUME NEW v, LogStep(w, v), Apply(v) PROVE AllStep(World, World')
  BY <1>0, <1>a, LogStepIsStep, StepOfApply DEF w
<1>1. CASE LogFlagsArrive
  BY <1>0, <1>1, <1>a, LogFlagsStep DEF LogFlagsArrive, w
<1>2. CASE DrainLogging
  BY <1>0, <1>2, <1>a, DrainLogsStep DEF DrainLogging, w
<1>3. CASE SubmitLog
  <2>1. PICK origin \in Origins : Apply(BufferLog(w, origin))
    BY <1>3 DEF SubmitLog, w
  <2>2. QED BY <1>0, <1>a, <2>1, BufferLogStep
<1>4. CASE LogAnswer
  <2>1. PICK s : Apply(LogsAnswered(w, s)) /\ w.log.inflight > 0
    BY <1>0, <1>4 DEF LogAnswer, w
  <2>2. QED BY <1>0, <1>a, <2>1, LogsAnsweredStep
<1>5. QED BY <1>1, <1>2, <1>3, <1>4

LEMMA SessionSteps ==
  ASSUME Inv, ResetSession \/ ReplayIsFull \/ OtherTabWrites PROVE AllStep(World, World')
<1> DEFINE w == World
<1>0. AllGood(w) /\ w \in Worlds /\ w.session = session /\ w.session \in SessionType
      /\ w.session.value \in Nat
  BY WorldOfVars DEF Inv, AllGood, Good, Worlds, SessionType
<1> HIDE DEF w
<1>1. CASE ResetSession
  BY <1>0, <1>1, ResetStep, StepOfApply DEF ResetSession, w
<1>2. CASE ReplayIsFull
  <2> DEFINE s == [w.session EXCEPT !.replayMode = "full"]
             u == [w EXCEPT !.session = s]
  <2>1. s \in SessionType /\ s.value >= w.session.value
    BY <1>0 DEF SessionType, Modes
  <2>2. [w EXCEPT !.session.replayMode = "full"] = u
    BY <1>0 DEF Worlds, SessionType
  <2>3. Apply(OnUpdate(u, FALSE))
    BY <1>2, <2>2 DEF ReplayIsFull, w
  <2> HIDE DEF s
  <2>4. AllStep(w, u)
    BY <1>0, <2>1, SessionChanges
  <2> HIDE DEF u
  <2>5. AllStep(u, OnUpdate(u, FALSE))
    <3>1. AllGood(u) /\ Good(u)
      BY <2>4 DEF AllStep, AllGood
    <3>2. QED BY <3>1, OnUpdateKeep, TraceStepIsStep
  <2>6. AllStep(w, OnUpdate(u, FALSE))
    BY <1>0, <2>4, <2>5, AllStepsCompose
  <2>7. QED BY <2>3, <2>6, StepOfApply DEF w
<1>3. CASE OtherTabWrites
  <2>1. PICK s \in OtherTabs :
          /\ s.value >= w.session.value
          /\ LET u == [w EXCEPT !.session.value = s.value, !.session.cached = s.cached]
             IN Apply(IF "logging" \in page.features
                      THEN LogUpdate([u EXCEPT !.session.logModes = s.logModes])
                      ELSE OnUpdate([u EXCEPT !.session.traceMode = s.traceMode,
                                              !.session.replayMode = s.replayMode], TRUE))
    BY <1>0, <1>3 DEF OtherTabWrites, w
  <2>2. QED BY <1>0, <2>1, OtherTabStep, StepOfApply DEF w
<1>4. QED BY <1>1, <1>2, <1>3

LEMMA NextIsStep == Inv /\ [Next]_vars => AllStep(World, World')
<1> SUFFICES ASSUME Inv, [Next]_vars PROVE AllStep(World, World')
  OBVIOUS
<1>1. CASE Next
  BY <1>1, PageViewSteps, HarvestSteps, TraceSteps, LogSteps, SessionSteps DEF Next
<1>2. CASE UNCHANGED vars
  <2>1. World' = World
    BY <1>2 DEF vars, World
  <2>2. AllStep(World, World)
    BY NothingEnds DEF AllStep, Inv, AllGood, Good
  <2>3. QED BY <2>1, <2>2
<1>3. QED BY <1>1, <1>2

LEMMA InvIsKept == Inv /\ [Next]_vars => Inv'
<1>1. AllStep(World, World') => Inv'
  BY DEF AllStep, Inv
<1>2. QED BY <1>1, NextIsStep

\* The invariant is inductive: every action turns a good page, session, trace and log
\* into good ones, so that nothing blocked sends and no node is of a foreign session.
THEOREM Invariance == Spec => []Inv
<1>1. QED BY InitGood, InvIsKept, PTL DEF Spec

(***************************************************************************)
(* The variables keep their types, the bounds of the runs aside.           *)
(***************************************************************************)
THEOREM Types == Spec => []TypeOK
<1>1. Inv => TypeOK
  BY DEF Inv, AllGood, Good, TypeOK
<1>2. QED BY <1>1, Invariance, PTL

(***************************************************************************)
(* A trace request never carries nodes of two sessions, nor the id of a    *)
(* session that is not the current one.                                    *)
(***************************************************************************)
THEOREM OneSession == Spec => []OneSessionPerPayload
<1>1. Inv => OneSessionPerPayload
  BY WorldOfVars DEF Inv, AllGood, Good, TraceGood, OneSessionPerPayload
<1>2. QED BY <1>1, Invariance, PTL

(***************************************************************************)
(* What was ended stays ended: trace, logs and page view event.            *)
(***************************************************************************)
THEOREM EndsStand == Spec => EndStands
<1> DEFINE A == /\ trace.blocked => /\ trace'.mode = "off" /\ trace'.inflight <= trace.inflight
                                    /\ Len(trace'.nodes) >= Len(trace.nodes)
                /\ log.blocked => /\ log'.blocked /\ log'.modes = Off /\ log'.buffer = 0
                                  /\ log'.inflight <= log.inflight
                /\ pve.blocked => pve'.inflight <= pve.inflight /\ pve'.buffer >= pve.buffer
<1>1. Inv /\ [Next]_vars => A
  <2> SUFFICES ASSUME Inv, [Next]_vars PROVE A
    OBVIOUS
  <2>1. AllStep(World, World')
    BY NextIsStep
  <2>2. /\ World'.trace = trace' /\ World'.log = log' /\ World'.pve = pve'
        /\ World.trace = trace /\ World.log = log /\ World.pve = pve
    BY DEF World
  <2> HIDE DEF A
  <2>3. trace.blocked => /\ trace'.mode = "off" /\ trace'.inflight <= trace.inflight
                         /\ Len(trace'.nodes) >= Len(trace.nodes)
    BY <2>1, <2>2 DEF AllStep, AllGood, Good, TraceGood, TraceEnds
  <2>4. log.blocked => /\ log'.blocked /\ log'.modes = Off /\ log'.buffer = 0
                       /\ log'.inflight <= log.inflight
    BY <2>1, <2>2 DEF AllStep, AllGood, LogGood, LogEnds
  <2>5. pve.blocked => pve'.inflight <= pve.inflight /\ pve'.buffer >= pve.buffer
    BY <2>1, <2>2 DEF AllStep, PveEnds
  <2>6. QED BY <2>3, <2>4, <2>5 DEF A
<1>2. QED BY <1>1, Invariance, PTL DEF Spec, EndStands
=============================================================================
