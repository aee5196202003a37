---------------------------- MODULE SessionReplay ----------------------------
(***************************************************************************)
(* The session replay of one page: the instrument that imports the         *)
(* recorder, the aggregate that decides the mode and harvests, and the     *)
(* recorder with its two buffers.  An import of a chunk suspends a method; *)
(* flags, API calls, session events, errors and answers come in between.   *)
(*                                                                         *)
(* A callback is a composition of methods on a world w, a record of the    *)
(* variables below; Apply makes its result the next state.                 *)
(***************************************************************************)
EXTENDS Naturals, FiniteSets, SequencesExt

CONSTANTS
  Preloads,     \* init.session_replay.preload, the values it may have
  StoredModes,  \* modes found in local storage when the page loads
  Sampled,      \* the 'srs' flag of the RUM response
  Entitlements, \* the 'sr' flag
  Inputs,       \* what else happens: see the actions
  Outcomes,     \* how a request may end
  Large,        \* nodes that fill the buffer to the ideal payload size
  Huge,         \* nodes that exceed the maximal payload size
  MaxNodes,     \* bound: nodes emitted, after which rrweb is silent
  MaxQueue,     \* bound: events buffered before the drain
  MaxWaiting,   \* bound: calls that wait for a chunk
  MaxInFlight   \* bound: unanswered requests

Unset == "unset"   \* the mode null
Modes == {"off", "full", "error"}
Nodes == 1..MaxNodes

ASSUME BoundAssumption ==
  MaxNodes \in Nat /\ MaxQueue \in Nat /\ MaxWaiting \in Nat /\ MaxInFlight \in Nat
ASSUME FlagAssumption ==
  /\ Preloads \subseteq BOOLEAN /\ Entitlements \subseteq BOOLEAN
  /\ StoredModes \subseteq Modes \cup {Unset} /\ Sampled \subseteq Modes
ASSUME InputAssumption ==
  /\ Inputs \subseteq {"record", "pause", "error", "hide", "tabs", "reset", "fail"}
  /\ Outcomes \subseteq {"accepted", "retry", "rejected", "lost"}
  /\ Large \subseteq Nodes /\ Huge \subseteq Nodes

VARIABLES
  inst,  \* the instrument: recorder chunk, who waits for it, errorNoticed
  agg,   \* the aggregate: its flags, and the calls that wait for the compressor
  rec,   \* the recorder: mode, trigger, buffers, retryPayload
  page,  \* runtime.isRecording, whether rrweb runs, visibility, the session's
         \* sessionReplayMode, the buffered events of the feature
  net    \* nodes emitted so far, requests in flight; history: the payloads
         \* sent, whether anything called for a report, whether the user
         \* paused a running replay since somebody last called for one

vars == <<inst, agg, rec, page, net>>
-----------------------------------------------------------------------------
\* RecorderEvents: its nodes and the two flags about them
EmptyBuffer == [nodes |-> <<>>, hasMeta |-> FALSE, hasSnap |-> FALSE]
NoNode == [n |-> 0, kind |-> "none"]
NoPayload == [nodes |-> <<>>, hasMeta |-> FALSE, hasSnap |-> FALSE]
Has(nodes, kind) == \E i \in DOMAIN nodes : nodes[i].kind = kind
Numbers(nodes) == {nodes[i].n : i \in DOMAIN nodes}

\* getEvents()
AllNodes(w) == w.rec.backlog.nodes \o w.rec.events.nodes

\* clearBuffer(): in error mode the last window is kept as the backlog
ClearBuffer(w) ==
  [w EXCEPT !.rec.backlog = IF w.rec.isErrorMode THEN w.rec.events ELSE EmptyBuffer,
            !.rec.events = EmptyBuffer]

\* while (getEvents().events.length) clearBuffer()
ClearAll(w) == IF AllNodes(w) = <<>> THEN w
               ELSE [w EXCEPT !.rec.backlog = EmptyBuffer, !.rec.events = EmptyBuffer]

\* #writeToStorage({ sessionReplayMode: this.mode })
WriteMode(w) == [w EXCEPT !.page.mode = w.agg.mode]

\* recorder.stopRecording, and the aggregate's recorder?.stopRecording
Stop(w) == [w EXCEPT !.page.isRecording = FALSE, !.page.rrweb = FALSE]
StopKnown(w) == IF w.agg.recorder THEN Stop(w) ELSE w

Abort(w) ==
  LET v == WriteMode(StopKnown([w EXCEPT !.agg.blocked = TRUE, !.agg.mode = "off"]))
  IN IF w.agg.recorder THEN ClearAll(v) ELSE v

-----------------------------------------------------------------------------
ContentsAsTheyCome(w) ==  \* mutant: meta nodes are not moved between payloads
  [lastMeta |-> w.rec.lastMeta,
   payload |-> [nodes |-> AllNodes(w),
                hasMeta |-> w.rec.events.hasMeta, hasSnap |-> w.rec.events.hasSnap]]

\* getHarvestContents: a leading snapshot gets the meta node that an earlier
\* payload held back, a trailing meta node is held back for the next payload.
Contents(w) ==
  LET all   == AllNodes(w)
      lacks == all[1].kind = "snap" /\ w.rec.lastMeta # NoNode
      led   == IF lacks THEN <<w.rec.lastMeta>> \o all ELSE all
      holds == led[Len(led)].kind = "meta"
      body  == IF holds THEN SubSeq(led, 1, Len(led) - 1) ELSE led
  IN [lastMeta |-> IF holds THEN led[Len(led)]
                   ELSE IF lacks THEN NoNode ELSE w.rec.lastMeta,
      payload |-> [nodes |-> body,
                   hasMeta |-> IF holds THEN Has(body, "meta")
                               ELSE lacks \/ w.rec.backlog.hasMeta \/ w.rec.events.hasMeta,
                   hasSnap |-> w.rec.backlog.hasSnap \/ w.rec.events.hasSnap]]

\* send(): a final harvest leaves by beacon and is not answered
Send(w, payload, final) ==
  [w EXCEPT !.net.inflight = IF final THEN @ ELSE Append(@, payload),
            !.net.sent = @ \cup {payload}]

MayHarvestInAnyMode(w) ==  \* mutant: harvests in any mode
  /\ w.agg.compressor = "ready" /\ w.agg.recorder
  /\ w.rec.seenSnap /\ w.rec.seenMeta /\ AllNodes(w) # <<>>

\* The early returns of makeHarvestPayload
MayHarvest(w) ==
  /\ w.agg.mode = "full" /\ w.agg.compressor = "ready" /\ w.agg.recorder
  /\ w.rec.seenSnap /\ w.rec.seenMeta /\ AllNodes(w) # <<>>

\* triggerHarvestFor with makeHarvestPayload
Harvest(w, final) ==
  IF w.agg.blocked THEN w
  ELSE IF w.agg.isRetrying
  THEN IF w.rec.retryPayload = NoPayload THEN w ELSE Send(w, w.rec.retryPayload, final)
  ELSE IF ~MayHarvest(w) THEN w
  ELSE LET c == Contents(w)
           v == [w EXCEPT !.rec.lastMeta = c.lastMeta]
       IN IF c.payload.nodes = <<>> THEN ClearBuffer(v)
          ELSE IF Numbers(c.payload.nodes) \cap Huge # {} THEN Abort(v)
          ELSE Send([ClearBuffer(v) EXCEPT !.rec.retryPayload = c.payload], c.payload, final)

ForceStopUnwritten(w, forceHarvest) ==  \* mutant: the mode is not written to storage
  LET v == IF forceHarvest THEN Harvest(w, FALSE) ELSE w
  IN StopKnown([v EXCEPT !.agg.mode = "off"])

\* forceStop(forceHarvest)
ForceStop(w, forceHarvest) ==
  LET v == IF forceHarvest THEN Harvest(w, FALSE) ELSE w
  IN WriteMode(StopKnown([v EXCEPT !.agg.mode = "off"]))

-----------------------------------------------------------------------------
\* While waiting for an error, each new checkout drops the window before the last
WipesBufferInAnyMode(w, node, isCheckout) ==  \* mutant: the mode is not looked at
  isCheckout /\ node.kind = "meta"
WipesBuffer(w, node, isCheckout) ==
  w.rec.isErrorMode /\ isCheckout /\ node.kind = "meta"

\* Recorder.store.  A flag of the buffer is only set while the recorder has not
\* seen a node of the kind: ||= does not evaluate its right side otherwise.
Stored(w, node, isCheckout) ==
  LET v == IF WipesBuffer(w, node, isCheckout) THEN ClearBuffer(w) ELSE w
      meta == v.rec.events.hasMeta \/ (~v.rec.seenMeta /\ node.kind = "meta")
      snap == v.rec.events.hasSnap \/ (~v.rec.seenSnap /\ node.kind = "snap")
  IN [v EXCEPT !.rec.events = [nodes |-> Append(@.nodes, node),
                               hasMeta |-> meta, hasSnap |-> snap],
               !.rec.seenMeta = @ \/ meta,
               !.rec.seenSnap = @ \/ snap]

FillsPayload(w) ==
  \/ w.rec.events.hasSnap /\ w.rec.events.hasMeta
  \/ Numbers(w.rec.events.nodes) \cap Large # {}

StoreThoughBlocked(w, node, isCheckout) ==  \* mutant: an aborted feature goes on storing
  LET v == Stored(w, node, isCheckout)
  IN IF FillsPayload(v) /\ ~v.rec.isErrorMode THEN Harvest(v, FALSE) ELSE v

Store(w, node, isCheckout) ==
  IF w.agg.blocked THEN w
  ELSE LET v == Stored(w, node, isCheckout)
       IN IF FillsPayload(v) /\ ~v.rec.isErrorMode THEN Harvest(v, FALSE) ELSE v

\* rrweb's emit: handle() buffers the node until the handlers are attached, at the
\* end of the drain
Emit(w, kind, isCheckout) ==
  LET node == [n |-> w.net.emitted + 1, kind |-> kind]
      v == [w EXCEPT !.net.emitted = @ + 1]
  IN IF w.net.emitted = MaxNodes \/ w.agg.refused THEN w
     ELSE IF w.agg.drain = "done" THEN Store(v, node, isCheckout)
     ELSE [v EXCEPT !.page.queue = Append(@, [type |-> "node", node |-> node,
                                              isCheckout |-> isCheckout])]

\* A full snapshot is a meta node and a snapshot node, or there is none at the bound
EmitSnapshot(w, isCheckout) ==
  IF w.net.emitted + 2 > MaxNodes THEN w
  ELSE Emit(Emit(w, "meta", isCheckout), "snap", isCheckout)

\* startRecording.  rrweb emits its first snapshot before it returns its stop
\* function: what that snapshot sets off cannot stop it.
StartRecording(w, trigger, mode) ==
  IF ~w.rec.canRecord THEN w
  ELSE LET v == Stop([w EXCEPT !.rec.trigger = trigger,
                               !.rec.isErrorMode = (mode = "error")])
       IN [EmitSnapshot([v EXCEPT !.page.isRecording = TRUE], FALSE)
             EXCEPT !.page.rrweb = TRUE]

-----------------------------------------------------------------------------
\* initializeRecording, in the parts its awaits split it into.  A call is its
\* trigger and whether drain() follows.
Finish(w, call) == IF call.drains THEN [w EXCEPT !.agg.staged = TRUE] ELSE w

AfterCompressor(w, call) ==
  Finish(WriteMode(IF w.page.isRecording THEN w
                   ELSE StartRecording(w, call.trigger, w.agg.mode)), call)

AfterRecorder(w, call) ==
  LET v == [w EXCEPT !.agg.recorder = TRUE,
                     !.agg.mode = IF @ = "error" /\ w.inst.errorNoticed THEN "full" ELSE @]
  IN IF v.agg.compressor = "ready" THEN AfterCompressor(v, call)
     ELSE [v EXCEPT !.agg.compressor = "loading", !.agg.waiting = Append(@, call)]

\* importRecorder() by a waiter: the aggregate, the preload or the API
ImportRecorder(w, waiter) ==
  [w EXCEPT !.inst.recorder = "loading", !.inst.waiting = Append(@, waiter)]

InitializeRecording(w, srMode, ignoreSession, call) ==
  LET v == [w EXCEPT !.agg.initialized = TRUE]
      mode == IF v.agg.recorder /\ v.rec.trigger = "api" /\ v.page.isRecording THEN "full"
              ELSE IF v.page.mode # Unset /\ ~ignoreSession THEN v.page.mode
              ELSE srMode
      u == [v EXCEPT !.agg.mode = mode]
  IN IF ~v.agg.entitled THEN Finish(v, call)
     ELSE IF mode = "off" THEN Finish(WriteMode(u), call)
     ELSE IF u.agg.recorder \/ u.inst.recorder = "ready" THEN AfterRecorder(u, call)
     ELSE IF u.inst.recorder = "failed" THEN Finish(Abort(u), call)
     ELSE ImportRecorder(u, [for |-> "aggregate", call |-> call])

SwitchToFull(w) ==
  LET v == [w EXCEPT !.agg.mode = "full"]
  IN IF ~w.agg.entitled \/ w.agg.blocked THEN w
     ELSE IF v.agg.recorder /\ v.agg.initialized
     THEN WriteMode(IF v.page.isRecording THEN v
                    ELSE StartRecording(v, "switchToFull", "full"))
     ELSE InitializeRecording(v, "full", TRUE, [trigger |-> "switchToFull", drains |-> FALSE])

HandleError(w) ==
  IF w.agg.mode = "error" /\ w.page.visible THEN SwitchToFull(w) ELSE w

-----------------------------------------------------------------------------
World == [inst |-> inst, agg |-> agg, rec |-> rec, page |-> page, net |-> net]

\* The step that leaves world w behind
Apply(w) ==
  /\ Len(w.page.queue) <= MaxQueue
  /\ Len(w.inst.waiting) <= MaxWaiting /\ Len(w.agg.waiting) <= MaxWaiting
  /\ Len(w.net.inflight) <= MaxInFlight
  /\ inst' = w.inst /\ agg' = w.agg /\ rec' = w.rec /\ page' = w.page /\ net' = w.net

\* The instrument's constructor.  The session found in storage decides on the
\* preload; whether it has expired is only known when the aggregate loads.
MayPreload(preload, storedMode) == preload \/ storedMode \in {"full", "error"}
PreloadCall(storedMode) == [for |-> "preload", call |-> [trigger |-> storedMode, drains |-> FALSE]]

Init ==
  \E storedMode \in StoredModes, expired, preloads \in BOOLEAN :
    /\ \E preload \in Preloads : preloads = MayPreload(preload, storedMode)
    /\ inst = [recorder |-> IF preloads THEN "loading" ELSE "none",
               waiting |-> IF preloads THEN <<PreloadCall(storedMode)>> ELSE <<>>,
               errorNoticed |-> FALSE]
    /\ agg = [loaded |-> FALSE, refused |-> FALSE, recorder |-> FALSE, mode |-> Unset, initialized |-> FALSE,
              blocked |-> FALSE, entitled |-> FALSE, flagged |-> FALSE, staged |-> FALSE,
              drain |-> "none", isRetrying |-> FALSE, compressor |-> "none", waiting |-> <<>>]
    /\ rec = [canRecord |-> TRUE, isErrorMode |-> FALSE, trigger |-> "none",
              backlog |-> EmptyBuffer, events |-> EmptyBuffer, lastMeta |-> NoNode,
              seenMeta |-> FALSE, seenSnap |-> FALSE, retryPayload |-> NoPayload]
    /\ page = [isRecording |-> FALSE, rrweb |-> FALSE, visible |-> TRUE,
               mode |-> IF expired THEN Unset ELSE storedMode, queue |-> <<>>]
    /\ net = [emitted |-> 0, inflight |-> <<>>, sent |-> {},
              reason |-> ~expired /\ storedMode = "full", paused |-> FALSE]

-----------------------------------------------------------------------------
\* The import of the recorder settles: everybody who waits goes on, in order.
Proceed(w, waiter) ==
  CASE waiter.for = "preload"   -> StartRecording(w, "preload", waiter.call.trigger)
    [] waiter.for = "api"       -> StartRecording(w, "api", "full")
    [] waiter.for = "aggregate" -> AfterRecorder(w, waiter.call)
Reject(w, waiter) ==
  IF waiter.for = "aggregate" THEN Finish(Abort(w), waiter.call) ELSE w

RecorderArrives ==
  /\ inst.recorder = "loading"
  /\ Apply(FoldLeft(Proceed, [World EXCEPT !.inst.recorder = "ready", !.inst.waiting = <<>>],
                    inst.waiting))

RecorderFails ==
  /\ "fail" \in Inputs
  /\ inst.recorder = "loading"
  /\ Apply(FoldLeft(Reject, [World EXCEPT !.inst.recorder = "failed", !.inst.waiting = <<>>],
                    inst.waiting))

\* The import of the compressor settles, either way
CompressorSettles ==
  /\ agg.compressor = "loading"
  /\ Apply(FoldLeft(AfterCompressor,
                    [World EXCEPT !.agg.compressor = "ready", !.agg.waiting = <<>>],
                    agg.waiting))

\* The aggregate's constructor; a feature whose recorder failed is not loaded
LoadAggregate ==
  /\ ~agg.loaded /\ ~agg.refused /\ inst.recorder # "failed"
  /\ Apply([World EXCEPT !.agg.loaded = TRUE, !.agg.recorder = (inst.recorder = "ready")])

\* Without a session there is no aggregate: SESSION_ERROR reaches the recorder
\* there is, the feature is drained for good.
SessionFails ==
  /\ "fail" \in Inputs
  /\ ~agg.loaded /\ ~agg.refused
  /\ LET w == [World EXCEPT !.agg.refused = TRUE, !.page.queue = <<>>]
     IN Apply(IF inst.recorder = "ready" THEN Stop([w EXCEPT !.rec.canRecord = FALSE]) ELSE w)

\* The RUM response: waitForFlags(['srs', 'sr']) and what is chained to it
StopUnlessOn(w) ==
  IF w.agg.mode \in {"off", Unset} /\ w.agg.recorder THEN ClearAll(Stop(w)) ELSE w
NotEntitled(w) ==
  LET v == WriteMode([w EXCEPT !.agg.mode = "off"])
  IN IF v.page.isRecording THEN Abort(v) ELSE v

OnFlags(srMode, entitled) ==
  LET w == [World EXCEPT !.agg.flagged = TRUE, !.agg.entitled = entitled,
                         !.net.reason = @ \/ srMode = "full"]
  IN /\ agg.loaded /\ ~agg.flagged
     /\ Apply(StopUnlessOn(
          IF entitled
          THEN InitializeRecording(w, srMode, FALSE, [trigger |-> "initialize", drains |-> TRUE])
          ELSE NotEntitled(w)))

\* The handler of PAUSE_REPLAY
Pause(w) ==
  ForceStop([w EXCEPT !.net.paused = @ \/ w.page.isRecording], w.agg.mode = "full")

\* drain(): the buffered events are replayed in order, and after them the nodes that
\* a recording started by one of them emits.  To replay those emits nothing.
Replay(w, e) ==
  CASE e.type = "node"  -> Store(w, e.node, e.isCheckout)
    [] e.type = "error" -> HandleError(w)
    [] e.type = "pause" -> Pause(w)
ReplayAll(w) == FoldLeft(Replay, [w EXCEPT !.page.queue = <<>>], w.page.queue)

Drain ==
  /\ agg.staged /\ agg.drain = "none"
  /\ LET v == ReplayAll(ReplayAll([World EXCEPT !.agg.drain = "running"]))
     IN Apply([v EXCEPT !.agg.drain = "done"])

-----------------------------------------------------------------------------
\* newrelic.recordReplay()
RecordReplay ==
  /\ "record" \in Inputs
  /\ inst.recorder # "failed"
  /\ LET w == [World EXCEPT !.net.reason = TRUE, !.net.paused = FALSE]
     IN Apply(IF agg.loaded
              THEN IF agg.mode = "full" THEN w
                   ELSE InitializeRecording(w, "full", TRUE, [trigger |-> "api", drains |-> FALSE])
              ELSE IF inst.recorder = "ready" THEN StartRecording(w, "api", "full")
              ELSE ImportRecorder(w, [for |-> "api"]))

\* newrelic.pauseReplay()
Later(w, e) == [w EXCEPT !.page.queue = Append(@, e)]

PauseReplay ==
  /\ "pause" \in Inputs
  /\ Apply(IF agg.drain = "done" THEN Pause(World)
           ELSE IF agg.refused THEN World
           ELSE Later(World, [type |-> "pause"]))

\* An error while the recorder runs
NoticeError ==
  /\ "error" \in Inputs
  /\ inst.recorder # "failed" /\ page.isRecording
  /\ LET w == [World EXCEPT !.inst.errorNoticed = TRUE, !.net.reason = TRUE]
     IN Apply(IF agg.drain = "done" THEN HandleError(w)
              ELSE IF agg.refused THEN w ELSE Later(w, [type |-> "error"]))

\* rrweb reports a change of the page, or takes its periodic full snapshot
Mutate == page.rrweb /\ net.emitted < MaxNodes /\ Apply(Emit(World, "incr", FALSE))
Checkout == page.rrweb /\ net.emitted + 2 <= MaxNodes /\ Apply(EmitSnapshot(World, TRUE))

\* onHarvestInterval, and the timer armed by the drain
OnHarvestInterval == agg.loaded /\ Apply(Harvest(World, FALSE))

\* The page is hidden: the final harvest and the session's PAUSE
Hide ==
  /\ "hide" \in Inputs
  /\ page.visible
  /\ LET w == [World EXCEPT !.page.visible = FALSE]
     IN Apply(IF agg.loaded THEN StopKnown(Harvest(w, TRUE)) ELSE w)

ShowInAnyMode ==  \* mutant: resumes whatever the mode is
  /\ ~page.visible
  /\ LET w == [World EXCEPT !.page.visible = TRUE]
     IN Apply(IF ~agg.loaded \/ ~agg.recorder THEN w
              ELSE StartRecording([w EXCEPT !.agg.mode = page.mode], "resume", page.mode))

\* The session's RESUME: the mode may have changed in another tab
Show ==
  /\ ~page.visible
  /\ LET w == [World EXCEPT !.page.visible = TRUE]
         v == [w EXCEPT !.agg.mode = page.mode]
     IN Apply(IF ~agg.loaded \/ ~agg.recorder THEN w
              ELSE IF ~agg.initialized \/ page.mode \in {"off", Unset} THEN v
              ELSE StartRecording(v, "resume", v.agg.mode))

\* A storage event: another tab wrote the session's mode
OtherTabWrites(mode) ==
  /\ "tabs" \in Inputs
  /\ LET w == [World EXCEPT !.page.mode = mode, !.net.paused = FALSE,
                            !.net.reason = @ \/ mode = "full"]
         v == IF agg.mode # "off" /\ mode = "off" THEN Abort(w) ELSE w
     IN Apply(IF ~agg.recorder \/ ~agg.initialized \/ agg.blocked THEN w
              ELSE [v EXCEPT !.agg.mode = mode])

\* The session is reset: RESET is emitted, then a new session begins
ResetSession ==
  /\ "reset" \in Inputs
  /\ Apply([IF agg.loaded THEN Abort(World) ELSE World EXCEPT !.page.mode = Unset])

\* cbFinished with postHarvestCleanup
Settle(w, outcome) ==
  CASE outcome = "lost" -> w
    [] outcome = "retry" -> ForceStop([w EXCEPT !.agg.isRetrying = TRUE], FALSE)
    [] OTHER -> LET v == [w EXCEPT !.rec.retryPayload = NoPayload]
                IN IF ~w.agg.isRetrying THEN v
                   ELSE SwitchToFull([v EXCEPT !.agg.isRetrying = FALSE])

OnAnswer(i, outcome) ==
  Apply(Settle([World EXCEPT !.net.inflight = RemoveAt(@, i)], outcome))

-----------------------------------------------------------------------------
Next ==
  \/ RecorderArrives \/ RecorderFails \/ CompressorSettles \/ LoadAggregate \/ SessionFails
  \/ \E srMode \in Sampled, entitled \in Entitlements : OnFlags(srMode, entitled)
  \/ Drain
  \/ RecordReplay \/ PauseReplay \/ NoticeError \/ Mutate \/ Checkout
  \/ OnHarvestInterval \/ Hide \/ Show \/ ResetSession
  \/ \E mode \in Modes \cup {Unset} : OtherTabWrites(mode)
  \/ \E i \in DOMAIN net.inflight, outcome \in Outcomes : OnAnswer(i, outcome)

Spec == Init /\ [][Next]_vars
-----------------------------------------------------------------------------
\* Types: modes, nodes numbered as they were emitted, payloads never empty.
Node == [n : Nodes, kind : {"meta", "snap", "incr"}]
IsNodes(s) == \A i \in DOMAIN s : s[i] \in Node
TypeOK ==
  /\ inst.recorder \in {"none", "loading", "ready", "failed"}
  /\ inst.waiting # <<>> => inst.recorder = "loading"
  /\ agg.mode \in Modes \cup {Unset} /\ page.mode \in Modes \cup {Unset}
  /\ agg.recorder => inst.recorder = "ready"
  /\ agg.waiting # <<>> => agg.compressor = "loading" /\ agg.recorder
  /\ IsNodes(rec.backlog.nodes) /\ IsNodes(rec.events.nodes)
  /\ rec.lastMeta = NoNode \/ rec.lastMeta \in Node
  /\ \A p \in net.sent : p.nodes # <<>> /\ IsNodes(p.nodes)
  /\ net.emitted \in 0..MaxNodes

\* A payload can be replayed: its nodes are in the order in which they were
\* recorded and each snapshot follows its own meta node, however harvests split
\* them.  One that starts with a snapshot repeats it: a payload has it with its meta.
FollowsMeta(nodes, i) ==
  i > 1 /\ nodes[i - 1].kind = "meta" /\ nodes[i - 1].n + 1 = nodes[i].n
Playable ==
  \A p \in net.sent : \A i \in DOMAIN p.nodes :
    /\ i > 1 => p.nodes[i - 1].n < p.nodes[i].n
    /\ p.nodes[i].kind = "snap" =>
         \/ FollowsMeta(p.nodes, i)
         \/ i = 1 /\ \E q \in net.sent : \E j \in DOMAIN q.nodes :
                        q.nodes[j] = p.nodes[1] /\ FollowsMeta(q.nodes, j)

\* Nothing is reported unless the account is entitled and something called for
\* it: the sampling, an inherited full mode, an error, the API.
ReportedWithReason == net.sent # {} => agg.entitled /\ net.reason

\* When no import is awaited, an active replay and its session agree on the mode.
Settled == agg.flagged /\ inst.recorder # "loading" /\ agg.waiting = <<>>
ModesAgree ==
  Settled /\ agg.entitled /\ agg.recorder /\ ~agg.blocked => agg.mode = page.mode

\* Once aborted, nothing is stored or sent any more, whatever still runs.
AbortStands ==
  [][agg.blocked => /\ agg.blocked'
                    /\ net.sent' = net.sent
                    /\ Len(AllNodes(World)') <= Len(AllNodes(World))]_vars

\* Unless the recorder is in error mode before and after, a recorded node leaves the
\* buffers by being sent, except when the replay is aborted or decided to be off.
Changes(nodes) == {i \in Numbers(nodes) : \E j \in DOMAIN nodes : nodes[j].n = i /\ nodes[j].kind # "meta"}
SentNumbers == UNION {Numbers(p.nodes) : p \in net.sent}
Kept == Changes(AllNodes(World)) \subseteq Numbers(AllNodes(World))' \cup SentNumbers'
KeptUntilSent ==
  [][~(rec.isErrorMode /\ rec.isErrorMode') /\ agg.flagged /\ ~agg.blocked' => Kept]_vars

\* shared/recorder.js:189 "While waiting and buffering for errors to come through, each
\* time we see a new checkout, we can drop the old data": a replay that is and stays
\* in full mode waits no more, and each node it buffered is kept until it is sent.
FullModeKeeps ==
  [][agg.mode = "full" /\ agg.mode' = "full" /\ ~agg.blocked' => Kept]_vars

\* A running replay that was paused, whatever the page and the other methods do,
\* stays off until somebody records again; a retry that ends, and an import that
\* began before the pause, are the exceptions.
Restarts == ~page.rrweb /\ page.rrweb'
PauseStands ==
  [][net.paused /\ net.paused' /\ agg.mode = "off" /\ ~agg.isRetrying /\ Settled
     => ~Restarts]_vars

\* docs/warning-codes.md:143: "A session replay payload failed to send and is being
\* retried. Recording [...] will resume when a successful harvest is made": there is
\* a payload to harvest, then.
RetryCanEnd == agg.isRetrying => rec.retryPayload # NoPayload

=============================================================================
