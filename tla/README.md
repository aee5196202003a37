# A verification project for the New Relic browser agent

TLA+ modules, TLC runs and TLAPS proofs about the browser agent (`src/src`): how
what happens on a page gets from the instrumentation to the collector, and what the
agent keeps, decides and gives up on the way. `PROJECT.json` maps every definition to
the lines it stands for and lists runs, mutants, findings, hazards and theorems.

Contents: 1 the system, 2 the modules, 3 the runs, 4 what the models show of the code,
5 the proofs, 6 what is not modelled, 7 the plan.

## 1. The system

| Component | State it keeps | Operations | Hard behaviour | What makes it correct | Module |
|---|---|---|---|---|---|
| Harvesting: `common/harvest`, `submit-data`, `eol` | started flag, per feature `isRetrying`, `prevAttemptCode`; requests on the wire | startTimer, interval, drain timer, early and final harvest, answers | answers overlap later harvests; status 0; page unload; blocking between the steps | no event lost or doubled, order kept, retries end | Harvest |
| Event stores: `event-buffer`, `event-aggregator`, `aggregate-base` | events, byte count, one backup | add, save, clear, reloadSave, clearSave | one backup, many requests; limits | the backup is what is on the wire; byte count exact | Harvest |
| Aggregator: `common/aggregate` | buckets of metrics and params | store, merge, take, save, reload | a retry merges an older bucket into a newer one | a bucket is the summary of its occurrences | Aggregator |
| Emitter and drain registry: `contextual-ee`, `handle`, `register-handler`, `drain` | backlog per group, registry, handlers | handle, buffer, emit, registerDrain, drain, deregisterDrain, abort | handlers emit while the backlog is replayed; features finish in any order or never | every event handled once, in order; nobody waits for ever | Drain |
| Feature loading: `instrument-base` | import progress | import, refuse, fail, newrelic.start() | partial failure on a shared emitter | a failing feature leaves the others alone | Drain |
| Session: `session-entity`, `timer`, `interaction-timer`, `local-storage`, `agent-session` | stored record, copy per tab, two timers per tab | load, read, write, reset, refresh, pause, resume, storage events | tabs race through local storage; late timers; reset within setup | tabs agree; a session ends when due and not before; nothing leaks into the next one | Session |
| Session replay: `session_replay/*` | mode, imports under way, recorder with two buffers, retry payload | preload, initialise across awaits, switchToFull, forceStop, abort, store, harvest, retry | calls, session events and answers between awaits; several requests, one retry payload | aborts and pauses stand; payloads can be replayed; nothing is lost, or reported without a reason | SessionReplay |
| Page view event: `page_view_event/aggregate`, `feature-flags`, `time-keeper`, `consent` | body, retry timer, flags, cached answer | RUM call, answer, one retry, activation, abort | retry against consent, cache, harvests and abort | every page is decided: the agent runs or is off | PageView |
| Session trace: `session_trace/*` | mode, nodes, session it belongs to | store, trim, switchToFull, abort, harvest | limits; another tab's writes; resets | no foreign session's node is sent; what ended stays so | SessionTrace |
| Logging: `logging/*` | modes of two origins | flags, session updates, abort, log | the same, and null modes | what ended stays so | Logging |
| Soft navigations: `soft_navigations/*` (with ajax, jserrors) | interaction in progress, page load, withheld events, DOM observer | start, URL and DOM changes, timers, API, finish, cancel, hand over | timers, one observer, early harvests, replacement | each withheld event has one outcome; timers end their own interaction | SoftNav, Handover |
| Registered entities, iframe bridge: `register.js`, `registered-iframe-entity.js`, `iframe-message-handler.js` | pending calls, timers, registration | register, call, timeout, answer, deregister, page end | late and lost messages, refusals, errors | an answer closes its own call; the end is reported once | Bridge |
| Vitals of micro frontends: `mfe-vitals.js` | roots claimed, observers | observe, claim, interaction, disconnect | instances of one id race for roots | an instance measures its own content | MfeVitals |
| User actions: `user-actions/*` | the action in progress, two timers | process, timers, DOM changes, errors | timers shared by consecutive actions; replay of buffered events | a dead or error click is one | UserActions |
| Ajax: `ajax/instrument`, `wrap-xhr` | counters of load callbacks | open, send, listeners, load, abort | callbacks that add, remove and reopen | a request is reported once, with its own data | Xhr |
| Fetch and its owners: `wrap-fetch`, `ajax/*`, `v2/utils`, `v2/script-tracker` | registrations, their resource entries, calls under way | register, deregister, entry observed, call, answer, body | entries that come late; registrations that change while a call is under way | a call is reported once to each owner it had | Fetches |
| Page view timing: `page_view_timing/*`, `vitals/*` | vitals and their subscribers, once-flags | update, hide, leave | candidates that become values when the page is hidden | what is known is in the last request | PageTimings |
| Generic events: `generic_events/*`, `wrap-websocket`; metrics | buffers | API events, marks, sockets, metrics | several listeners of one page event | the last request is complete | CustomEvents, Sockets, Metrics, PageActivity |
| Loaders, configuration | settings | wiring | - | - | not modelled (section 6) |
| Serialisation, obfuscation, payloads | - | formatting | - | - | not modelled (section 6) |

How they interact. Instruments call `handle`, which buffers in the emitter's backlog
until `drain` replays it into the handlers the aggregates registered; handlers put
events into the feature's store. The RUM call's answer gives the flags, starts the
harvester's timer and lets the features drain, or aborts the agent. The session is
set up with the first aggregate; its resets and updates, here or from another tab,
tell replay, trace and logging to stop, block or change mode. Ajax and errors are
handed to soft navigations and come back. When the page is hidden or left, the
library's vitals, the instruments, the features' `beforeUnload` and the final harvest
are listeners of the same events.

So the modules meet: `Drain` hands over to `Harvest`; `SessionTrace` extends
`Logging` and `PageView` (flags, session, abort); `SoftNav` contains the ajax and
error features as far as they hand events over; `PageActivity` composes the parts
that share a page's events and its end. Where a module needs only that another may
block, abort or reset it, this is an action of its environment, enabled at any time.

The behaviours that a test hardly reaches are listed with their lines under "hazards"
in `PROJECT.json`: overlapping requests of one feature, events emitted during a
drain, tabs that write over each other, timers armed for an earlier session or
interaction, answers after their call, listeners in the wrong order.

## 2. Modules

In all modules a callback of the browser is one action, since JavaScript runs it to
completion; where it is composed of the code's methods, these are operators on a
*world*, the record of the variables, and keep the code's names. An `await`, a
timer, a message or a request ends a step. Variables called history in a comment
are read by properties only. Definitions marked "mutant" are altered versions placed
before the original, under which TLC finds a property violated; they take no part in
the specification.

The proofs are in modules of their own (section 5): `DrainProofs`, `SessionProofs`,
`ReplayProofs`, `TraceProofs`, `SoftNavProofs` and `PageActivityProofs` each extend the
module they are about, `DeliveryProofs` extends `Harvest` and `Bridge`, which is why the
names of `Bridge` differ from those of `Harvest`; `Folding` holds what they need of folds.

### EventDelivery and Harvest

`EventDelivery` is the abstract promise: each event is new, pending, delivered or
given up; it leaves *pending* once and never returns. `Harvest` is the code.

* State: `buffer`, `bytes`, `backup` are `EventBuffer.#buffer`, `#rawBytes` and the
  backup pair; for the features in `Aggregators` they stand for the aggregator's data
  of that feature's types, whose byte size is 0. `isRetrying`, `prevAttempt`,
  `blocked`, `drainTimer`, `started`, `aborted`, `consented` are the flags of
  aggregate-base, harvester, emitter and runtime. `inflight` holds the requests
  without an answer. `recorded`, `acked` and `givenUp` are history.
* Actions: `Add` (with the early harvest it may cause), `StartTimer`,
  `OnHarvestInterval`, `OnDrain`, `OnDrainTimer`, `OnEndOfLife`, `OnAnswer` (the
  listener of `send`, `cbFinished` and `postHarvestCleanup` in one step), `Block`,
  `Abort`, `Consent`.
* Abstractions: an event is a number in order of recording, with a size; payloads
  are the sequence of their events. Serialisers are taken to return a body whenever
  there are events, `info.errorBeacon` to be present, and `forceNoRetry`, which has
  no caller, not to occur. In the worker scope `getSubmitMethod` returns `fetch`,
  which is `Method`. `givenUp` records the code's own decisions to drop: a refused
  add, an answer not to be retried (status 0 included), fetch, a reload that does
  not fit, a refused beacon.
* Bounds: `NumEvents`; `MaxInFlight`, the unanswered requests of one feature. 1 is
  the assumption that answers come before the feature's next harvest (harvests are
  30 s apart, or early); 2 lets them overlap.

### Drain

`registry`, `backlog`, `buffering`, `handlers`, `listening` are the drain registry,
the emitter's backlog with the three states of an entry (missing, array, null), the
storage of `registerHandler` and the handlers attached with `ee.on`. Handlers emit
while a drain runs, so the rest of the run is kept in `agenda` and only `ReplayNext`
and `FinishGroup` step until it is empty. `Handle` is instrumentation; `CascadeTo`
names the group a handler emits to (errors and ajax go to soft navigations and back).
`SkipImport`, `Load`, `StageFeature`, `Disable`, `FailImport`, `Start` are the
outcomes of `importAggregator`; `DrainUnregistered` is the session's group; `Abort`
is `ee.abort()`. One listener per group stands for the listeners of its event types;
handlers do not throw; a derived event causes no further ones; groups of equal
priority may be drained in either order (the features' priorities differ). Bound:
`MaxEvents` per group.

### Session

The tabs share `stored`; each has its copy `state`, the timers `own`, and `leaked`,
the pair of a nested `setup()` that the entity no longer references. `Read`, `Write`,
`Reset`, `Setup`, `Refresh` are the methods of the same name. `events` are the
storage events on their way to a tab, in order; the event of a removal is left out
because `sync(null)` changes nothing. `mode` stands for the fields features write
without reading first (`sessionReplayMode`, `sessionTraceMode`, ...) and holds the
session it was decided in; `custom` for what `syncCustomAttribute` reads and writes.
Loading, closing, hiding, showing, interacting, clearing the storage and the clock
are the environment. Timers may be late unless `Punctual`. Left out: `numOfResets`,
`updatedAt`, events to features, the debounce's rate, and the instant at which a page
loads exactly at a stored timestamp (a Timer of 0 ms throws, timer.js:8). Bounds:
`MaxTime`, `MaxSessions`, `MaxQueue`; `Inputs` selects the calls that occur.

### SessionReplay

One page, from the instrument's constructor on. `inst` is the instrument (the
recorder chunk, who waits for it, `errorNoticed`), `agg` the aggregate, `rec` the
recorder (`events`, `backlog` = `backloggedEvents`, `lastMeta`, `retryPayload`, `seen...` =
`hasSeen...`), `page` what they share with others: `runtime.isRecording`, whether
rrweb really runs, the visibility, the session's `sessionReplayMode`, the events of
the feature that wait for its drain. `net` holds the requests without an answer and
history. `InitializeRecording` goes on in `AfterRecorder` when the chunk is there
(`RecorderArrives`, `RecorderFails`), and in `AfterCompressor` after
`CompressorSettles`; calls that wait keep their order. `StartRecording` emits the
first snapshot inside the call, before rrweb can be stopped, as rrweb does.
`OtherTabWrites`, `ResetSession`, `Hide`, `Show` are the session's events. `Drain` is
`drainGroup`: the loop runs over a backlog that grows, so that the snapshot an error
of the backlog sets off is stored after every node that was queued before it; only
then are the handlers attached (`agg.drain` is `done`).

A node is its number in order of emission and its kind; sizes are the sets `Large`
and `Huge`. `hasError` and timestamps, the fixing of stylesheets in `audit`, the
settings of rrweb, a failed RUM call and missing consent are left out. Bounds:
`MaxNodes` (rrweb is silent afterwards), `MaxQueue`, `MaxWaiting`, `MaxInFlight`.

### PageView, Logging, SessionTrace

`PageView` is the page view event's aggregate and what it shares: `pve` (the body in
the buffer and its backup, flags, the send and retry timers), `page` (consent, time
keeper, harvester, the activated flags, the emitter's end) and `session` as this tab
knows it. `LoadAggregate` uses a cached answer if the session has one;
`RumTimer`, `RumAnswer`, `RetryTimer` are the call, its answer and the one retry;
`GiveConsent`, `WithdrawConsent`, `OnHarvest`, `OnEndOfLife` interfere. An answer is
its status, whether it names the app and has a server time, and the flags.

`Logging` adds `log`, `SessionTrace` adds `trace`: each waits for its flags
(`FlagsArrive`, `LogFlagsArrive`), takes the session's mode or the sampling
decision, drains what was buffered, stores and harvests, and follows
`ResetSession`, `OtherTabWrites` and `ReplayIsFull`. A trace node is its kind and the
session it was received in; the node limit, both trims, `smear` and the retry are
in. Pages load the trace or the logs, not both: the two meet only in the session.
The conversion of browser events to nodes, log levels and messages are left out.
Bounds: `MaxBodies`, `MaxStored`, `MaxNodes`, and the kinds of pages in
`MCSessionTrace`.

### Handover and SoftNav

`Handover` says what the ajax and error features rely on: an event given to soft
navigations is kept while an interaction is open, then has one outcome, alone or
attached to an interaction, and that is final. `SoftNav` is the code: `nav` (the
feature, its queue before the drain, the interaction in progress, those to harvest,
the API handle, the DOM observer), `ixn` (the interactions, with state, timers and
withheld events), `evt` (the events and their outcomes), `err` (what jserrors keeps:
is the stack reported, its buckets), `clock` (coarse: things share an instant, as
they do in a browser). Actions: `UserEvent`, `Popstate`, `PushState`, `DomChanges`,
`LongTask`, `Timer`, `GetApi` and `HandleApi` (interaction().end/save/ignore),
`LoadEvent`, `HarvestNavs`, `HarvestErrors`, `Hide`, `RequestEnds`, `ErrorOccurs`, and
`SpaOn`/`SpaOff` for the flag. Left out: `setName`, targets and duplicates of
registered entities, deny list, captured payloads, same-URL events, user callbacks.
Bounds: `MaxIxns`, `MaxQueued`, `MaxTime`.

### Bridge

`frame` and `call` are RegisteredIframeEntity and its calls, `container` the agent's
listener, its handler and the entity it registers, `up` and `down` the messages under
way, in order. Messages are lost while the container has no agent and wait in the
emitter until its handler is loaded (`Configure`, `SetUp`). `MakeCall`, `Timeout`,
`FrameReceives`, `ContainerReceives`, `PageUnload` are the handlers; a container
refuses the origin, the target, or neither, and its methods may throw. What a report
contains is left out. Bound: `MaxCalls`.

### PageActivity and its parts

`PageActivity` owns the page: the drain with its queue, visibility, the order of the
listeners when it is hidden (`Hidden`: the library's in the capture phase, the
instruments', `beforeUnload` of every feature, the final harvest) and left (`Close`).
The parts own a variable each and are composed by its actions:

* `UserActions` (`ua`): aggregation of events by element, the two timers of a click
  on a button or link, DOM changes, requests and errors in between.
* `PageTimings` (`pvt`): vital metrics with history and subscribers, candidates that
  become values when the page is hidden, first input, pageHide, unload.
* `Xhr` (`xhr`): one XMLHttpRequest, used for up to `MaxRequests` requests. The page's
  script adds and removes listeners, sets `onload`, aborts and reopens, also inside
  the load callbacks, which are called one by one (`CallListener`, `Returns`).
* `Fetches` (`mf`): the micro frontends scripts register, in order, each with whether
  it knows its script's resource entry (`known`), waits for it (`subscribed`, `late`
  after ten seconds) or gave up (`expired`), and calls of `fetch()`: `Called` finds the
  targets by the files on the stack, `FinishAndReport` uses them once the answer, or
  its body, is there, `StoreFetch` stores one event for each. `owners` is history: who
  should have the call, said without the search the code makes.
* `Sockets` (`ws`): wrapped WebSockets from open to close or pagehide.
* `MfeVitals` (`mfe`): instances of one id that register, claim roots and measure, as
  nodes are added in batches, images load, the user interacts and the page is hidden.
* `Aggregator` (`agg`): a bucket with a value per occurrence, taken by requests that
  fail or succeed, in any order of answers.
* `CustomEvents` (`custom`): API calls, and marks the browser hands over later.
* `Metrics` (`met`): how many supportability metrics the above cause, and which of
  them leave. Which metric it is does not matter.

Rage clicks, attributes, the targets of other events, resources, FP and TTFB are left
out, as is the restore from the back/forward cache. Bounds: see the run.

## 3. Runs

| Run | What it shows |
|---|---|
| HarvestPrompt | An aggregator feature and an EventBuffer feature, answers in time, consent, blocking, abort, unload: no loss, no duplicate, order kept; a saved copy belongs to an unanswered request and byte counts are exact; every accepted event is delivered or dropped in the end, unless consent stays missing; the module implements EventDelivery. |
| DrainOrder | An auto-started feature, a deferred one that may fail to load, and the session group, with handlers that emit to each other: each event is handled once, in order and in the end; listeners miss nothing; replay waits for every registered feature. |
| SessionTabs | Two tabs: one expiry per session, modes do not cross sessions, all but the last writer end up with what is stored. |
| SessionReload | One tab that is closed, loaded again on valid, expired and cleared storage, hidden and shown: its timers end a session when due, consent survives every reset, an expired session leaves storage while a page is open. |
| Replay | One page with every stored mode, sampling decision, call, session event and answer: payloads can be replayed and have a reason; an aborted replay stores and sends nothing more; a pause outlasts hiding and showing; replay and session agree on the mode when no import is awaited; nodes leave the buffers by being sent. |
| PageTrace | Four kinds of pages with a trace, two with logs, under answers, consent, resets and another tab: the RUM call is decided, what was aborted stays so, no trace request mixes sessions. |
| SoftNav | Eight kinds of visits: only the current interaction has timers, it is observed while it waits for DOM changes, it is never left open without a timer or its user, the one stack of an error is not lost, and the module implements Handover. |
| Bridge | Three kinds of containers: an answer or timeout closes its own call, deregister() ends, the end of life is reported once. |
| PageActivity | Sixteen kinds of pages: dead and error clicks are what they say, the first request of an object is reported once with its own times, a call of `fetch()` is reported once to each micro frontend it belonged to when it was made, instances of one id keep their vitals apart, a bucket summarises exactly its occurrences, and when the page is hidden nothing known is left behind. |
| ReplayStuck | *violation*: with two requests, the answer to one clears the payload the other needs to be retried; the retry never ends and no harvest follows. |
| ReplayWindow | *violation*: after a switch from error to full mode a checkout drops nodes that were never sent. |
| TraceWindow | *violation*: a trace that leaves error mode keeps nothing of the seconds before the error. |

Bounds and why they suffice.

* Harvest: three or four events of sizes 2 and 1 against a limit of 4 reach a refused
  add, a reload that fits and one that does not, and an early harvest at 1 or 2;
  statuses 0, 200, 400 and 503 are the classes the code tells apart. Answers
  come before the feature's next harvest (`MaxInFlight = 1`); what is claimed with more
  requests is proved for any number of them (section 5).
* Drain: three groups give a first, a later and a foreign one; three events give one
  replayed, one derived and one live.
* Session: with one tab, sessions last three units, two without activity, so that a
  page can join midway, stay hidden past inactivity and reach the hard expiry; with
  two tabs both timers take one unit, and three sessions with two undelivered events
  let two resets cross.
* SessionReplay: six nodes are a first snapshot, a checkout and two changes, so that a
  harvest cuts a snapshot apart, a window is wiped and a restart follows; the third
  node makes the buffer due for a harvest and the sixth is too large to be stored. Four
  events wait for the drain: a snapshot, an error, and a change behind it. The
  two findings need two requests at once, and have runs with fewer inputs.
* PageTrace: with room for one node, the second one trims or is refused; two sessions
  are enough to mix; flags for an error-mode trace with logs and for neither.
* SoftNav: three interactions are the page load, one and its replacement; three
  instants put an event before, at and after a boundary; one request and two
  occurrences of one error, since an error's stack is sent once.
* Bridge: a registration and three calls are enough for a late answer to meet the
  next call.
* PageActivity: three actions on two buttons and a text (a click's timer meets the
  next action and the one after); two callbacks and two requests of an object; two
  sockets; two instances with a root each; two registrations from two scripts under two
  ids (the same twice, one of them deregistered, or different ones) and one call,
  since calls do not interact, one script preloaded with a query in its URL; occurrences 2, 1, 3, 2, 1, so that minimum
  and maximum lie on either side of a merge, and two requests of a bucket; the page
  is hidden twice. What does not interact is on pages of its own kind.

Fairness. `Harvest`: timers fire (WF), each feature's requests end (WF: XHR always
fires loadend), and a collector asked again and again accepts in the end (SF); the
last one is about the environment and is what retrying is for. `Drain`: a drain
runs to completion, and after window load each auto-started feature imports and
decides (WF); `newrelic.start()` is not assumed. `Session`: a due expiry timer fires
in the end (WF). `SessionTrace`: the aggregate loads, its timers fire and requests
end (WF). `Bridge`: a timer that is set fires (WF). `SoftNav` states its liveness as a
safety property, `OpenIsTimed`, and `PageActivity` looks at the end of the page;
neither assumes fairness.

Deadlock is not checked: in each module the page may be left or everything bounded
may have happened, after which nothing steps.

## 4. What the models show of the code

Three runs are findings: each checks one sentence of the repository, which
`PROJECT.json` quotes, and finds it violated by what the code does. The models
contain more effects, which the properties except where they would be violated, or
which were met while reading; they are collected here for whoever changes the code.

* Harvest. `save()` overwrites the one backup (event-buffer.js:104): with two requests
  under way a failed first one is not retried. An exception of one feature's harvest
  inside `forEach` keeps the interval from being re-armed (harvester.js:43; not
  modelled: no serialiser is known to throw).
* Aggregator. The saved copy is kept by reference, harmless because `clearSave` follows
  `reloadSave`; a counter without a value could not be merged (NaN) but is never
  reloaded; `reloadSave` throws if an overlapping answer cleared the copy.
* Drain. A feature that fails to load aborts the emitter all features share
  (`FailImport`), which instrument-base.js:148 itself calls not supported yet; a
  handler that throws during a replay leaves the groups behind it undrained
  (drain.js:100; not modelled).
* Session. A tab that adopts another tab's session keeps the expiry timer of the one
  before, which ends the new session early (session-entity.js:72); a page that joins a
  session midway re-arms its inactivity timer too short (session-entity.js:142); two
  tabs that reset at once adopt each other's session (session-entity.js:239); a reset
  in a hidden tab arms an inactivity timer that runs although hidden
  (interaction-timer.js:53); a nested setup leaves a second pair of timers armed
  (`leaked`); a feature that writes its mode without reading first overwrites what
  another tab stored.
* Session replay. The success that ends a retry restarts a recording the user paused
  meanwhile (index.js:356); after the switch from error to full a checkout still wipes
  unsent nodes, as `isErrorMode` is only set at start (recorder.js:98, :192; the run
  ReplayWindow), and what a harvest has sent is kept as the backlog of the next, so
  that a payload may begin with a snapshot whose meta node an earlier one carried
  (`Playable` allows for that one); `||=` does
  not evaluate its right side once a node of the kind was seen, so hasMeta and
  hasSnapshot of later payloads stay false (recorder.js:198-200); recordReplay() after
  an abort starts rrweb, whose nodes are thrown away; a pause or abort while a chunk
  is imported does not keep the recording from starting; a chunk that arrives after
  the decision starts a recorder nobody asked for; an abort during the first snapshot
  leaves rrweb running; recordReplay() between the load of the aggregate and the flags
  has no effect.
* Page view. consent() before the aggregate loads sends the call and leaves a timer
  that sends another; the retry lapses when consent is withdrawn, or a beacon takes
  the body, within its five seconds; the answer is cached before the time correction,
  so that the page after an aborted one activates from the cache.
* Session trace. After `ee.abort()` it may still send when the cached answer was wiped
  (its own preHarvestChecks lacks `ee.aborted`); an abort by another tab writes
  "off" into that tab's new session; `#smear` looks up its tables by origin instead of
  name; events buffered before it initialises may be of the session before a reset.
* Logging. Another tab's new session has null modes; the page takes them, writes them
  back with the flags and drops its logs silently (index.js:46, :55), so "must abort
  and never resume" (:38) holds only for the tab's own reset.
* Soft navigations. An early harvest inside the 'finished' event sends the interaction
  before its withheld children are added (index.js:123-126), and the page load before
  it has an end (index.js:33-39); a request that began before the load event and ends
  after the page load was harvested is attached to it and lost, although index.js:166
  says "only if still in-progress"; with the spa flag off the handlers are gone but
  `softNavInUse` stays, and later ajax and error events are dropped; an ignored page
  load is still harvested (interaction.js:91), and its error merges into a bucket
  without a stack; a kept-open interaction and an unfinished page load keep their
  events at unload (index.js:49); of two UI events replayed at the drain the second
  finds the DOM observer disconnected.
* Bridge. Calls that wait for a registration that is then refused are posted all the
  same (registered-iframe-entity.js:292) and end by timeout; a registration that times
  out leaves an entity at the container; a refused origin counts as registered; timers
  are never cleared, harmless as ids are unique; late timings of the script change the
  raw object, not the proxy that would send them (constructor, 121-133); the timestamp
  of setCustomAttribute leaks into the report at unload, contrary to register.js:240.
* User actions. Events replayed at the drain: a buffered error is applied without
  comparing times, against the "within 2 seconds" of its tests; DOM and URL changes
  before the drain are not seen, which makes false dead clicks; hiding reports an action
  whose two seconds are not over. `FrustrationIsTrue` is about live events.
* Ajax. `ended`, `resolved`, `loadCaptureCalled` are never reset, so a reused object is
  reported at most once; a load listener added after send() that removes itself, one
  added or `onload` set while load is dispatched, or one removed through an AbortSignal
  make `called === totalCbs` never true; reopening in an error handler files the report
  under the new request.
* Page view timing. The unload of a page already hidden stays unsent; the first input
  after the first hide may, too, when there is nothing else to send
  (aggregate-base.js:150).
* Marks and metrics. Marks the observer has not been handed when the page is left are
  lost (`takeRecords` is not called); what features report while they are being
  harvested for the last time comes after the metrics' `beforeUnload`.
* WebSockets. A page closed while hidden buffers its reports and never sends them; a
  socket still connecting is not reported; `openWebSockets` is not cleared at pagehide,
  so a page restored from the back/forward cache would report a socket twice.
* Vitals of micro frontends. Nodes added in one batch after the root are counted though
  outside it (:85); an image that loads after the end is observed anew (:218) and
  moves the LCP, contrary to the comments at :277 and :293; an instance can claim two
  roots, leaving none for the other; a root brought inside a wrapper is missed until
  content is added to it.
* Owners of calls. A matched entry's asset keeps its query, so `endsWith(filename)` of
  the cleaned name fails (v2/utils.js:59): a script with a query in its URL owns calls
  only while it is known by its preload link. A registration that waited for more than
  ten seconds when another script's entry comes gives up for good
  (script-tracker.js:107). A deregistered entity still receives events when it is the
  only one of its asset and id, although deregistering is said to "invalidate it from
  the v2 checks" (register.js:141).
* Script timings (read only, not modelled). A registration before the observer has
  delivered the script's entry claims none, so a later remount reports the old load as
  fresh; a script re-added moves the start of earlier registrations; at 1000 scripts
  the oldest correlation is dropped.

## 5. Proofs

Everything here holds for all values of the constants, under the assumptions named in
the modules, which TLC evaluates in the runs. `PROJECT.json` lists the theorems.

### Folding

Calls that waited, messages that were queued and sizes of events are folded over.
The induction theorems of the library take an operator as a parameter, which the
provers do not instantiate, so the module states induction with sets: `LeastOf` gets
the least element of a set of numbers from `WFMin`, `Induct` follows, and from it
that a fold of the constant `Op` passes through values each made of the one before
(`FoldPasses`), in any set closed under `Op` (`FoldChain`, `FoldStays`), and what it is of
an appended sequence (`FoldAppend`, `FoldLast`). The fold of a finite set is one of a
sequence of its elements (`SetFoldPasses`). A proof module takes an instance for each
operator it folds.

### DeliveryProofs, first part: Harvest

For every set of features, sizes, limits, statuses and number of events:

* `TypeCorrect`: `Spec => []TypeOK`, with any number of overlapping requests.
* `InvariantHolds`: `Spec => []IndInv` when `MaxInFlight = 1`.
* `NothingIsLost`, `NothingIsDeliveredTwice`: `NoSilentLoss` and `NoDuplicateDelivery`.
* `OrderIsKept`: `Chronological`, as a reload puts what failed before what came since.
* `HarvestDelivers`: `Spec => Delivery!Spec`, the refinement of `EventDelivery`.
* `SavedCopiesAreInFlight`, `CountsAreExact`: `SavedCopyIsInFlight` and `BytesAreExact`,
  with any number of overlapping requests; the latter by the sum of a concatenation.

The argument. `NoSilentLoss` and `NoDuplicateDelivery` are not inductive: whether a
reload brings back the right events depends on the backup, so `IndInv` adds that a
feature has at most one request (`OneRequestEach`), that its saved copy is that
request's body (`SavedCopyIsInFlight`, `AnswerFindsItsSave`; nothing is saved with
fetch), that each event is in one place (`NotTwice`), and that the history agrees
with the place (`OneFate`). Every action is an instance of a few moves: adding the
next event, sending stores off, answering a request, unloading; one lemma each shows
that the move keeps `NotTwice` and `OneFate` and maps to a step of `EventDelivery`.
The assumption `MaxInFlight = 1` is necessary: with two requests a failed first one
is not retried. The constants' assumptions are named in `Harvest.tla` and evaluated
by TLC in every run. No run uses fetch (the worker scope): the proofs cover both
methods.

### DrainProofs

For all groups and features, any priorities and any `CascadeTo`:

* `DrainTypes`, `NoMemoryHeld`: `TypeOK` and `ReleasedStaysEmpty`.
* `EachEventOnceInOrder`, `NothingMissed`: `HandledInOrder`, `ListenersMissNothing`.
* `ReplaysByPriority`: the action property `ReplayWaitsForAll`.

`DrainInvariant` is what they rest on. A handler may be attached without loss only if
the group's entry holds everything the group was sent (`BacklogIsComplete`), so a
released entry, whose later events were dropped, must never be activated again. That
holds because a group is released once (`ReleasedOnce`): while a feature is registered
or its import undecided its entry is not null, a staged feature has decided, and a
deferred one has not begun. `AgendaIsNew` carries this through a running drain, whose
groups are distinct and unreleased; `AgendaIsSorted` says that a registered group is
on the agenda only together with all others, sorted. The assumptions are those named
in `Drain.tla`: finitely many features, natural priorities, and no group whose handler
emits to the same group.

### SessionProofs

For any number of tabs, all durations and bounds:

* `SessionTypes`: `TypeOK`, with timers armed within their limits.
* `TabsAgreeOnExpiry`, `ModesStayInSession`: `OneExpiryPerSession`,
  `ModeBelongsToSession`.
* `TabsHoldWhatIsStored`: `TabsConverge`.
* `TimersOfOneTab`, `ConsentOfOneTab`: `TimersEndOnlyWhenDue` and `ConsentStands` for a tab
  alone (`Alone`).

A callback composes several methods, so the invariant is stated of the world a
callback works on (`Good`, `Live`: all copies, the running tab's and the others', are
sound and agree on each session's expiry), and one lemma per method shows that it
leaves such a world behind: a write keeps value and expiry of a known copy, a setup
takes a fresh value. `ApplyInv` carries the result back to storage, tab and storage
events; its strengthening over the properties is that every copy's value is below
`nextValue`, that inactivity is never more than `inactiveMs` ahead (which bounds the
`initialMs` of a joining page), and that a closed page keeps nothing.

`TabsConverge` needs a second invariant, `ConvergeInv`: the last storage event on its
way to a tab, or the tab's copy if none is, equals what is stored. Every callback
of a tab ends with a write whose storage event carries the stored record (`Wrote`);
the one exception, deleting an attribute when no record is stored, changes nothing.

The last two need their hypothesis: with another tab a timer may end a session it was
not armed for, and a write may undo a consent that has not arrived yet (section 4). Alone, a
tab receives no storage event, storage holds its copy or nothing (`Linked`), and its
timers are due when the copy says, unless the inactivity timer was armed for less than
a whole session (`Held`). A refresh changes timer and copy together, but the two
interaction timers of a nested setup one after the other, so that only `Linked` holds
in between. The run SessionReload has one tab and checks the same.

### ReplayProofs

For all bounds, flags, inputs and sizes:

* `Types`: `TypeOK`. `ReportsHaveReasons`: `ReportedWithReason`.
* `ModesAlwaysAgree`: `ModesAgree`.
* `PayloadsPlay`: `Playable`.
* `AbortsStand`, `PausesStand`, `NodesAreKept`: the action properties `AbortStands`,
  `PauseStands`, `KeptUntilSent`.

The invariant is `Sound` and `InLine`. Sound: the world is typed, and `Core` and `Agreed` hold. Nothing in
the properties mentions what waits for an import, but what waits decides what is
recorded later: `Waits` says that a waiting call, and a queued error, has the reason
and entitlement it will be carried out with, `Ordered` that calls wait only for what
is being imported, `Filled` that the buffers are empty before the drain and payloads
never are. `Agreed` has two parts that the property hides: an entitled replay is
initialised, and a pause that turned the mode off turned the session's off.

`InLine` is what makes payloads playable. `Lined`: the numbers in the buffers ascend,
a snapshot in them follows its meta node, and one that comes first has its meta node
held back by the last harvest (`lastMeta`) or was sent before with it; in error mode
the second window does not begin with a snapshot, so dropping the first one is sound.
`Queued`: what waits for the drain ascends beyond the buffers, a meta node and its
snapshot next to each other. Neither is enough alone, because a snapshot is stored or
emitted in two parts: between them the invariant does not hold, and a harvest may fall
there (storing the meta node may fill a payload). `Due` says where the meta node is then
found, at the end of the buffers or held back; `Rested` that nothing is due. The methods
keep `Line(w, p)` for any items p that the drain still has to replay (`Flows`), since an
error that is replayed starts a recording whose nodes queue up behind p. A step of
the drain keeps `Resumes`, and the drain ends with an empty queue because the second
replay meets nodes alone, which emit nothing (`Drains`).

Each method has one lemma, which says what it does in terms of a few relations of two
worlds: `Quiet` (what is aborted stays as it is), `Keeps` (no node is lost), `Records`
(storing and harvesting), `Goes` (starting and stopping). The replay of the queue, the
calls that waited for the recorder and those that waited for the compressor are folds
of methods, hence in any set the methods do not leave. Two of them need more:
the modes agree again with the last call the compressor released (`FoldLast`), and
nothing is lost in the drain because the buffers were empty when it began. The drain
itself is followed item by item, by induction along the fold (`FoldChain`).

### TraceProofs

For all pages, flags, other tabs and bounds: `Types`, `OneSession`
(`OneSessionPerPayload`) and `EndsStand` (`EndStands`). A payload has the nodes of one
session because `TraceGood` says of every node, stored or saved for a retry, that its
session lies between the one the trace belongs to and the current one (`Span`), which
only a harvest in the same session can send. What was blocked is off, and each
function either leaves alone what blocking is about or ends it: the relations
`PveStep`, `LogStep`, `TraceKeep` compose along a callback.

### SoftNavProofs

For any number of interactions, events and messages: `TimersCloseTheirOwn`,
`LiveIsObserved`, `UserInteractionsAreTimed` (`TimersAreOfTheCurrent`,
`ObservedWhileOpen`, `OpenIsTimed`) and `EventsAreHandedOver`, that the module implements
`Handover`. The invariant `Good` has four parts. At most the page load and the current
interaction are open, and what is not open withholds nothing and has no timer
(`OneIsOpen`). The messages that wait for the drain are in the order of their times
and none is older than the current interaction (`InOrder`): without it a replayed
message could close an interaction before it began. A message to an API handle comes
after the one that asks for it (`Handles`). Every event is in one place, withheld once
or queued once, or has had its one outcome (`EventsPlaced`), which is what `Handover`
sees. A timer that fires leaves its interaction without one until it is closed, so
`Timed` holds but for the interaction being dealt with.

### DeliveryProofs, second part: Bridge

For any number of calls and every kind of container: `AnswersMatch`
(`AnswersMatchCalls`) and `EndOfLifeIsReported` (`EndOfLifeReported`). An answer finds its
call by an id: ids are below the counter and no two calls share one (`IdsAreFresh`), and
a message or answer under way carries the id of its call (`MessagesName`). The entity
reports once because the registration is the first message and the only one until it is
answered (`RegisterIsFirst`), so the container does not set up a second entity.

### PageActivityProofs

For any elements and values, any tree of nodes, any sequence of instances, any files,
ids and callbacks, and all bounds:
`FrustrationsAreTrue` (`FrustrationIsTrue`), `BucketsStayExact` (`BucketsAreExact`),
`VitalsStayTheirOwn` (`VitalsAreTheirOwn`), `FetchesFindTheirOwners`
(`FetchHasItsOwners`) and `FirstRequestsAreReported` (`FirstRequestIsReported`), of the
whole composition with its drain and its end. The invariant `PageActivityGood` has a part
for each of the first four, and one step may take several along: hiding the page buffers
an action, takes the errors and disconnects the vitals. Requests share no step with
these, so `XhrGood` is an invariant of its own.

* User actions. A verdict is true once given because of what holds before (`ActionGood`):
  a watched click that is the current action has its dead timer exactly while nothing has
  changed, and its error timer while there was no error (`ErrTimerGood`: an error
  timer never belongs to an action before). The drain may make an action of each
  event that waits, so the bound on actions needs `RoomFor`: there is room for all of them.
* Aggregator. That a bucket is the summary of its occurrences is inductive but for the
  arithmetic: `StoreIsSummary` and `MergeIsSummary` follow from sums, extremes and lengths
  of a concatenation (`MetricOfTwo`), whatever of the two is condensed to one value.
* Vitals. Each instance (`InstanceGood`) has claimed the root it observes, and the root
  of what it counted, unless that was swept in; who claims a root finds it unclaimed
  (`MarkGood`). Once it is disconnected nothing of it waits to be resized or is observed,
  so its LCP is final unless an image loads late. The browser's callbacks are folds, over
  nodes inside of folds over instances, which `Folding` follows (`AlongPasses`).

What other parts do is outside these variables, and `Later` says so once for each of
their methods. The assumptions are those named in the modules: among them that there
are finitely many sockets, that the roots of nodes are roots, and that "none" is not an
element.

### Only model-checked

* Every liveness property: fairness and ENABLED are out of the provers' reach.
* `StackIsNotLost`: provable, but not proved yet (section 7).
* `LastOutgoingIsComplete`: it is about every part of `PageActivity` at once, and the runs
  enumerate the kinds of pages there are.

## 6. Not modelled

* Loaders and API wiring, configuration: no protocol of their own. Settings are
  CONSTANTS, API calls are actions of the modules they act on.
* Serialisation, obfuscation, payload capture, stack traces, URL and selector
  formatting, GraphQL metadata, framework detection: pure data; no property here is
  about it.
* Distributed tracing, timers and promises wrapping: thin layers whose behaviour is the
  host's. Listeners of an XMLHttpRequest, WebSockets and `fetch()` are modelled because
  counting and tracking them is a protocol.
* The values of script timings (`v2/script-tracker.js`): section 4 lists what was met
  while reading. Their entries are modelled as far as they decide who owns a call.
* Exceptions thrown by customer code inside handlers; the worker scope except for
  fetch; the back/forward cache; IE11.
* `tools/`, `tests/`, build files, examples: no part of the agent.

The implementation counts those lines as well, which is why the share of lines the
map names is small although each stateful component is in a module.

## 7. Plan

1. `StackIsNotLost` from `SoftNavInvariant` with the bucket an event is in.
2. Script timings, if their matching is changed.
