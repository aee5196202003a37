-------------------------------- MODULE Bridge --------------------------------
(***************************************************************************)
(* A micro frontend in an iframe that reports through the agent of the     *)
(* page around it, the container.  RegisteredIframeEntity turns its calls  *)
(* into messages and waits ten seconds for each answer; the container's    *)
(* handler registers the entity, runs its calls and answers.  Messages are *)
(* lost as long as the container has no agent, and wait in the emitter     *)
(* until its handler is loaded.                                            *)
(*                                                                         *)
(* A handler is a composition of methods on a world w, the record of the   *)
(* variables.  A call is known by its number.                              *)
(***************************************************************************)
EXTENDS Naturals, FiniteSets, Sequences, Functions

CONSTANTS
  Containers,  \* the container's side: [domain |-> is the iframe's origin allowed?,
               \* valid |-> is the target valid and the API enabled?]
  Kinds,       \* the calls that are made
  MayThrow,    \* can a method of the container throw?
  MaxCalls     \* bound: calls of the iframe's code

ASSUME BridgeAssumption ==
  /\ Containers \subseteq [domain : BOOLEAN, valid : BOOLEAN]
  /\ Kinds \subseteq {"report", "deregister", "vitals"}
  /\ MayThrow \in BOOLEAN
  /\ MaxCalls \in Nat \ {0}

VARIABLES
  frame,      \* the entity in the iframe
  call,       \* its calls; the first one registers
  container,  \* the agent's listener and handler, and the entity it registered
  up, down    \* messages under way, in order

bridgeVars == <<frame, call, container, up, down>>

Calls == 1..MaxCalls
None == 0
TimedOut == [error |-> TRUE, entity |-> FALSE, blocked |-> FALSE]
OneWay == {"vitals", "timing"}   \* no answer is expected

(***************************************************************************)
(* The iframe's side.  A call that is made is new, waits for the           *)
(* registration, is open with a pending entry, or closed.  History: which  *)
(* call's answer or timeout closed it.                                     *)
(***************************************************************************)
World == [frame |-> frame, call |-> call, container |-> container, up |-> up, down |-> down]

BridgeInit ==
  /\ frame = [reg |-> "pending", blocked |-> FALSE, calls |-> 1,
              counter |-> 1, waiting |-> <<>>, timers |-> {1}]
  /\ call = [c \in Calls |->
         IF c = 1 THEN [kind |-> "register", state |-> "open", id |-> 1, closedBy |-> None]
                  ELSE [kind |-> "none", state |-> "new", id |-> 0, closedBy |-> None]]
  /\ \E kind \in Containers :
       container = [kind |-> kind, stage |-> "absent", queue |-> <<>>, known |-> FALSE,
                    blocked |-> FALSE, reportedAt |-> FALSE, timings |-> 0]
  /\ up = <<[kind |-> "register", id |-> 1, call |-> 1]>>
  /\ down = <<>>
-----------------------------------------------------------------------------
Message(w, c, id) == [kind |-> w.call[c].kind, id |-> id, call |-> c]
Position(s, c) == CHOOSE i \in DOMAIN s : s[i] = c

PostWithOldId(w, s) ==  \* mutant: the next id is the number of calls that are open
  LET open  == Cardinality({b \in Calls : w.call[b].state = "open"})
      id(c) == open + Position(s, c)
  IN [w EXCEPT !.frame.timers = @ \cup {c \in Range(s) : w.call[c].kind \notin OneWay},
               !.up = @ \o [i \in DOMAIN s |-> Message(w, s[i], open + i)],
               !.call = [c \in Calls |->
                           IF c \notin Range(s) THEN @[c]
                           ELSE IF @[c].kind \in OneWay THEN [@[c] EXCEPT !.state = "closed"]
                           ELSE [@[c] EXCEPT !.state = "open", !.id = id(c)]]]

PostUntimed(w, s) ==  \* mutant: an answer is awaited for ever
  [w EXCEPT !.frame.counter = @ + Len(s),
            !.up = @ \o [i \in DOMAIN s |-> Message(w, s[i], w.frame.counter + i)],
            !.call = [c \in Calls |->
                        IF c \notin Range(s) THEN @[c]
                        ELSE IF @[c].kind \in OneWay THEN [@[c] EXCEPT !.state = "closed"]
                        ELSE [@[c] EXCEPT !.state = "open",
                            !.id = w.frame.counter + Position(s, c)]]]

\* #postMessageToParent after its await, for the calls s in their order: each takes the
\* next id, and #openPending sets a timer for the calls that expect an answer
Post(w, s) ==
  [w EXCEPT !.frame = [w.frame EXCEPT !.counter = @ + Len(s),
                               !.timers = @ \cup {c \in Range(s) : w.call[c].kind \notin OneWay}],
            !.up = @ \o [i \in DOMAIN s |-> Message(w, s[i], w.frame.counter + i)],
            !.call = [c \in Calls |->
                        IF c \notin Range(s) THEN w.call[c]
                        ELSE IF w.call[c].kind \in OneWay THEN [w.call[c] EXCEPT !.state = "closed"]
                        ELSE [w.call[c] EXCEPT !.state = "open",
                            !.id = w.frame.counter + Position(s, c)]]]

\* The call awaits the registration.  It is not looked at again whether the entity is
\* blocked when that arrives.
AwaitRegistration(w, c) ==
  IF w.frame.reg = "ok" THEN Post(w, <<c>>)
  ELSE [w EXCEPT !.frame.waiting = Append(@, c), !.call[c].state = "waiting"]

\* #postTimingToAgent for the timings the registration found; they have no call
PostTiming(w) ==
  IF w.frame.blocked THEN w
  ELSE [w EXCEPT !.frame.counter = @ + 1,
                 !.up = Append(@, [kind |-> "timing", id |-> w.frame.counter + 1, call |-> None])]

\* #register: the answer, with the metadata if there is an entity
Registered(w, answer) ==
  LET v == [w EXCEPT !.frame.reg = "ok", !.frame.blocked = answer.entity /\ answer.blocked,
                     !.frame.waiting = <<>>]
  IN PostTiming(Post(v, w.frame.waiting))

\* #register: no answer.  What waits for the registration fails with it.
RegistrationFailed(w) ==
  [w EXCEPT !.frame.reg = "failed", !.frame.blocked = TRUE, !.frame.waiting = <<>>,
            !.call = [c \in Calls |-> IF @[c].state = "waiting"
                                      THEN [@[c] EXCEPT !.state = "closed"] ELSE @[c]]]

\* The pending promise of call c settles; deregister() is blocked either way
Settle(w, c, by, answer) ==
  LET v == [w EXCEPT !.call[c].state = "closed", !.call[c].closedBy = by]
  IN CASE w.call[c].kind = "register"   -> IF answer.error THEN RegistrationFailed(v)
                                           ELSE Registered(v, answer)
       [] w.call[c].kind = "deregister" -> [v EXCEPT !.frame.blocked = TRUE]
       [] OTHER                         -> v

\* #closePending: the call that is open under this id, if any
ClosePending(w, id, by, answer) ==
  LET open == {c \in Calls : w.call[c].state = "open" /\ w.call[c].id = id}
  IN IF open = {} THEN w ELSE Settle(w, CHOOSE c \in open : TRUE, by, answer)
-----------------------------------------------------------------------------
(***************************************************************************)
(* The container's side.                                                   *)
(***************************************************************************)
\* Once, and not when the entity is blocked; what the report carries is left out
ReportTimings(w) ==
  IF w.container.reportedAt THEN w
  ELSE [w EXCEPT !.container.reportedAt = TRUE,
                 !.container.timings = IF w.container.blocked THEN @ ELSE @ + 1]

BlockEntity(w) == [w EXCEPT !.container.blocked = TRUE]

DeregisterBlocksFirst(w) ==  \* mutant: the entity is blocked before it reports its timings
  ReportTimings(BlockEntity(w))

Deregister(w) == BlockEntity(ReportTimings(w))

\* register(): an invalid target is blocked, and not tracked
Register(w) ==
  IF ~w.container.kind.domain THEN w
  ELSE [w EXCEPT !.container.known = w.container.kind.valid,
                 !.container.blocked = ~w.container.kind.valid]

\* handleMethodCall and the handlers of one-way messages
Handle(w, m) ==
  CASE m.kind = "register" -> Register(w)
    [] m.kind = "deregister" /\ w.container.known -> Deregister(w)
    [] OTHER -> w    \* a report or a one-way message

\* sendResponse: with the entity's metadata, if one was found
Answer(w, m, failed) ==
  IF m.kind \in OneWay THEN w
  ELSE [w EXCEPT !.down = Append(@,
         [id |-> m.id, call |-> m.call, error |-> failed,
          entity |-> w.container.known \/ (m.kind = "register" /\ w.container.kind.domain),
          blocked |-> w.container.blocked])]

Process(w, m, failed) == Answer(Handle(w, m), m, failed)
-----------------------------------------------------------------------------
Apply(w) ==
  /\ frame' = w.frame
  /\ call' = w.call
  /\ container' = w.container
  /\ up' = w.up
  /\ down' = w.down

\* A method of the entity: #postMessageToParent before its await
MakeCall(kind) ==
  /\ frame.calls < MaxCalls /\ ~frame.blocked
  /\ LET c == frame.calls + 1
     IN Apply(AwaitRegistration([World EXCEPT !.frame.calls = c, !.call[c].kind = kind], c))

\* The response listener does not listen once the entity is blocked
FrameReceives ==
  /\ down # <<>>
  /\ LET v == [World EXCEPT !.down = Tail(@)]
         a == Head(down)
     IN Apply(IF frame.blocked THEN v ELSE ClosePending(v, a.id, a.call, a))

\* The timer of a pending entry is not cleared by its answer
Timeout(c) ==
  /\ c \in frame.timers
  /\ Apply(ClosePending([World EXCEPT !.frame.timers = @ \ {c}], call[c].id, c, TimedOut))

\* configure(): the agent of the container listens
Configure == container.stage = "absent" /\ Apply([World EXCEPT !.container.stage = "listening"])

\* setupIframeMFEMessageListener: the handler is there, and drain() hands it what waits
SetUp == container.stage = "listening" /\ Apply([World EXCEPT !.container.stage = "draining"])

\* drainGroup: one message after the other.  Nothing else runs in the container until it
\* is done, but the iframe may be another process and go on.
DrainOne(failed) ==
  /\ container.stage = "draining" /\ container.queue # <<>>
  /\ Apply(Process([World EXCEPT !.container.queue = Tail(@)], Head(container.queue), failed))

Drained ==
  /\ container.stage = "draining" /\ container.queue = <<>>
  /\ Apply([World EXCEPT !.container.stage = "ready"])

ContainerReceives(failed) ==
  /\ up # <<>>
  /\ LET v == [World EXCEPT !.up = Tail(@)]
         m == Head(up)
     IN \/ container.stage = "absent" /\ Apply(v)
        \/ container.stage = "listening" /\ Apply([v EXCEPT !.container.queue = Append(@, m)])
        \/ container.stage = "ready" /\ Apply(Process(v, m, failed))

\* The container's page is hidden: subscribeToPageUnload(reportTimings)
PageUnload ==
  /\ container.stage = "ready" /\ container.known /\ ~container.reportedAt
  /\ Apply(ReportTimings(World))

BridgeNext ==
  \/ FrameReceives \/ Configure \/ SetUp \/ Drained \/ PageUnload
  \/ \E kind \in Kinds : MakeCall(kind)
  \/ \E c \in Calls : Timeout(c)
  \/ \E failed \in {FALSE, MayThrow} : DrainOne(failed) \/ ContainerReceives(failed)

\* Every timer that is set fires
BridgeSpec == BridgeInit /\ [][BridgeNext]_bridgeVars /\ \A c \in Calls : WF_bridgeVars(Timeout(c))
-----------------------------------------------------------------------------
(***************************************************************************)
(* A call is closed by its own answer or its own timeout, however late     *)
(* these are and whatever was called in between                            *)
(* (registered-iframe-entity.js:352, :361).                                *)
(***************************************************************************)
AnswersMatchCalls == \A c \in Calls : call[c].closedBy \in {None, c}

(***************************************************************************)
(* A micro frontend that was deregistered has reported the timings of its  *)
(* life, once: deregister() races the end of the container's page          *)
(* (register.js:140, :184).                                                *)
(***************************************************************************)
EndOfLifeReported ==
  /\ container.timings <= 1
  /\ container.known /\ container.blocked => container.timings = 1

(***************************************************************************)
(* deregister() ends with the entity blocked, "even if the round trip to   *)
(* the container never resolved" (registered-iframe-entity.js:403).        *)
(***************************************************************************)
DeregisterEnds ==
  (\E c \in Calls : call[c].kind = "deregister" /\ call[c].state # "new") ~> frame.blocked
=============================================================================
