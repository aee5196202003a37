------------------------------- MODULE Harvest -------------------------------
(***************************************************************************)
(* The harvest cycle shared by the agent's features: AggregateBase keeps   *)
(* the feature's events in an event store, Harvester decides when to send  *)
(* them, send() submits them and tells the feature what became of them.    *)
(*                                                                         *)
(* An event is a number: events are recorded in the order 1, 2, 3, ...     *)
(* A store is an EventBuffer (bounded by bytes) or an EventAggregator,     *)
(* which reports byteSize() 0, never refuses and never harvests early.     *)
(***************************************************************************)
EXTENDS Integers, Sequences, SequencesExt

CONSTANTS
  Feature,          \* the aggregates in Harvester.initializedAggregates
  NumEvents,        \* bound: events recorded in a behaviour
  Size,             \* bytes of each event as the store evaluates it
  Aggregators,      \* features whose store is the shared EventAggregator
  EarlyFeatures,    \* features with canHarvestEarly
  AttributeBytes,   \* jsAttributesMetadata.bytes, counted by the early check
  MaxPayload,       \* MAX_PAYLOAD_SIZE
  IdealPayload,     \* IDEAL_PAYLOAD_SIZE
  Method,           \* what getSubmitMethod() returns for a normal harvest
  Statuses,         \* response statuses the environment may give
  ConsentMode,      \* init.browser_consent_mode.enabled
  MaxInFlight       \* bound: unanswered requests of one feature; 1 means that
                    \* every answer comes before the feature's next harvest

Event == 1..NumEvents
Slot == 1..MaxInFlight
NoSave == [events |-> <<>>, bytes |-> -1]

ASSUME FeatureAssumption ==
  /\ Aggregators \subseteq Feature
  /\ EarlyFeatures \subseteq Feature
  /\ AttributeBytes \in [Feature -> Nat]
ASSUME SizeAssumption ==
  /\ NumEvents \in Nat
  /\ Size \in [Event -> Nat \ {0}]
  /\ MaxPayload \in Nat
  /\ IdealPayload \in Nat
ASSUME NetworkAssumption ==
  /\ Method \in {"xhr", "fetch"}
  /\ Statuses \subseteq 0..599
  /\ ConsentMode \in BOOLEAN
  /\ MaxInFlight \in Nat \ {0}

VARIABLES
  buffer,       \* EventBuffer.#buffer, or the aggregator's data for the types
  bytes,        \* EventBuffer.#rawBytes
  backup,       \* #bufferBackup and #rawBytesBackup, or #savedNamesToBuckets
  isRetrying,   \* AggregateBase.isRetrying
  prevAttempt,  \* harvestOpts.prevAttemptCode, 0 for absent
  blocked,      \* FeatureBase.blocked
  drainTimer,   \* the one-off timer waitForDrain() arms: none, armed, fired
  started,      \* Harvester.#started
  aborted,      \* ee.aborted
  consented,    \* runtime.consented
  inflight,     \* requests submitted and not answered
  recorded,     \* history: how many events were handed to a store
  acked,        \* history: times each event was answered with success, up to 2
  givenUp       \* history: events dropped where the code decides to drop

agent == <<blocked, drainTimer, started, aborted, consented>>
store == <<buffer, bytes, backup>>
result == <<isRetrying, prevAttempt>>
history == <<recorded, acked, givenUp>>
vars == <<store, result, agent, inflight, history>>

Request == [feature : Feature, slot : Slot, body : Seq(Event)]
Backup == [events : Seq(Event), bytes : Nat] \cup {NoSave}

TypeOK ==
  /\ buffer \in [Feature -> Seq(Event)]
  /\ bytes \in [Feature -> 0..MaxPayload]
  /\ backup \in [Feature -> Backup]
  /\ isRetrying \in [Feature -> BOOLEAN]
  /\ prevAttempt \in [Feature -> 0..599]
  /\ blocked \in [Feature -> BOOLEAN]
  /\ drainTimer \in [Feature -> {"none", "armed", "fired"}]
  /\ started \in BOOLEAN
  /\ aborted \in BOOLEAN
  /\ consented \in BOOLEAN
  /\ inflight \in SUBSET Request
  /\ recorded \in 0..NumEvents
  /\ acked \in [Event -> 0..2]
  /\ givenUp \in SUBSET Event

Init ==
  /\ buffer = [f \in Feature |-> <<>>]
  /\ bytes = [f \in Feature |-> 0]
  /\ backup = [f \in Feature |-> NoSave]
  /\ isRetrying = [f \in Feature |-> FALSE]
  /\ prevAttempt = [f \in Feature |-> 0]
  /\ blocked = [f \in Feature |-> FALSE]
  /\ drainTimer = [f \in Feature |-> "none"]
  /\ started = FALSE
  /\ aborted = FALSE
  /\ consented = FALSE
  /\ inflight = {}
  /\ recorded = 0
  /\ acked = [e \in Event |-> 0]
  /\ givenUp = {}

-----------------------------------------------------------------------------
InSeq(e, s) == \E i \in DOMAIN s : s[i] = e

SizeIn(f, e) == IF f \in Aggregators THEN 0 ELSE Size[e]

ShouldRetry(status) ==
  \/ status \in {408, 429, 500}
  \/ status \in 502..504
  \/ status \in 512..530

\* Always retry all features' harvests except the final one, which OnEndOfLife is.
ShouldRetryOnFail == Method = "xhr"

\* Mutant: a retry waits for a success first
HarvestableUnlessRetrying(f) == ~blocked[f] /\ ~aborted /\ ~isRetrying[f]

\* triggerHarvestFor's early returns, and preHarvestChecks
Harvestable(f) ==
  /\ ~blocked[f]
  /\ ConsentMode => consented
  /\ ~aborted

FreeSlots(f) == {s \in Slot : \A r \in inflight : ~(r.feature = f /\ r.slot = s)}
SlotFor(f) == CHOOSE s \in FreeSlots(f) : TRUE

\* triggerHarvestFor, without isFinalHarvest, for each feature of F in turn,
\* the stores holding buf and byt: backup, take, clear, submit.
HarvestAll(F, buf, byt) ==
  LET S == {f \in F : Harvestable(f) /\ buf[f] # <<>>} IN
  /\ \A f \in S : FreeSlots(f) # {}
  /\ backup' = [f \in Feature |-> IF f \in S /\ ShouldRetryOnFail
                                  THEN [events |-> buf[f], bytes |-> byt[f]]
                                  ELSE backup[f]]
  /\ buffer' = [f \in Feature |-> IF f \in S THEN <<>> ELSE buf[f]]
  /\ bytes' = [f \in Feature |-> IF f \in S THEN 0 ELSE byt[f]]
  /\ inflight' = inflight \cup
       {[feature |-> f, slot |-> SlotFor(f), body |-> buf[f]] : f \in S}
-----------------------------------------------------------------------------
\* EventBuffer.add / EventAggregator.add, with decideEarlyHarvest
WantsEarlyHarvest(f, size) ==
  /\ f \in EarlyFeatures \ Aggregators
  /\ ~blocked[f]
  /\ ~isRetrying[f]
  /\ size + AttributeBytes[f] > IdealPayload

Add(f) ==
  LET e == recorded + 1
      size == bytes[f] + SizeIn(f, e)
  IN /\ recorded < NumEvents
     /\ recorded' = e
     /\ \/ /\ size > MaxPayload
           /\ givenUp' = givenUp \cup {e}
           /\ UNCHANGED <<store, inflight>>
        \/ /\ size <= MaxPayload
           /\ HarvestAll(IF WantsEarlyHarvest(f, size) THEN {f} ELSE {},
                         [buffer EXCEPT ![f] = Append(@, e)],
                         [bytes EXCEPT ![f] = size])
           /\ UNCHANGED givenUp
     /\ UNCHANGED <<result, agent, acked>>

\* Harvester.startTimer and its repeating callback
StartTimer ==
  /\ ~started
  /\ started' = TRUE
  /\ UNCHANGED <<store, result, blocked, drainTimer, aborted, consented,
                 inflight, history>>

OnHarvestInterval ==
  /\ started
  /\ HarvestAll(Feature, buffer, bytes)
  /\ UNCHANGED <<result, agent, history>>

\* waitForDrain: the first 'drain-<feature>' arms a one-off harvest
OnDrain(f) ==
  /\ drainTimer[f] = "none"
  /\ drainTimer' = [drainTimer EXCEPT ![f] = "armed"]
  /\ UNCHANGED <<store, result, blocked, started, aborted, consented,
                 inflight, history>>

OnDrainTimer(f) ==
  /\ drainTimer[f] = "armed"
  /\ HarvestAll({f}, buffer, bytes)
  /\ drainTimer' = [drainTimer EXCEPT ![f] = "fired"]
  /\ UNCHANGED <<result, blocked, started, aborted, consented, history>>

\* The subscribeToEOL callback: nothing is saved and no answer is awaited.
\* sendBeacon takes the body (delivered) or refuses it (lost).
OnEndOfLife(taken) ==
  LET S == {f \in Feature : Harvestable(f) /\ buffer[f] # <<>>}
      Out(F) == {e \in Event : \E f \in F : InSeq(e, buffer[f])}
  IN /\ S # {}
     /\ taken \subseteq S
     /\ buffer' = [f \in Feature |-> IF f \in S THEN <<>> ELSE buffer[f]]
     /\ bytes' = [f \in Feature |-> IF f \in S THEN 0 ELSE bytes[f]]
     /\ acked' = [e \in Event |-> IF e \in Out(taken) /\ acked[e] < 2
                                  THEN acked[e] + 1 ELSE acked[e]]
     /\ givenUp' = givenUp \cup Out(S \ taken)
     /\ UNCHANGED <<backup, result, agent, inflight, recorded>>
-----------------------------------------------------------------------------
\* AggregateBase.postHarvestCleanup with EventBuffer.reloadSave and clearSave
ReloadsAlways(f, retry) == backup[f] # NoSave  \* mutant: reload whatever the result

Reloads(f, retry) == retry /\ backup[f] # NoSave
Fits(f) == backup[f].bytes + bytes[f] <= MaxPayload

\* Mutants: clearSave before reloadSave; append instead of prepend; no clearSave;
\* bytes not restored
CleanupClearsFirst(f, retry) ==
  /\ isRetrying' = [isRetrying EXCEPT ![f] = retry]
  /\ backup' = [backup EXCEPT ![f] = NoSave]
  /\ UNCHANGED <<buffer, bytes>>
CleanupWith(f, marked, events, size, saved) ==
  /\ isRetrying' = [isRetrying EXCEPT ![f] = marked]
  /\ buffer' = [buffer EXCEPT ![f] = events]
  /\ bytes' = [bytes EXCEPT ![f] = size]
  /\ backup' = [backup EXCEPT ![f] = saved]
Reloading(f, retry) == Reloads(f, retry) /\ Fits(f)
CleanupAppends(f, retry) ==
  CleanupWith(f, retry,
    buffer[f] \o IF Reloading(f, retry) THEN backup[f].events ELSE <<>>,
    bytes[f] + IF Reloading(f, retry) THEN backup[f].bytes ELSE 0, NoSave)
CleanupKeepsSave(f, retry) ==
  CleanupWith(f, retry,
    (IF Reloading(f, retry) THEN backup[f].events ELSE <<>>) \o buffer[f],
    bytes[f] + IF Reloading(f, retry) THEN backup[f].bytes ELSE 0, backup[f])
CleanupForgetsBytes(f, retry) ==
  CleanupWith(f, retry,
    (IF Reloading(f, retry) THEN backup[f].events ELSE <<>>) \o buffer[f], bytes[f], NoSave)

PostHarvestCleanup(f, retry) ==
  /\ isRetrying' = [isRetrying EXCEPT ![f] = retry]
  /\ IF Reloads(f, retry) /\ Fits(f)
     THEN /\ buffer' = [buffer EXCEPT ![f] = backup[f].events \o @]
          /\ bytes' = [bytes EXCEPT ![f] = backup[f].bytes + @]
     ELSE UNCHANGED <<buffer, bytes>>
  /\ backup' = [backup EXCEPT ![f] = NoSave]

\* What the answer means for the events of the body: they reached the
\* collector, or the agent drops them here on purpose.
Account(r, status) ==
  LET body == {e \in Event : InSeq(e, r.body)}
      saved == {e \in Event : InSeq(e, backup[r.feature].events)}
      retry == ShouldRetry(status)
  IN /\ acked' = [e \in Event |-> IF status \in 200..299 /\ e \in body /\ acked[e] < 2
                                  THEN acked[e] + 1 ELSE acked[e]]
     /\ givenUp' = givenUp \cup
          (IF status \in 200..299 THEN {}
           ELSE IF ~retry \/ Method = "fetch" THEN body
           ELSE IF Reloads(r.feature, retry) /\ ~Fits(r.feature) THEN saved ELSE {})

\* The 'loadend' listener of send() (or the fetch continuation), cbFinished and
\* postHarvestCleanup. A failed fetch rejects: its continuation never runs.
OnAnswer(r, status) ==
  LET f == r.feature IN
  /\ r \in inflight
  /\ inflight' = inflight \ {r}
  /\ Account(r, status)
  /\ IF Method = "fetch" /\ status = 0
     THEN UNCHANGED <<store, result>>
     ELSE /\ prevAttempt' = [prevAttempt EXCEPT ![f] =
                               IF ShouldRetry(status) THEN status ELSE 0]
          /\ PostHarvestCleanup(f, status # 0 /\ ShouldRetry(status))
  /\ UNCHANGED <<agent, recorded>>

-----------------------------------------------------------------------------
\* A feature blocks itself: entitlement, RUM failure, API or session reset.
Block(f) ==
  /\ ~blocked[f]
  /\ blocked' = [blocked EXCEPT ![f] = TRUE]
  /\ UNCHANGED <<store, result, drainTimer, started, aborted, consented,
                 inflight, history>>

Abort ==
  /\ ~aborted
  /\ aborted' = TRUE
  /\ UNCHANGED <<store, result, blocked, drainTimer, started, consented,
                 inflight, history>>

\* newrelic.consent(accept)
Consent(accept) ==
  /\ ConsentMode
  /\ consented' = accept
  /\ UNCHANGED <<store, result, blocked, drainTimer, started, aborted,
                 inflight, history>>

Next ==
  \/ \E f \in Feature : Add(f)
  \/ StartTimer
  \/ OnHarvestInterval
  \/ \E f \in Feature : OnDrain(f) \/ OnDrainTimer(f)
  \/ \E taken \in SUBSET Feature : OnEndOfLife(taken)
  \/ \E r \in inflight, status \in Statuses : OnAnswer(r, status)
  \/ \E f \in Feature : Block(f)
  \/ Abort
  \/ \E accept \in BOOLEAN : Consent(accept)

Spec == Init /\ [][Next]_vars

\* Timers fire, requests end, and a collector that is asked again and again
\* accepts in the end.
Fairness ==
  /\ WF_vars(StartTimer)
  /\ WF_vars(OnHarvestInterval)
  /\ \A f \in Feature :
       /\ WF_vars(\E r \in inflight, status \in Statuses :
                     r.feature = f /\ OnAnswer(r, status))
       /\ SF_vars(\E r \in inflight : r.feature = f /\ OnAnswer(r, 200))

FairSpec == Spec /\ Fairness
-----------------------------------------------------------------------------
BufferedIn(e, buf) == \E f \in Feature : InSeq(e, buf[f])
OnTheWire(e, reqs) == \E r \in reqs : InSeq(e, r.body)
PendingIn(e, buf, reqs) == BufferedIn(e, buf) \/ OnTheWire(e, reqs)
Pending(e) == PendingIn(e, buffer, inflight)

\* Every event handed to a store is in a store, in an unanswered request,
\* delivered, or was dropped at a place where the code drops on purpose:
\* harvester.js:63 "always retry all features harvests except for final".
NoSilentLoss ==
  \A e \in 1..recorded : Pending(e) \/ acked[e] > 0 \/ e \in givenUp

\* An event acknowledged once is not kept for, or sent in, a second request.
NoDuplicateDelivery ==
  \A e \in Event : acked[e] <= 1 /\ (acked[e] = 1 => ~Pending(e))

\* A saved copy exists only next to the unanswered request that carried it, so
\* what reloadSave brings back is never something already answered.
SavedCopyIsInFlight ==
  \A f \in Feature : backup[f] # NoSave =>
    \E r \in inflight : r.feature = f /\ r.body = backup[f].events

\* When the answer to an XHR comes, the saved copy is that request's body:
\* reloadSave puts back what failed (and EventAggregator.reloadSave, which
\* indexes the saved subset without a check, finds one).
AnswerFindsItsSave ==
  Method = "xhr" =>
    \A r \in inflight : backup[r.feature] # NoSave /\ backup[r.feature].events = r.body

\* reloadSave prepends, so a store and the request before it stay in the order
\* in which the events were recorded.
Ascending(s) == \A i, j \in DOMAIN s : i < j => s[i] < s[j]
Chronological ==
  /\ \A f \in Feature : Ascending(buffer[f])
  /\ \A r \in inflight :
       /\ Ascending(r.body)
       /\ \A i \in DOMAIN r.body, j \in DOMAIN buffer[r.feature] :
            r.body[i] < buffer[r.feature][j]

\* The byte count a store enforces its limit with is the sum over its events.
Total(sum, size) == sum + size
Sizes(f, events) == [i \in DOMAIN events |-> SizeIn(f, events[i])]
BytesOf(f, events) == FoldLeft(Total, 0, Sizes(f, events))
BytesAreExact == \A f \in Feature : bytes[f] = BytesOf(f, buffer[f])

\* Every accepted event is delivered or dropped in the end, unless the feature
\* or the agent was stopped or the user's consent is missing.
EventuallySettled ==
  \A e \in Event :
    Pending(e) ~> \/ acked[e] > 0
                  \/ e \in givenUp
                  \/ aborted
                  \/ \E f \in Feature : blocked[f]
                  \/ ConsentMode /\ ~consented

-----------------------------------------------------------------------------
(***************************************************************************)
(* The inductive invariant, when answers come before the next harvest: a   *)
(* feature has one request at most, its saved copy is that request's body, *)
(* and each recorded event is in exactly one place.                        *)
(***************************************************************************)
OneRequestEach == \A r, s \in inflight : r.feature = s.feature => r = s

FetchSavesNothing == Method = "fetch" => \A f \in Feature : backup[f] = NoSave

NotTwice(buf, reqs) ==
  /\ \A e \in Event, f, g \in Feature : InSeq(e, buf[f]) /\ InSeq(e, buf[g]) => f = g
  /\ \A e \in Event, f \in Feature, r \in reqs : ~(InSeq(e, buf[f]) /\ InSeq(e, r.body))
  /\ \A e \in Event, r, s \in reqs : InSeq(e, r.body) /\ InSeq(e, s.body) => r = s

Fated(e, buf, reqs, ack, dropped, n) ==
  /\ PendingIn(e, buf, reqs) => e <= n /\ ack[e] = 0 /\ e \notin dropped
  /\ ack[e] > 0 => e <= n /\ ack[e] = 1 /\ e \notin dropped
  /\ e \in dropped => e <= n
  /\ e <= n => PendingIn(e, buf, reqs) \/ ack[e] > 0 \/ e \in dropped

OneFate(buf, reqs, ack, dropped, n) ==
  \A e \in Event : Fated(e, buf, reqs, ack, dropped, n)

IndInv ==
  /\ OneRequestEach
  /\ FetchSavesNothing
  /\ SavedCopyIsInFlight
  /\ AnswerFindsItsSave
  /\ NotTwice(buffer, inflight)
  /\ OneFate(buffer, inflight, acked, givenUp, recorded)

-----------------------------------------------------------------------------
\* Refinement mapping into EventDelivery
fate == [e \in Event |->
  IF Pending(e) THEN "pending"
  ELSE IF acked[e] > 0 THEN "delivered"
  ELSE IF e \in givenUp THEN "givenUp"
  ELSE "new"]

Delivery == INSTANCE EventDelivery WITH Event <- Event, fate <- fate
ImplementsDelivery == Delivery!Spec
=============================================================================
