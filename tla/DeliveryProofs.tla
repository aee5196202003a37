---------------------------- MODULE DeliveryProofs ----------------------------
(***************************************************************************)
(* How what a page records reaches the ones that send it, in two parts.    *)
(* Harvest: for every set of features, every event size and every limit.   *)
(* Type correctness needs no assumption about the network; the delivery    *)
(* results need MaxInFlight = 1 (answers come before the next harvest of   *)
(* the feature): an answer reloads the copy saved last, which need not be  *)
(* the copy of its own request.                                            *)
(* Bridge: for every number of calls, every kind of container and every    *)
(* order of their messages.  A handler is a composition of methods on a    *)
(* world, and each lemma says what one method keeps of the invariant.      *)
(***************************************************************************)
EXTENDS Harvest, Bridge, SequenceTheorems, TLAPS

USE FeatureAssumption, SizeAssumption, NetworkAssumption

LEMMA InAppend ==
  ASSUME NEW s \in Seq(Event), NEW x \in Event
  PROVE  \A e \in Event : InSeq(e, Append(s, x)) <=> InSeq(e, s) \/ e = x
<1> TAKE e \in Event
<1>1. ASSUME InSeq(e, Append(s, x)), e # x PROVE InSeq(e, s)
  BY <1>1 DEF InSeq
<1>2. ASSUME InSeq(e, s) PROVE InSeq(e, Append(s, x))
  <2>1. PICK i \in DOMAIN s : s[i] = e
    BY <1>2 DEF InSeq
  <2>2. i \in DOMAIN Append(s, x) /\ Append(s, x)[i] = e
    BY <2>1
  <2>3. QED BY <2>2 DEF InSeq
<1>3. InSeq(x, Append(s, x))
  <2>1. Append(s, x)[Len(s) + 1] = x /\ Len(s) + 1 \in DOMAIN Append(s, x)
    OBVIOUS
  <2>2. QED BY <2>1 DEF InSeq
<1>4. QED BY <1>1, <1>2, <1>3

LEMMA InConcat ==
  ASSUME NEW s \in Seq(Event), NEW t \in Seq(Event)
  PROVE  \A e \in Event : InSeq(e, s \o t) <=> InSeq(e, s) \/ InSeq(e, t)
<1> TAKE e \in Event
<1>1. ASSUME InSeq(e, s \o t) PROVE InSeq(e, s) \/ InSeq(e, t)
  <2>1. PICK i \in DOMAIN (s \o t) : (s \o t)[i] = e
    BY <1>1 DEF InSeq
  <2>2. CASE i <= Len(s)
    BY <2>1, <2>2 DEF InSeq
  <2>3. CASE i > Len(s)
    <3>1. i - Len(s) \in DOMAIN t /\ t[i - Len(s)] = e
      BY <2>1, <2>3
    <3>2. QED BY <3>1 DEF InSeq
  <2>4. QED BY <2>1, <2>2, <2>3
<1>2. ASSUME InSeq(e, s) PROVE InSeq(e, s \o t)
  <2>1. PICK i \in DOMAIN s : s[i] = e
    BY <1>2 DEF InSeq
  <2>2. i \in DOMAIN (s \o t) /\ (s \o t)[i] = e
    BY <2>1
  <2>3. QED BY <2>2 DEF InSeq
<1>3. ASSUME InSeq(e, t) PROVE InSeq(e, s \o t)
  <2>1. PICK i \in DOMAIN t : t[i] = e
    BY <1>3 DEF InSeq
  <2>2. i + Len(s) \in DOMAIN (s \o t) /\ (s \o t)[i + Len(s)] = e
    BY <2>1
  <2>3. QED BY <2>2 DEF InSeq
<1>4. QED BY <1>1, <1>2, <1>3

LEMMA InEmpty == \A e : ~InSeq(e, <<>>)
BY DEF InSeq

LEMMA ASlotIsFree ==
  \A f \in Feature : FreeSlots(f) # {} => SlotFor(f) \in FreeSlots(f) /\ SlotFor(f) \in Slot
BY DEF SlotFor, FreeSlots

-----------------------------------------------------------------------------
(***************************************************************************)
(* Type correctness                                                        *)
(***************************************************************************)
Stores == [Feature -> Seq(Event)]

LEMMA HarvestAllTyped ==
  ASSUME TypeOK, NEW F \in SUBSET Feature, NEW buf \in Stores,
         NEW byt \in [Feature -> 0..MaxPayload], HarvestAll(F, buf, byt)
  PROVE  /\ buffer' \in Stores
         /\ bytes' \in [Feature -> 0..MaxPayload]
         /\ backup' \in [Feature -> Backup]
         /\ inflight' \in SUBSET Request
<1> USE DEF HarvestAll, ShouldRetryOnFail, TypeOK, Stores
<1>1. buffer' \in Stores
  OBVIOUS
<1>2. bytes' \in [Feature -> 0..MaxPayload]
  OBVIOUS
<1>3. backup' \in [Feature -> Backup]
  BY DEF Backup
<1>4. inflight' \in SUBSET Request
  BY ASlotIsFree DEF Request
<1>5. QED BY <1>1, <1>2, <1>3, <1>4

LEMMA AddTyped == ASSUME TypeOK, NEW f \in Feature, Add(f) PROVE TypeOK'
<1> DEFINE e == recorded + 1
           size == bytes[f] + SizeIn(f, e)
<1>1. e \in Event /\ recorded' = e /\ e \in 0..NumEvents
  BY DEF Add, TypeOK, Event
<1>2. size \in Nat
  BY <1>1 DEF SizeIn, TypeOK
<1>3. CASE size > MaxPayload /\ givenUp' = givenUp \cup {e} /\ UNCHANGED <<store, inflight>>
  BY <1>1, <1>3, ZenonT(60) DEF Add, TypeOK, store, result, agent
<1>4. CASE /\ size <= MaxPayload
           /\ HarvestAll(IF WantsEarlyHarvest(f, size) THEN {f} ELSE {},
                         [buffer EXCEPT ![f] = Append(@, e)],
                         [bytes EXCEPT ![f] = size])
           /\ UNCHANGED givenUp
  <2>1. [buffer EXCEPT ![f] = Append(@, e)] \in Stores
    BY <1>1 DEF TypeOK, Stores
  <2>2. [bytes EXCEPT ![f] = size] \in [Feature -> 0..MaxPayload]
    BY <1>2, <1>4 DEF TypeOK
  <2>3. (IF WantsEarlyHarvest(f, size) THEN {f} ELSE {}) \in SUBSET Feature
    OBVIOUS
  <2> HIDE DEF size, e
  <2>4. /\ buffer' \in Stores
        /\ bytes' \in [Feature -> 0..MaxPayload]
        /\ backup' \in [Feature -> Backup]
        /\ inflight' \in SUBSET Request
    BY <1>4, <2>1, <2>2, <2>3, HarvestAllTyped
  <2>5. UNCHANGED <<result, agent, acked>>
    BY DEF Add
  <2>6. QED BY <1>1, <1>4, <2>4, <2>5 DEF TypeOK, result, agent, Stores
<1>5. QED BY <1>3, <1>4 DEF Add

LEMMA AnswerTyped ==
  ASSUME TypeOK, NEW r \in inflight, NEW status \in Statuses, OnAnswer(r, status)
  PROVE  TypeOK'
<1> DEFINE f == r.feature
<1>1. f \in Feature /\ r.body \in Seq(Event)
  BY DEF TypeOK, Request
<1>2. acked' \in [Event -> 0..2] /\ givenUp' \in SUBSET Event
  BY DEF OnAnswer, Account, TypeOK
<1>3. inflight' \in SUBSET Request /\ UNCHANGED <<agent, recorded>>
  BY DEF OnAnswer, TypeOK
<1>4. CASE Method = "fetch" /\ status = 0
  <2>1. UNCHANGED <<store, result>>
    BY <1>4 DEF OnAnswer
  <2>2. QED BY <1>2, <1>3, <2>1 DEF TypeOK, store, result, agent
<1>5. CASE ~(Method = "fetch" /\ status = 0)
  <2>1. status \in 0..599
    OBVIOUS
  <2>2. prevAttempt' = [prevAttempt EXCEPT ![f] = IF ShouldRetry(status) THEN status ELSE 0]
    BY <1>5 DEF OnAnswer
  <2>3. prevAttempt' \in [Feature -> 0..599]
    <3>1. (IF ShouldRetry(status) THEN status ELSE 0) \in 0..599
      BY <2>1
    <3>2. QED BY <1>1, <2>2, <3>1 DEF TypeOK
  <2> DEFINE retry == status # 0 /\ ShouldRetry(status)
  <2>4. PostHarvestCleanup(f, retry)
    BY <1>5 DEF OnAnswer
  <2>5. retry \in BOOLEAN
    BY DEF ShouldRetry
  <2> HIDE DEF retry
  <2>6. isRetrying' \in [Feature -> BOOLEAN]
    BY <1>1, <2>4, <2>5 DEF PostHarvestCleanup, TypeOK
  <2>7. backup' \in [Feature -> Backup]
    BY <1>1, <2>4 DEF PostHarvestCleanup, TypeOK, Backup
  <2>8. CASE Reloads(f, retry) /\ Fits(f)
    <3>1. backup[f].events \in Seq(Event) /\ backup[f].bytes \in Nat
      BY <1>1, <2>8 DEF Reloads, TypeOK, Backup
    <3>2. buffer' = [buffer EXCEPT ![f] = backup[f].events \o @]
          /\ bytes' = [bytes EXCEPT ![f] = backup[f].bytes + @]
      BY <2>4, <2>8 DEF PostHarvestCleanup
    <3>3. buffer' \in [Feature -> Seq(Event)]
      BY <1>1, <3>1, <3>2 DEF TypeOK
    <3>4. bytes' \in [Feature -> 0..MaxPayload]
      BY <1>1, <2>8, <3>1, <3>2 DEF TypeOK, Fits
    <3>5. QED BY <1>2, <1>3, <2>3, <2>6, <2>7, <3>3, <3>4 DEF TypeOK, agent
  <2>9. CASE ~(Reloads(f, retry) /\ Fits(f))
    <3>1. UNCHANGED <<buffer, bytes>>
      BY <2>4, <2>9 DEF PostHarvestCleanup
    <3>2. QED BY <1>2, <1>3, <2>3, <2>6, <2>7, <3>1 DEF TypeOK, agent
  <2>10. QED BY <2>8, <2>9
<1>6. QED BY <1>4, <1>5

\* Every store stays within its byte limit and every variable keeps its type:
\* EventBuffer.add and reloadSave both respect maxPayloadSize.
THEOREM TypeCorrect == Spec => []TypeOK
<1>1. Init => TypeOK
  <2> SUFFICES ASSUME Init PROVE TypeOK
    OBVIOUS
  <2>1. buffer \in [Feature -> Seq(Event)] /\ backup \in [Feature -> Backup]
    BY DEF Init, Backup
  <2>2. bytes \in [Feature -> 0..MaxPayload] /\ prevAttempt \in [Feature -> 0..599]
    BY DEF Init
  <2>3. recorded \in 0..NumEvents /\ acked \in [Event -> 0..2]
    BY DEF Init
  <2>4. QED BY <2>1, <2>2, <2>3, ZenonT(60) DEF Init, TypeOK
<1>2. ASSUME TypeOK, [Next]_vars PROVE TypeOK'
  <2>1. ASSUME NEW f \in Feature, Add(f) PROVE TypeOK'
    BY <1>2, <2>1, AddTyped
  <2>2. CASE StartTimer
    BY <1>2, <2>2 DEF StartTimer, TypeOK, store, result, history
  <2>3. CASE OnHarvestInterval
    <3>1. buffer' \in Stores /\ bytes' \in [Feature -> 0..MaxPayload]
          /\ backup' \in [Feature -> Backup] /\ inflight' \in SUBSET Request
      BY <1>2, <2>3, HarvestAllTyped, ZenonT(60) DEF OnHarvestInterval, TypeOK, Stores
    <3>2. QED BY <1>2, <2>3, <3>1 DEF OnHarvestInterval, TypeOK, Stores, result, agent, history
  <2>4. ASSUME NEW f \in Feature, OnDrain(f) PROVE TypeOK'
    BY <1>2, <2>4 DEF OnDrain, TypeOK, store, result, history
  <2>5. ASSUME NEW f \in Feature, OnDrainTimer(f) PROVE TypeOK'
    <3>1. buffer' \in Stores /\ bytes' \in [Feature -> 0..MaxPayload]
          /\ backup' \in [Feature -> Backup] /\ inflight' \in SUBSET Request
      <4>1. {f} \in SUBSET Feature /\ buffer \in Stores /\ bytes \in [Feature -> 0..MaxPayload]
        BY <1>2 DEF TypeOK, Stores
      <4>2. HarvestAll({f}, buffer, bytes)
        BY <2>5 DEF OnDrainTimer
      <4>3. QED BY <1>2, <4>1, <4>2, HarvestAllTyped, SMTT(20), ZenonT(60)
    <3>2. drainTimer' \in [Feature -> {"none", "armed", "fired"}]
      BY <1>2, <2>5 DEF OnDrainTimer, TypeOK
    <3>3. QED BY <1>2, <2>5, <3>1, <3>2 DEF OnDrainTimer, TypeOK, Stores, result, history
  <2>6. ASSUME NEW taken \in SUBSET Feature, OnEndOfLife(taken) PROVE TypeOK'
    <3>1. buffer' \in [Feature -> Seq(Event)] /\ bytes' \in [Feature -> 0..MaxPayload]
      BY <1>2, <2>6 DEF OnEndOfLife, TypeOK
    <3>2. acked' \in [Event -> 0..2]
      BY <1>2, <2>6 DEF OnEndOfLife, TypeOK
    <3>3. givenUp' \in SUBSET Event
      BY <1>2, <2>6 DEF OnEndOfLife, TypeOK
    <3>4. UNCHANGED <<backup, result, agent, inflight, recorded>>
      BY <2>6 DEF OnEndOfLife
    <3>5. QED BY <1>2, <3>1, <3>2, <3>3, <3>4 DEF TypeOK, result, agent
  <2>7. ASSUME NEW r \in inflight, NEW status \in Statuses, OnAnswer(r, status) PROVE TypeOK'
    BY <1>2, <2>7, AnswerTyped
  <2>8. ASSUME NEW f \in Feature, Block(f) PROVE TypeOK'
    BY <1>2, <2>8 DEF Block, TypeOK, store, result, history
  <2>9. CASE Abort
    BY <1>2, <2>9 DEF Abort, TypeOK, store, result, history
  <2>10. ASSUME NEW accept \in BOOLEAN, Consent(accept) PROVE TypeOK'
    BY <1>2, <2>10 DEF Consent, TypeOK, store, result, history
  <2>11. CASE UNCHANGED vars
    BY <1>2, <2>11 DEF TypeOK, vars, store, result, agent, history
  <2>12. QED
    BY <1>2, <2>1, <2>2, <2>3, <2>4, <2>5, <2>6, <2>7, <2>8, <2>9, <2>10, <2>11 DEF Next
<1>3. QED BY <1>1, <1>2, PTL DEF Spec
-----------------------------------------------------------------------------
(***************************************************************************)
(* The saved copies, however many requests of a feature overlap            *)
(***************************************************************************)
SaveInv == FetchSavesNothing /\ SavedCopyIsInFlight

LEMMA HarvestAllSaves ==
  ASSUME SaveInv, NEW F \in SUBSET Feature, NEW buf, NEW byt, HarvestAll(F, buf, byt)
  PROVE  SaveInv'
<1> DEFINE S == {f \in F : Harvestable(f) /\ buf[f] # <<>>}
           req(f) == [feature |-> f, slot |-> SlotFor(f), body |-> buf[f]]
<1>1. inflight' = inflight \cup {req(f) : f \in S}
  BY DEF HarvestAll, ShouldRetryOnFail
<1>2. \A f \in Feature : backup'[f] = IF f \in S /\ Method = "xhr"
                                       THEN [events |-> buf[f], bytes |-> byt[f]]
                                       ELSE backup[f]
  BY DEF HarvestAll, ShouldRetryOnFail
<1>3. \A f \in S : req(f).feature = f /\ req(f).body = buf[f]
  OBVIOUS
<1> HIDE DEF S, req
<1>4. FetchSavesNothing'
  BY <1>2 DEF FetchSavesNothing, SaveInv
<1>5. ASSUME NEW f \in Feature, backup'[f] # NoSave
      PROVE  \E r \in inflight' : r.feature = f /\ r.body = backup'[f].events
  <2>1. CASE f \in S /\ Method = "xhr"
    <3>1. backup'[f] = [events |-> buf[f], bytes |-> byt[f]]
      BY <1>2, <2>1
    <3>2. req(f) \in inflight' /\ backup'[f].events = buf[f]
      BY <1>1, <2>1, <3>1
    <3>3. QED BY <1>3, <2>1, <3>2
  <2>2. CASE ~(f \in S /\ Method = "xhr")
    BY <1>1, <1>2, <1>5, <2>2, SMTT(20), ZenonT(60) DEF SavedCopyIsInFlight, SaveInv
  <2>3. QED BY <2>1, <2>2
<1>6. QED BY <1>4, <1>5 DEF SaveInv, SavedCopyIsInFlight

\* An answer to any of a feature's requests clears what the feature saved
LEMMA AnswerSaves ==
  ASSUME TypeOK, SaveInv, NEW r \in inflight, NEW status \in Statuses, OnAnswer(r, status)
  PROVE  SaveInv'
<1> DEFINE f == r.feature
<1>1. f \in Feature /\ inflight' = inflight \ {r}
  BY DEF TypeOK, Request, OnAnswer
<1>2. CASE Method = "fetch"
  <2>1. \A g \in Feature : backup[g] = NoSave
    BY <1>2 DEF SaveInv, FetchSavesNothing
  <2>2. backup' = backup \/ backup' = [backup EXCEPT ![f] = NoSave]
    BY DEF OnAnswer, PostHarvestCleanup, store
  <2>3. \A g \in Feature : backup'[g] = NoSave
    BY <1>1, <2>1, <2>2 DEF TypeOK
  <2>4. QED BY <2>3 DEF SaveInv, FetchSavesNothing, SavedCopyIsInFlight
<1>3. CASE Method # "fetch"
  <2>1. backup' = [backup EXCEPT ![f] = NoSave]
    BY <1>3 DEF OnAnswer, PostHarvestCleanup
  <2>2. backup'[f] = NoSave /\ \A g \in Feature \ {f} : backup'[g] = backup[g]
    BY <1>1, <2>1 DEF TypeOK
  <2>3. ASSUME NEW g \in Feature, backup'[g] # NoSave
        PROVE  \E q \in inflight' : q.feature = g /\ q.body = backup'[g].events
    <3>1. g # f /\ backup'[g] = backup[g]
      BY <2>2, <2>3
    <3>2. PICK q \in inflight : q.feature = g /\ q.body = backup[g].events
      BY <2>3, <3>1 DEF SaveInv, SavedCopyIsInFlight
    <3>3. q \in inflight'
      BY <1>1, <3>1, <3>2
    <3>4. QED BY <3>1, <3>2, <3>3
  <2>4. QED BY <1>3, <2>3 DEF SaveInv, FetchSavesNothing, SavedCopyIsInFlight
<1>4. QED BY <1>2, <1>3

\* A saved copy exists only next to the unanswered request that carried it, however
\* many requests of its feature overlap: reloadSave never brings back what was answered.
THEOREM SavedCopiesAreInFlight == Spec => []SavedCopyIsInFlight
<1>1. Init => SaveInv
  BY DEF Init, SaveInv, FetchSavesNothing, SavedCopyIsInFlight
<1>2. TypeOK /\ SaveInv /\ [Next]_vars => SaveInv'
  <2> SUFFICES ASSUME TypeOK, SaveInv, [Next]_vars PROVE SaveInv'
    OBVIOUS
  <2>1. ASSUME UNCHANGED <<backup, inflight>> PROVE SaveInv'
    BY <2>1 DEF SaveInv, FetchSavesNothing, SavedCopyIsInFlight
  <2>2. ASSUME NEW f \in Feature, Add(f) PROVE SaveInv'
    <3> DEFINE e == recorded + 1
               size == bytes[f] + SizeIn(f, e)
               F == IF WantsEarlyHarvest(f, size) THEN {f} ELSE {}
               buf == [buffer EXCEPT ![f] = Append(buffer[f], e)]
               byt == [bytes EXCEPT ![f] = size]
    <3>1. HarvestAll(F, buf, byt) \/ UNCHANGED <<backup, inflight>>
      BY <2>2 DEF Add, store
    <3>2. F \in SUBSET Feature
      OBVIOUS
    <3> HIDE DEF F, buf, byt
    <3>3. QED BY <2>1, <3>1, <3>2, HarvestAllSaves
  <2>3. CASE OnHarvestInterval
    BY <2>3, HarvestAllSaves DEF OnHarvestInterval
  <2>4. ASSUME NEW f \in Feature, OnDrainTimer(f) PROVE SaveInv'
    <3>1. {f} \in SUBSET Feature
      OBVIOUS
    <3>2. QED BY <2>4, <3>1, HarvestAllSaves DEF OnDrainTimer
  <2>5. ASSUME NEW r \in inflight, NEW status \in Statuses, OnAnswer(r, status) PROVE SaveInv'
    BY <2>5, AnswerSaves
  <2>6. ASSUME NEW taken \in SUBSET Feature, OnEndOfLife(taken) PROVE SaveInv'
    BY <2>1, <2>6 DEF OnEndOfLife
  <2>7. CASE StartTimer \/ Abort \/ (\E accept \in BOOLEAN : Consent(accept))
             \/ \E f \in Feature : Block(f) \/ OnDrain(f)
    BY <2>1, <2>7 DEF StartTimer, Abort, Consent, Block, OnDrain, store
  <2>8. CASE UNCHANGED vars
    BY <2>1, <2>8 DEF vars, store
  <2>9. QED BY <2>2, <2>3, <2>4, <2>5, <2>6, <2>7, <2>8 DEF Next
<1>3. SaveInv => SavedCopyIsInFlight
  BY DEF SaveInv
<1>4. QED BY <1>1, <1>2, <1>3, TypeCorrect, PTL DEF Spec
-----------------------------------------------------------------------------
(***************************************************************************)
(* Delivery, when an answer comes before the feature's next harvest        *)
(***************************************************************************)
RequestInv ==
  /\ OneRequestEach
  /\ FetchSavesNothing
  /\ SavedCopyIsInFlight
  /\ AnswerFindsItsSave

\* With one slot, a feature that may submit has no unanswered request.
LEMMA NoRequestYet ==
  ASSUME MaxInFlight = 1, TypeOK, NEW f \in Feature, FreeSlots(f) # {}
  PROVE  \A r \in inflight : r.feature # f
<1>1. Slot = {1} BY DEF Slot
<1>2. \A r \in inflight : r.slot = 1 BY <1>1 DEF TypeOK, Request
<1>3. QED BY <1>1, <1>2 DEF FreeSlots

LEMMA HarvestAllRequests ==
  ASSUME MaxInFlight = 1, TypeOK, RequestInv, NEW F \in SUBSET Feature,
         NEW buf \in Stores, NEW byt \in [Feature -> 0..MaxPayload],
         HarvestAll(F, buf, byt)
  PROVE  RequestInv'
<1> DEFINE S == {f \in F : Harvestable(f) /\ buf[f] # <<>>}
           req(f) == [feature |-> f, slot |-> SlotFor(f), body |-> buf[f]]
<1>1. \A f \in S : \A r \in inflight : r.feature # f
  BY NoRequestYet DEF HarvestAll, ShouldRetryOnFail
<1>2. inflight' = inflight \cup {req(f) : f \in S}
  BY DEF HarvestAll, ShouldRetryOnFail
<1>3. \A f \in Feature : backup'[f] = IF f \in S /\ Method = "xhr"
                                       THEN [events |-> buf[f], bytes |-> byt[f]]
                                       ELSE backup[f]
  BY DEF HarvestAll, ShouldRetryOnFail
<1>4. \A f \in Feature : [events |-> buf[f], bytes |-> byt[f]] # NoSave
  BY DEF NoSave
<1>5. \A r \in inflight : r.feature \in Feature /\ r.feature \notin S
  BY <1>1 DEF TypeOK, Request
<1>6. \A f \in S : req(f).feature = f /\ req(f).body = buf[f]
  OBVIOUS
<1>7. S \subseteq Feature
  OBVIOUS
<1> HIDE DEF S, req
<1>8. OneRequestEach'
  BY <1>2, <1>5, <1>6 DEF OneRequestEach, RequestInv
<1>9. FetchSavesNothing' /\ SavedCopyIsInFlight'
  <2>1. SaveInv
    BY DEF RequestInv, SaveInv
  <2>2. SaveInv'
    BY <2>1, HarvestAllSaves
  <2>3. QED BY <2>2 DEF SaveInv
<1>10. AnswerFindsItsSave'
  <2> SUFFICES ASSUME Method = "xhr", NEW r \in inflight'
               PROVE  backup'[r.feature] # NoSave /\ backup'[r.feature].events = r.body
    BY DEF AnswerFindsItsSave
  <2>1. CASE r \in inflight
    <3>1. backup'[r.feature] = backup[r.feature]
      BY <1>3, <1>5, <2>1
    <3>2. QED BY <2>1, <3>1 DEF AnswerFindsItsSave, RequestInv
  <2>2. ASSUME NEW f \in S, r = req(f)
        PROVE  backup'[r.feature] # NoSave /\ backup'[r.feature].events = r.body
    <3>1. backup'[f] = [events |-> buf[f], bytes |-> byt[f]]
      BY <1>3, <1>7
    <3>2. QED BY <1>4, <1>6, <1>7, <2>2, <3>1
  <2>3. QED BY <1>2, <2>1, <2>2
<1>11. QED BY <1>8, <1>9, <1>10 DEF RequestInv

\* Harvesting moves events from stores to requests: nothing pending before is
\* lost by it, and nothing is pending twice after it.
LEMMA HarvestAllHolds ==
  ASSUME MaxInFlight = 1, TypeOK, NEW F \in SUBSET Feature, NEW buf \in Stores,
         NEW byt \in [Feature -> 0..MaxPayload], NotTwice(buf, inflight),
         HarvestAll(F, buf, byt)
  PROVE  /\ NotTwice(buffer', inflight')
         /\ \A e \in Event :
              PendingIn(e, buf, inflight) <=> PendingIn(e, buffer', inflight')
<1> DEFINE S == {f \in F : Harvestable(f) /\ buf[f] # <<>>}
           req(f) == [feature |-> f, slot |-> SlotFor(f), body |-> buf[f]]
<1>1. inflight' = inflight \cup {req(f) : f \in S}
  BY DEF HarvestAll, ShouldRetryOnFail
<1>2. \A f \in S : req(f).body = buf[f]
  OBVIOUS
<1>3. \A f \in Feature : buffer'[f] = IF f \in S THEN <<>> ELSE buf[f]
  BY DEF HarvestAll, ShouldRetryOnFail
<1>4. S \subseteq Feature
  OBVIOUS
<1> HIDE DEF S, req
<1>5. \A f \in Feature, e \in Event : InSeq(e, buffer'[f]) <=> f \notin S /\ InSeq(e, buf[f])
  BY <1>3, InEmpty
<1>6. \A f \in S, e \in Event : InSeq(e, req(f).body) <=> InSeq(e, buf[f])
  BY <1>2
<1>7. \A r \in inflight' : r \in inflight \/ \E f \in S : r = req(f)
  BY <1>1
<1>8. NotTwice(buffer', inflight')
  <2>1. \A e \in Event, f, g \in Feature :
          InSeq(e, buffer'[f]) /\ InSeq(e, buffer'[g]) => f = g
    BY <1>5 DEF NotTwice
  <2>2. \A e \in Event, f \in Feature, r \in inflight' :
          ~(InSeq(e, buffer'[f]) /\ InSeq(e, r.body))
    BY <1>4, <1>5, <1>6, <1>7 DEF NotTwice
  <2>3. \A e \in Event, r, s \in inflight' :
          InSeq(e, r.body) /\ InSeq(e, s.body) => r = s
    BY <1>4, <1>6, <1>7 DEF NotTwice
  <2>4. QED BY <2>1, <2>2, <2>3 DEF NotTwice
<1>9. ASSUME NEW e \in Event
      PROVE  PendingIn(e, buf, inflight) <=> PendingIn(e, buffer', inflight')
  <2>1. OnTheWire(e, inflight') <=>
          OnTheWire(e, inflight) \/ \E f \in S : InSeq(e, buf[f])
    BY <1>1, <1>6, <1>7 DEF OnTheWire
  <2>2. BufferedIn(e, buffer') <=> \E f \in Feature : f \notin S /\ InSeq(e, buf[f])
    BY <1>5 DEF BufferedIn
  <2>3. QED BY <1>4, <2>1, <2>2 DEF PendingIn, BufferedIn
<1>10. QED BY <1>8, <1>9

\* What an answer does: the body goes back to the front of its store, or it is
\* counted as delivered, or it is given up.
Bump(ack, body) == [e \in Event |-> IF InSeq(e, body) /\ ack[e] < 2 THEN ack[e] + 1 ELSE ack[e]]

LEMMA AnswerOutcome ==
  ASSUME TypeOK, RequestInv, NEW r \in inflight, NEW status \in Statuses,
         OnAnswer(r, status)
  PROVE  /\ inflight' = inflight \ {r}
         /\ recorded' = recorded
         /\ \/ /\ buffer' = [buffer EXCEPT ![r.feature] = r.body \o @]
               /\ UNCHANGED <<acked, givenUp>>
            \/ /\ UNCHANGED <<buffer, givenUp>>
               /\ acked' = Bump(acked, r.body)
            \/ /\ UNCHANGED <<buffer, acked>>
               /\ givenUp' = givenUp \cup {e \in Event : InSeq(e, r.body)}
         /\ \A f \in Feature \ {r.feature} : backup'[f] = backup[f]
         /\ backup'[r.feature] = NoSave
<1> DEFINE f == r.feature
           body == {e \in Event : InSeq(e, r.body)}
           retry == status # 0 /\ ShouldRetry(status)
<1>1. f \in Feature /\ r.body \in Seq(Event) /\ status \in Nat
  BY DEF TypeOK, Request
<1>2. inflight' = inflight \ {r} /\ recorded' = recorded
  BY DEF OnAnswer
<1>3. Account(r, status)
  BY DEF OnAnswer
<1>4. retry = ShouldRetry(status) /\ (status \in 200..299 => ~ShouldRetry(status))
  <2>1. ShouldRetry(status) \in BOOLEAN /\ ~ShouldRetry(0)
    BY DEF ShouldRetry
  <2>2. status \in 200..299 => ~ShouldRetry(status)
    BY <1>1 DEF ShouldRetry
  <2>3. QED BY <2>1, <2>2
<1>5. status \in 200..299 => acked' = Bump(acked, r.body) /\ givenUp' = givenUp
  BY <1>3 DEF Account, Bump
<1>6. status \notin 200..299 => acked' = acked
  BY <1>3 DEF Account, TypeOK
<1>7. CASE Method = "fetch"
  <2>1. backup[f] = NoSave
    BY <1>1, <1>7 DEF RequestInv, FetchSavesNothing
  <2>2. buffer' = buffer /\ backup' = backup
    BY <1>1, <1>7, <2>1 DEF OnAnswer, PostHarvestCleanup, Reloads, store, TypeOK
  <2>3. status \notin 200..299 => givenUp' = givenUp \cup body
    BY <1>3, <1>7 DEF Account
  <2>4. QED BY <1>2, <1>5, <1>6, <2>1, <2>2, <2>3
<1>8. CASE Method = "xhr"
  <2>1. backup[f] # NoSave /\ backup[f].events = r.body
    BY <1>8 DEF RequestInv, AnswerFindsItsSave
  <2>2. PostHarvestCleanup(f, retry)
    BY <1>8 DEF OnAnswer
  <2> HIDE DEF retry
  <2>3. backup' = [backup EXCEPT ![f] = NoSave]
    BY <2>2 DEF PostHarvestCleanup
  <2>4. backup'[f] = NoSave /\ \A g \in Feature \ {f} : backup'[g] = backup[g]
    BY <1>1, <2>3 DEF TypeOK
  <2>5. CASE retry /\ Fits(f)
    <3>1. buffer' = [buffer EXCEPT ![f] = r.body \o @]
      BY <2>1, <2>2, <2>5 DEF PostHarvestCleanup, Reloads
    <3>2. givenUp' = givenUp
      BY <1>3, <1>4, <1>8, <2>5 DEF Account
    <3>3. acked' = acked
      BY <1>4, <1>6, <2>5
    <3>4. QED BY <1>2, <2>4, <3>1, <3>2, <3>3
  <2>6. CASE ~(retry /\ Fits(f))
    <3>1. buffer' = buffer
      BY <2>2, <2>6 DEF PostHarvestCleanup, Reloads
    <3>2. status \notin 200..299 => givenUp' = givenUp \cup body
      BY <1>3, <1>4, <1>8, <2>1, <2>6 DEF Account, Reloads
    <3>3. QED BY <1>2, <1>5, <1>6, <2>4, <3>1, <3>2
  <2>7. QED BY <2>5, <2>6
<1>9. QED BY <1>7, <1>8

LEMMA AnswerRequests ==
  ASSUME TypeOK, RequestInv, NEW r \in inflight, NEW status \in Statuses,
         OnAnswer(r, status)
  PROVE  RequestInv'
<1>1. inflight' = inflight \ {r}
  BY DEF OnAnswer
<1>2. \A s \in inflight' : s \in inflight /\ s.feature \in Feature \ {r.feature}
  <2> SUFFICES ASSUME NEW s \in inflight' PROVE s \in inflight
          /\ s.feature \in Feature \ {r.feature}
    OBVIOUS
  <2>1. s \in inflight /\ s # r
    BY <1>1
  <2>2. QED BY <2>1 DEF TypeOK, Request, RequestInv, OneRequestEach
<1>3. /\ \A f \in Feature \ {r.feature} : backup'[f] = backup[f]
      /\ backup'[r.feature] = NoSave
  BY AnswerOutcome
<1>4. OneRequestEach'
  BY <1>2 DEF OneRequestEach, RequestInv
<1>5. FetchSavesNothing' /\ SavedCopyIsInFlight'
  <2>1. SaveInv
    BY DEF RequestInv, SaveInv
  <2>2. SaveInv'
    BY <2>1, AnswerSaves
  <2>3. QED BY <2>2 DEF SaveInv
<1>6. AnswerFindsItsSave'
  BY <1>2, <1>3 DEF AnswerFindsItsSave, RequestInv
<1>7. QED BY <1>4, <1>5, <1>6 DEF RequestInv

LEMMA AnswerHolds ==
  ASSUME TypeOK, IndInv, NEW r \in inflight, NEW status \in Statuses,
         OnAnswer(r, status)
  PROVE  /\ NotTwice(buffer', inflight')
         /\ OneFate(buffer', inflight', acked', givenUp', recorded')
         /\ \A e \in Event : acked[e] > 0 => acked'[e] > 0
         /\ givenUp \subseteq givenUp'
<1> DEFINE f == r.feature
           body == {e \in Event : InSeq(e, r.body)}
<1>1. f \in Feature /\ r.body \in Seq(Event) /\ buffer \in Stores
      /\ acked \in [Event -> 0..2]
  BY DEF TypeOK, Request, Stores
<1>2. NotTwice(buffer, inflight) /\ OneFate(buffer, inflight, acked, givenUp, recorded)
      /\ RequestInv
  BY DEF IndInv, RequestInv
<1>3. inflight' = inflight \ {r} /\ recorded' = recorded
  BY <1>2, AnswerOutcome
<1>4. \A e \in body : acked[e] = 0 /\ e <= recorded /\ e \notin givenUp
                      /\ ~BufferedIn(e, buffer) /\ ~OnTheWire(e, inflight')
  BY <1>2, <1>3 DEF OneFate, Fated, NotTwice, PendingIn, BufferedIn, OnTheWire
<1>5. \A e \in Event : OnTheWire(e, inflight) <=> e \in body \/ OnTheWire(e, inflight')
  BY <1>3 DEF OnTheWire
<1>6. CASE /\ buffer' = [buffer EXCEPT ![f] = r.body \o @]
           /\ UNCHANGED <<acked, givenUp>>
  <2>1. \A e \in Event, g \in Feature :
          InSeq(e, buffer'[g]) <=> (g = f /\ e \in body) \/ InSeq(e, buffer[g])
    BY <1>1, <1>6, InConcat DEF Stores
  <2>2. NotTwice(buffer', inflight')
    BY <1>2, <1>3, <2>1 DEF NotTwice
  <2>3. \A e \in Event :
          PendingIn(e, buffer', inflight') <=> PendingIn(e, buffer, inflight)
    <3> TAKE e \in Event
    <3>1. BufferedIn(e, buffer') <=> e \in body \/ BufferedIn(e, buffer)
      BY <1>1, <2>1 DEF BufferedIn
    <3>2. QED BY <1>5, <3>1 DEF PendingIn
  <2>4. OneFate(buffer', inflight', acked', givenUp', recorded')
    <3> SUFFICES ASSUME NEW e \in Event PROVE Fated(e, buffer', inflight', acked', givenUp',
            recorded')
      BY DEF OneFate
    <3>1. Fated(e, buffer, inflight, acked, givenUp, recorded)
      BY <1>2 DEF OneFate
    <3>2. QED BY <1>3, <1>6, <2>3, <3>1 DEF Fated
  <2>5. QED BY <1>6, <2>2, <2>4
<1>7. CASE buffer' = buffer
  <2>1. NotTwice(buffer', inflight')
    BY <1>2, <1>3, <1>7 DEF NotTwice
  <2>2. \A e \in Event :
          PendingIn(e, buffer', inflight') <=> PendingIn(e, buffer, inflight) /\ e \notin body
    <3> TAKE e \in Event
    <3>1. BufferedIn(e, buffer') <=> BufferedIn(e, buffer)
      BY <1>7 DEF BufferedIn
    <3>2. QED BY <1>4, <1>5, <3>1 DEF PendingIn
  <2>3. CASE givenUp' = givenUp /\ acked' = Bump(acked, r.body)
    <3>1. \A e \in Event : acked'[e] = IF e \in body THEN 1 ELSE acked[e]
      BY <1>1, <1>4, <2>3 DEF Bump
    <3>2. OneFate(buffer', inflight', acked', givenUp', recorded')
      <4> SUFFICES ASSUME NEW e \in Event PROVE Fated(e, buffer', inflight', acked', givenUp',
              recorded')
        BY DEF OneFate
      <4>1. Fated(e, buffer, inflight, acked, givenUp, recorded)
        BY <1>2 DEF OneFate
      <4>2. PendingIn(e, buffer', inflight') <=> PendingIn(e, buffer, inflight) /\ e \notin body
        BY <2>2
      <4> HIDE DEF body
      <4>3. CASE e \in body
        BY <1>3, <1>4, <2>3, <3>1, <4>1, <4>2, <4>3 DEF Fated
      <4>4. CASE e \notin body
        BY <1>3, <2>3, <3>1, <4>1, <4>2, <4>4 DEF Fated
      <4>5. QED BY <4>3, <4>4
    <3>3. QED BY <2>1, <2>3, <3>1, <3>2
  <2>4. CASE acked' = acked /\ givenUp' = givenUp \cup body
    <3>1. OneFate(buffer', inflight', acked', givenUp', recorded')
      <4> SUFFICES ASSUME NEW e \in Event PROVE Fated(e, buffer', inflight', acked', givenUp',
              recorded')
        BY DEF OneFate
      <4>1. Fated(e, buffer, inflight, acked, givenUp, recorded)
        BY <1>2 DEF OneFate
      <4>2. PendingIn(e, buffer', inflight') <=> PendingIn(e, buffer, inflight) /\ e \notin body
        BY <2>2
      <4> HIDE DEF body
      <4>3. CASE e \in body
        BY <1>3, <1>4, <2>4, <4>1, <4>2, <4>3 DEF Fated
      <4>4. CASE e \notin body
        BY <1>3, <2>4, <4>1, <4>2, <4>4 DEF Fated
      <4>5. QED BY <4>3, <4>4
    <3>2. QED BY <2>1, <2>4, <3>1
  <2>5. CASE UNCHANGED <<acked, givenUp>> /\ buffer' = [buffer EXCEPT ![f] = r.body \o @]
    BY <1>6, <2>5
  <2>6. QED BY <1>2, <2>3, <2>4, <2>5, AnswerOutcome, ZenonT(60)
<1>8. QED BY <1>2, <1>6, <1>7, AnswerOutcome

\* Harvesting changes neither what was recorded nor what became of it.
LEMMA HarvestKeepsFates ==
  ASSUME MaxInFlight = 1, TypeOK, NEW F \in SUBSET Feature, NEW buf \in Stores,
         NEW byt \in [Feature -> 0..MaxPayload], NEW n,
         NotTwice(buf, inflight), OneFate(buf, inflight, acked, givenUp, n),
         HarvestAll(F, buf, byt)
  PROVE  NotTwice(buffer', inflight') /\ OneFate(buffer', inflight', acked, givenUp, n)
<1>1. NotTwice(buffer', inflight')
      /\ \A e \in Event : PendingIn(e, buf, inflight) <=> PendingIn(e, buffer', inflight')
  BY HarvestAllHolds
<1>2. ASSUME NEW e \in Event PROVE Fated(e, buffer', inflight', acked, givenUp, n)
  <2>1. Fated(e, buf, inflight, acked, givenUp, n)
    BY DEF OneFate
  <2>2. QED BY <1>1, <2>1 DEF Fated
<1>3. QED BY <1>1, <1>2 DEF OneFate

LEMMA AddHolds ==
  ASSUME MaxInFlight = 1, TypeOK, IndInv, NEW f \in Feature, Add(f)
  PROVE  IndInv' /\ recorded' = recorded + 1 /\ acked' = acked
         /\ givenUp' \in {givenUp, givenUp \cup {recorded + 1}}
<1> DEFINE e == recorded + 1
           size == bytes[f] + SizeIn(f, e)
           F == IF WantsEarlyHarvest(f, size) THEN {f} ELSE {}
           buf == [buffer EXCEPT ![f] = Append(@, e)]
           byt == [bytes EXCEPT ![f] = size]
<1>1. e \in Event /\ recorded' = e /\ acked' = acked /\ recorded \in Nat
  BY DEF Add, TypeOK, Event
<1>2. NotTwice(buffer, inflight) /\ RequestInv /\ buffer \in Stores
      /\ OneFate(buffer, inflight, acked, givenUp, recorded)
  BY DEF IndInv, RequestInv, TypeOK, Stores
<1>3. ~PendingIn(e, buffer, inflight) /\ acked[e] = 0 /\ e \notin givenUp
  <2>1. Fated(e, buffer, inflight, acked, givenUp, recorded)
    BY <1>1, <1>2 DEF OneFate
  <2>2. ~(e <= recorded) /\ acked[e] \in 0..2
    BY <1>1 DEF TypeOK
  <2>3. QED BY <2>1, <2>2 DEF Fated
<1>4. CASE size > MaxPayload /\ givenUp' = givenUp \cup {e} /\ UNCHANGED <<store, inflight>>
  <2>1. OneFate(buffer, inflight, acked, givenUp', e)
    <3> SUFFICES ASSUME NEW d \in Event PROVE Fated(d, buffer, inflight, acked, givenUp', e)
      BY DEF OneFate
    <3>1. Fated(d, buffer, inflight, acked, givenUp, recorded) /\ d \in Int
      BY <1>2 DEF OneFate, Event
    <3>2. d <= e <=> d <= recorded \/ d = e
      BY <1>1, <3>1
    <3> HIDE DEF e
    <3>3. QED BY <1>3, <1>4, <3>1, <3>2 DEF Fated
  <2>2. UNCHANGED <<buffer, bytes, backup, inflight>>
    BY <1>4 DEF store
  <2>3. RequestInv'
    BY <1>2, <2>2 DEF RequestInv, OneRequestEach, FetchSavesNothing,
                      SavedCopyIsInFlight, AnswerFindsItsSave
  <2>4. NotTwice(buffer', inflight') /\ OneFate(buffer', inflight', acked', givenUp', recorded')
    BY <1>1, <1>2, <2>1, <2>2
  <2>5. QED BY <1>1, <1>4, <2>3, <2>4 DEF IndInv, RequestInv
<1>5. CASE size <= MaxPayload /\ HarvestAll(F, buf, byt) /\ givenUp' = givenUp
  <2>1. size \in Nat
    BY <1>1 DEF SizeIn, TypeOK
  <2>2. buf \in Stores /\ byt \in [Feature -> 0..MaxPayload] /\ F \in SUBSET Feature
    BY <1>1, <1>2, <1>5, <2>1 DEF TypeOK, Stores
  <2>3. \A d \in Event, g \in Feature :
          InSeq(d, buf[g]) <=> InSeq(d, buffer[g]) \/ (g = f /\ d = e)
    BY <1>1, <1>2, InAppend DEF Stores
  <2>4. \A d \in Event : PendingIn(d, buf, inflight) <=> PendingIn(d, buffer, inflight) \/ d = e
    BY <2>3 DEF PendingIn, BufferedIn
  <2>5. NotTwice(buf, inflight)
    BY <1>2, <1>3, <2>3 DEF NotTwice, PendingIn, BufferedIn, OnTheWire
  <2>6. OneFate(buf, inflight, acked, givenUp, e)
    <3> SUFFICES ASSUME NEW d \in Event PROVE Fated(d, buf, inflight, acked, givenUp, e)
      BY DEF OneFate
    <3>1. Fated(d, buffer, inflight, acked, givenUp, recorded) /\ d \in Int
      BY <1>2 DEF OneFate, Event
    <3>2. PendingIn(d, buf, inflight) <=> PendingIn(d, buffer, inflight) \/ d = e
      BY <2>4
    <3> HIDE DEF buf
    <3>3. QED BY <1>1, <1>3, <3>1, <3>2 DEF Fated
  <2> HIDE DEF buf, byt, F
  <2>7. NotTwice(buffer', inflight') /\ OneFate(buffer', inflight', acked, givenUp, e)
    BY <1>1, <1>5, <2>2, <2>5, <2>6, HarvestKeepsFates
  <2>8. RequestInv'
    BY <1>2, <1>5, <2>2, HarvestAllRequests
  <2>9. QED BY <1>1, <1>5, <2>7, <2>8 DEF IndInv, RequestInv
<1>6. QED BY <1>4, <1>5 DEF Add

LEMMA EndOfLifeHolds ==
  ASSUME TypeOK, IndInv, NEW taken \in SUBSET Feature, OnEndOfLife(taken)
  PROVE  /\ IndInv'
         /\ recorded' = recorded
         /\ \A e \in Event : acked[e] > 0 => acked'[e] > 0
         /\ givenUp \subseteq givenUp'
<1> DEFINE S == {f \in Feature : Harvestable(f) /\ buffer[f] # <<>>}
           Out(G) == {e \in Event : \E f \in G : InSeq(e, buffer[f])}
<1>1. /\ taken \subseteq S /\ S \subseteq Feature
      /\ buffer' = [f \in Feature |-> IF f \in S THEN <<>> ELSE buffer[f]]
      /\ givenUp' = givenUp \cup Out(S \ taken)
      /\ UNCHANGED <<backup, inflight, recorded>>
  BY DEF OnEndOfLife
<1>2. \A e \in Event : acked'[e] = IF e \in Out(taken) /\ acked[e] < 2
                                  THEN acked[e] + 1 ELSE acked[e]
  BY DEF OnEndOfLife
<1>3. NotTwice(buffer, inflight) /\ RequestInv
      /\ OneFate(buffer, inflight, acked, givenUp, recorded)
      /\ acked \in [Event -> 0..2]
  BY DEF IndInv, RequestInv, TypeOK
<1>4. \A e \in Event, f \in Feature : InSeq(e, buffer'[f]) <=> f \notin S /\ InSeq(e, buffer[f])
  BY <1>1, InEmpty
<1>5. NotTwice(buffer', inflight')
  BY <1>1, <1>3, <1>4 DEF NotTwice
<1>6. RequestInv'
  BY <1>1, <1>3 DEF RequestInv, OneRequestEach, FetchSavesNothing,
                    SavedCopyIsInFlight, AnswerFindsItsSave
<1> HIDE DEF S
<1>7. ASSUME NEW e \in Event
      PROVE  /\ Fated(e, buffer', inflight', acked', givenUp', recorded')
             /\ acked[e] > 0 => acked'[e] > 0
  <2>1. Fated(e, buffer, inflight, acked, givenUp, recorded)
    BY <1>3 DEF OneFate
  <2>2. CASE e \in Out(S)
    <3>1. PendingIn(e, buffer, inflight) /\ ~PendingIn(e, buffer', inflight')
      BY <1>1, <1>3, <1>4, <2>2 DEF PendingIn, BufferedIn, OnTheWire, NotTwice
    <3>2. e \in Out(S \ taken) <=> e \notin Out(taken)
      BY <1>1, <1>3, <2>2 DEF NotTwice
    <3> HIDE DEF Out
    <3>3. QED BY <1>1, <1>2, <1>3, <2>1, <3>1, <3>2 DEF Fated
  <2>3. CASE e \notin Out(S)
    <3>1. PendingIn(e, buffer', inflight') <=> PendingIn(e, buffer, inflight)
      BY <1>1, <1>4, <2>3 DEF PendingIn, BufferedIn
    <3>2. e \notin Out(S \ taken) /\ e \notin Out(taken)
      BY <1>1, <2>3
    <3> HIDE DEF Out
    <3>3. QED BY <1>1, <1>2, <1>3, <2>1, <3>1, <3>2 DEF Fated
  <2>4. QED BY <2>2, <2>3
<1>8. OneFate(buffer', inflight', acked', givenUp', recorded')
  BY <1>7 DEF OneFate
<1>9. QED BY <1>1, <1>5, <1>6, <1>7, <1>8 DEF IndInv, RequestInv

LEMMA InitHolds == Init => IndInv
<1> SUFFICES ASSUME Init PROVE IndInv
  OBVIOUS
<1>1. RequestInv
  BY DEF Init, RequestInv, OneRequestEach, FetchSavesNothing, SavedCopyIsInFlight,
         AnswerFindsItsSave
<1>2. \A e \in Event : ~PendingIn(e, buffer, inflight)
  BY InEmpty DEF Init, PendingIn, BufferedIn, OnTheWire
<1>3. NotTwice(buffer, inflight)
  BY InEmpty DEF Init, NotTwice
<1>4. OneFate(buffer, inflight, acked, givenUp, recorded)
  <2> SUFFICES ASSUME NEW e \in Event PROVE Fated(e, buffer, inflight, acked, givenUp, recorded)
    BY DEF OneFate
  <2>1. acked[e] = 0 /\ e \notin givenUp /\ ~(e <= recorded)
    BY DEF Init, Event
  <2>2. QED BY <1>2, <2>1 DEF Fated
<1>5. QED BY <1>1, <1>3, <1>4 DEF IndInv, RequestInv

\* The part of a step the refinement looks at: outside Add, nothing new is
\* recorded and what is settled stays settled.
Settling ==
  /\ recorded' = recorded
  /\ \A e \in Event : acked[e] > 0 => acked'[e] > 0
  /\ givenUp \subseteq givenUp'

LEMMA QuietHolds ==
  ASSUME IndInv, UNCHANGED <<store, inflight, history>>
  PROVE  IndInv' /\ Settling
BY DEF store, history, IndInv, OneRequestEach, FetchSavesNothing, SavedCopyIsInFlight,
       AnswerFindsItsSave, Settling

LEMMA HarvestHolds ==
  ASSUME MaxInFlight = 1, TypeOK, IndInv, NEW F \in SUBSET Feature,
         HarvestAll(F, buffer, bytes), UNCHANGED history
  PROVE  IndInv' /\ Settling
<1>1. buffer \in Stores /\ bytes \in [Feature -> 0..MaxPayload]
  BY DEF TypeOK, Stores
<1>2. NotTwice(buffer, inflight) /\ RequestInv
      /\ OneFate(buffer, inflight, acked, givenUp, recorded)
  BY DEF IndInv, RequestInv
<1>3. NotTwice(buffer', inflight') /\ OneFate(buffer', inflight', acked, givenUp, recorded)
  BY <1>1, <1>2, HarvestKeepsFates
<1>4. RequestInv'
  BY <1>1, <1>2, HarvestAllRequests
<1>5. QED BY <1>3, <1>4 DEF history, IndInv, RequestInv, Settling

LEMMA StepHolds ==
  ASSUME MaxInFlight = 1, TypeOK, IndInv, [Next]_vars
  PROVE  IndInv' /\ (Settling \/ \E f \in Feature : Add(f))
<1>1. ASSUME NEW f \in Feature, Add(f) PROVE IndInv'
  BY <1>1, AddHolds
<1>2. CASE StartTimer
  BY <1>2, QuietHolds DEF StartTimer
<1>3. CASE OnHarvestInterval
  BY <1>3, HarvestHolds DEF OnHarvestInterval
<1>4. ASSUME NEW f \in Feature, OnDrain(f) PROVE IndInv' /\ Settling
  BY <1>4, QuietHolds DEF OnDrain
<1>5. ASSUME NEW f \in Feature, OnDrainTimer(f) PROVE IndInv' /\ Settling
  <2>1. {f} \in SUBSET Feature /\ HarvestAll({f}, buffer, bytes) /\ UNCHANGED history
    BY <1>5 DEF OnDrainTimer
  <2>2. QED BY <2>1, HarvestHolds
<1>6. ASSUME NEW taken \in SUBSET Feature, OnEndOfLife(taken) PROVE IndInv' /\ Settling
  BY <1>6, EndOfLifeHolds DEF Settling
<1>7. ASSUME NEW r \in inflight, NEW status \in Statuses, OnAnswer(r, status)
      PROVE  IndInv' /\ Settling
  <2>1. RequestInv
    BY DEF IndInv, RequestInv
  <2>2. RequestInv'
    BY <1>7, <2>1, AnswerRequests
  <2>3. recorded' = recorded
    BY <1>7 DEF OnAnswer
  <2>4. QED BY <1>7, <2>2, <2>3, AnswerHolds DEF IndInv, RequestInv, Settling
<1>8. ASSUME NEW f \in Feature, Block(f) PROVE IndInv' /\ Settling
  BY <1>8, QuietHolds DEF Block
<1>9. CASE Abort
  BY <1>9, QuietHolds DEF Abort
<1>10. ASSUME NEW accept \in BOOLEAN, Consent(accept) PROVE IndInv' /\ Settling
  BY <1>10, QuietHolds DEF Consent
<1>11. CASE UNCHANGED vars
  BY <1>11, QuietHolds DEF vars
<1>12. QED
  BY <1>1, <1>2, <1>3, <1>4, <1>5, <1>6, <1>7, <1>8, <1>9, <1>10, <1>11 DEF Next

\* With answers that come in time, a retry sends exactly what failed: every
\* recorded event is in one place and the saved copy is the request's body.
THEOREM InvariantHolds == MaxInFlight = 1 => (Spec => []IndInv)
<1> SUFFICES ASSUME MaxInFlight = 1 PROVE Spec => []IndInv
  OBVIOUS
<1>1. TypeOK /\ IndInv /\ [Next]_vars => IndInv'
  BY StepHolds
<1>2. QED BY <1>1, InitHolds, TypeCorrect, PTL DEF Spec

\* Harvester's "always retry all features harvests except for final": no event
\* disappears without the code deciding to drop it.
THEOREM NothingIsLost == MaxInFlight = 1 => (Spec => []NoSilentLoss)
<1> SUFFICES ASSUME MaxInFlight = 1 PROVE Spec => []NoSilentLoss
  OBVIOUS
<1>1. TypeOK /\ IndInv => NoSilentLoss
  <2> SUFFICES ASSUME TypeOK, IndInv, NEW e \in 1..recorded
               PROVE  Pending(e) \/ acked[e] > 0 \/ e \in givenUp
    BY DEF NoSilentLoss
  <2>1. e \in Event /\ e <= recorded
    BY DEF TypeOK, Event
  <2>2. Fated(e, buffer, inflight, acked, givenUp, recorded)
    BY <2>1 DEF IndInv, OneFate
  <2>3. QED BY <2>1, <2>2 DEF Fated, Pending
<1>2. QED BY <1>1, InvariantHolds, TypeCorrect, PTL

\* No event reaches the collector twice, and none that it has acknowledged is
\* kept for another harvest.
THEOREM NothingIsDeliveredTwice == MaxInFlight = 1 => (Spec => []NoDuplicateDelivery)
<1> SUFFICES ASSUME MaxInFlight = 1 PROVE Spec => []NoDuplicateDelivery
  OBVIOUS
<1>1. TypeOK /\ IndInv => NoDuplicateDelivery
  <2> SUFFICES ASSUME TypeOK, IndInv, NEW e \in Event
               PROVE  acked[e] <= 1 /\ (acked[e] = 1 => ~Pending(e))
    BY DEF NoDuplicateDelivery
  <2>1. Fated(e, buffer, inflight, acked, givenUp, recorded) /\ acked[e] \in 0..2
    BY DEF IndInv, OneFate, TypeOK
  <2>2. QED BY <2>1 DEF Fated, Pending
<1>2. QED BY <1>1, InvariantHolds, TypeCorrect, PTL
-----------------------------------------------------------------------------
(***************************************************************************)
(* The order of what is stored and sent                                    *)
(***************************************************************************)
LEMMA AscendingAppend ==
  ASSUME NEW s \in Seq(Event), NEW e \in Event, Ascending(s), \A i \in DOMAIN s : s[i] < e
  PROVE  Ascending(Append(s, e))
<1> DEFINE t == Append(s, e)
<1>1. \A i \in DOMAIN t : (i \in DOMAIN s /\ t[i] = s[i]) \/ (i = Len(s) + 1 /\ t[i] = e)
  OBVIOUS
<1>2. \A i \in DOMAIN s : i < Len(s) + 1
  OBVIOUS
<1>3. ASSUME NEW i \in DOMAIN t, NEW j \in DOMAIN t, i < j PROVE t[i] < t[j]
  <2>1. i \in DOMAIN s /\ t[i] = s[i]
    BY <1>1, <1>2, <1>3
  <2>2. CASE j \in DOMAIN s /\ t[j] = s[j]
    BY <1>3, <2>1, <2>2 DEF Ascending
  <2>3. CASE j = Len(s) + 1 /\ t[j] = e
    BY <2>1, <2>3
  <2>4. QED BY <1>1, <2>2, <2>3
<1>4. QED BY <1>3 DEF Ascending

LEMMA AscendingConcat ==
  ASSUME NEW s \in Seq(Event), NEW t \in Seq(Event), Ascending(s), Ascending(t),
         \A i \in DOMAIN s, j \in DOMAIN t : s[i] < t[j]
  PROVE  Ascending(s \o t)
<1> DEFINE u == s \o t
<1>1. ASSUME NEW i \in DOMAIN u
      PROVE  (i \in DOMAIN s /\ u[i] = s[i])
               \/ (i > Len(s) /\ i - Len(s) \in DOMAIN t /\ u[i] = t[i - Len(s)])
  OBVIOUS
<1>2. \A i \in DOMAIN u : i \in Nat
  OBVIOUS
<1>3. \A i \in DOMAIN s : i <= Len(s)
  OBVIOUS
<1>4. Len(s) \in Nat
  OBVIOUS
<1> HIDE DEF u
<1>5. ASSUME NEW i \in DOMAIN u, NEW j \in DOMAIN u, i < j PROVE u[i] < u[j]
  <2>1. CASE j \in DOMAIN s /\ u[j] = s[j]
    <3>1. i \in DOMAIN s /\ u[i] = s[i]
      BY <1>1, <1>2, <1>3, <1>4, <1>5, <2>1
    <3>2. QED BY <1>5, <2>1, <3>1 DEF Ascending
  <2>2. CASE i \in DOMAIN s /\ u[i] = s[i] /\ j - Len(s) \in DOMAIN t /\ u[j] = t[j - Len(s)]
    BY <2>2
  <2>3. CASE /\ i - Len(s) \in DOMAIN t /\ u[i] = t[i - Len(s)]
             /\ j - Len(s) \in DOMAIN t /\ u[j] = t[j - Len(s)]
    <3>1. i - Len(s) < j - Len(s)
      BY <1>2, <1>4, <1>5
    <3>2. QED BY <2>3, <3>1 DEF Ascending
  <2>4. QED BY <1>1, <2>1, <2>2, <2>3
<1>6. QED BY <1>5 DEF Ascending, u

\* Chronological of the stores buf and the requests reqs
Before(s, t) == \A i \in DOMAIN s, j \in DOMAIN t : s[i] < t[j]
Ordered(buf, reqs) ==
  /\ \A f \in Feature : Ascending(buf[f])
  /\ \A r \in reqs : Ascending(r.body) /\ Before(r.body, buf[r.feature])

LEMMA HarvestAllOrders ==
  ASSUME TypeOK, NEW F \in SUBSET Feature, NEW buf \in Stores, NEW byt,
         Ordered(buf, inflight), HarvestAll(F, buf, byt)
  PROVE  Ordered(buffer', inflight')
<1> DEFINE S == {f \in F : Harvestable(f) /\ buf[f] # <<>>}
           req(f) == [feature |-> f, slot |-> SlotFor(f), body |-> buf[f]]
<1>1. inflight' = inflight \cup {req(f) : f \in S}
  BY DEF HarvestAll, ShouldRetryOnFail
<1>2. \A f \in Feature : buffer'[f] \in {buf[f], <<>>} /\ (f \in S => buffer'[f] = <<>>)
  BY DEF HarvestAll, ShouldRetryOnFail
<1>3. \A f \in S : req(f).feature = f /\ req(f).body = buf[f] /\ f \in Feature
  OBVIOUS
<1> HIDE DEF S, req
<1>4. Ascending(<<>>) /\ \A s : Before(s, <<>>)
  BY DEF Ascending, Before
<1>5. \A f \in Feature : Ascending(buffer'[f])
  BY <1>2, <1>4 DEF Ordered
<1>6. ASSUME NEW r \in inflight' PROVE Ascending(r.body) /\ Before(r.body, buffer'[r.feature])
  <2>1. CASE r \in inflight
    <3>1. r.feature \in Feature
      BY <2>1 DEF TypeOK, Request
    <3>2. QED BY <1>2, <1>4, <2>1, <3>1 DEF Ordered
  <2>2. ASSUME NEW f \in S, r = req(f)
        PROVE  Ascending(r.body) /\ Before(r.body, buffer'[r.feature])
    BY <1>2, <1>3, <1>4, <2>2 DEF Ordered
  <2>3. QED BY <1>1, <2>1, <2>2
<1>7. QED BY <1>5, <1>6 DEF Ordered

\* What is pending was recorded before the next event
LEMMA PendingIsOlder ==
  ASSUME TypeOK, IndInv
  PROVE  /\ \A f \in Feature : \A i \in DOMAIN buffer[f] : buffer[f][i] <= recorded
         /\ \A r \in inflight : \A i \in DOMAIN r.body : r.body[i] <= recorded
<1>1. \A e \in Event : Pending(e) => e <= recorded
  BY DEF IndInv, OneFate, Fated, Pending
<1>2. ASSUME NEW f \in Feature, NEW i \in DOMAIN buffer[f] PROVE buffer[f][i] <= recorded
  <2>1. buffer[f] \in Seq(Event)
    BY DEF TypeOK
  <2>2. buffer[f][i] \in Event
    BY <2>1
  <2>3. QED BY <1>1, <2>2 DEF Pending, PendingIn, BufferedIn, InSeq
<1>3. ASSUME NEW r \in inflight, NEW i \in DOMAIN r.body PROVE r.body[i] <= recorded
  <2>1. r.body \in Seq(Event)
    BY DEF TypeOK, Request
  <2>2. r.body[i] \in Event
    BY <2>1
  <2>3. QED BY <1>1, <2>2 DEF Pending, PendingIn, OnTheWire, InSeq
<1>4. QED BY <1>2, <1>3

LEMMA AddOrders ==
  ASSUME TypeOK, IndInv, Ordered(buffer, inflight), NEW f \in Feature, Add(f)
  PROVE  Ordered(buffer', inflight')
<1> DEFINE e == recorded + 1
           size == bytes[f] + SizeIn(f, e)
           F == IF WantsEarlyHarvest(f, size) THEN {f} ELSE {}
           buf == [buffer EXCEPT ![f] = Append(buffer[f], e)]
           byt == [bytes EXCEPT ![f] = size]
<1>1. e \in Event /\ recorded \in Nat
  BY DEF Add, TypeOK, Event
<1>2. HarvestAll(F, buf, byt) \/ UNCHANGED <<buffer, inflight>>
  BY DEF Add, store
<1>3. buf \in Stores /\ F \in SUBSET Feature
  BY <1>1 DEF TypeOK, Stores
<1>4. /\ buffer[f] \in Seq(Event) /\ buf[f] = Append(buffer[f], e)
      /\ \A g \in Feature : g # f => buf[g] = buffer[g]
  BY DEF TypeOK
<1> HIDE DEF e, F, buf, byt
<1>5. /\ \A i \in DOMAIN buffer[f] : buffer[f][i] < e
      /\ \A r \in inflight : \A i \in DOMAIN r.body : r.body[i] < e
  <2>1. \A n \in Event : n <= recorded => n < e
    BY <1>1 DEF e, Event
  <2>2. \A i \in DOMAIN buffer[f] : buffer[f][i] \in Event
    BY <1>4
  <2>3. ASSUME NEW r \in inflight, NEW i \in DOMAIN r.body PROVE r.body[i] \in Event
    <3>1. r.body \in Seq(Event)
      BY DEF TypeOK, Request
    <3>2. QED BY <3>1
  <2>4. QED BY <2>1, <2>2, <2>3, PendingIsOlder
<1>6. \A g \in Feature : Ascending(buf[g])
  <2>1. Ascending(buf[f])
    BY <1>1, <1>4, <1>5, AscendingAppend DEF Ordered
  <2>2. QED BY <1>4, <2>1 DEF Ordered
<1>7. ASSUME NEW r \in inflight PROVE Ascending(r.body) /\ Before(r.body, buf[r.feature])
  <2>1. Ascending(r.body) /\ Before(r.body, buffer[r.feature]) /\ r.feature \in Feature
    BY DEF Ordered, TypeOK, Request
  <2>2. CASE r.feature = f
    <3>1. \A j \in DOMAIN buf[f] : (j \in DOMAIN buffer[f] /\ buf[f][j] = buffer[f][j])
                                    \/ buf[f][j] = e
      BY <1>4
    <3>2. QED BY <1>5, <2>1, <2>2, <3>1 DEF Before
  <2>3. CASE r.feature # f
    BY <1>4, <2>1, <2>3
  <2>4. QED BY <2>1, <2>2, <2>3
<1>8. Ordered(buf, inflight)
  BY <1>6, <1>7 DEF Ordered
<1>9. CASE HarvestAll(F, buf, byt)
  BY <1>3, <1>8, <1>9, HarvestAllOrders
<1>10. CASE UNCHANGED <<buffer, inflight>>
  BY <1>10
<1>11. QED BY <1>2, <1>9, <1>10

\* A retry is put in front of what was stored since
LEMMA AnswerOrders ==
  ASSUME TypeOK, IndInv, Ordered(buffer, inflight), NEW r \in inflight,
         NEW status \in Statuses, OnAnswer(r, status)
  PROVE  Ordered(buffer', inflight')
<1>1. RequestInv
  BY DEF IndInv, RequestInv
<1>2. /\ inflight' = inflight \ {r}
      /\ buffer' = buffer \/ buffer' = [buffer EXCEPT ![r.feature] = r.body \o buffer[r.feature]]
  BY <1>1, AnswerOutcome
<1>3. CASE buffer' = buffer
  BY <1>2, <1>3 DEF Ordered
<1>4. CASE buffer' = [buffer EXCEPT ![r.feature] = r.body \o buffer[r.feature]]
  <2> DEFINE f == r.feature
  <2>1. f \in Feature /\ r.body \in Seq(Event) /\ buffer[f] \in Seq(Event)
    BY DEF TypeOK, Request
  <2>2. buffer'[f] = r.body \o buffer[f] /\ \A g \in Feature : g # f => buffer'[g] = buffer[g]
    BY <1>4, <2>1, ZenonT(60) DEF TypeOK
  <2>3. \A q \in inflight' : q \in inflight /\ q.feature # f /\ q.feature \in Feature
    BY <1>1, <1>2 DEF RequestInv, OneRequestEach, TypeOK, Request
  <2>4. Ascending(buffer'[f])
    <3>1. Ascending(r.body) /\ Ascending(buffer[f]) /\ Before(r.body, buffer[f])
      BY <2>1 DEF Ordered
    <3> HIDE DEF f
    <3>2. QED BY <2>1, <2>2, <3>1, AscendingConcat DEF Before
  <2> HIDE DEF f
  <2>5. QED BY <2>2, <2>3, <2>4 DEF Ordered
<1>5. QED BY <1>2, <1>3, <1>4

\* Stores and requests keep the order in which the events were recorded, retries included:
\* reloadSave prepends what failed.
THEOREM OrderIsKept == MaxInFlight = 1 => (Spec => []Chronological)
<1> SUFFICES ASSUME MaxInFlight = 1 PROVE Spec => []Chronological
  OBVIOUS
<1> DEFINE Inv == Ordered(buffer, inflight)
<1>1. Init => Inv
  BY DEF Init, Ordered, Ascending
<1>2. TypeOK /\ IndInv /\ Inv /\ [Next]_vars => Inv'
  <2> SUFFICES ASSUME TypeOK, IndInv, Ordered(buffer, inflight), [Next]_vars
               PROVE  Ordered(buffer', inflight')
    OBVIOUS
  <2>1. buffer \in Stores
    BY DEF TypeOK, Stores
  <2>2. ASSUME UNCHANGED <<buffer, inflight>> PROVE Ordered(buffer', inflight')
    BY <2>2
  <2>3. ASSUME NEW f \in Feature, Add(f) PROVE Ordered(buffer', inflight')
    BY <2>3, AddOrders
  <2>4. CASE OnHarvestInterval
    BY <2>1, <2>4, HarvestAllOrders DEF OnHarvestInterval
  <2>5. ASSUME NEW f \in Feature, OnDrainTimer(f) PROVE Ordered(buffer', inflight')
    <3>1. {f} \in SUBSET Feature
      OBVIOUS
    <3>2. QED BY <2>1, <2>5, <3>1, HarvestAllOrders DEF OnDrainTimer
  <2>6. ASSUME NEW r \in inflight, NEW status \in Statuses, OnAnswer(r, status)
        PROVE  Ordered(buffer', inflight')
    BY <2>6, AnswerOrders
  <2>7. ASSUME NEW taken \in SUBSET Feature, OnEndOfLife(taken) PROVE Ordered(buffer', inflight')
    <3>1. /\ \A f \in Feature : buffer'[f] \in {buffer[f], <<>>}
          /\ inflight' = inflight
      BY <2>7 DEF OnEndOfLife
    <3>2. Ascending(<<>>) /\ \A s : Before(s, <<>>)
      BY DEF Ascending, Before
    <3>3. \A r \in inflight : r.feature \in Feature
      BY DEF TypeOK, Request
    <3>4. QED BY <3>1, <3>2, <3>3 DEF Ordered
  <2>8. CASE StartTimer \/ Abort \/ (\E accept \in BOOLEAN : Consent(accept))
             \/ \E f \in Feature : Block(f) \/ OnDrain(f)
    BY <2>2, <2>8 DEF StartTimer, Abort, Consent, Block, OnDrain, store
  <2>9. CASE UNCHANGED vars
    BY <2>2, <2>9 DEF vars, store
  <2>10. QED BY <2>3, <2>4, <2>5, <2>6, <2>7, <2>8, <2>9 DEF Next
<1>3. Inv => Chronological
  BY DEF Ordered, Before, Chronological
<1>4. QED BY <1>1, <1>2, <1>3, TypeCorrect, InvariantHolds, PTL DEF Spec
-----------------------------------------------------------------------------
(***************************************************************************)
(* Harvest implements EventDelivery                                        *)
(***************************************************************************)
FateOf(e) ==
  IF Pending(e) THEN "pending"
  ELSE IF acked[e] > 0 THEN "delivered"
  ELSE IF e \in givenUp THEN "givenUp" ELSE "new"

LEMMA SettlingIsSettle ==
  ASSUME IndInv, IndInv', Settling PROVE Delivery!Settle
<1> DEFINE D == {e \in Event : fate[e] = "pending" /\ fate'[e] = "delivered"}
           G == {e \in Event : fate[e] = "pending" /\ fate'[e] = "givenUp"}
<1>1. ASSUME NEW e \in Event
      PROVE  fate'[e] = IF e \in D THEN "delivered" ELSE IF e \in G THEN "givenUp" ELSE fate[e]
  <2>1. Fated(e, buffer, inflight, acked, givenUp, recorded)
    BY DEF IndInv, OneFate
  <2>2. Fated(e, buffer', inflight', acked', givenUp', recorded')
    BY DEF IndInv, OneFate
  <2>3. fate[e] = FateOf(e)
    BY DEF fate, FateOf
  <2>4. fate'[e] = FateOf(e)'
    BY DEF fate, FateOf
  <2>5. QED BY <2>1, <2>2, <2>3, <2>4 DEF FateOf, Fated, Pending, Settling
<1>2. fate' = [e \in Event |-> IF e \in D THEN "delivered"
                               ELSE IF e \in G THEN "givenUp" ELSE fate[e]]
  <2>1. fate' = [e \in Event |-> FateOf(e)'] /\ \A e \in Event : fate'[e] = FateOf(e)'
    BY DEF fate, FateOf
  <2>2. \A e \in Event : FateOf(e)' = IF e \in D THEN "delivered"
                                     ELSE IF e \in G THEN "givenUp" ELSE fate[e]
    BY <1>1, <2>1
  <2> HIDE DEF D, G
  <2>3. QED BY <2>1, <2>2
<1>3. D \in SUBSET {e \in Event : fate[e] = "pending"}
      /\ G \in SUBSET {e \in Event : fate[e] = "pending"}
  OBVIOUS
<1> HIDE DEF D, G
<1>4. QED BY <1>2, <1>3 DEF Delivery!Settle

LEMMA AddIsAcceptOrRefuse ==
  ASSUME MaxInFlight = 1, TypeOK, IndInv, NEW f \in Feature, Add(f)
  PROVE  \E e \in Event : Delivery!Accept(e) \/ Delivery!Refuse(e)
<1> DEFINE e == recorded + 1
<1>1. e \in Event /\ recorded \in Nat
  BY DEF Add, TypeOK, Event
<1>2. IndInv' /\ recorded' = e /\ acked' = acked /\ givenUp' \in {givenUp, givenUp \cup {e}}
  BY AddHolds
<1>3. ASSUME NEW d \in Event
      PROVE  /\ d # e => fate'[d] = fate[d]
             /\ d = e => fate[d] = "new" /\ fate'[d] \in {"pending", "givenUp"}
  <2>1. Fated(d, buffer, inflight, acked, givenUp, recorded)
    BY DEF IndInv, OneFate
  <2>2. Fated(d, buffer', inflight', acked', givenUp', recorded')
    BY <1>2 DEF IndInv, OneFate
  <2>3. fate[d] = FateOf(d) /\ fate'[d] = FateOf(d)'
    BY DEF fate, FateOf
  <2>4. (d <= e <=> d <= recorded \/ d = e) /\ (d = e => ~(d <= recorded))
    BY <1>1 DEF Event
  <2>5. acked[d] \in 0..2
    BY DEF TypeOK
  <2> HIDE DEF e
  <2>6. QED BY <1>2, <2>1, <2>2, <2>3, <2>4, <2>5 DEF FateOf, Fated, Pending
<1>4. fate' = [fate EXCEPT ![e] = fate'[e]]
  <2>1. fate = [d \in Event |-> fate[d]] /\ fate' = [d \in Event |-> fate'[d]]
    BY DEF fate
  <2>2. QED BY <1>1, <1>3, <2>1
<1> HIDE DEF e
<1>5. CASE fate'[e] = "pending"
  BY <1>1, <1>3, <1>4, <1>5 DEF Delivery!Accept
<1>6. CASE fate'[e] = "givenUp"
  BY <1>1, <1>3, <1>4, <1>6 DEF Delivery!Refuse
<1>7. QED BY <1>1, <1>3, <1>5, <1>6

\* The harvest cycle implements the delivery promise of EventDelivery: a pending
\* event is settled once, and nothing settled is ever pending again.
THEOREM HarvestDelivers == MaxInFlight = 1 => (Spec => Delivery!Spec)
<1> SUFFICES ASSUME MaxInFlight = 1 PROVE Spec => Delivery!Spec
  OBVIOUS
<1>1. Init => Delivery!Init
  <2> SUFFICES ASSUME Init PROVE fate = [e \in Event |-> "new"]
    BY DEF Delivery!Init
  <2>1. \A e \in Event : ~Pending(e) /\ acked[e] = 0 /\ e \notin givenUp
    BY InEmpty DEF Init, Pending, PendingIn, BufferedIn, OnTheWire
  <2>2. QED BY <2>1 DEF fate
<1>2. TypeOK /\ IndInv /\ IndInv' /\ [Next]_vars => [Delivery!Next]_fate
  <2> SUFFICES ASSUME TypeOK, IndInv, IndInv', [Next]_vars PROVE Delivery!Next
    OBVIOUS
  <2>1. CASE Settling
    BY <2>1, SettlingIsSettle DEF Delivery!Next
  <2>2. ASSUME NEW f \in Feature, Add(f) PROVE Delivery!Next
    BY <2>2, AddIsAcceptOrRefuse DEF Delivery!Next
  <2>3. QED BY <2>1, <2>2, StepHolds
<1>3. QED BY <1>1, <1>2, TypeCorrect, InvariantHolds, PTL DEF Spec, Delivery!Spec
-----------------------------------------------------------------------------
(***************************************************************************)
(* Byte counts: the sum over a concatenation, and the invariant that what  *)
(* is stored and what is saved both carry the sum of their events.         *)
(***************************************************************************)
T == INSTANCE Folding WITH Op <- Total

LEMMA SameFold == \A v, q : FoldLeft(Total, v, q) = T!FoldLeft(Total, v, q)
BY DEF FoldLeft, T!FoldLeft, MapThenFoldSet, T!MapThenFoldSet, Max, T!Max

SumOf(q) == FoldLeft(Total, 0, q)

LEMMA TotalClosed == \A w \in Nat, e \in Nat : Total(w, e) \in Nat
BY DEF Total

LEMMA SumIsNat == ASSUME NEW q \in Seq(Nat) PROVE SumOf(q) \in Nat
<1>1. 0 \in Nat
  OBVIOUS
<1>2. T!FoldLeft(Total, 0, q) \in Nat
  BY <1>1, TotalClosed, T!FoldStays, Zenon
<1>3. QED BY <1>2, SameFold DEF SumOf

LEMMA SumAppend ==
  ASSUME NEW q \in Seq(Nat), NEW n \in Nat PROVE SumOf(Append(q, n)) = SumOf(q) + n
<1>1. 0 \in Nat
  OBVIOUS
<1>2. T!AppliesOnce(0, q, n)
  BY <1>1, TotalClosed, T!FoldAppend, Zenon
<1>3. QED BY <1>2, SameFold DEF SumOf, Total, T!AppliesOnce

LEMMA SumConcat ==
  ASSUME NEW s \in Seq(Nat), NEW t \in Seq(Nat) PROVE SumOf(s \o t) = SumOf(s) + SumOf(t)
<1> DEFINE S == {n \in Nat : \A u \in Seq(Nat) : Len(u) = n => SumOf(s \o u) = SumOf(s) + SumOf(u)}
<1>1. 0 \in S
  <2> SUFFICES ASSUME NEW u \in Seq(Nat), Len(u) = 0 PROVE SumOf(s \o u) = SumOf(s) + SumOf(u)
    OBVIOUS
  <2>1. u = <<>> /\ s \o u = s
    OBVIOUS
  <2>2. SumOf(<<>>) = 0
    <3>1. 0 \in Nat /\ <<>> \in Seq(Nat) /\ Len(<<>>) = 0
      OBVIOUS
    <3>2. T!FoldLeft(Total, 0, <<>>) = 0
      <4> DEFINE g == [m \in {0} |-> 0]
      <4>1. T!Chain(g, 0, <<>>) /\ g[Len(<<>>)] = 0
        BY <3>1 DEF T!Chain
      <4> HIDE DEF g
      <4>2. T!EndsWith(0, <<>>, g)
        BY <3>1, <4>1, TotalClosed, T!FoldIsChain, Zenon
      <4>3. QED BY <4>1, <4>2 DEF T!EndsWith
    <3>3. QED BY <3>2, SameFold DEF SumOf
  <2>3. SumOf(s) \in Nat
    BY SumIsNat
  <2>4. QED BY <2>1, <2>2, <2>3
<1>2. ASSUME NEW n \in S \cap Nat PROVE n + 1 \in S
  <2> SUFFICES ASSUME NEW u \in Seq(Nat), Len(u) = n + 1
               PROVE  SumOf(s \o u) = SumOf(s) + SumOf(u)
    OBVIOUS
  <2> DEFINE front == SubSeq(u, 1, n)
             last == u[n + 1]
  <2>1. n \in Nat /\ last \in Nat
    OBVIOUS
  <2>2. front \in Seq(Nat) /\ Len(front) = n /\ u = Append(front, last)
    <3>1. front \in Seq(Nat) /\ Len(front) = n /\ \A i \in 1..n : front[i] = u[i]
      BY <2>1
    <3>2. Append(front, last) \in Seq(Nat) /\ Len(Append(front, last)) = n + 1
          /\ Append(front, last)[n + 1] = last /\ \A i \in 1..n : Append(front, last)[i] = front[i]
      <4> HIDE DEF front, last
      <4>1. QED BY <2>1, <3>1, SMTT(60)
    <3> DEFINE p == Append(front, last)
    <3>3. \A i \in 1..(n + 1) : p[i] = u[i]
      BY <2>1, <3>1, <3>2
    <3> HIDE DEF p
    <3>4. p = u
      BY <2>1, <3>2, <3>3 DEF p
    <3>5. QED BY <3>1, <3>4 DEF p
  <2> HIDE DEF front, last
  <2>3. s \o u = Append(s \o front, last)
    <3>1. s \o front \in Seq(Nat) /\ <<last>> \in Seq(Nat)
      BY <2>1, <2>2
    <3>2. Append(front, last) = front \o <<last>>
      BY <2>1, <2>2, AppendIsConcat, ZenonT(60)
    <3>3. Append(s \o front, last) = (s \o front) \o <<last>>
      BY <2>1, <3>1, AppendIsConcat, ZenonT(60)
    <3>4. (s \o front) \o <<last>> = s \o (front \o <<last>>)
      BY <2>2, <3>1, ConcatAssociative, SMTT(20), ZenonT(60)
    <3>5. QED BY <2>2, <3>2, <3>3, <3>4
  <2>4. SumOf(s \o front) = SumOf(s) + SumOf(front)
    BY <2>1, <2>2
  <2>5. s \o front \in Seq(Nat) /\ SumOf(s) \in Nat /\ SumOf(front) \in Nat
    BY <2>2, SumIsNat
  <2>6. SumOf(Append(s \o front, last)) = SumOf(s \o front) + last
    BY <2>1, <2>5, SumAppend, Zenon
  <2>7. SumOf(Append(front, last)) = SumOf(front) + last
    BY <2>1, <2>2, SumAppend, Zenon
  <2>8. SumOf(u) = SumOf(front) + last
    BY <2>2, <2>7
  <2>9. SumOf(s \o u) = SumOf(s \o front) + last
    BY <2>3, <2>6
  <2>10. QED BY <2>1, <2>4, <2>5, <2>8, <2>9
<1>3. \A n \in Nat : n \in S
  <2> HIDE DEF S
  <2>1. QED BY <1>1, <1>2, T!Induct
<1>4. Len(t) \in Nat
  OBVIOUS
<1>5. QED BY <1>3, <1>4


LEMMA ConcatNat ==
  \A s, t \in Seq(Nat) :
    /\ s \o t \in Seq(Nat)
    /\ Len(s \o t) = Len(s) + Len(t)
    /\ \A i \in 1..Len(s) + Len(t) : (s \o t)[i] = IF i <= Len(s) THEN s[i] ELSE t[i - Len(s)]
BY ConcatProperties, Zenon

LEMMA AppendNat ==
  \A s \in Seq(Nat), n \in Nat :
    /\ Append(s, n) \in Seq(Nat)
    /\ Append(s, n) # <<>>
    /\ Len(Append(s, n)) = Len(s) + 1
    /\ \A i \in 1..Len(s) : Append(s, n)[i] = s[i]
    /\ Append(s, n)[Len(s) + 1] = n
BY AppendProperties, Zenon

LEMMA SizesTyped ==
  ASSUME NEW f \in Feature, NEW s \in Seq(Event)
  PROVE  Sizes(f, s) \in Seq(Nat) /\ Len(Sizes(f, s)) = Len(s)
<1>1. \A e \in Event : SizeIn(f, e) \in Nat
  BY DEF SizeIn
<1>2. DOMAIN s = 1..Len(s) /\ Len(s) \in Nat /\ \A i \in 1..Len(s) : s[i] \in Event
  OBVIOUS
<1>3. QED BY <1>1, <1>2 DEF Sizes

LEMMA BytesAreNat == ASSUME NEW f \in Feature, NEW s \in Seq(Event) PROVE BytesOf(f, s) \in Nat
<1>1. SumOf(Sizes(f, s)) \in Nat
  BY SizesTyped, SumIsNat
<1>2. QED BY <1>1 DEF BytesOf, SumOf

\* The byte count of two stores put together is the sum of their byte counts.
LEMMA BytesConcat ==
  ASSUME NEW f \in Feature, NEW s \in Seq(Event), NEW t \in Seq(Event)
  PROVE  BytesOf(f, s \o t) = BytesOf(f, s) + BytesOf(f, t)
<1>1. s \o t \in Seq(Event) /\ Len(s \o t) = Len(s) + Len(t)
  OBVIOUS
<1> DEFINE a == Sizes(f, s)
           b == Sizes(f, t)
           c == Sizes(f, s \o t)
<1>2. a \in Seq(Nat) /\ b \in Seq(Nat) /\ c \in Seq(Nat)
      /\ Len(a) = Len(s) /\ Len(b) = Len(t) /\ Len(c) = Len(s) + Len(t)
  BY <1>1, SizesTyped, ZenonT(60)
<1>3. ASSUME NEW i \in 1..(Len(s) + Len(t)) PROVE c[i] = (a \o b)[i]
  <2>0. Len(s) \in Nat /\ Len(t) \in Nat
    OBVIOUS
  <2>1. c[i] = SizeIn(f, (s \o t)[i])
    BY <1>1 DEF Sizes
  <2>2. CASE i <= Len(s)
    <3>1. (s \o t)[i] = s[i] /\ i \in DOMAIN s /\ a[i] = SizeIn(f, s[i])
      BY <2>2 DEF Sizes
    <3> HIDE DEF a, b, c
    <3>2. QED BY <1>2, <2>1, <2>2, <3>1, SMTT(60)
  <2>3. CASE i > Len(s)
    <3>1. (s \o t)[i] = t[i - Len(s)] /\ i - Len(s) \in DOMAIN t
          /\ b[i - Len(s)] = SizeIn(f, t[i - Len(s)])
      BY <2>3 DEF Sizes
    <3> HIDE DEF a, b, c
    <3>2. \A k \in 1..Len(a) + Len(b) :
             (a \o b)[k] = IF k <= Len(a) THEN a[k] ELSE b[k - Len(a)]
      BY <1>2, ConcatNat, Zenon
    <3>3. i \in 1..Len(a) + Len(b) /\ Len(a) = Len(s) /\ ~(i <= Len(a))
      BY <1>2, <2>0, <2>3
    <3>4. (a \o b)[i] = b[i - Len(a)]
      BY <3>2, <3>3, Zenon
    <3>5. QED BY <2>1, <3>1, <3>3, <3>4, Zenon
  <2> HIDE DEF a, b, c
  <2>4. i <= Len(s) \/ i > Len(s)
    BY <2>0
  <2>5. QED BY <2>2, <2>3, <2>4, Zenon
<1> HIDE DEF a, b, c
<1>4. a \o b \in Seq(Nat) /\ Len(a \o b) = Len(s) + Len(t)
  <2>1. a \o b \in Seq(Nat) /\ Len(a \o b) = Len(a) + Len(b)
    BY <1>2, ConcatNat, Zenon
  <2>2. Len(a) = Len(s) /\ Len(b) = Len(t)
    BY <1>2
  <2>3. QED BY <2>1, <2>2, Zenon
<1> DEFINE d == a \o b
<1>5. \A i \in 1..(Len(s) + Len(t)) : c[i] = d[i]
  BY <1>3
<1>6. d \in Seq(Nat) /\ Len(d) = Len(s) + Len(t)
  BY <1>4
<1> HIDE DEF d
<1>7. c = d
  BY <1>2, <1>5, <1>6
<1>8. SumOf(c) = SumOf(a) + SumOf(b)
  BY <1>2, <1>7, SumConcat DEF d
<1>9. QED BY <1>8 DEF BytesOf, SumOf, a, b, c

LEMMA BytesEmpty == ASSUME NEW f \in Feature PROVE BytesOf(f, <<>>) = 0
<1>1. <<>> \in Seq(Event) /\ <<>> \o <<>> = <<>>
  OBVIOUS
<1>2. BytesOf(f, <<>>) = BytesOf(f, <<>>) + BytesOf(f, <<>>)
  BY <1>1, BytesConcat
<1>3. BytesOf(f, <<>>) \in Nat
  BY <1>1, BytesAreNat
<1>4. QED BY <1>2, <1>3

LEMMA BytesAppend ==
  ASSUME NEW f \in Feature, NEW s \in Seq(Event), NEW e \in Event
  PROVE  BytesOf(f, Append(s, e)) = BytesOf(f, s) + SizeIn(f, e)
<1>1. SizeIn(f, e) \in Nat
  BY DEF SizeIn
<1>2. Sizes(f, Append(s, e)) = Append(Sizes(f, s), SizeIn(f, e))
  <2> DEFINE a == Sizes(f, Append(s, e))
             b == Append(Sizes(f, s), SizeIn(f, e))
  <2>1. Append(s, e) \in Seq(Event) /\ Len(Append(s, e)) = Len(s) + 1
    OBVIOUS
  <2>2. a \in Seq(Nat) /\ Len(a) = Len(s) + 1 /\ b \in Seq(Nat) /\ Len(b) = Len(s) + 1
    <3> DEFINE p == Sizes(f, s)
               n == SizeIn(f, e)
    <3>1. p \in Seq(Nat) /\ Len(p) = Len(s) /\ n \in Nat
      BY <1>1, SizesTyped
    <3>2. a \in Seq(Nat) /\ Len(a) = Len(s) + 1
      BY <2>1, SizesTyped
    <3> HIDE DEF p, n
    <3>3. Append(p, n) \in Seq(Nat) /\ Len(Append(p, n)) = Len(p) + 1
      BY <3>1, AppendNat
    <3>4. QED BY <3>1, <3>2, <3>3 DEF p, n
  <2>3. ASSUME NEW i \in 1..(Len(s) + 1) PROVE a[i] = b[i]
    <3>1. a[i] = SizeIn(f, Append(s, e)[i])
      BY <2>1 DEF Sizes
    <3>2. CASE i = Len(s) + 1
      <4>1. Append(s, e)[i] = e
        BY <3>2
      <4>2. b[i] = SizeIn(f, e)
        <5> DEFINE p == Sizes(f, s)
                   n == SizeIn(f, e)
        <5>1. p \in Seq(Nat) /\ Len(p) = Len(s) /\ n \in Nat
          BY <1>1, SizesTyped
        <5> HIDE DEF p, n
        <5>2. Append(p, n)[Len(p) + 1] = n
          BY <5>1, AppendNat
        <5>3. QED BY <3>2, <5>1, <5>2 DEF p, n
      <4>3. QED BY <3>1, <4>1, <4>2
    <3>3. CASE i \in 1..Len(s)
      <4>1. Append(s, e)[i] = s[i]
        BY <3>3
      <4>2. b[i] = SizeIn(f, s[i])
        <5> DEFINE p == Sizes(f, s)
                   n == SizeIn(f, e)
        <5>1. p \in Seq(Nat) /\ Len(p) = Len(s) /\ n \in Nat
          BY <1>1, SizesTyped
        <5>2. p[i] = SizeIn(f, s[i])
          BY <3>3 DEF Sizes
        <5> HIDE DEF p, n
        <5>3. Append(p, n)[i] = p[i]
          BY <3>3, <5>1
        <5>4. QED BY <5>2, <5>3 DEF p, n
      <4>3. QED BY <3>1, <4>1, <4>2
    <3>4. Len(s) \in Nat
      OBVIOUS
    <3> HIDE DEF a, b
    <3>5. QED BY <3>2, <3>3, <3>4
  <2> HIDE DEF a, b
  <2>4. a = b
    BY <2>2, <2>3
  <2>5. QED BY <2>4 DEF a, b
<1>3. SumOf(Append(Sizes(f, s), SizeIn(f, e))) = SumOf(Sizes(f, s)) + SizeIn(f, e)
  BY <1>1, SizesTyped, SumAppend
<1>4. QED BY <1>2, <1>3 DEF BytesOf, SumOf

\* The count is exact in each store, and in each saved copy.
Exact(buf, byt, saved) ==
  \A f \in Feature :
    /\ byt[f] = BytesOf(f, buf[f])
    /\ saved[f] # NoSave => saved[f].bytes = BytesOf(f, saved[f].events)

LEMMA HarvestAllExact ==
  ASSUME TypeOK, NEW F \in SUBSET Feature, NEW buf \in Stores,
         NEW byt \in [Feature -> 0..MaxPayload], Exact(buf, byt, backup),
         HarvestAll(F, buf, byt)
  PROVE  Exact(buffer', bytes', backup')
<1> SUFFICES ASSUME NEW f \in Feature
             PROVE  /\ bytes'[f] = BytesOf(f, buffer'[f])
                    /\ backup'[f] # NoSave => backup'[f].bytes = BytesOf(f, backup'[f].events)
  BY DEF Exact
<1> DEFINE S == {g \in F : Harvestable(g) /\ buf[g] # <<>>}
<1>1. /\ buffer'[f] = (IF f \in S THEN <<>> ELSE buf[f])
      /\ bytes'[f] = (IF f \in S THEN 0 ELSE byt[f])
      /\ backup'[f] = (IF f \in S /\ ShouldRetryOnFail THEN [events |-> buf[f], bytes |-> byt[f]]
                       ELSE backup[f])
  BY DEF HarvestAll
<1> HIDE DEF S
<1>2. bytes'[f] = BytesOf(f, buffer'[f])
  BY <1>1, BytesEmpty DEF Exact
<1>3. ASSUME backup'[f] # NoSave PROVE backup'[f].bytes = BytesOf(f, backup'[f].events)
  BY <1>1, <1>3 DEF Exact
<1>4. QED BY <1>2, <1>3

LEMMA AddExact ==
  ASSUME TypeOK, Exact(buffer, bytes, backup), NEW f \in Feature, Add(f)
  PROVE  Exact(buffer', bytes', backup')
<1> DEFINE e == recorded + 1
           size == bytes[f] + SizeIn(f, e)
           F == IF WantsEarlyHarvest(f, size) THEN {f} ELSE {}
           buf == [buffer EXCEPT ![f] = Append(@, e)]
           byt == [bytes EXCEPT ![f] = size]
<1>1. CASE UNCHANGED <<store, inflight>>
  BY <1>1 DEF store
<1>2. CASE size <= MaxPayload /\ HarvestAll(F, buf, byt)
  <2>1. e \in Event
    BY DEF Add, TypeOK, Event
  <2>2. size \in 0..MaxPayload
    BY <1>2, <2>1 DEF SizeIn, TypeOK
  <2>3. \A g \in Feature : buf[g] = IF g = f THEN Append(buffer[f], e) ELSE buffer[g]
    BY DEF TypeOK
  <2>4. \A g \in Feature : byt[g] = IF g = f THEN size ELSE bytes[g]
    BY DEF TypeOK
  <2>5. buf \in Stores /\ byt \in [Feature -> 0..MaxPayload] /\ F \in SUBSET Feature
    BY <2>1, <2>2 DEF TypeOK, Stores
  <2>6. BytesOf(f, Append(buffer[f], e)) = BytesOf(f, buffer[f]) + SizeIn(f, e)
    BY <2>1, BytesAppend DEF TypeOK
  <2>7. size = BytesOf(f, Append(buffer[f], e))
    BY <2>6 DEF Exact
  <2>8. HarvestAll(F, buf, byt)
    BY <1>2
  <2> HIDE DEF buf, byt, size, e, F
  <2>9. Exact(buf, byt, backup)
    BY <2>3, <2>4, <2>7 DEF Exact
  <2>10. QED BY <2>5, <2>8, <2>9, HarvestAllExact
<1>3. QED BY <1>1, <1>2 DEF Add

LEMMA AnswerExact ==
  ASSUME TypeOK, Exact(buffer, bytes, backup), NEW r \in inflight, NEW status \in Statuses,
         OnAnswer(r, status)
  PROVE  Exact(buffer', bytes', backup')
<1> DEFINE f == r.feature
           retry == status # 0 /\ ShouldRetry(status)
<1>1. f \in Feature
  BY DEF TypeOK, Request
<1>2. CASE UNCHANGED <<store, result>>
  BY <1>2 DEF store
<1>3. CASE PostHarvestCleanup(f, retry)
  <2>1. backup' = [backup EXCEPT ![f] = NoSave]
    BY <1>3 DEF PostHarvestCleanup
  <2>2. \A g \in Feature : backup'[g] = IF g = f THEN NoSave ELSE backup[g]
    BY <2>1 DEF TypeOK
  <2>3. CASE UNCHANGED <<buffer, bytes>>
    BY <2>2, <2>3 DEF Exact
  <2>4. CASE /\ backup[f] # NoSave
             /\ buffer' = [buffer EXCEPT ![f] = backup[f].events \o @]
             /\ bytes' = [bytes EXCEPT ![f] = backup[f].bytes + @]
    <3>1. /\ \A g \in Feature : buffer'[g] = IF g = f THEN backup[f].events \o buffer[f]
                 ELSE buffer[g]
          /\ \A g \in Feature : bytes'[g] = IF g = f THEN backup[f].bytes + bytes[f] ELSE bytes[g]
      BY <2>4 DEF TypeOK
    <3>2. backup[f].events \in Seq(Event) /\ buffer[f] \in Seq(Event)
      BY <1>1, <2>4 DEF TypeOK, Backup
    <3>3. BytesOf(f, backup[f].events \o buffer[f])
            = BytesOf(f, backup[f].events) + BytesOf(f, buffer[f])
      BY <1>1, <3>2, BytesConcat
    <3>4. backup[f].bytes = BytesOf(f, backup[f].events) /\ bytes[f] = BytesOf(f, buffer[f])
      BY <1>1, <2>4 DEF Exact
    <3> HIDE DEF f
    <3>5. QED BY <1>1, <2>2, <3>1, <3>3, <3>4 DEF Exact
  <2>5. QED BY <1>3, <2>3, <2>4, ZenonT(60) DEF PostHarvestCleanup, Reloads
<1>4. QED BY <1>2, <1>3 DEF OnAnswer

\* EventBuffer.#rawBytes is the sum of the sizes of the events in the buffer, whatever
\* is added, harvested, saved and reloaded, with any number of requests unanswered.
THEOREM CountsAreExact == Spec => []BytesAreExact
<1>1. Init => Exact(buffer, bytes, backup)
  BY BytesEmpty DEF Init, Exact
<1>2. TypeOK /\ Exact(buffer, bytes, backup) /\ [Next]_vars => Exact(buffer, bytes, backup)'
  <2> SUFFICES ASSUME TypeOK, Exact(buffer, bytes, backup), [Next]_vars
               PROVE  Exact(buffer', bytes', backup')
    BY DEF Exact
  <2>1. ASSUME UNCHANGED <<buffer, bytes, backup>> PROVE Exact(buffer', bytes', backup')
    BY <2>1
  <2>2. buffer \in Stores /\ bytes \in [Feature -> 0..MaxPayload]
    BY DEF TypeOK, Stores
  <2>3. ASSUME NEW f \in Feature, Add(f) PROVE Exact(buffer', bytes', backup')
    BY <2>3, AddExact
  <2>4. CASE OnHarvestInterval
    <3>1. HarvestAll(Feature, buffer, bytes)
      BY <2>4 DEF OnHarvestInterval
    <3>2. QED BY <2>2, <3>1, HarvestAllExact
  <2>5. ASSUME NEW f \in Feature, OnDrainTimer(f) PROVE Exact(buffer', bytes', backup')
    <3>1. HarvestAll({f}, buffer, bytes)
      BY <2>5 DEF OnDrainTimer
    <3>2. QED BY <2>2, <3>1, HarvestAllExact
  <2>6. ASSUME NEW taken, OnEndOfLife(taken) PROVE Exact(buffer', bytes', backup')
    <3> DEFINE S == {f \in Feature : Harvestable(f) /\ buffer[f] # <<>>}
    <3>1. /\ buffer' = [f \in Feature |-> IF f \in S THEN <<>> ELSE buffer[f]]
          /\ bytes' = [f \in Feature |-> IF f \in S THEN 0 ELSE bytes[f]]
          /\ backup' = backup
      BY <2>6 DEF OnEndOfLife
    <3> HIDE DEF S
    <3>2. QED BY <3>1, BytesEmpty DEF Exact
  <2>7. ASSUME NEW r \in inflight, NEW status \in Statuses, OnAnswer(r, status)
        PROVE  Exact(buffer', bytes', backup')
    BY <2>7, AnswerExact
  <2>8. CASE StartTimer \/ Abort
    BY <2>1, <2>8 DEF StartTimer, Abort, store
  <2>9. ASSUME NEW f \in Feature, OnDrain(f) \/ Block(f) PROVE Exact(buffer', bytes', backup')
    BY <2>1, <2>9 DEF OnDrain, Block, store
  <2>10. ASSUME NEW accept, Consent(accept) PROVE Exact(buffer', bytes', backup')
    BY <2>1, <2>10 DEF Consent, store
  <2>11. CASE UNCHANGED vars
    BY <2>1, <2>11 DEF vars, store
  <2>12. QED BY <2>3, <2>4, <2>5, <2>6, <2>7, <2>8, <2>9, <2>10, <2>11 DEF Next
<1>3. Exact(buffer, bytes, backup) => BytesAreExact
  BY DEF Exact, BytesAreExact
<1>4. QED BY <1>1, <1>2, <1>3, TypeCorrect, PTL DEF Spec
-----------------------------------------------------------------------------

HIDE FeatureAssumption
HIDE SizeAssumption
HIDE NetworkAssumption
USE BridgeAssumption

Regs == {"pending", "ok", "failed"}
States == {"new", "waiting", "open", "closed"}
Stages == {"absent", "listening", "draining", "ready"}
AllKinds == {"none", "register", "timing", "report", "deregister", "vitals"}

Frames == [reg : Regs, blocked : BOOLEAN, calls : Calls, counter : Nat,
           waiting : Seq(Calls), timers : SUBSET Calls]
CallTypes == [kind : AllKinds, state : States, id : Nat, closedBy : Calls \cup {None}]
Messages == [kind : AllKinds, id : Nat, call : Calls \cup {None}]
Answers == [id : Nat, call : Calls \cup {None}, error : BOOLEAN, entity : BOOLEAN,
    blocked : BOOLEAN]
ContainerTypes == [kind : Containers, stage : Stages, queue : Seq(Messages), known : BOOLEAN,
                   blocked : BOOLEAN, reportedAt : BOOLEAN, timings : Nat]
Worlds == [frame : Frames, call : [Calls -> CallTypes], container : ContainerTypes,
           up : Seq(Messages), down : Seq(Answers)]

\* The ids that were given out: at most the counter, and no two calls share one
IdsAreFresh(w) ==
  /\ \A c \in Calls : w.call[c].id <= w.frame.counter
  /\ \A b, c \in Calls : w.call[b].id = w.call[c].id /\ w.call[c].id > 0 => b = c

\* A call that was not posted has no id; what waits is waiting, once, and is not the first
CallsAreOrdered(w) ==
  /\ \A c \in Calls : c > w.frame.calls => w.call[c].state = "new"
  /\ \A c \in Calls : w.call[c].state \in {"new", "waiting"} => w.call[c].id = 0
  /\ \A c \in Calls : w.call[c].state # "new" => w.call[c].kind \in Kinds \cup {"register"}
  /\ \A i \in DOMAIN w.frame.waiting : w.call[w.frame.waiting[i]].state = "waiting"
  /\ \A i, j \in DOMAIN w.frame.waiting : w.frame.waiting[i] = w.frame.waiting[j] => i = j
  /\ \A c \in w.frame.timers : w.call[c].id > 0

\* A message carries the id of its call
Names(w, m) == m.call \in Calls /\ m.id = w.call[m.call].id /\ m.id > 0
UnderWay(w) == Range(w.up) \cup Range(w.container.queue)
MessagesName(w) ==
  /\ \A m \in UnderWay(w) : m.kind \notin OneWay => Names(w, m)
  /\ \A a \in Range(w.down) : Names(w, a)

ClosedByItsOwn(w) == \A c \in Calls : w.call[c].closedBy \in {None, c}

\* The registration is the first message and the only one until it is answered
RegisterIsFirst(w) ==
  /\ w.call[1].state = "open" => w.frame.reg = "pending"
  /\ w.call[1].id = 1 /\ w.call[1].state \in {"open", "closed"}
  /\ \A c \in Calls : w.call[c].kind = "register" <=> c = 1
  /\ w.frame.reg # "ok" =>
       /\ Len(w.up) + Len(w.container.queue) + Len(w.down) <= 1
       /\ \A m \in UnderWay(w) : m.kind = "register"
  /\ w.frame.reg = "ok" => \A m \in UnderWay(w) : m.kind # "register"

\* The entity of the container
Reported(c) ==
  /\ c.timings = IF c.reportedAt THEN 1 ELSE 0
  /\ c.reportedAt => c.known
  /\ c.known /\ c.blocked => c.reportedAt
ReportedOnce(w) ==
  /\ Reported(w.container)
  /\ (\E m \in UnderWay(w) : m.kind = "register") => ~w.container.known /\ ~w.container.blocked

Good(w) ==
  /\ w \in Worlds
  /\ IdsAreFresh(w) /\ CallsAreOrdered(w) /\ MessagesName(w) /\ ClosedByItsOwn(w)
  /\ RegisterIsFirst(w) /\ ReportedOnce(w)

IInv == Good(World)
-----------------------------------------------------------------------------
LEMMA CallsAreNumbers == /\ 1 \in Calls /\ Calls \subseteq Nat \ {0} /\ None \notin Calls
                         /\ Kinds \subseteq AllKinds
  BY DEF Calls, None, AllKinds

\* What is in a sequence after it grew or lost its head
LEMMA RangeFacts ==
  ASSUME NEW S, NEW s \in Seq(S)
  PROVE  /\ Range(s) \subseteq S
         /\ \A x \in S : Append(s, x) \in Seq(S) /\ Range(Append(s, x)) = Range(s) \cup {x}
                         /\ Len(Append(s, x)) = Len(s) + 1
         /\ s # <<>> => /\ Head(s) \in Range(s) /\ Tail(s) \in Seq(S)
                        /\ Range(Tail(s)) \subseteq Range(s) /\ Len(Tail(s)) = Len(s) - 1
         /\ s = <<>> <=> Len(s) = 0
         /\ s = <<>> <=> Range(s) = {}
         /\ Len(s) \in Nat
<1>1. Range(s) \subseteq S
  BY DEF Range
<1>2. ASSUME NEW x \in S
      PROVE  Append(s, x) \in Seq(S) /\ Range(Append(s, x)) = Range(s) \cup {x}
             /\ Len(Append(s, x)) = Len(s) + 1
  <2>1. /\ Append(s, x) \in Seq(S) /\ DOMAIN Append(s, x) = DOMAIN s \cup {Len(s) + 1}
        /\ Append(s, x)[Len(s) + 1] = x
        /\ Len(Append(s, x)) = Len(s) + 1
    BY AppendProperties
  <2>2. \A i \in DOMAIN s : Append(s, x)[i] = s[i]
    BY AppendProperties
  <2>3. QED BY <2>1, <2>2 DEF Range
<1>3. ASSUME s # <<>>
      PROVE  /\ Head(s) \in Range(s) /\ Tail(s) \in Seq(S)
             /\ Range(Tail(s)) \subseteq Range(s) /\ Len(Tail(s)) = Len(s) - 1
  <2>1. Head(s) = s[1] /\ 1 \in DOMAIN s
    BY <1>3
  <2>2. Tail(s) \in Seq(S) /\ Len(Tail(s)) = Len(s) - 1
    BY <1>3
  <2>3. ASSUME NEW i \in DOMAIN Tail(s)
        PROVE  i + 1 \in DOMAIN s /\ Tail(s)[i] = s[i + 1]
    BY <1>3
  <2>4. Range(Tail(s)) \subseteq Range(s)
    BY <2>3 DEF Range
  <2>5. QED BY <2>1, <2>2, <2>4 DEF Range
<1>4. s = <<>> <=> Len(s) = 0
  BY EmptySeq
<1>5. s = <<>> <=> Range(s) = {}
  <2>1. DOMAIN s = {} <=> Len(s) = 0
    OBVIOUS
  <2>2. QED BY <2>1, <1>4 DEF Range
<1>6. QED BY <1>1, <1>2, <1>3, <1>4, <1>5

-----------------------------------------------------------------------------
LEMMA FieldTypes ==
  ASSUME NEW w \in Worlds
  PROVE  /\ w.frame \in Frames /\ w.container \in ContainerTypes
         /\ w.call \in [Calls -> CallTypes]
         /\ w.up \in Seq(Messages) /\ w.container.queue \in Seq(Messages)
         /\ w.down \in Seq(Answers)
  BY DEF Worlds, ContainerTypes

\* #postMessageToParent
LEMMA PostGood ==
  ASSUME NEW w, Good(w), NEW s \in Seq(Calls), w.frame.reg = "ok",
         \A i \in DOMAIN s : /\ w.call[s[i]].state \in {"new", "waiting"}
                             /\ s[i] <= w.frame.calls
                             /\ w.call[s[i]].kind \in Kinds
         , \A i, j \in DOMAIN s : s[i] = s[j] => i = j,
         \A i \in DOMAIN s, j \in DOMAIN w.frame.waiting : w.frame.waiting[j] # s[i]
  PROVE  Good(Post(w, s)) /\ Post(w, s).frame.reg = "ok"
<1> DEFINE v    == Post(w, s)
           p(c) == Position(s, c)
           new  == [i \in DOMAIN s |-> Message(w, s[i], w.frame.counter + i)]
<1>1. w \in Worlds /\ w.frame \in Frames /\ w.container \in ContainerTypes
      /\ w.call \in [Calls -> CallTypes] /\ w.up \in Seq(Messages)
      /\ w.container.queue \in Seq(Messages) /\ w.down \in Seq(Answers)
  BY FieldTypes DEF Good
<1>2. \A c \in Range(s) : c \in Calls /\ p(c) \in DOMAIN s /\ s[p(c)] = c
  BY DEF Range, Position
<1>3. \A i \in DOMAIN s : s[i] \in Range(s) /\ p(s[i]) = i
  BY <1>2 DEF Range
<1>4. /\ DOMAIN s = 1..Len(s) /\ Len(s) \in Nat
      /\ w.frame.counter \in Nat
  BY <1>1 DEF Frames
<1>5. \A c \in Range(s) : /\ w.call[c].state \in {"new", "waiting"}
                          /\ c <= w.frame.calls /\ w.call[c].kind \in Kinds
                          /\ w.call[c].id = 0
  BY <1>2 DEF Good, CallsAreOrdered
<1>a. /\ \A c \in Calls : w.call[c].id \in Nat /\ w.call[c].id <= w.frame.counter
      /\ \A c \in Range(s) : p(c) \in Nat /\ p(c) > 0 /\ p(c) <= Len(s)
  BY <1>1, <1>2, <1>4 DEF Good, IdsAreFresh, CallTypes
<1> DEFINE f == [w.frame EXCEPT !.counter = @ + Len(s),
                   !.timers = @ \cup {c \in Range(s) : w.call[c].kind \notin OneWay}]
           g == [c \in Calls |->
                   IF c \notin Range(s) THEN w.call[c]
                   ELSE IF w.call[c].kind \in OneWay THEN [w.call[c] EXCEPT !.state = "closed"]
                   ELSE [w.call[c] EXCEPT !.state = "open", !.id = w.frame.counter + p(c)]]
<1>b. v = [frame |-> f, call |-> g, container |-> w.container, up |-> w.up \o new, down |-> w.down]
  <2>1. w = [frame |-> w.frame, call |-> w.call, container |-> w.container, up |-> w.up,
            down |-> w.down]
    BY <1>1 DEF Worlds
  <2>2. v = [w EXCEPT !.frame = f, !.up = @ \o new, !.call = g]
    BY DEF Post
  <2> HIDE DEF f, g, new, v
  <2>3. QED BY <2>1, <2>2
<1> HIDE DEF f, g, new, v
<1>6. v.frame = f /\ v.call = g /\ v.container = w.container /\ v.up = w.up \o new
      /\ v.down = w.down
  BY <1>b
<1>7. /\ v.frame.reg = w.frame.reg /\ v.frame.counter = w.frame.counter + Len(s)
      /\ v.frame.waiting = w.frame.waiting /\ v.frame.calls = w.frame.calls
      /\ v.frame.timers = w.frame.timers \cup {c \in Range(s) : w.call[c].kind \notin OneWay}
      /\ v.frame \in Frames
  <2>1. {c \in Range(s) : w.call[c].kind \notin OneWay} \in SUBSET Calls
    BY <1>2
  <2>2. w.frame.counter + Len(s) \in Nat
    BY <1>4
  <2>3. QED BY <1>1, <2>1, <2>2, <1>6, ZenonT(60) DEF Frames, f
<1>8. \A c \in Calls : c \notin Range(s) => v.call[c] = w.call[c]
  BY <1>6 DEF g
<1>9. \A c \in Range(s) :
        /\ v.call[c].kind = w.call[c].kind /\ v.call[c].closedBy = w.call[c].closedBy
        /\ w.call[c].kind \in OneWay => v.call[c].id = 0 /\ v.call[c].state = "closed"
        /\ w.call[c].kind \notin OneWay => /\ v.call[c].id = w.frame.counter + p(c)
                                           /\ v.call[c].state = "open"
        /\ v.call[c] \in CallTypes
  <2>1. TAKE c \in Range(s)
  <2>2. w.call[c] \in CallTypes /\ w.frame.counter + p(c) \in Nat
    BY <1>1, <1>2, <1>4, <1>a
  <2>3. CASE w.call[c].kind \in OneWay
    <3>1. v.call[c] = [w.call[c] EXCEPT !.state = "closed"]
      BY <1>2, <1>6, <2>3 DEF g
    <3>2. QED BY <2>2, <2>3, <3>1, <1>5 DEF CallTypes, States
  <2>4. CASE w.call[c].kind \notin OneWay
    <3>1. v.call[c] = [w.call[c] EXCEPT !.state = "open", !.id = w.frame.counter + p(c)]
      BY <1>2, <1>6, <2>4 DEF g
    <3>2. QED BY <2>2, <2>4, <3>1 DEF CallTypes, States
  <2>5. QED BY <2>3, <2>4
<1>10. v.call \in [Calls -> CallTypes]
  <2>1. \A c \in Calls : v.call[c] \in CallTypes
    BY <1>1, <1>8, <1>9
  <2>2. QED BY <2>1, <1>6 DEF g
<1>11. /\ new \in Seq(Messages)
       /\ \A m \in Range(new) : \E i \in DOMAIN s :
            m = [kind |-> w.call[s[i]].kind, id |-> w.frame.counter + i, call |-> s[i]]
  <2> USE DEF new
  <2>1. \A i \in DOMAIN s : new[i] \in Messages
    <3>1. TAKE i \in DOMAIN s
    <3>2. w.call[s[i]].kind \in AllKinds /\ s[i] \in Calls /\ w.frame.counter + i \in Nat
      BY <1>1, <1>2, <1>3, <1>4 DEF CallTypes
    <3>3. QED BY <3>2 DEF Message, Messages
  <2>2. new \in [1..Len(s) -> Messages]
    BY <2>1, <1>4
  <2>3. new \in Seq(Messages)
    BY <2>2, <1>4
  <2>4. QED BY <2>3 DEF Range, Message
<1> HIDE DEF p
<1>12. v.up \in Seq(Messages) /\ Range(v.up) = Range(w.up) \cup Range(new)
  <2>1. w.up \o new \in Seq(Messages)
    BY <1>1, <1>11
  <2>2. Range(w.up \o new) = Range(w.up) \cup Range(new)
    BY <1>1, <1>11, RangeConcatenation
  <2>3. QED BY <1>6, <2>1, <2>2
<1>13. v \in Worlds
  BY <1>1, <1>b, <1>6, <1>7, <1>10, <1>12 DEF Worlds
<1>14. IdsAreFresh(v)
  <2>1. \A c \in Calls : v.call[c].id <= v.frame.counter
    <3>1. TAKE c \in Calls
    <3>2. CASE c \in Range(s) /\ w.call[c].kind \notin OneWay
      BY <3>2, <1>4, <1>a, <1>7, <1>9
    <3>3. CASE c \in Range(s) /\ w.call[c].kind \in OneWay
      BY <3>3, <1>4, <1>7, <1>9
    <3>4. CASE c \notin Range(s)
      BY <3>4, <1>4, <1>a, <1>7, <1>8
    <3>5. QED BY <3>2, <3>3, <3>4
  <2>2. ASSUME NEW b \in Calls, NEW c \in Calls, v.call[b].id = v.call[c].id, v.call[c].id > 0
        PROVE  b = c
    <3>1. CASE b \notin Range(s) /\ c \notin Range(s)
      BY <3>1, <2>2, <1>8 DEF Good, IdsAreFresh
    <3>2. CASE b \in Range(s) /\ c \notin Range(s)
      BY <3>2, <2>2, <1>4, <1>a, <1>8, <1>9
    <3>3. CASE b \notin Range(s) /\ c \in Range(s)
      BY <3>3, <2>2, <1>4, <1>a, <1>8, <1>9
    <3>4. CASE b \in Range(s) /\ c \in Range(s)
      <4>1. p(b) = p(c)
        BY <3>4, <2>2, <1>2, <1>4, <1>9, SMTT(60)
      <4>2. QED BY <4>1, <3>4, <1>2
    <3>5. QED BY <3>1, <3>2, <3>3, <3>4
  <2>3. QED BY <2>1, <2>2 DEF IdsAreFresh
<1>15. CallsAreOrdered(v)
  <2>1. \A c \in Calls : c > v.frame.calls => v.call[c].state = "new"
    <3>1. \A c \in Range(s) : ~(c > w.frame.calls)
      BY <1>1, <1>2, <1>5, CallsAreNumbers DEF Frames
    <3>2. QED BY <3>1, <1>7, <1>8 DEF Good, CallsAreOrdered
  <2>2. \A c \in Calls : v.call[c].state \in {"new", "waiting"} => v.call[c].id = 0
    BY <1>8, <1>9 DEF Good, CallsAreOrdered
  <2>3. \A i \in DOMAIN v.frame.waiting : v.call[v.frame.waiting[i]].state = "waiting"
    <3>1. TAKE i \in DOMAIN v.frame.waiting
    <3>2. w.frame.waiting[i] \in Calls /\ w.frame.waiting[i] \notin Range(s)
      BY <1>1, <1>7 DEF Range, Frames
    <3>3. QED BY <3>2, <1>7, <1>8 DEF Good, CallsAreOrdered
  <2>4. \A c \in v.frame.timers : v.call[c].id > 0
    <3>1. TAKE c \in v.frame.timers
    <3>2. CASE c \in Range(s) /\ w.call[c].kind \notin OneWay
      BY <3>2, <1>4, <1>a, <1>9
    <3>3. CASE c \in w.frame.timers /\ ~(c \in Range(s) /\ w.call[c].kind \notin OneWay)
      <4>1. c \in Calls /\ w.call[c].id > 0
        BY <3>3, <1>1 DEF Good, CallsAreOrdered, Frames
      <4>2. c \notin Range(s)
        BY <4>1, <1>5
      <4>3. QED BY <4>1, <4>2, <1>8
    <3>4. QED BY <3>1, <3>2, <3>3, <1>7
  <2>5. \A i, j \in DOMAIN v.frame.waiting : v.frame.waiting[i] = v.frame.waiting[j] => i = j
    BY <1>7 DEF Good, CallsAreOrdered
  <2>6. \A c \in Calls : v.call[c].state # "new" => v.call[c].kind \in Kinds \cup {"register"}
    BY <1>5, <1>8, <1>9 DEF Good, CallsAreOrdered
  <2>7. QED BY <2>1, <2>2, <2>3, <2>4, <2>5, <2>6 DEF CallsAreOrdered
<1>16. \A x : x.call \in Calls /\ Names(w, x) => Names(v, x)
  BY <1>5, <1>8 DEF Names
<1>17. MessagesName(v)
  <2>1. \A m \in Range(new) : m.kind \notin OneWay => Names(v, m)
    <3>1. TAKE m \in Range(new)
    <3>2. PICK i \in DOMAIN s :
            m = [kind |-> w.call[s[i]].kind, id |-> w.frame.counter + i, call |-> s[i]]
      BY <1>11
    <3>3. m.call = s[i] /\ m.id = w.frame.counter + i /\ m.kind = w.call[s[i]].kind
      BY <3>2
    <3>4. QED BY <3>3, <1>2, <1>3, <1>4, <1>9 DEF Names
  <2>2. QED BY <2>1, <1>6, <1>12, <1>16 DEF Good, MessagesName, UnderWay, Names
<1>18. ClosedByItsOwn(v)
  BY <1>8, <1>9 DEF Good, ClosedByItsOwn
<1>19. \A m \in Range(new) : m.kind # "register"
  BY <1>3, <1>5, <1>11
<1>20. 1 \notin Range(s)
  BY <1>5, CallsAreNumbers DEF Good, RegisterIsFirst
<1>21. RegisterIsFirst(v)
  <2>1. v.call[1] = w.call[1] /\ v.frame.reg = w.frame.reg
    BY <1>7, <1>8, <1>20, CallsAreNumbers
  <2>2. \A c \in Calls : v.call[c].kind = w.call[c].kind
    BY <1>8, <1>9
  <2>3. \A m \in UnderWay(v) : m.kind # "register"
    BY <1>6, <1>12, <1>19 DEF Good, RegisterIsFirst, UnderWay
  <2>4. QED BY <2>1, <2>2, <2>3, CallsAreNumbers DEF Good, RegisterIsFirst
<1>22. ReportedOnce(v)
  BY <1>6, <1>12, <1>19 DEF Good, ReportedOnce, UnderWay
<1>23. QED BY <1>7, <1>13, <1>14, <1>15, <1>17, <1>18, <1>21, <1>22 DEF Good, v

LEMMA WorldIsRecord ==
  ASSUME NEW w \in Worlds
  PROVE  w = [frame |-> w.frame, call |-> w.call, container |-> w.container,
              up |-> w.up, down |-> w.down]
  BY DEF Worlds

\* #closePending: the call's promise settles
LEMMA CloseGood ==
  ASSUME NEW w, Good(w), NEW c \in Calls, w.call[c].state = "open"
  PROVE  LET v == [w EXCEPT !.call[c].state = "closed", !.call[c].closedBy = c]
         IN /\ Good(v)
            /\ v.frame = w.frame /\ v.container = w.container /\ v.up = w.up /\ v.down = w.down
            /\ v.call[c].state = "closed"
<1> DEFINE v == [w EXCEPT !.call[c].state = "closed", !.call[c].closedBy = c]
           x == [w.call[c] EXCEPT !.state = "closed", !.closedBy = c]
<1>1. w \in Worlds /\ w.call \in [Calls -> CallTypes] /\ w.frame \in Frames
  BY FieldTypes DEF Good
<1>2. v = [w EXCEPT !.call = [w.call EXCEPT ![c] = x]]
  BY <1>1, WorldIsRecord
<1> HIDE DEF v, x
<1>3. /\ v.frame = w.frame /\ v.container = w.container /\ v.up = w.up /\ v.down = w.down
      /\ v.call = [w.call EXCEPT ![c] = x]
  BY <1>1, <1>2, WorldIsRecord
<1>4. /\ x.state = "closed" /\ x.closedBy = c /\ x.id = w.call[c].id
      /\ x.kind = w.call[c].kind /\ x \in CallTypes
  BY <1>1 DEF x, CallTypes, States
<1>5. /\ v.call[c] = x /\ v.call \in [Calls -> CallTypes]
      /\ \A b \in Calls : b # c => v.call[b] = w.call[b]
      /\ \A b \in Calls : v.call[b].id = w.call[b].id /\ v.call[b].kind = w.call[b].kind
  BY <1>1, <1>3, <1>4
<1>6. v \in Worlds
  BY <1>1, <1>2, <1>3, <1>5 DEF Worlds
<1>7. IdsAreFresh(v)
  BY <1>3, <1>5 DEF Good, IdsAreFresh
<1>8. CallsAreOrdered(v)
  BY <1>1, <1>3, <1>4, <1>5 DEF Good, CallsAreOrdered, Frames
<1>9. MessagesName(v)
  BY <1>3, <1>5 DEF Good, MessagesName, UnderWay, Names
<1>10. ClosedByItsOwn(v)
  BY <1>4, <1>5 DEF Good, ClosedByItsOwn
<1>11. RegisterIsFirst(v)
  <2>1. RegisterIsFirst(w)
    BY DEF Good
  <2>2. UnderWay(v) = UnderWay(w) /\ v.frame.reg = w.frame.reg
    BY <1>3 DEF UnderWay
  <2>3. v.call[1].state = w.call[1].state \/ (c = 1 /\ v.call[1].state = "closed")
    BY <1>4, <1>5, CallsAreNumbers
  <2>4. v.call[1].id = 1 /\ \A b \in Calls : v.call[b].kind = "register" <=> b = 1
    BY <1>5, <2>1, CallsAreNumbers DEF RegisterIsFirst
  <2>5. v.call[1].state \in {"open", "closed"}
    BY <2>1, <2>3 DEF RegisterIsFirst
  <2>6. v.call[1].state = "open" => v.frame.reg = "pending"
    BY <2>1, <2>2, <2>3 DEF RegisterIsFirst
  <2>7. v.frame.reg # "ok" =>
          /\ Len(v.up) + Len(v.container.queue) + Len(v.down) <= 1
          /\ \A m \in UnderWay(v) : m.kind = "register"
    BY <1>3, <2>1, <2>2 DEF RegisterIsFirst
  <2>8. v.frame.reg = "ok" => \A m \in UnderWay(v) : m.kind # "register"
    BY <2>1, <2>2 DEF RegisterIsFirst
  <2>9. QED BY <2>4, <2>5, <2>6, <2>7, <2>8 DEF RegisterIsFirst
<1>12. ReportedOnce(v)
  BY <1>3 DEF Good, ReportedOnce, UnderWay
<1>13. QED BY <1>3, <1>4, <1>5, <1>6, <1>7, <1>8, <1>9, <1>10, <1>11, <1>12 DEF Good, v

\* A world that differs in the flags of the entity, and in what waits, which may be dropped
LEMMA FlagsGood ==
  ASSUME NEW w, Good(w), NEW v \in Worlds,
         v.call = w.call, v.container = w.container, v.up = w.up, v.down = w.down,
         v.frame.calls = w.frame.calls, v.frame.counter = w.frame.counter,
         v.frame.timers = w.frame.timers, v.frame.waiting \in {<<>>, w.frame.waiting},
         v.frame.reg = w.frame.reg \/ w.call[1].state # "open",
         v.frame.reg = "ok" => w.frame.reg = "ok" \/ UnderWay(w) = {},
         w.frame.reg = "ok" => v.frame.reg = "ok"
  PROVE  Good(v)
<1>1. IdsAreFresh(v) /\ MessagesName(v) /\ ClosedByItsOwn(v) /\ ReportedOnce(v)
  BY DEF Good, IdsAreFresh, MessagesName, ClosedByItsOwn, ReportedOnce, UnderWay, Names
<1>2. CallsAreOrdered(v)
  BY DEF Good, CallsAreOrdered
<1>3. RegisterIsFirst(v)
  BY DEF Good, RegisterIsFirst, UnderWay, Regs
<1>4. QED BY <1>1, <1>2, <1>3 DEF Good

\* #register rejects
LEMMA RegistrationFailedGood ==
  ASSUME NEW w, Good(w), w.frame.reg # "ok", w.call[1].state = "closed"
  PROVE  Good(RegistrationFailed(w))
<1> DEFINE f == [w.frame EXCEPT !.reg = "failed", !.blocked = TRUE, !.waiting = <<>>]
           u == [w EXCEPT !.frame = f]
           g == [c \in Calls |-> IF w.call[c].state = "waiting"
                                 THEN [w.call[c] EXCEPT !.state = "closed"] ELSE w.call[c]]
           v == [u EXCEPT !.call = g]
<1>1. w \in Worlds /\ w.call \in [Calls -> CallTypes] /\ w.frame \in Frames
  BY FieldTypes DEF Good
<1>2. /\ u.call = w.call /\ u.container = w.container /\ u.up = w.up /\ u.down = w.down
      /\ u.frame.reg = "failed" /\ u.frame.waiting = <<>> /\ u.frame.calls = w.frame.calls
      /\ u.frame.counter = w.frame.counter /\ u.frame.timers = w.frame.timers
      /\ u \in Worlds
  <2>1. f \in Frames /\ f.reg = "failed" /\ f.waiting = <<>> /\ f.calls = w.frame.calls
        /\ f.counter = w.frame.counter /\ f.timers = w.frame.timers
    <3>1. <<>> \in Seq(Calls) /\ "failed" \in Regs
      BY DEF Regs
    <3>2. QED BY <1>1, <3>1 DEF Frames
  <2> HIDE DEF f
  <2>2. QED BY <1>1, <2>1, WorldIsRecord DEF Worlds
<1> HIDE DEF u
<1>3. Good(u)
  BY <1>2, FlagsGood
<1> USE DEF u
<1>4. RegistrationFailed(w) = v
  BY <1>1, WorldIsRecord DEF RegistrationFailed
<1> HIDE DEF u
<1>5. /\ v.frame = u.frame /\ v.container = u.container /\ v.up = u.up /\ v.down = u.down
      /\ v.call = g
  BY <1>2, WorldIsRecord
<1>6. \A c \in Calls : /\ g[c].id = w.call[c].id /\ g[c].kind = w.call[c].kind
                       /\ g[c].closedBy = w.call[c].closedBy /\ g[c] \in CallTypes
                       /\ g[c].state = IF w.call[c].state = "waiting" THEN "closed"
                              ELSE w.call[c].state
  <2>1. TAKE c \in Calls
  <2>2. w.call[c] \in CallTypes
    BY <1>1
  <2>3. QED BY <2>2 DEF CallTypes, States
<1>7. g \in [Calls -> CallTypes]
  BY <1>6
<1> HIDE DEF g
<1>8. v \in Worlds
  BY <1>2, <1>7 DEF Worlds
<1> HIDE DEF v
<1>9. IdsAreFresh(v) /\ MessagesName(v) /\ ClosedByItsOwn(v) /\ ReportedOnce(v)
  BY <1>2, <1>5, <1>6 DEF Good, IdsAreFresh, MessagesName, ClosedByItsOwn, ReportedOnce, UnderWay,
         Names
<1>10. CallsAreOrdered(v)
  <2>1. DOMAIN v.frame.waiting = {}
    BY <1>2, <1>5
  <2>2. v.frame.timers \subseteq Calls
    BY <1>5, <1>8, FieldTypes DEF Frames
  <2>3. QED BY <1>2, <1>5, <1>6, <2>1, <2>2 DEF Good, CallsAreOrdered
<1>11. RegisterIsFirst(v)
  <2>1. UnderWay(v) = UnderWay(w) /\ Len(v.up) + Len(v.container.queue) + Len(v.down)
                                    = Len(w.up) + Len(w.container.queue) + Len(w.down)
    BY <1>2, <1>5 DEF UnderWay
  <2>2. v.frame.reg = "failed" /\ v.call[1].state = "closed" /\ v.call[1].id = w.call[1].id
    BY <1>2, <1>5, <1>6, CallsAreNumbers
  <2>3. \A c \in Calls : v.call[c].kind = w.call[c].kind
    BY <1>5, <1>6
  <2>4. QED BY <2>1, <2>2, <2>3 DEF Good, RegisterIsFirst
<1>12. QED BY <1>4, <1>8, <1>9, <1>10, <1>11 DEF Good

\* #postTimingToAgent
LEMMA PostTimingGood ==
  ASSUME NEW w, Good(w), w.frame.reg = "ok"
  PROVE  Good(PostTiming(w))
<1> DEFINE m == [kind |-> "timing", id |-> w.frame.counter + 1, call |-> None]
           f == [w.frame EXCEPT !.counter = @ + 1]
           v == [w EXCEPT !.frame = f, !.up = Append(w.up, m)]
<1>1. w \in Worlds /\ w.frame \in Frames /\ w.up \in Seq(Messages)
          /\ w.call \in [Calls -> CallTypes]
  BY FieldTypes DEF Good
<1>2. PostTiming(w) = IF w.frame.blocked THEN w ELSE v
  BY <1>1, WorldIsRecord DEF PostTiming
<1>3. /\ f \in Frames /\ f.counter = w.frame.counter + 1 /\ f.reg = w.frame.reg
      /\ f.waiting = w.frame.waiting /\ f.calls = w.frame.calls /\ f.timers = w.frame.timers
      /\ w.frame.counter \in Nat
  BY <1>1, SMTT(60) DEF Frames
<1>4. m \in Messages /\ m.kind = "timing"
  BY <1>1 DEF Messages, AllKinds, Frames
<1> HIDE DEF m
<1>5. Append(w.up, m) \in Seq(Messages) /\ Range(Append(w.up, m)) = Range(w.up) \cup {m}
  BY <1>1, <1>4, RangeFacts
<1> HIDE DEF f
<1>6. /\ v.call = w.call /\ v.container = w.container /\ v.down = w.down
      /\ v.frame = f /\ v.up = Append(w.up, m) /\ v \in Worlds
  BY <1>1, <1>3, <1>5, WorldIsRecord DEF Worlds
<1> HIDE DEF v
<1>7. UnderWay(v) = UnderWay(w) \cup {m}
  BY <1>5, <1>6 DEF UnderWay
<1>8. IdsAreFresh(v)
  <2>1. \A c \in Calls : w.call[c].id \in Nat
    BY <1>1 DEF CallTypes
  <2>2. QED BY <1>3, <1>6, <2>1 DEF Good, IdsAreFresh
<1>9. CallsAreOrdered(v)
  BY <1>3, <1>6 DEF Good, CallsAreOrdered
<1>10. MessagesName(v) /\ ClosedByItsOwn(v)
  BY <1>4, <1>6, <1>7 DEF Good, MessagesName, ClosedByItsOwn, Names, OneWay
<1>11. \A x \in UnderWay(v) : x.kind # "register"
  BY <1>4, <1>7 DEF Good, RegisterIsFirst
<1>12. RegisterIsFirst(v) /\ ReportedOnce(v)
  BY <1>3, <1>6, <1>11 DEF Good, RegisterIsFirst, ReportedOnce
<1>13. QED BY <1>2, <1>6, <1>8, <1>9, <1>10, <1>12 DEF Good

\* #register resolves: what waits is posted, then the timings
LEMMA RegisteredGood ==
  ASSUME NEW w, Good(w), NEW answer \in Answers, w.call[1].state = "closed", UnderWay(w) = {}
  PROVE  Good(Registered(w, answer))
<1> DEFINE isBlocked == answer.entity /\ answer.blocked
           f == [w.frame EXCEPT !.reg = "ok", !.blocked = isBlocked, !.waiting = <<>>]
           u == [w EXCEPT !.frame = f]
           s == w.frame.waiting
<1>1. w \in Worlds /\ w.frame \in Frames /\ w.call \in [Calls -> CallTypes]
  BY FieldTypes DEF Good
<1>2. isBlocked \in BOOLEAN /\ <<>> \in Seq(Calls) /\ "ok" \in Regs
  BY DEF Answers, Regs
<1> HIDE DEF isBlocked
<1>3. f \in Frames /\ f.reg = "ok" /\ f.waiting = <<>> /\ f.calls = w.frame.calls
      /\ f.counter = w.frame.counter /\ f.timers = w.frame.timers
  BY <1>1, <1>2 DEF Frames
<1>4. Registered(w, answer) = PostTiming(Post(u, s))
  BY <1>1, WorldIsRecord DEF Registered, isBlocked
<1> HIDE DEF f
<1>5. /\ u.call = w.call /\ u.container = w.container /\ u.up = w.up /\ u.down = w.down
      /\ u.frame = f /\ u \in Worlds
  BY <1>1, <1>3, WorldIsRecord DEF Worlds
<1> HIDE DEF u
<1>6. Good(u)
  BY <1>3, <1>5, FlagsGood
<1>7. s \in Seq(Calls)
  BY <1>1 DEF Frames
<1>8. \A i \in DOMAIN s : s[i] \in Calls /\ u.call[s[i]].state = "waiting"
  BY <1>5, <1>7 DEF Good, CallsAreOrdered
<1>9. \A i \in DOMAIN s : s[i] <= u.frame.calls
  <2>1. TAKE i \in DOMAIN s
  <2>2. ~(s[i] > u.frame.calls)
    BY <1>6, <1>8 DEF Good, CallsAreOrdered
  <2>3. s[i] \in Nat /\ u.frame.calls \in Nat
    BY <1>1, <1>3, <1>5, <1>8, CallsAreNumbers DEF Frames
  <2>4. QED BY <2>2, <2>3
<1>10. \A i \in DOMAIN s : u.call[s[i]].kind \in Kinds
  BY <1>6, <1>8 DEF Good, CallsAreOrdered, RegisterIsFirst
<1>11. \A i, j \in DOMAIN s : s[i] = s[j] => i = j
  BY DEF Good, CallsAreOrdered
<1>12. DOMAIN u.frame.waiting = {}
  BY <1>3, <1>5
<1> HIDE DEF s
<1>13. Good(Post(u, s)) /\ Post(u, s).frame.reg = "ok"
  BY <1>3, <1>5, <1>6, <1>7, <1>8, <1>9, <1>10, <1>11, <1>12, PostGood
<1>14. QED BY <1>4, <1>13, PostTimingGood

\* #closePending by the answer or the timeout of call c
LEMMA ClosePendingGood ==
  ASSUME NEW w, Good(w), NEW c \in Calls, w.call[c].id > 0, NEW answer,
         answer = TimedOut \/ answer \in Answers,
         c = 1 /\ answer # TimedOut => UnderWay(w) = {}
  PROVE  Good(ClosePending(w, w.call[c].id, c, answer))
<1> DEFINE open == {b \in Calls : w.call[b].state = "open" /\ w.call[b].id = w.call[c].id}
           v    == [w EXCEPT !.call[c].state = "closed", !.call[c].closedBy = c]
<1>1. open \subseteq {c}
  BY DEF Good, IdsAreFresh
<1>2. CASE open = {}
  BY <1>2 DEF ClosePending
<1>3. CASE open # {}
  <2>1. w.call[c].state = "open" /\ (CHOOSE b \in open : TRUE) = c
    BY <1>1, <1>3
  <2>2. ClosePending(w, w.call[c].id, c, answer) = Settle(w, c, c, answer)
    BY <1>3, <2>1 DEF ClosePending
  <2>3. /\ Good(v) /\ v.frame = w.frame /\ v.container = w.container /\ v.up = w.up
        /\ v.down = w.down /\ v.call[c].state = "closed"
    BY <2>1, CloseGood
  <2> HIDE DEF v
  <2>4. UnderWay(v) = UnderWay(w) /\ v \in Worlds /\ v.frame \in Frames
    BY <2>3, FieldTypes DEF UnderWay, Good
  <2>5. CASE w.call[c].kind = "register"
    <3>1. c = 1 /\ v.frame.reg = "pending"
      BY <2>1, <2>3, <2>5, CallsAreNumbers DEF Good, RegisterIsFirst
    <3>2. CASE answer.error
      <4>1. Settle(w, c, c, answer) = RegistrationFailed(v)
        BY <2>5, <3>2 DEF Settle, v
      <4>2. QED BY <2>2, <2>3, <3>1, <4>1, RegistrationFailedGood
    <3>3. CASE ~answer.error
      <4>1. Settle(w, c, c, answer) = Registered(v, answer)
        BY <2>5, <3>3 DEF Settle, v
      <4>2. answer \in Answers /\ UnderWay(v) = {}
        BY <2>4, <3>1, <3>3 DEF TimedOut
      <4>3. QED BY <2>2, <2>3, <3>1, <4>1, <4>2, RegisteredGood
    <3>4. QED BY <3>2, <3>3
  <2>6. CASE w.call[c].kind = "deregister"
    <3> DEFINE f == [v.frame EXCEPT !.blocked = TRUE]
               u == [v EXCEPT !.frame = f]
    <3>1. Settle(w, c, c, answer) = u
      BY <2>4, <2>6, WorldIsRecord DEF Settle, v
    <3>2. f \in Frames /\ f.reg = v.frame.reg /\ f.waiting = v.frame.waiting
          /\ f.calls = v.frame.calls /\ f.counter = v.frame.counter
          /\ f.timers = v.frame.timers
      BY <2>4 DEF Frames
    <3> HIDE DEF f
    <3>3. /\ u.call = v.call /\ u.container = v.container /\ u.up = v.up /\ u.down = v.down
          /\ u.frame = f /\ u \in Worlds
      BY <2>4, <3>2, WorldIsRecord DEF Worlds
    <3> HIDE DEF u
    <3>4. QED BY <2>2, <2>3, <3>1, <3>2, <3>3, FlagsGood
  <2>7. CASE w.call[c].kind \notin {"register", "deregister"}
    <3>1. Settle(w, c, c, answer) = v
      BY <2>7 DEF Settle, v
    <3>2. QED BY <2>2, <2>3, <3>1
  <2>8. QED BY <2>5, <2>6, <2>7
<1>4. QED BY <1>2, <1>3

-----------------------------------------------------------------------------
\* A world with fewer messages under way, no longer in all, and another container
LEMMA TransitGood ==
  ASSUME NEW w, Good(w), NEW v \in Worlds, v.frame = w.frame, v.call = w.call,
         UnderWay(v) \subseteq UnderWay(w), \A a \in Range(v.down) : Names(w, a),
         Len(v.up) + Len(v.container.queue) + Len(v.down)
           <= Len(w.up) + Len(w.container.queue) + Len(w.down),
         ReportedOnce(v)
  PROVE  Good(v)
<1>1. IdsAreFresh(v) /\ CallsAreOrdered(v) /\ ClosedByItsOwn(v)
  BY DEF Good, IdsAreFresh, CallsAreOrdered, ClosedByItsOwn
<1>2. MessagesName(v)
  BY DEF Good, MessagesName, Names
<1>3. RegisterIsFirst(v)
  <2>1. w \in Worlds
    BY DEF Good
  <2>2. /\ Len(v.up) \in Nat /\ Len(v.container.queue) \in Nat /\ Len(v.down) \in Nat
        /\ Len(w.up) \in Nat /\ Len(w.container.queue) \in Nat /\ Len(w.down) \in Nat
    BY <2>1, FieldTypes, RangeFacts
  <2>3. w.frame.reg # "ok" => Len(v.up) + Len(v.container.queue) + Len(v.down) <= 1
    <3> DEFINE a == Len(v.up) + Len(v.container.queue) + Len(v.down)
               b == Len(w.up) + Len(w.container.queue) + Len(w.down)
    <3>1. a \in Nat /\ b \in Nat
      <4>1. \A x, y, z \in Nat : x + y + z \in Nat
        OBVIOUS
      <4>2. QED BY <2>2, <4>1, Zenon
    <3>a. a <= b
      OBVIOUS
    <3>2. w.frame.reg # "ok" => b <= 1
      BY DEF Good, RegisterIsFirst
    <3> HIDE DEF a, b
    <3>3. w.frame.reg # "ok" => a <= 1
      BY <3>1, <3>a, <3>2
    <3>4. QED BY <3>3 DEF a
  <2>4. QED BY <2>3 DEF Good, RegisterIsFirst
<1>4. QED BY <1>1, <1>2, <1>3 DEF Good

\* reportTimings of an entity that is known
LEMMA ReportTimingsFacts ==
  ASSUME NEW w \in Worlds, Reported(w.container), w.container.known
  PROVE  ReportTimings(w) = [w EXCEPT !.container =
                               [w.container EXCEPT !.reportedAt = TRUE, !.timings = 1]]
<1>1. w.container \in ContainerTypes
  BY FieldTypes
<1>2. CASE w.container.reportedAt
  <2>1. w.container = [w.container EXCEPT !.reportedAt = TRUE, !.timings = 1]
    BY <1>1, <1>2 DEF Reported, ContainerTypes
  <2>2. QED BY <1>2, <2>1, WorldIsRecord DEF ReportTimings
<1>3. CASE ~w.container.reportedAt
  <2>1. ~w.container.blocked /\ w.container.timings = 0
    BY <1>1, <1>3 DEF Reported, ContainerTypes
  <2>2. ReportTimings(w) = [w EXCEPT !.container.reportedAt = TRUE,
                              !.container.timings = IF w.container.blocked THEN @ ELSE @ + 1]
    BY <1>3 DEF ReportTimings
  <2>3. (IF w.container.blocked THEN w.container.timings ELSE w.container.timings + 1) = 1
    BY <2>1
  <2>4. QED BY <1>1, <2>2, <2>3, WorldIsRecord DEF ContainerTypes
<1>4. QED BY <1>2, <1>3

\* handleMethodCall touches the container only, and reports once
LEMMA HandleFacts ==
  ASSUME NEW w \in Worlds, NEW m \in Messages, Reported(w.container),
         m.kind = "register" => ~w.container.known /\ ~w.container.blocked
  PROVE  LET v == Handle(w, m)
         IN /\ v \in Worlds /\ v.frame = w.frame /\ v.call = w.call
            /\ v.up = w.up /\ v.down = w.down /\ v.container.queue = w.container.queue
            /\ Reported(v.container)
<1> DEFINE v == Handle(w, m)
<1>1. w.container \in ContainerTypes
  BY FieldTypes
<1>2. \A c \in ContainerTypes :
        LET u == [w EXCEPT !.container = c]
        IN /\ u \in Worlds /\ u.frame = w.frame /\ u.call = w.call
           /\ u.up = w.up /\ u.down = w.down /\ u.container = c
  BY WorldIsRecord DEF Worlds
<1>3. CASE m.kind = "register"
  <2> DEFINE c == [w.container EXCEPT !.known = w.container.kind.valid,
                                      !.blocked = ~w.container.kind.valid]
  <2>1. v = IF ~w.container.kind.domain THEN w ELSE [w EXCEPT !.container = c]
    BY <1>1, <1>3, WorldIsRecord DEF Handle, Register
  <2>2. w.container.kind.valid \in BOOLEAN
    BY <1>1 DEF ContainerTypes
  <2>3. c \in ContainerTypes /\ c.queue = w.container.queue
        /\ c.known = w.container.kind.valid /\ c.blocked = ~w.container.kind.valid
        /\ c.reportedAt = w.container.reportedAt /\ c.timings = w.container.timings
    BY <1>1, <2>2 DEF ContainerTypes
  <2>4. Reported(c)
    BY <1>1, <1>3, <2>2, <2>3 DEF Reported
  <2> HIDE DEF c
  <2>5. QED BY <1>2, <2>1, <2>3, <2>4
<1>4. CASE m.kind = "deregister" /\ w.container.known
  <2> DEFINE c == [w.container EXCEPT !.reportedAt = TRUE, !.timings = 1, !.blocked = TRUE]
  <2>1. v = [w EXCEPT !.container = c]
    BY <1>1, <1>4, ReportTimingsFacts, WorldIsRecord DEF Handle, Deregister, BlockEntity
  <2>2. c \in ContainerTypes /\ c.queue = w.container.queue /\ c.known = w.container.known
        /\ c.reportedAt = TRUE /\ c.timings = 1
    BY <1>1 DEF ContainerTypes
  <2>3. Reported(c)
    BY <1>4, <2>2 DEF Reported
  <2> HIDE DEF c
  <2>4. QED BY <1>2, <2>1, <2>2, <2>3
<1>5. CASE m.kind # "register" /\ ~(m.kind = "deregister" /\ w.container.known)
  BY <1>5 DEF Handle
<1>6. QED BY <1>3, <1>4, <1>5

\* The handler runs on message m, which world x lacks, and answers it
LEMMA ProcessGood ==
  ASSUME NEW w, Good(w), NEW x \in Worlds, NEW m \in UnderWay(w), NEW failed \in BOOLEAN,
         x.frame = w.frame, x.call = w.call, x.down = w.down,
         UnderWay(x) \subseteq UnderWay(w),
         Len(x.up) + Len(x.container.queue) + 1 = Len(w.up) + Len(w.container.queue),
         Reported(x.container),
         x.container.known = w.container.known, x.container.blocked = w.container.blocked
  PROVE  Good(Process(x, m, failed))
<1> DEFINE h == Handle(x, m)
           v == Process(x, m, failed)
           a == [id |-> m.id, call |-> m.call, error |-> failed,
                 entity |-> h.container.known \/ (m.kind = "register" /\ h.container.kind.domain),
                 blocked |-> h.container.blocked]
<1>1. /\ w \in Worlds /\ m \in Messages
      /\ Len(w.up) \in Nat /\ Len(w.container.queue) \in Nat /\ Len(w.down) \in Nat
      /\ Len(x.up) \in Nat /\ Len(x.container.queue) \in Nat
      /\ x.up \in Seq(Messages) /\ x.container.queue \in Seq(Messages)
  <2>1. w \in Worlds
    BY DEF Good
  <2>2. Range(w.up) \subseteq Messages /\ Range(w.container.queue) \subseteq Messages
    BY <2>1, FieldTypes, RangeFacts
  <2>3. QED BY <2>1, <2>2, FieldTypes, RangeFacts DEF UnderWay
<1>a. /\ Len(w.up) + Len(w.container.queue) + Len(w.down) <= 1
           => Len(x.up) = 0 /\ Len(x.container.queue) = 0
      /\ Len(x.up) + Len(x.container.queue) + Len(w.down)
           <= Len(w.up) + Len(w.container.queue) + Len(w.down)
      /\ Len(x.up) + Len(x.container.queue) + (Len(w.down) + 1)
           <= Len(w.up) + Len(w.container.queue) + Len(w.down)
  <2> DEFINE xu == Len(x.up)  xq == Len(x.container.queue)
             wu == Len(w.up)  wq == Len(w.container.queue)  wd == Len(w.down)
  <2>1. {xu, xq, wu, wq, wd} \subseteq Nat
    BY <1>1
  <2>2. xu + xq + 1 = wu + wq
    OBVIOUS
  <2> HIDE DEF xu, xq, wu, wq, wd
  <2>3. /\ wu + wq + wd <= 1 => xu = 0 /\ xq = 0
        /\ xu + xq + wd <= wu + wq + wd
        /\ xu + xq + (wd + 1) <= wu + wq + wd
    BY <2>1, <2>2
  <2>4. QED BY <2>3 DEF xu, xq, wu, wq, wd
<1>2. /\ h \in Worlds /\ h.frame = w.frame /\ h.call = w.call /\ h.up = x.up
      /\ h.down = w.down /\ h.container.queue = x.container.queue
      /\ Reported(h.container)
  <2>1. m.kind = "register" => ~x.container.known /\ ~x.container.blocked
    BY DEF Good, ReportedOnce
  <2>2. QED BY <1>1, <2>1, HandleFacts
<1>3. \A y \in UnderWay(x) : y.kind # "register"
  <2>1. CASE w.frame.reg = "ok"
    BY <2>1 DEF Good, RegisterIsFirst
  <2>2. CASE w.frame.reg # "ok"
    <3>1. Len(w.up) + Len(w.container.queue) + Len(w.down) <= 1
      BY <2>2 DEF Good, RegisterIsFirst
    <3>2. Len(x.up) = 0 /\ Len(x.container.queue) = 0
      BY <3>1, <1>a, Zenon
    <3>3. UnderWay(x) = {}
      BY <1>1, <3>2, RangeFacts DEF UnderWay
    <3>4. QED BY <3>3
  <2>3. QED BY <2>1, <2>2
<1>4. v = IF m.kind \in OneWay THEN h ELSE [h EXCEPT !.down = Append(h.down, a)]
  BY <1>2, WorldIsRecord DEF Process, Answer
<1>5. a \in Answers /\ a.id = m.id /\ a.call = m.call
  <2>1. h.container.blocked \in BOOLEAN
    BY <1>2, FieldTypes DEF ContainerTypes
  <2>2. QED BY <1>1, <2>1 DEF Answers, Messages
<1> HIDE DEF h, a
<1>6. CASE m.kind \in OneWay
  <2>1. Len(h.up) + Len(h.container.queue) + Len(h.down)
          <= Len(w.up) + Len(w.container.queue) + Len(w.down)
    <3>1. Len(x.up) + Len(x.container.queue) + Len(w.down)
            <= Len(w.up) + Len(w.container.queue) + Len(w.down)
      BY <1>a, Zenon
    <3>2. QED BY <3>1, <1>2, Zenon
  <2>2. UnderWay(h) = UnderWay(x) /\ v = h
    BY <1>2, <1>4, <1>6 DEF UnderWay
  <2>3. ReportedOnce(h) /\ \A b \in Range(h.down) : Names(w, b)
    BY <1>2, <1>3, <2>2 DEF ReportedOnce, Good, MessagesName
  <2> HIDE DEF v
  <2>4. Good(h)
    BY <1>2, <2>1, <2>2, <2>3, TransitGood
  <2>5. QED BY <2>2, <2>4 DEF v
<1>7. CASE m.kind \notin OneWay
  <2>1. v = [h EXCEPT !.down = Append(h.down, a)]
    BY <1>4, <1>7
  <2> HIDE DEF v
  <2>2. h.down \in Seq(Answers)
    BY <1>2, FieldTypes
  <2>3. /\ Append(h.down, a) \in Seq(Answers)
        /\ Range(Append(h.down, a)) = Range(w.down) \cup {a}
        /\ Len(Append(h.down, a)) = Len(w.down) + 1
    BY <1>2, <1>5, <2>2, RangeFacts
  <2>4. /\ v \in Worlds /\ v.frame = w.frame /\ v.call = w.call /\ v.up = x.up
        /\ v.container = h.container /\ v.down = Append(h.down, a)
    BY <1>2, <2>1, <2>3, WorldIsRecord DEF Worlds
  <2>5. UnderWay(v) = UnderWay(x)
    BY <1>2, <2>4 DEF UnderWay
  <2>6. Len(v.up) + Len(v.container.queue) + Len(v.down)
          <= Len(w.up) + Len(w.container.queue) + Len(w.down)
    <3>1. Len(x.up) + Len(x.container.queue) + (Len(w.down) + 1)
            <= Len(w.up) + Len(w.container.queue) + Len(w.down)
      BY <1>a, Zenon
    <3>2. QED BY <3>1, <1>2, <2>3, <2>4, Zenon
  <2>7. \A b \in Range(v.down) : Names(w, b)
    <3>1. Names(w, a)
      BY <1>5, <1>7 DEF Names, Good, MessagesName
    <3>2. QED BY <2>3, <2>4, <3>1 DEF Good, MessagesName
  <2>8. ReportedOnce(v)
    BY <1>2, <1>3, <2>4, <2>5 DEF ReportedOnce
  <2>9. Good(v)
    BY <2>4, <2>5, <2>6, <2>7, <2>8, TransitGood
  <2>10. QED BY <2>9 DEF v
<1>8. QED BY <1>6, <1>7

-----------------------------------------------------------------------------
LEMMA WorldIsGood ==
  ASSUME IInv
  PROVE  /\ Good(World) /\ World \in Worlds
         /\ World.frame = frame /\ World.call = call /\ World.container = container
         /\ World.up = up /\ World.down = down
         /\ frame \in Frames /\ call \in [Calls -> CallTypes] /\ container \in ContainerTypes
         /\ container.queue \in Seq(Messages)
         /\ up \in Seq(Messages) /\ down \in Seq(Answers)
<1>1. Good(World) /\ World \in Worlds
  BY DEF IInv, Good
<1>2. /\ World.frame = frame /\ World.call = call /\ World.container = container
      /\ World.up = up /\ World.down = down
  BY DEF World
<1>3. QED BY <1>1, <1>2, FieldTypes

LEMMA ApplyGood ==
  ASSUME NEW w, Good(w), Apply(w)
  PROVE  IInv'
<1>1. World' = w
  BY WorldIsRecord DEF Apply, World, Good
<1>2. QED BY <1>1 DEF IInv, Good, IdsAreFresh, CallsAreOrdered, MessagesName,
                      ClosedByItsOwn, RegisterIsFirst, ReportedOnce, Names, UnderWay

LEMMA InitGood == BridgeInit => IInv
<1> SUFFICES ASSUME BridgeInit PROVE IInv
  OBVIOUS
<1> DEFINE m == [kind |-> "register", id |-> 1, call |-> 1]
<1>1. PICK kind \in Containers :
        container = [kind |-> kind, stage |-> "absent", queue |-> <<>>, known |-> FALSE,
                     blocked |-> FALSE, reportedAt |-> FALSE, timings |-> 0]
  BY DEF BridgeInit
<1>2. /\ frame.reg = "pending" /\ frame.calls = 1 /\ frame.counter = 1
      /\ frame.waiting = <<>> /\ frame.timers = {1} /\ frame \in Frames
  BY CallsAreNumbers DEF BridgeInit, Frames, Regs
<1>3. /\ \A c \in Calls : c # 1 => /\ call[c].kind = "none" /\ call[c].state = "new"
                                   /\ call[c].id = 0 /\ call[c].closedBy = None
      /\ call[1].kind = "register" /\ call[1].state = "open" /\ call[1].id = 1
      /\ call[1].closedBy = None
      /\ call \in [Calls -> CallTypes]
  <2>1. [kind |-> "register", state |-> "open", id |-> 1, closedBy |-> None] \in CallTypes
        /\ [kind |-> "none", state |-> "new", id |-> 0, closedBy |-> None] \in CallTypes
    BY DEF CallTypes, AllKinds, States
  <2>2. QED BY <2>1, CallsAreNumbers DEF BridgeInit
<1>4. /\ container \in ContainerTypes /\ container.queue = <<>>
      /\ ~container.known /\ ~container.blocked /\ ~container.reportedAt /\ container.timings = 0
  <2>1. <<>> \in Seq(Messages) /\ "absent" \in Stages
    BY DEF Stages
  <2>2. QED BY <1>1, <2>1 DEF ContainerTypes
<1>5. m \in Messages
  BY CallsAreNumbers DEF Messages, AllKinds
<1>6. up = <<m>> /\ down = <<>> /\ up \in Seq(Messages) /\ down \in Seq(Answers)
  BY <1>5 DEF BridgeInit
<1>7. /\ World.frame = frame /\ World.call = call /\ World.container = container
      /\ World.up = up /\ World.down = down /\ World \in Worlds
  BY <1>2, <1>3, <1>4, <1>6 DEF World, Worlds
<1>8. /\ UnderWay(World) = {m} /\ Range(World.down) = {} /\ Len(World.up) = 1
      /\ Len(World.down) = 0 /\ Len(World.container.queue) = 0
  BY <1>4, <1>6, <1>7 DEF UnderWay, Range
<1> HIDE DEF m
<1>9. IdsAreFresh(World)
  BY <1>2, <1>3, <1>7 DEF IdsAreFresh
<1>10. CallsAreOrdered(World)
  BY <1>2, <1>3, <1>7, CallsAreNumbers DEF CallsAreOrdered
<1>11. MessagesName(World)
  BY <1>3, <1>7, <1>8, CallsAreNumbers DEF MessagesName, Names, m
<1>12. ClosedByItsOwn(World)
  BY <1>3, <1>7 DEF ClosedByItsOwn
<1>13. RegisterIsFirst(World)
  BY <1>2, <1>3, <1>7, <1>8, CallsAreNumbers DEF RegisterIsFirst, m
<1>14. ReportedOnce(World)
  BY <1>4, <1>7 DEF ReportedOnce, Reported
<1>15. QED BY <1>7, <1>9, <1>10, <1>11, <1>12, <1>13, <1>14 DEF IInv, Good

\* Another world with the same messages, registration and kinds
LEMMA SameMessages ==
  ASSUME NEW w, Good(w), NEW v, v.container = w.container, v.up = w.up, v.down = w.down,
         v.frame.reg = w.frame.reg, v.call[1].id = w.call[1].id, v.call[1].state = w.call[1].state,
         \A c \in Calls : v.call[c].kind = "register" <=> w.call[c].kind = "register"
  PROVE  UnderWay(v) = UnderWay(w) /\ RegisterIsFirst(v) /\ ReportedOnce(v)
<1>1. UnderWay(v) = UnderWay(w)
  BY DEF UnderWay
<1>2. ReportedOnce(v)
  BY <1>1 DEF Good, ReportedOnce
<1>3. RegisterIsFirst(v)
  BY <1>1 DEF Good, RegisterIsFirst
<1>4. QED BY <1>1, <1>2, <1>3

\* A method of the entity is called
LEMMA MakeCallGood ==
  ASSUME IInv, NEW kind \in Kinds, MakeCall(kind)
  PROVE  IInv'
<1> DEFINE c == frame.calls + 1
           f == [frame EXCEPT !.calls = c]
           x == [call[c] EXCEPT !.kind = kind]
           w == [World EXCEPT !.frame = f, !.call = [call EXCEPT ![c] = x]]
<1>1. /\ c \in Calls /\ c # 1 /\ frame.calls \in Nat /\ frame.calls > 0
      /\ kind \in AllKinds /\ kind # "register"
  <2>1. frame.calls \in Calls /\ frame.calls < MaxCalls
    BY WorldIsGood DEF MakeCall, Frames
  <2>2. QED BY <2>1, CallsAreNumbers DEF Calls
<1>2. call[c].state = "new" /\ call[c].id = 0 /\ call[c].closedBy \in {None, c}
      /\ call[c] \in CallTypes
  BY <1>1, WorldIsGood DEF Good, CallsAreOrdered, ClosedByItsOwn
<1>3. Apply(AwaitRegistration(w, c))
  BY WorldIsGood, WorldIsRecord DEF MakeCall
<1>4. /\ f \in Frames /\ f.reg = frame.reg /\ f.calls = c /\ f.counter = frame.counter
      /\ f.waiting = frame.waiting /\ f.timers = frame.timers
  BY <1>1, WorldIsGood DEF Frames
<1>5. /\ x.kind = kind /\ x.state = "new" /\ x.id = 0 /\ x.closedBy = call[c].closedBy
      /\ x \in CallTypes
  BY <1>1, <1>2 DEF CallTypes
<1> HIDE DEF c, f, x
<1>6. /\ w.frame = f /\ w.call = [call EXCEPT ![c] = x] /\ w.container = container
      /\ w.up = up /\ w.down = down /\ w \in Worlds
  BY <1>1, <1>4, <1>5, WorldIsGood DEF World, Worlds
<1>7. /\ w.call[c] = x /\ \A b \in Calls : b # c => w.call[b] = call[b]
      /\ \A b \in Calls : w.call[b].id = call[b].id /\ w.call[b].state = call[b].state
  BY <1>1, <1>2, <1>5, <1>6, WorldIsGood
<1> HIDE DEF w
<1>10. UnderWay(w) = UnderWay(World) /\ RegisterIsFirst(w) /\ ReportedOnce(w)
  <2>1. World.call[c].kind # "register"
    BY <1>1, WorldIsGood DEF Good, RegisterIsFirst
  <2>2. \A b \in Calls : w.call[b].kind = "register" <=> World.call[b].kind = "register"
    BY <1>1, <1>5, <1>7, <2>1, WorldIsGood
  <2>3. w.call[1].id = World.call[1].id /\ w.call[1].state = World.call[1].state
    BY <1>7, WorldIsGood, CallsAreNumbers
  <2>4. w.container = World.container /\ w.up = World.up /\ w.down = World.down
        /\ w.frame.reg = World.frame.reg
    BY <1>4, <1>6, WorldIsGood
  <2>5. QED BY <2>2, <2>3, <2>4, WorldIsGood, SameMessages
<1>8. IdsAreFresh(w) /\ MessagesName(w) /\ ClosedByItsOwn(w)
  BY <1>2, <1>4, <1>5, <1>6, <1>7, <1>10, WorldIsGood
  DEF Good, IdsAreFresh, MessagesName, ClosedByItsOwn, Names
<1>9. CallsAreOrdered(w)
  <2>1. \A b \in Calls : b > c => b > frame.calls
    BY <1>1, CallsAreNumbers DEF c
  <2>2. \A b \in frame.timers : b \in Calls
    BY WorldIsGood DEF Frames
  <2>3. \A i \in DOMAIN frame.waiting : frame.waiting[i] \in Calls
    BY WorldIsGood DEF Frames
  <2>4. QED BY <1>2, <1>4, <1>5, <1>6, <1>7, <2>1, <2>2, <2>3, WorldIsGood
        DEF Good, CallsAreOrdered
<1>11. Good(w)
  BY <1>6, <1>8, <1>9, <1>10 DEF Good
<1>12. CASE frame.reg = "ok"
  <2>1. Apply(Post(w, <<c>>))
    BY <1>3, <1>4, <1>6, <1>12 DEF AwaitRegistration
  <2> DEFINE s == <<c>>
  <2>2. /\ s \in Seq(Calls) /\ DOMAIN s = {1} /\ s[1] = c
    BY <1>1
  <2> HIDE DEF s
  <2>3. \A i \in DOMAIN s : /\ w.call[s[i]].state \in {"new", "waiting"}
                            /\ s[i] <= w.frame.calls
                            /\ w.call[s[i]].kind \in Kinds
    BY <1>1, <1>4, <1>5, <1>6, <1>7, <2>2, CallsAreNumbers
  <2>4. \A i, j \in DOMAIN s : s[i] = s[j] => i = j
    BY <2>2
  <2>5. \A i \in DOMAIN s, j \in DOMAIN w.frame.waiting : w.frame.waiting[j] # s[i]
    BY <1>5, <1>7, <1>11, <2>2 DEF Good, CallsAreOrdered
  <2>6. Good(Post(w, s))
    BY <1>4, <1>6, <1>11, <1>12, <2>2, <2>3, <2>4, <2>5, PostGood
  <2>7. QED BY <2>1, <2>6, ApplyGood DEF s
<1>13. CASE frame.reg # "ok"
  <2> DEFINE q == Append(frame.waiting, c)
             g == [f EXCEPT !.waiting = q]
             y == [x EXCEPT !.state = "waiting"]
             u == [w EXCEPT !.frame = g, !.call = [w.call EXCEPT ![c] = y]]
  <2>1. Apply(u)
    <3>1. w = [frame |-> f, call |-> w.call, container |-> w.container, up |-> w.up,
              down |-> w.down]
      BY <1>6, WorldIsRecord
    <3>2. AwaitRegistration(w, c)
              = [w EXCEPT !.frame.waiting = Append(@, c), !.call[c].state = "waiting"]
      BY <1>4, <1>6, <1>13 DEF AwaitRegistration
    <3>a. [w EXCEPT !.frame.waiting = Append(@, c), !.call[c].state = "waiting"]
            = [w EXCEPT !.frame = [f EXCEPT !.waiting = Append(f.waiting, c)],
                        !.call = [w.call EXCEPT ![c] = [w.call[c] EXCEPT !.state = "waiting"]]]
      <4>1. w.call \in [Calls -> CallTypes] /\ w.frame \in Frames /\ w.frame = f
        BY <1>6, FieldTypes
      <4>2. QED BY <1>1, <3>1, <4>1
    <3>3. [w EXCEPT !.frame.waiting = Append(@, c), !.call[c].state = "waiting"] = u
      BY <1>4, <1>7, <3>a, Zenon
    <3>4. QED BY <1>3, <3>2, <3>3
  <2>2. /\ frame.waiting \in Seq(Calls) /\ q \in Seq(Calls)
        /\ DOMAIN q = DOMAIN frame.waiting \cup {Len(frame.waiting) + 1}
        /\ \A i \in DOMAIN frame.waiting : q[i] = frame.waiting[i]
        /\ q[Len(frame.waiting) + 1] = c
        /\ Len(frame.waiting) + 1 \notin DOMAIN frame.waiting
    BY <1>1, WorldIsGood, AppendProperties DEF Frames
  <2> HIDE DEF q
  <2>3. /\ g \in Frames /\ g.reg = frame.reg /\ g.calls = c /\ g.counter = frame.counter
        /\ g.waiting = q /\ g.timers = frame.timers
    BY <1>4, <2>2 DEF Frames
  <2>4. /\ y.kind = kind /\ y.state = "waiting" /\ y.id = 0 /\ y.closedBy = call[c].closedBy
        /\ y \in CallTypes
    BY <1>5 DEF CallTypes, States
  <2> HIDE DEF g, y
  <2>5. /\ u.frame = g /\ u.call = [w.call EXCEPT ![c] = y] /\ u.container = container
        /\ u.up = up /\ u.down = down /\ u \in Worlds
    BY <1>1, <1>6, <2>3, <2>4, WorldIsGood, WorldIsRecord DEF Worlds
  <2>6. /\ u.call[c] = y /\ \A b \in Calls : b # c => u.call[b] = w.call[b]
        /\ \A b \in Calls : u.call[b].id = w.call[b].id /\ u.call[b].kind = w.call[b].kind
                            /\ u.call[b].closedBy = w.call[b].closedBy
    BY <1>1, <1>5, <1>6, <1>7, <2>4, <2>5, WorldIsGood
  <2> HIDE DEF u
  <2>7. UnderWay(u) = UnderWay(w) /\ RegisterIsFirst(u) /\ ReportedOnce(u)
    <3>1. u.call[1].id = w.call[1].id /\ u.call[1].state = w.call[1].state
      BY <1>1, <2>6, CallsAreNumbers
    <3>2. u.container = w.container /\ u.up = w.up /\ u.down = w.down /\ u.frame.reg = w.frame.reg
      BY <1>4, <1>6, <2>3, <2>5
    <3>3. QED BY <1>11, <2>6, <3>1, <3>2, SameMessages
  <2>8. IdsAreFresh(u) /\ MessagesName(u) /\ ClosedByItsOwn(u)
    <3>1. IdsAreFresh(u)
      <4>1. u.frame.counter = w.frame.counter
        BY <1>4, <1>6, <2>3, <2>5
      <4>2. QED BY <1>11, <2>6, <4>1 DEF Good, IdsAreFresh
    <3>2. MessagesName(u)
      BY <1>6, <1>11, <2>5, <2>6, <2>7 DEF Good, MessagesName, Names
    <3>3. ClosedByItsOwn(u)
      BY <1>11, <2>6 DEF Good, ClosedByItsOwn
    <3>4. QED BY <3>1, <3>2, <3>3
  <2>9. CallsAreOrdered(u)
    <3>1. \A i \in DOMAIN frame.waiting : /\ frame.waiting[i] \in Calls /\ frame.waiting[i] # c
                                          /\ w.call[frame.waiting[i]].state = "waiting"
      BY <1>4, <1>5, <1>6, <1>7, <1>11, <2>2 DEF Good, CallsAreOrdered
    <3>2. \A i \in DOMAIN q : u.call[q[i]].state = "waiting"
      BY <3>1, <2>2, <2>4, <2>6
    <3>3. \A i, j \in DOMAIN q : q[i] = q[j] => i = j
      BY <1>4, <1>6, <1>11, <3>1, <2>2 DEF Good, CallsAreOrdered
    <3>4. \A b \in Calls : b > c => b # c
      BY <1>1, CallsAreNumbers
    <3>5. \A b \in Calls : b > c => u.call[b].state = "new"
      BY <3>4, <1>4, <1>6, <1>11, <2>6 DEF Good, CallsAreOrdered
    <3>6. \A b \in Calls : u.call[b].state \in {"new", "waiting"} => u.call[b].id = 0
      BY <1>11, <2>4, <2>6 DEF Good, CallsAreOrdered
    <3>7. \A b \in Calls : u.call[b].state # "new" => u.call[b].kind \in Kinds \cup {"register"}
      BY <1>11, <2>4, <2>6 DEF Good, CallsAreOrdered
    <3>8. \A b \in frame.timers : u.call[b].id > 0
      <4>1. \A b \in frame.timers : b \in Calls /\ w.call[b].id > 0
        BY <1>4, <1>6, <1>11, WorldIsGood DEF Good, CallsAreOrdered, Frames
      <4>2. QED BY <4>1, <2>6
    <3>9. u.frame.calls = c /\ u.frame.waiting = q /\ u.frame.timers = frame.timers
      BY <2>3, <2>5
    <3> HIDE DEF c
    <3>10. QED BY <3>2, <3>3, <3>5, <3>6, <3>7, <3>8, <3>9 DEF CallsAreOrdered
  <2>11. Good(u)
    BY <2>5, <2>7, <2>8, <2>9 DEF Good
  <2>12. QED BY <2>1, <2>11, ApplyGood
<1>14. QED BY <1>12, <1>13

\* World x is w without the first message of up, down or the queue
LEMMA TakenGood ==
  ASSUME NEW w, Good(w), NEW x \in Worlds, x.frame = w.frame, x.call = w.call,
         Range(x.down) \subseteq Range(w.down), UnderWay(x) \subseteq UnderWay(w),
         Len(x.up) + Len(x.container.queue) + Len(x.down)
           <= Len(w.up) + Len(w.container.queue) + Len(w.down),
         Reported(x.container),
         x.container.known = w.container.known, x.container.blocked = w.container.blocked
  PROVE  Good(x)
<1>1. \A a \in Range(x.down) : Names(w, a)
  BY DEF Good, MessagesName
<1>2. ReportedOnce(x)
  BY DEF Good, ReportedOnce
<1>3. QED BY <1>1, <1>2, TransitGood

LEMMA SumIsMonotonic ==
  ASSUME NEW a \in Nat, NEW b \in Nat, NEW c \in Nat
  PROVE  /\ a # 0 => (a - 1) + b + c <= a + b + c /\ (a - 1) + (b + 1) + c <= a + b + c
                     /\ (a - 1) + b + 1 = a + b
         /\ b # 0 => a + (b - 1) + 1 = a + b
         /\ c # 0 => a + b + (c - 1) <= a + b + c
         /\ a + b + c <= a + b + c
  OBVIOUS

LEMMA FrameReceivesGood ==
  ASSUME IInv, FrameReceives
  PROVE  IInv'
<1> DEFINE v == [World EXCEPT !.down = Tail(down)]
           a == Head(down)
<1>1. /\ down # <<>> /\ Apply(IF frame.blocked THEN v ELSE ClosePending(v, a.id, a.call, a))
  BY WorldIsGood, WorldIsRecord DEF FrameReceives
<1>2. /\ a \in Range(down) /\ Tail(down) \in Seq(Answers) /\ Range(Tail(down)) \subseteq Range(down)
      /\ Len(Tail(down)) = Len(down) - 1 /\ Len(down) \in Nat /\ Len(down) # 0
      /\ Range(down) \subseteq Answers /\ Len(up) \in Nat /\ Len(container.queue) \in Nat
  BY <1>1, WorldIsGood, RangeFacts
<1> HIDE DEF a
<1>3. /\ v.frame = frame /\ v.call = call /\ v.container = container /\ v.up = up
      /\ v.down = Tail(down) /\ v \in Worlds
  BY <1>2, WorldIsGood, WorldIsRecord DEF Worlds
<1> HIDE DEF v
<1>4. Good(v)
  <2>1. UnderWay(v) = UnderWay(World)
    BY <1>3, WorldIsGood DEF UnderWay
  <2>2. Len(up) + Len(container.queue) + (Len(down) - 1) <=
             Len(up) + Len(container.queue) + Len(down)
    BY <1>2, SumIsMonotonic
  <2>3. Len(v.up) + Len(v.container.queue) + Len(v.down)
          <= Len(World.up) + Len(World.container.queue) + Len(World.down)
    BY <1>2, <1>3, <2>2, WorldIsGood, Zenon
  <2>4. Reported(v.container)
    BY <1>3, WorldIsGood DEF Good, ReportedOnce
  <2>5. QED BY <1>2, <1>3, <2>1, <2>3, <2>4, WorldIsGood, TakenGood
<1>5. /\ a \in Answers /\ a.call \in Calls /\ a.id = v.call[a.call].id /\ a.id > 0
  BY <1>2, <1>3, WorldIsGood DEF Good, MessagesName, Names
<1>6. frame.reg # "ok" => UnderWay(v) = {}
  <2>1. frame.reg # "ok" => Len(up) + Len(container.queue) + Len(down) <= 1
    BY WorldIsGood DEF Good, RegisterIsFirst
  <2>2. frame.reg # "ok" => Len(up) = 0 /\ Len(container.queue) = 0
    <3> DEFINE x == Len(up)  y == Len(container.queue)  z == Len(down)
    <3>1. x \in Nat /\ y \in Nat /\ z \in Nat /\ z # 0
      BY <1>2
    <3>2. frame.reg # "ok" => x + y + z <= 1
      BY <2>1
    <3> HIDE DEF x, y, z
    <3>3. frame.reg # "ok" => x = 0 /\ y = 0
      BY <3>1, <3>2
    <3>4. QED BY <3>3 DEF x, y
  <2>3. QED BY <1>3, <2>2, WorldIsGood, RangeFacts DEF UnderWay
<1>7. CASE frame.blocked
  BY <1>1, <1>4, <1>7, ApplyGood
<1>8. CASE ~frame.blocked
  <2>1. Apply(ClosePending(v, a.id, a.call, a))
    BY <1>1, <1>8
  <2>2. CASE a.call = 1 /\ frame.reg = "ok"
    <3>1. v.call[1].state # "open" /\ v.call[1].id = 1
      BY <1>3, <2>2, WorldIsGood DEF Good, RegisterIsFirst
    <3>2. \A b \in Calls : v.call[b].id = 1 => b = 1
      BY <1>4, <3>1, CallsAreNumbers DEF Good, IdsAreFresh
    <3>3. ClosePending(v, a.id, a.call, a) = v
      BY <1>5, <2>2, <3>1, <3>2 DEF ClosePending
    <3>4. QED BY <1>4, <2>1, <3>3, ApplyGood
  <2>3. CASE ~(a.call = 1 /\ frame.reg = "ok")
    <3>1. Good(ClosePending(v, v.call[a.call].id, a.call, a))
      BY <1>4, <1>5, <1>6, <2>3, ClosePendingGood
    <3>2. QED BY <1>5, <2>1, <3>1, ApplyGood
  <2>4. QED BY <2>2, <2>3
<1>9. QED BY <1>7, <1>8

LEMMA TimeoutGood ==
  ASSUME IInv, NEW c \in Calls, Timeout(c)
  PROVE  IInv'
<1> DEFINE f == [frame EXCEPT !.timers = frame.timers \ {c}]
           v == [World EXCEPT !.frame = f]
<1>1. c \in frame.timers /\ Apply(ClosePending(v, call[c].id, c, TimedOut))
  BY WorldIsGood, WorldIsRecord DEF Timeout
<1>2. /\ f \in Frames /\ f.reg = frame.reg /\ f.calls = frame.calls /\ f.counter = frame.counter
      /\ f.waiting = frame.waiting /\ f.timers = frame.timers \ {c}
  BY WorldIsGood DEF Frames
<1> HIDE DEF f
<1>3. /\ v.frame = f /\ v.call = call /\ v.container = container /\ v.up = up
      /\ v.down = down /\ v \in Worlds
  BY <1>2, WorldIsGood, WorldIsRecord DEF Worlds
<1> HIDE DEF v
<1>4. Good(v)
  <2>1. UnderWay(v) = UnderWay(World) /\ RegisterIsFirst(v) /\ ReportedOnce(v)
    BY <1>2, <1>3, WorldIsGood, SameMessages
  <2>2. IdsAreFresh(v) /\ MessagesName(v) /\ ClosedByItsOwn(v)
    BY <1>2, <1>3, <2>1, WorldIsGood DEF Good, IdsAreFresh, MessagesName, ClosedByItsOwn, Names
  <2>3. CallsAreOrdered(v)
    BY <1>2, <1>3, WorldIsGood DEF Good, CallsAreOrdered
  <2>4. QED BY <1>3, <2>1, <2>2, <2>3 DEF Good
<1>5. v.call[c].id > 0
  BY <1>1, <1>3, WorldIsGood DEF Good, CallsAreOrdered
<1>6. QED BY <1>1, <1>3, <1>4, <1>5, ClosePendingGood, ApplyGood

\* A change of the container that keeps its queue and its reports
LEMMA StageGood ==
  ASSUME IInv, NEW c \in ContainerTypes, Apply([World EXCEPT !.container = c]),
         c.queue = container.queue, Reported(c),
         c.known = container.known, c.blocked = container.blocked
  PROVE  IInv'
<1> DEFINE v == [World EXCEPT !.container = c]
<1>1. /\ v.frame = frame /\ v.call = call /\ v.container = c /\ v.up = up
      /\ v.down = down /\ v \in Worlds
  BY WorldIsGood, WorldIsRecord DEF Worlds
<1> HIDE DEF v
<1>2. UnderWay(v) = UnderWay(World)
  BY <1>1, WorldIsGood DEF UnderWay
<1>3. Len(v.up) + Len(v.container.queue) + Len(v.down)
        <= Len(World.up) + Len(World.container.queue) + Len(World.down)
  <2>1. Len(up) \in Nat /\ Len(container.queue) \in Nat /\ Len(down) \in Nat
    BY WorldIsGood, RangeFacts
  <2>2. Len(up) + Len(container.queue) + Len(down) <=
             Len(up) + Len(container.queue) + Len(down)
    BY <2>1, SumIsMonotonic, Zenon
  <2>3. QED BY <1>1, <2>2, WorldIsGood, Zenon
<1>4. Good(v)
  BY <1>1, <1>2, <1>3, WorldIsGood, TakenGood
<1>5. QED BY <1>4, ApplyGood DEF v

LEMMA SameReport ==
  ASSUME IInv, NEW c, c.timings = container.timings, c.reportedAt = container.reportedAt,
         c.known = container.known, c.blocked = container.blocked
  PROVE  Reported(c)
  BY WorldIsGood DEF Good, ReportedOnce, Reported

\* configure(), setupIframeMFEMessageListener and the end of its drain
LEMMA SetUpGood ==
  ASSUME IInv, Configure \/ SetUp \/ Drained
  PROVE  IInv'
<1>1. PICK stage \in Stages : Apply([World EXCEPT !.container = [container EXCEPT !.stage = stage]])
  BY WorldIsGood, WorldIsRecord DEF Configure, SetUp, Drained, Stages
<1> DEFINE c == [container EXCEPT !.stage = stage]
<1>2. /\ c \in ContainerTypes /\ c.queue = container.queue /\ c.known = container.known
      /\ c.blocked = container.blocked /\ c.reportedAt = container.reportedAt
      /\ c.timings = container.timings
  BY WorldIsGood DEF ContainerTypes
<1>3. Apply([World EXCEPT !.container = c])
  BY <1>1
<1> HIDE DEF c
<1>4. Reported(c)
  BY <1>2, SameReport
<1>5. QED BY <1>2, <1>3, <1>4, StageGood

LEMMA PageUnloadGood ==
  ASSUME IInv, PageUnload
  PROVE  IInv'
<1> DEFINE c == [container EXCEPT !.reportedAt = TRUE, !.timings = 1]
<1>1. container.known /\ Reported(container)
  BY WorldIsGood DEF PageUnload, Good, ReportedOnce
<1>2. Apply([World EXCEPT !.container = c])
  BY <1>1, WorldIsGood, ReportTimingsFacts DEF PageUnload
<1>3. /\ c \in ContainerTypes /\ c.queue = container.queue /\ c.known = container.known
      /\ c.blocked = container.blocked /\ c.reportedAt = TRUE /\ c.timings = 1
  BY WorldIsGood DEF ContainerTypes
<1>4. Reported(c)
  BY <1>1, <1>3 DEF Reported
<1> HIDE DEF c
<1>5. QED BY <1>2, <1>3, <1>4, StageGood

\* drainGroup: a message of the queue
LEMMA DrainOneGood ==
  ASSUME IInv, NEW failed \in BOOLEAN, DrainOne(failed)
  PROVE  IInv'
<1> DEFINE q == Tail(container.queue)
           m == Head(container.queue)
           c == [container EXCEPT !.queue = q]
           x == [World EXCEPT !.container = c]
<1>1. container.queue # <<>> /\ Apply(Process(x, m, failed))
  BY WorldIsGood, WorldIsRecord DEF DrainOne
<1>2. /\ m \in Range(container.queue) /\ q \in Seq(Messages)
      /\ Range(q) \subseteq Range(container.queue) /\ Len(q) = Len(container.queue) - 1
      /\ Len(container.queue) # 0 /\ Len(container.queue) \in Nat /\ Len(up) \in Nat
  BY <1>1, WorldIsGood, RangeFacts
<1> HIDE DEF m, q
<1>3. /\ c \in ContainerTypes /\ c.queue = q /\ c.known = container.known
      /\ c.blocked = container.blocked /\ c.reportedAt = container.reportedAt
      /\ c.timings = container.timings
  BY <1>2, WorldIsGood DEF ContainerTypes
<1> HIDE DEF c
<1>4. /\ x.frame = frame /\ x.call = call /\ x.container = c /\ x.up = up
      /\ x.down = down /\ x \in Worlds
  BY <1>3, WorldIsGood, WorldIsRecord DEF Worlds
<1> HIDE DEF x
<1>5. /\ m \in UnderWay(World) /\ UnderWay(x) \subseteq UnderWay(World)
  BY <1>2, <1>3, <1>4, WorldIsGood DEF UnderWay
<1>6. Len(x.up) + Len(x.container.queue) + 1 = Len(World.up) + Len(World.container.queue)
  <2>1. Len(up) + (Len(container.queue) - 1) + 1 = Len(up) + Len(container.queue)
    BY <1>2, SumIsMonotonic
  <2>2. QED BY <1>2, <1>3, <1>4, <2>1, WorldIsGood, Zenon
<1>7. Reported(x.container)
  BY <1>3, <1>4, SameReport
<1>8. Good(Process(x, m, failed))
  BY <1>3, <1>4, <1>5, <1>6, <1>7, WorldIsGood, ProcessGood
<1>9. QED BY <1>1, <1>8, ApplyGood

\* The listener's container: a message is lost, waits or is handled
LEMMA ContainerReceivesGood ==
  ASSUME IInv, NEW failed \in BOOLEAN, ContainerReceives(failed)
  PROVE  IInv'
<1> DEFINE t == Tail(up)
           m == Head(up)
           q == Append(container.queue, m)
           c == [container EXCEPT !.queue = q]
           v == [World EXCEPT !.up = t]
           u == [World EXCEPT !.container = c, !.up = t]
<1>1. /\ up # <<>>
      /\ Apply(v) \/ Apply(u) \/ Apply(Process(v, m, failed))
  BY WorldIsGood, WorldIsRecord DEF ContainerReceives
<1>2. /\ m \in Range(up) /\ m \in Messages /\ t \in Seq(Messages) /\ Range(t) \subseteq Range(up)
      /\ Len(t) = Len(up) - 1 /\ Len(up) # 0 /\ Len(up) \in Nat
      /\ Len(container.queue) \in Nat /\ Len(down) \in Nat
  BY <1>1, WorldIsGood, RangeFacts
<1> HIDE DEF m, t
<1>3. /\ q \in Seq(Messages) /\ Range(q) = Range(container.queue) \cup {m}
      /\ Len(q) = Len(container.queue) + 1
  BY <1>2, WorldIsGood, RangeFacts
<1> HIDE DEF q
<1>4. /\ c \in ContainerTypes /\ c.queue = q /\ c.known = container.known
      /\ c.blocked = container.blocked /\ c.reportedAt = container.reportedAt
      /\ c.timings = container.timings
  BY <1>3, WorldIsGood DEF ContainerTypes
<1> HIDE DEF c
<1>5. /\ v.frame = frame /\ v.call = call /\ v.container = container /\ v.up = t
      /\ v.down = down /\ v \in Worlds
  BY <1>2, WorldIsGood, WorldIsRecord DEF Worlds
<1>6. /\ u.frame = frame /\ u.call = call /\ u.container = c /\ u.up = t
      /\ u.down = down /\ u \in Worlds
  BY <1>2, <1>4, WorldIsGood, WorldIsRecord DEF Worlds
<1> HIDE DEF v, u
<1>7. /\ m \in UnderWay(World)
      /\ UnderWay(v) \subseteq UnderWay(World) /\ UnderWay(u) \subseteq UnderWay(World)
  BY <1>2, <1>3, <1>4, <1>5, <1>6, WorldIsGood DEF UnderWay
<1>8. /\ (Len(up) - 1) + Len(container.queue) + Len(down) <=
             Len(up) + Len(container.queue) + Len(down)
      /\ (Len(up) - 1) + (Len(container.queue) + 1) + Len(down)
           <=
             Len(up) + Len(container.queue) + Len(down)
      /\ (Len(up) - 1) + Len(container.queue) + 1 = Len(up) + Len(container.queue)
  BY <1>2, SumIsMonotonic
<1>9. CASE Apply(v)
  <2>1. Len(v.up) + Len(v.container.queue) + Len(v.down)
          <= Len(World.up) + Len(World.container.queue) + Len(World.down)
    BY <1>2, <1>5, <1>8, WorldIsGood, Zenon
  <2>2. Reported(v.container)
    BY <1>5, SameReport
  <2>3. Good(v)
    BY <1>5, <1>7, <2>1, <2>2, WorldIsGood, TakenGood
  <2>4. QED BY <1>9, <2>3, ApplyGood
<1>10. CASE Apply(u)
  <2>1. Len(u.up) + Len(u.container.queue) + Len(u.down)
          <= Len(World.up) + Len(World.container.queue) + Len(World.down)
    BY <1>2, <1>3, <1>4, <1>6, <1>8, WorldIsGood, Zenon
  <2>2. Reported(u.container)
    BY <1>4, <1>6, SameReport
  <2>3. Good(u)
    BY <1>4, <1>6, <1>7, <2>1, <2>2, WorldIsGood, TakenGood
  <2>4. QED BY <1>10, <2>3, ApplyGood
<1>11. CASE Apply(Process(v, m, failed))
  <2>1. Len(v.up) + Len(v.container.queue) + 1 = Len(World.up) + Len(World.container.queue)
    BY <1>2, <1>5, <1>8, WorldIsGood, Zenon
  <2>2. Reported(v.container)
    BY <1>5, SameReport
  <2>3. Good(Process(v, m, failed))
    BY <1>5, <1>7, <2>1, <2>2, WorldIsGood, ProcessGood
  <2>4. QED BY <1>11, <2>3, ApplyGood
<1>12. QED BY <1>1, <1>9, <1>10, <1>11

-----------------------------------------------------------------------------
LEMMA StepGood == IInv /\ [BridgeNext]_bridgeVars => IInv'
<1> SUFFICES ASSUME IInv, [BridgeNext]_bridgeVars PROVE IInv'
  OBVIOUS
<1>1. CASE FrameReceives
  BY <1>1, FrameReceivesGood
<1>2. CASE Configure \/ SetUp \/ Drained
  BY <1>2, SetUpGood
<1>3. CASE PageUnload
  BY <1>3, PageUnloadGood
<1>4. ASSUME NEW kind \in Kinds, MakeCall(kind) PROVE IInv'
  BY <1>4, MakeCallGood
<1>5. ASSUME NEW c \in Calls, Timeout(c) PROVE IInv'
  BY <1>5, TimeoutGood
<1>6. ASSUME NEW failed \in {FALSE, MayThrow}, DrainOne(failed) \/ ContainerReceives(failed)
      PROVE  IInv'
  BY <1>6, DrainOneGood, ContainerReceivesGood
<1>7. CASE UNCHANGED bridgeVars
  BY <1>7 DEF bridgeVars, IInv, World, Good, IdsAreFresh, CallsAreOrdered, MessagesName,
              ClosedByItsOwn, RegisterIsFirst, ReportedOnce, Names, UnderWay
<1>8. QED BY <1>1, <1>2, <1>3, <1>4, <1>5, <1>6, <1>7 DEF BridgeNext

LEMMA Invariance == BridgeSpec => []IInv
<1>1. QED BY InitGood, StepGood, PTL DEF BridgeSpec

(***************************************************************************)
(* The answer that closes a call is its own, whatever is called, answered  *)
(* late or timed out in between (#openPending, #closePending).             *)
(***************************************************************************)
THEOREM AnswersMatch == BridgeSpec => []AnswersMatchCalls
<1>1. IInv => AnswersMatchCalls
  BY WorldIsGood DEF AnswersMatchCalls, Good, ClosedByItsOwn
<1>2. QED BY <1>1, Invariance, PTL

(***************************************************************************)
(* A micro frontend that was deregistered has reported its timings, and    *)
(* nothing reports them twice (reportTimings, deregister).                 *)
(***************************************************************************)
THEOREM EndOfLifeIsReported == BridgeSpec => []EndOfLifeReported
<1>1. IInv => EndOfLifeReported
  <2>1. IInv => Reported(container) /\ container \in ContainerTypes
    BY WorldIsGood DEF Good, ReportedOnce
  <2>2. QED BY <2>1 DEF EndOfLifeReported, Reported, ContainerTypes
<1>2. QED BY <1>1, Invariance, PTL
=============================================================================
