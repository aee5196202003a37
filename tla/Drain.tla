-------------------------------- MODULE Drain --------------------------------
(***************************************************************************)
(* The event emitter's backlog and the drain registry.  Instrumentation    *)
(* emits events before the code that handles them is loaded: they are      *)
(* buffered by group and replayed when every registered feature is ready,  *)
(* lowest priority number first.  Instruments load their aggregates one by *)
(* one; each aggregate stages or deregisters its group, or fails to load.  *)
(*                                                                         *)
(* JavaScript runs a drain to completion.  `agenda' is the rest of that    *)
(* run: while it is not empty only the drain takes steps.  The events of a *)
(* group are numbered in the order in which they are emitted.              *)
(***************************************************************************)
EXTENDS Naturals, Sequences, FiniteSets

CONSTANTS
  Group,       \* features, and groups such as 'session' that never register
  Feature,     \* the groups that have an instrument
  AutoStart,   \* features that register when they are constructed
  Priority,    \* featurePriority
  CascadeTo,   \* the group a handler of a group emits to in turn, or None
  None,
  MayFail,     \* features whose aggregate may fail to load
  MaxEvents    \* bound: events emitted to each group

ASSUME GroupAssumption ==
  /\ Feature \subseteq Group /\ IsFiniteSet(Feature)
  /\ AutoStart \subseteq Feature
  /\ MayFail \subseteq Feature
  /\ MaxEvents \in Nat
ASSUME PriorityAssumption == Priority \in [Group -> Nat]
ASSUME CascadeAssumption ==
  /\ None \notin Group
  /\ CascadeTo \in [Group -> Group \cup {None}]
  /\ \A g \in Group : CascadeTo[g] # g

VARIABLES
  registry,    \* runtime.drainRegistry
  backlog,     \* ee.backlog: per group the buffered events
  buffering,   \* whether the backlog's entry is missing, open or null
  handlers,    \* groups with an entry in registerHandler's storage
  listening,   \* groups whose handlers were attached with ee.on
  aborted,     \* the agent's ee was aborted
  started,     \* newrelic.start() was called
  loading,     \* how far a feature's importAggregator has come
  agenda,      \* groups still to drain in this run
  sent,        \* events emitted so far, per group
  handled      \* history: per group the events handled, in that order

vars == <<registry, backlog, buffering, handlers, listening, aborted, started,
          loading, agenda, sent, handled>>

Event == [n : 1..MaxEvents, derived : BOOLEAN]
Item == [group : Group, activate : BOOLEAN, abort : BOOLEAN]
Loading == {"waiting", "loaded", "skipped", "staged", "off", "failed"}

TypeOK ==
  /\ registry \in [Feature -> {"absent", "waiting", "staged"}]
  /\ backlog \in [Group -> Seq(Event)]
  /\ buffering \in [Group -> {"missing", "open", "null"}]
  /\ handlers \in SUBSET Group
  /\ listening \in SUBSET Group
  /\ aborted \in BOOLEAN
  /\ started \in BOOLEAN
  /\ loading \in [Feature -> Loading]
  /\ agenda \in Seq(Item)
  /\ sent \in [Group -> 0..MaxEvents]
  /\ handled \in [Group -> Seq(1..MaxEvents)]

\* The instruments are constructed: those with autoStart have registered.
Init ==
  /\ registry = [f \in Feature |-> IF f \in AutoStart THEN "waiting" ELSE "absent"]
  /\ backlog = [g \in Group |-> <<>>]
  /\ buffering = [g \in Group |-> "missing"]
  /\ handlers = {}
  /\ listening = {}
  /\ aborted = FALSE
  /\ started = FALSE
  /\ loading = [f \in Feature |-> "waiting"]
  /\ agenda = <<>>
  /\ sent = [g \in Group |-> 0]
  /\ handled = [g \in Group |-> <<>>]

Idle == agenda = <<>>

-----------------------------------------------------------------------------
\* handle(): ee.buffer opens the group's entry unless the key exists, then
\* ee.emit calls the listeners and, if the entry is an array, buffers.
OpenedAgain(g) ==  \* mutant: a drained group's null counts as missing
  IF buffering[g] # "open" /\ ~aborted THEN "open" ELSE buffering[g]
Opened(g) == IF buffering[g] = "missing" /\ ~aborted THEN "open" ELSE buffering[g]

\* The groups that the handler of g's events emits to in turn; a derived event
\* causes no further ones.
Targets(g) == {h \in Group : h = CascadeTo[g] /\ sent[h] < MaxEvents}

\* ee.emit: a new event for each group in S, derived in those of D.  It goes to
\* the listeners, and to the backlog if that is an array.
Emit(S, D) ==
  /\ sent' = [g \in Group |-> IF g \in S THEN sent[g] + 1 ELSE sent[g]]
  /\ buffering' = [g \in Group |-> IF g \in S THEN Opened(g) ELSE buffering[g]]
  /\ backlog' = [g \in Group |->
       IF g \in S /\ Opened(g) = "open"
       THEN Append(backlog[g], [n |-> sent[g] + 1, derived |-> g \in D])
       ELSE backlog[g]]

\* The events just emitted to S, as far as somebody listens
Heard(S) == [g \in Group |-> IF g \in S \cap listening
                             THEN Append(handled[g], sent[g] + 1) ELSE handled[g]]

\* Instrumentation calls handle(type, args, ctx, group, ee).
Handle(g) ==
  LET D == IF g \in listening THEN Targets(g) ELSE {} IN
  /\ Idle
  /\ sent[g] < MaxEvents
  /\ Emit({g} \cup D, D)
  /\ handled' = Heard({g} \cup D)
  /\ UNCHANGED <<registry, handlers, listening, aborted, started, loading, agenda>>

-----------------------------------------------------------------------------
\* checkCanDrainAll: nothing, or every registered group by priority.
Registered(reg) == {f \in Feature : reg[f] # "absent"}
Orders(S) ==
  {q \in [1..Cardinality(S) -> S] :
     /\ \A f \in S : \E i \in DOMAIN q : q[i] = f
     /\ \A i, j \in DOMAIN q : i < j => q[i] # q[j] /\ Priority[q[i]] <= Priority[q[j]]}
CheckNothing(reg) == Orders(Registered(reg))  \* mutant: the staged marks are ignored
CheckCanDrainAll(reg) ==
  IF \A f \in Registered(reg) : reg[f] = "staged" THEN Orders(Registered(reg)) ELSE {<<>>}

\* drainGroup for each group of q
Drained(q) == [i \in DOMAIN q |-> [group |-> q[i], activate |-> TRUE, abort |-> FALSE]]

\* drain(agentRef, f) without force
DrainCall(f) ==
  IF registry[f] = "absent"
  THEN /\ agenda' = <<[group |-> f, activate |-> TRUE, abort |-> FALSE]>>
       /\ UNCHANGED registry
  ELSE /\ registry' = [registry EXCEPT ![f] = "staged"]
       /\ \E q \in CheckCanDrainAll(registry') : agenda' = Drained(q)

\* deregisterDrain(agentRef, f): release the group, then see whether it was the
\* last one the others waited for.
\* Mutant: the others are not looked at.
DeregisterOnly(f) ==
  /\ registry' = [registry EXCEPT ![f] = "absent"]
  /\ agenda' = <<[group |-> f, activate |-> FALSE, abort |-> FALSE]>>
DeregisterCall(f) ==
  /\ registry' = [registry EXCEPT ![f] = "absent"]
  /\ \E q \in CheckCanDrainAll(registry') :
       agenda' = <<[group |-> f, activate |-> FALSE, abort |-> FALSE]>> \o Drained(q)

\* drainGroup, loop body: the handlers see the next buffered event.  Its length
\* is read every time: a handler may add to the backlog being replayed.
Replayed == Len(handled[Head(agenda).group])
ReplayingButLast ==  \* mutant: off by one
  /\ ~Idle
  /\ ~aborted
  /\ Head(agenda).activate /\ Head(agenda).group \in handlers
  /\ buffering[Head(agenda).group] = "open"
  /\ Replayed + 1 < Len(backlog[Head(agenda).group])
Replaying ==
  /\ ~Idle
  /\ ~aborted
  /\ Head(agenda).activate
  /\ Head(agenda).group \in handlers
  /\ buffering[Head(agenda).group] = "open"
  /\ Replayed < Len(backlog[Head(agenda).group])

ReplayNewest ==  \* mutant: the backlog is emptied from its end
  /\ Replaying
  /\ LET g == Head(agenda).group
         e == backlog[g][Len(backlog[g]) - Replayed]
         D == IF e.derived THEN {} ELSE Targets(g)
     IN /\ Emit(D, D)
        /\ handled' = [Heard(D) EXCEPT ![g] = Append(@, e.n)]
  /\ UNCHANGED <<registry, handlers, listening, aborted, started, loading, agenda>>
ReplayNext ==
  /\ Replaying
  /\ LET g == Head(agenda).group
         e == backlog[g][Replayed + 1]
         D == IF e.derived THEN {} ELSE Targets(g)
     IN /\ Emit(D, D)
        /\ handled' = [Heard(D) EXCEPT ![g] = Append(@, e.n)]
  /\ UNCHANGED <<registry, handlers, listening, aborted, started, loading, agenda>>

\* drainGroup, after the loop: attach the handlers, delete them from the
\* storage, drop the backlog.  An aborted emitter makes drainGroup return first.
\* A failed import then aborts the agent's emitter, which deletes every entry.
FinishGroup ==
  LET item == Head(agenda)
      g == item.group
      effective == ~aborted
  IN /\ ~Idle
     /\ ~Replaying
     /\ agenda' = Tail(agenda)
     /\ registry' = [f \in Feature |->
          IF f = g /\ ~item.abort THEN "absent" ELSE registry[f]]
     /\ listening' = IF effective /\ item.activate /\ g \in handlers
                     THEN listening \cup {g} ELSE listening
     /\ handlers' = IF effective THEN handlers \ {g} ELSE handlers
     /\ aborted' = (aborted \/ item.abort)
     /\ backlog' = [h \in Group |-> IF item.abort \/ (effective /\ h = g)
                                    THEN <<>> ELSE backlog[h]]
     /\ buffering' = [h \in Group |-> IF item.abort THEN "missing"
                                      ELSE IF effective /\ h = g THEN "null"
                                      ELSE buffering[h]]
     /\ UNCHANGED <<started, loading, sent, handled>>

-----------------------------------------------------------------------------
\* newrelic.start(): 'manual-start-all' registers the deferred features, once.
Start ==
  /\ Idle
  /\ ~started
  /\ started' = TRUE
  /\ registry' = [f \in Feature |->
       IF f \notin AutoStart /\ registry[f] = "absent" THEN "waiting" ELSE registry[f]]
  /\ UNCHANGED <<backlog, buffering, handlers, listening, aborted, loading, agenda,
                 sent, handled>>

Loads(f) == Idle /\ loading[f] = "waiting" /\ (f \in AutoStart \/ started)

\* importAggregator: shouldImportAgg says no, and the group drains unhandled
SkipImport(f) ==
  /\ Loads(f)
  /\ loading' = [loading EXCEPT ![f] = "skipped"]
  /\ DrainCall(f)
  /\ UNCHANGED <<backlog, buffering, handlers, listening, aborted, started, sent, handled>>

\* registerHandler(type, handler, group, ee)
RegisterHandler(g) == handlers' = handlers \cup {g}

\* importAggregator: the aggregate's constructor registers its handlers
Load(f) ==
  /\ Loads(f)
  /\ loading' = [loading EXCEPT ![f] = "loaded"]
  /\ RegisterHandler(f)
  /\ UNCHANGED <<registry, backlog, buffering, listening, aborted, started, agenda,
                 sent, handled>>

\* The aggregate learns its flags and drains, or is not entitled and deregisters
StageFeature(f) ==
  /\ Idle
  /\ loading[f] = "loaded"
  /\ loading' = [loading EXCEPT ![f] = "staged"]
  /\ DrainCall(f)
  /\ UNCHANGED <<backlog, buffering, handlers, listening, aborted, started, sent, handled>>

Disable(f) ==
  /\ Idle
  /\ loading[f] = "loaded"
  /\ loading' = [loading EXCEPT ![f] = "off"]
  /\ DeregisterCall(f)
  /\ UNCHANGED <<backlog, buffering, handlers, listening, aborted, started, sent, handled>>

\* importAggregator's catch: the chunk did not load, or the constructor threw
\* before or after it registered handlers; drain by force, then ee.abort().
FailImport(f) ==
  /\ Loads(f)
  /\ f \in MayFail
  /\ loading' = [loading EXCEPT ![f] = "failed"]
  /\ handlers' \in {handlers, handlers \cup {f}}
  /\ agenda' = <<[group |-> f, activate |-> TRUE, abort |-> TRUE]>>
  /\ UNCHANGED <<registry, backlog, buffering, listening, aborted, started, sent, handled>>

\* setupAgentSession: a group outside the registry registers and drains at once
DrainUnregistered(g) ==
  /\ Idle
  /\ g \in Group \ (Feature \cup listening)
  /\ RegisterHandler(g)
  /\ agenda' = <<[group |-> g, activate |-> TRUE, abort |-> FALSE]>>
  /\ UNCHANGED <<registry, backlog, buffering, listening, aborted, started, loading,
                 sent, handled>>

\* A failed RUM call or invalid info: ee.abort()
Abort ==
  /\ Idle
  /\ ~aborted
  /\ aborted' = TRUE
  /\ backlog' = [g \in Group |-> <<>>]
  /\ buffering' = [g \in Group |-> "missing"]
  /\ UNCHANGED <<registry, handlers, listening, started, loading, agenda, sent, handled>>

Next ==
  \/ \E g \in Group : Handle(g)
  \/ ReplayNext
  \/ FinishGroup
  \/ Start
  \/ \E f \in Feature : SkipImport(f) \/ Load(f) \/ StageFeature(f) \/ Disable(f)
                        \/ FailImport(f)
  \/ \E g \in Group : DrainUnregistered(g)
  \/ Abort

Spec == Init /\ [][Next]_vars

\* A drain runs to completion; after window load every auto-started feature
\* imports its aggregate and the aggregate decides.
Fairness ==
  /\ WF_vars(ReplayNext \/ FinishGroup)
  /\ \A f \in Feature :
       /\ WF_vars(SkipImport(f) \/ Load(f) \/ FailImport(f))
       /\ WF_vars(StageFeature(f) \/ Disable(f))

FairSpec == Spec /\ Fairness

-----------------------------------------------------------------------------
\* No event is handled twice, skipped or overtaken: replay and live delivery
\* together hand a group its events 1, 2, 3, ... in the order of emission.
HandledInOrder ==
  \A g \in Group : \A i \in DOMAIN handled[g] : handled[g][i] = i

\* Nothing is lost at the moment of switching from buffering to listening: a
\* group that listens has handled all it was sent.
ListenersMissNothing ==
  \A g \in listening : Len(handled[g]) = sent[g]

\* A drained or released group holds no memory, and a listening group is not
\* buffered as well.
ReleasedStaysEmpty ==
  \A g \in Group :
    /\ buffering[g] # "open" => backlog[g] = <<>>
    /\ g \in listening => buffering[g] # "open"

\* An event of a registered feature is replayed only when no registered feature
\* is left to stage, and only when those with a lower priority number are done.
ReplayWaitsForAll ==
  [][LET g == Head(agenda).group IN
     ReplayNext /\ ~Head(agenda).abort /\ g \in Feature /\ registry[g] # "absent" =>
       \A f \in Feature : /\ registry[f] # "waiting"
                          /\ registry[f] = "staged" /\ Priority[f] < Priority[g]
                               => buffering[f] # "open"]_vars

\* A registered feature never blocks the others for good: what was sent to a
\* loaded feature is handled in the end.
EventuallyHandled ==
  \A f \in Feature, n \in 1..MaxEvents :
    (loading[f] = "staged" /\ sent[f] >= n) ~> (Len(handled[f]) >= n \/ aborted)
=============================================================================
