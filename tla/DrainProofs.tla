----------------------------- MODULE DrainProofs -----------------------------
(***************************************************************************)
(* Proofs about Drain, for all groups and features, all priorities and     *)
(* every way in which handlers emit to other groups: types, that released  *)
(* groups stay empty, that every event is handled once and in order, that  *)
(* listeners miss nothing, and that a replay waits for all.                *)
(***************************************************************************)
EXTENDS Drain, FiniteSetTheorems, TLAPS

USE GroupAssumption, PriorityAssumption, CascadeAssumption

-----------------------------------------------------------------------------
\* An open entry holds all the group was sent; one that was never opened means
\* that the group was sent nothing.
BacklogIsComplete ==
  \A g \in Group :
    /\ buffering[g] = "open" => /\ Len(backlog[g]) = sent[g]
                                /\ \A i \in 1..sent[g] : backlog[g][i].n = i
    /\ buffering[g] = "missing" /\ ~aborted => sent[g] = 0

NotAhead == \A g \in Group : Len(handled[g]) <= sent[g]

AbortedOrListening ==
  /\ aborted => \A g \in Group : buffering[g] = "missing"
  /\ ~aborted => \A g \in listening : buffering[g] = "null"

\* A group is released once: the entry is not null while something may still
\* release the group.
ReleasedOnce ==
  /\ \A f \in Feature : registry[f] = "staged" => loading[f] \in {"skipped", "staged"}
  /\ \A f \in Feature \ AutoStart : ~started => loading[f] = "waiting"
  /\ ~aborted => \A f \in Feature :
       registry[f] # "absent" \/ loading[f] \in {"waiting", "loaded"} =>
         buffering[f] # "null"
  /\ ~aborted => \A g \in Group \ (Feature \cup listening) : buffering[g] # "null"

\* What is on the agenda is there once and was not released before.
AgendaIsNew ==
  /\ \A i, j \in DOMAIN agenda : i < j => agenda[i].group # agenda[j].group
  /\ \A i \in DOMAIN agenda :
       LET g == agenda[i].group IN
       /\ ~aborted => buffering[g] # "null"
       /\ g \in Feature => loading[g] \notin {"waiting", "loaded"}
       /\ g \notin Feature => agenda[i].activate /\ g \in handlers

\* A registered group is on the agenda only with all others, and in order.
\* A group that aborts the emitter is there alone.
AgendaIsSorted ==
  \A i \in DOMAIN agenda :
    LET g == agenda[i].group IN
    /\ agenda[i].abort => DOMAIN agenda = {1}
    /\ g \in Feature /\ registry[g] # "absent" /\ ~agenda[i].abort =>
         /\ \A f \in Feature :
              /\ registry[f] # "waiting"
              /\ registry[f] = "staged" => \E j \in DOMAIN agenda : agenda[j].group = f
         /\ \A j \in DOMAIN agenda : i < j => Priority[g] <= Priority[agenda[j].group]

DrainInv ==
  /\ TypeOK
  /\ BacklogIsComplete
  /\ HandledInOrder
  /\ NotAhead
  /\ ListenersMissNothing
  /\ ReleasedStaysEmpty
  /\ AbortedOrListening
  /\ ReleasedOnce
  /\ AgendaIsNew
  /\ AgendaIsSorted

LEMMA InitInv == Init => DrainInv
<1> SUFFICES ASSUME Init PROVE DrainInv
  OBVIOUS
<1>1. TypeOK
  <2>1. <<>> \in Seq(Event) /\ <<>> \in Seq(1..MaxEvents) /\ <<>> \in Seq(Item)
    OBVIOUS
  <2>2. 0 \in 0..MaxEvents
    OBVIOUS
  <2>3. QED BY <2>1, <2>2 DEF Init, TypeOK, Loading
<1>2. /\ BacklogIsComplete /\ HandledInOrder /\ NotAhead /\ ListenersMissNothing
      /\ ReleasedStaysEmpty /\ AbortedOrListening
  BY DEF Init, BacklogIsComplete, HandledInOrder, NotAhead, ListenersMissNothing,
         ReleasedStaysEmpty, AbortedOrListening
<1>3. ReleasedOnce /\ AgendaIsNew /\ AgendaIsSorted
  BY DEF Init, ReleasedOnce, AgendaIsNew, AgendaIsSorted
<1>4. QED BY <1>1, <1>2, <1>3 DEF DrainInv

-----------------------------------------------------------------------------
\* What checkCanDrainAll puts on the agenda: each registered feature, all of
\* them staged, or nothing.
LEMMA DrainAll ==
  ASSUME NEW reg \in [Feature -> {"absent", "waiting", "staged"}],
         NEW q \in CheckCanDrainAll(reg)
  PROVE  /\ Drained(q) \in Seq(Item) /\ DOMAIN Drained(q) = DOMAIN q
         /\ \A i \in DOMAIN q :
              /\ Drained(q)[i] = [group |-> q[i], activate |-> TRUE, abort |-> FALSE]
              /\ q[i] \in Feature /\ reg[q[i]] = "staged"
              /\ \A f \in Feature :
                   reg[f] # "absent" => reg[f] = "staged" /\ \E j \in DOMAIN q : q[j] = f
         /\ \A i, j \in DOMAIN q : i < j => q[i] # q[j] /\ Priority[q[i]] <= Priority[q[j]]
<1>1. CASE q = <<>>
  BY <1>1 DEF Drained, Item
<1>2. CASE /\ \A f \in Registered(reg) : reg[f] = "staged"
           /\ q \in Orders(Registered(reg))
  <2> DEFINE n == Cardinality(Registered(reg))
  <2>1. n \in Nat
    <3>1. IsFiniteSet(Registered(reg))
      BY FS_Subset DEF Registered
    <3>2. QED BY <3>1, FS_CardinalityType
  <2>2. q \in [1..n -> Registered(reg)] /\ DOMAIN q = 1..n
    BY <1>2 DEF Orders
  <2>3. \A i \in DOMAIN q : q[i] \in Feature /\ reg[q[i]] = "staged"
    BY <1>2, <2>2 DEF Registered
  <2>4. \A f \in Feature :
          reg[f] # "absent" => reg[f] = "staged" /\ \E j \in DOMAIN q : q[j] = f
    BY <1>2 DEF Orders, Registered
  <2>5. \A i, j \in DOMAIN q : i < j => q[i] # q[j] /\ Priority[q[i]] <= Priority[q[j]]
    BY <1>2 DEF Orders
  <2>6. Drained(q) \in Seq(Item) /\ DOMAIN Drained(q) = DOMAIN q
    <3>1. Drained(q) = [i \in 1..n |-> [group |-> q[i], activate |-> TRUE, abort |-> FALSE]]
      BY <2>2 DEF Drained
    <3>2. \A i \in 1..n : [group |-> q[i], activate |-> TRUE, abort |-> FALSE] \in Item
      BY <2>2, <2>3 DEF Item
    <3>3. [i \in 1..n |-> [group |-> q[i], activate |-> TRUE, abort |-> FALSE]] \in Seq(Item)
      BY <2>1, <3>2
    <3>4. QED BY <2>2, <3>1, <3>3
  <2>7. \A i \in DOMAIN q :
          Drained(q)[i] = [group |-> q[i], activate |-> TRUE, abort |-> FALSE]
    BY DEF Drained
  <2>8. QED BY <2>3, <2>4, <2>5, <2>6, <2>7
<1>3. QED BY <1>1, <1>2 DEF CheckCanDrainAll

LEMMA AgendaGroups == ASSUME TypeOK PROVE \A i \in DOMAIN agenda : agenda[i] \in Item /\ agenda[i].group \in Group
<1>1. agenda \in Seq(Item)
  BY DEF TypeOK
<1>2. \A i \in DOMAIN agenda : agenda[i] \in Item
  BY <1>1
<1>3. QED BY <1>2 DEF Item

-----------------------------------------------------------------------------
\* ee.emit keeps the backlog complete and releases or opens nothing again.
LEMMA EmitBuffers ==
  ASSUME DrainInv, NEW S \in SUBSET Group, NEW D, Emit(S, D),
         \A g \in S : sent[g] < MaxEvents,
         UNCHANGED <<listening, aborted>>
  PROVE  /\ sent' \in [Group -> 0..MaxEvents]
         /\ buffering' \in [Group -> {"missing", "open", "null"}]
         /\ backlog' \in [Group -> Seq(Event)]
         /\ BacklogIsComplete'
         /\ ReleasedStaysEmpty'
         /\ AbortedOrListening'
         /\ \A g \in Group : buffering[g] = "null" <=> buffering'[g] = "null"
<1> USE DEF Emit
<1>1. sent' \in [Group -> 0..MaxEvents]
  BY DEF DrainInv, TypeOK
<1>2. buffering' \in [Group -> {"missing", "open", "null"}]
  BY DEF DrainInv, TypeOK, Opened
<1>3. \A g \in Group : buffering'[g] = IF g \in S THEN Opened(g) ELSE buffering[g]
  OBVIOUS
<1>4. \A g \in S : [n |-> sent[g] + 1, derived |-> g \in D] \in Event
  BY DEF DrainInv, TypeOK, Event
<1>5. backlog' \in [Group -> Seq(Event)]
  <2> SUFFICES ASSUME NEW g \in Group
      PROVE (IF g \in S /\ Opened(g) = "open"
             THEN Append(backlog[g], [n |-> sent[g] + 1, derived |-> g \in D])
             ELSE backlog[g]) \in Seq(Event)
    OBVIOUS
  <2>1. backlog[g] \in Seq(Event)
    BY DEF DrainInv, TypeOK
  <2>2. QED BY <1>4, <2>1
<1>6. ASSUME NEW g \in Group PROVE
        /\ buffering'[g] = "open" => /\ Len(backlog'[g]) = sent'[g]
                                     /\ \A i \in 1..sent'[g] : backlog'[g][i].n = i
        /\ buffering'[g] = "missing" /\ ~aborted' => sent'[g] = 0
  <2>1. backlog[g] \in Seq(Event) /\ sent[g] \in 0..MaxEvents
    BY DEF DrainInv, TypeOK
  <2>2. CASE g \notin S
    BY <1>3, <2>2 DEF DrainInv, BacklogIsComplete
  <2>3. CASE g \in S /\ Opened(g) # "open"
    BY <1>3, <2>3 DEF Opened, DrainInv, BacklogIsComplete
  <2>4. CASE g \in S /\ Opened(g) = "open"
    <3>1. Len(backlog[g]) = sent[g] /\ \A i \in 1..sent[g] : backlog[g][i].n = i
      <4>1. CASE buffering[g] = "open"
        BY <4>1 DEF DrainInv, BacklogIsComplete
      <4>2. CASE buffering[g] = "missing" /\ ~aborted
        <5>1. backlog[g] = <<>> /\ sent[g] = 0
          BY <4>2 DEF DrainInv, BacklogIsComplete, ReleasedStaysEmpty
        <5>2. QED BY <5>1
      <4>3. QED BY <2>4, <4>1, <4>2 DEF Opened
    <3>2. /\ backlog'[g] = Append(backlog[g], [n |-> sent[g] + 1, derived |-> g \in D])
          /\ sent'[g] = sent[g] + 1 /\ buffering'[g] = "open"
      BY <1>3, <2>4
    <3>3. Len(backlog'[g]) = sent'[g]
      BY <1>4, <2>1, <2>4, <3>1, <3>2
    <3>4. \A i \in 1..sent'[g] : backlog'[g][i].n = i
      BY <1>4, <2>1, <2>4, <3>1, <3>2
    <3>5. QED BY <3>2, <3>3, <3>4
  <2>5. QED BY <2>2, <2>3, <2>4
<1>7. BacklogIsComplete'
  BY <1>6 DEF BacklogIsComplete
<1>8. \A g \in Group : buffering[g] = "null" <=> buffering'[g] = "null"
  BY <1>3 DEF Opened
<1>9. AbortedOrListening'
  BY <1>3 DEF DrainInv, TypeOK, AbortedOrListening, Opened
<1>10. ReleasedStaysEmpty'
  <2>1. \A g \in Group : buffering'[g] # "open" => backlog'[g] = <<>>
    BY <1>3 DEF DrainInv, ReleasedStaysEmpty, Opened
  <2>2. \A g \in Group : g \in listening' => buffering'[g] # "open"
    BY <1>9, <1>2 DEF AbortedOrListening, DrainInv, TypeOK
  <2>3. QED BY <2>1, <2>2 DEF ReleasedStaysEmpty
<1>11. QED BY <1>1, <1>2, <1>5, <1>7, <1>8, <1>9, <1>10

\* An emission keeps the invariant if what it adds to the history is in order.
LEMMA EmitStep ==
  ASSUME DrainInv, NEW S \in SUBSET Group, NEW D, Emit(S, D),
         \A g \in S : sent[g] < MaxEvents,
         UNCHANGED <<registry, handlers, listening, aborted, started, loading, agenda>>,
         handled' \in [Group -> Seq(1..MaxEvents)],
         HandledInOrder', NotAhead', ListenersMissNothing'
  PROVE  DrainInv'
<1>1. /\ sent' \in [Group -> 0..MaxEvents]
      /\ buffering' \in [Group -> {"missing", "open", "null"}]
      /\ backlog' \in [Group -> Seq(Event)]
      /\ BacklogIsComplete' /\ ReleasedStaysEmpty' /\ AbortedOrListening'
      /\ \A g \in Group : buffering[g] = "null" <=> buffering'[g] = "null"
  BY EmitBuffers
<1>2. TypeOK'
  BY <1>1 DEF DrainInv, TypeOK
<1>3. ReleasedOnce'
  BY <1>1 DEF DrainInv, ReleasedOnce
<1>4. AgendaIsNew'
  <2>1. \A i \in DOMAIN agenda : agenda[i].group \in Group
    BY AgendaGroups DEF DrainInv
  <2>2. QED BY <1>1, <2>1 DEF DrainInv, AgendaIsNew
<1>5. AgendaIsSorted'
  BY DEF DrainInv, AgendaIsSorted
<1>6. QED BY <1>1, <1>2, <1>3, <1>4, <1>5 DEF DrainInv

\* What is heard live continues where the listener is.
LEMMA HeardInOrder ==
  ASSUME DrainInv, NEW S \in SUBSET Group, \A g \in S : sent[g] < MaxEvents,
         NEW g \in Group
  PROVE  /\ Heard(S)[g] \in Seq(1..MaxEvents)
         /\ \A i \in DOMAIN Heard(S)[g] : Heard(S)[g][i] = i
         /\ Len(Heard(S)[g]) <= IF g \in S THEN sent[g] + 1 ELSE sent[g]
         /\ g \in listening => Len(Heard(S)[g]) = IF g \in S THEN sent[g] + 1 ELSE sent[g]
<1>1. /\ handled[g] \in Seq(1..MaxEvents) /\ sent[g] \in 0..MaxEvents
      /\ \A i \in DOMAIN handled[g] : handled[g][i] = i
      /\ Len(handled[g]) <= sent[g]
      /\ g \in listening => Len(handled[g]) = sent[g]
  BY DEF DrainInv, TypeOK, HandledInOrder, NotAhead, ListenersMissNothing
<1>2. CASE g \in S \cap listening
  <2>1. Heard(S)[g] = Append(handled[g], sent[g] + 1)
    BY <1>2 DEF Heard
  <2>2. sent[g] + 1 \in 1..MaxEvents
    BY <1>1, <1>2
  <2>3. QED BY <1>1, <1>2, <2>1, <2>2
<1>3. CASE g \notin S \cap listening
  <2>1. Heard(S)[g] = handled[g]
    BY <1>3 DEF Heard
  <2>2. QED BY <1>1, <1>3, <2>1
<1>4. QED BY <1>2, <1>3

LEMMA HandleInv == ASSUME DrainInv, NEW g \in Group, Handle(g) PROVE DrainInv'
<1> DEFINE S == {g} \cup (IF g \in listening THEN Targets(g) ELSE {})
<1>1. S \in SUBSET Group /\ \A h \in S : sent[h] < MaxEvents
  BY DEF Handle, Targets
<1>2. PICK D : Emit(S, D)
  BY DEF Handle
<1>3. handled' = Heard(S)
  BY DEF Handle
<1>4. \A h \in Group : sent'[h] = IF h \in S THEN sent[h] + 1 ELSE sent[h]
  BY <1>2 DEF Emit
<1>5. \A h \in Group :
        /\ Heard(S)[h] \in Seq(1..MaxEvents)
        /\ \A i \in DOMAIN Heard(S)[h] : Heard(S)[h][i] = i
        /\ Len(Heard(S)[h]) <= sent'[h]
        /\ h \in listening => Len(Heard(S)[h]) = sent'[h]
  <2> HIDE DEF S
  <2> TAKE h \in Group
  <2>1. /\ Heard(S)[h] \in Seq(1..MaxEvents)
        /\ \A i \in DOMAIN Heard(S)[h] : Heard(S)[h][i] = i
        /\ Len(Heard(S)[h]) <= IF h \in S THEN sent[h] + 1 ELSE sent[h]
        /\ h \in listening => Len(Heard(S)[h]) = IF h \in S THEN sent[h] + 1 ELSE sent[h]
    BY <1>1, HeardInOrder
  <2>2. sent'[h] = IF h \in S THEN sent[h] + 1 ELSE sent[h]
    BY <1>4
  <2>3. QED BY <2>1, <2>2
<1>6. handled' \in [Group -> Seq(1..MaxEvents)]
  BY <1>3, <1>5 DEF Heard
<1>7. UNCHANGED <<registry, handlers, listening, aborted, started, loading, agenda>>
  BY DEF Handle
<1>8. HandledInOrder' /\ NotAhead' /\ ListenersMissNothing'
  <2> HIDE DEF S
  <2>1. QED BY <1>3, <1>5, <1>7, <1>6 DEF HandledInOrder, NotAhead, ListenersMissNothing, DrainInv, TypeOK
<1>9. QED BY <1>1, <1>2, <1>6, <1>7, <1>8, EmitStep

LEMMA ReplayInv == ASSUME DrainInv, ReplayNext PROVE DrainInv'
<1> DEFINE g == Head(agenda).group
           e == backlog[g][Replayed + 1]
           S == IF e.derived THEN {} ELSE Targets(g)
<1>1. agenda # <<>> /\ g \in Group /\ buffering[g] = "open"
  <2>1. agenda \in Seq(Item) /\ agenda # <<>>
    BY DEF ReplayNext, Replaying, Idle, DrainInv, TypeOK
  <2>2. 1 \in DOMAIN agenda /\ Head(agenda) = agenda[1]
    BY <2>1
  <2>3. QED BY <2>1, <2>2, AgendaGroups DEF ReplayNext, Replaying, DrainInv
<1>2. S \in SUBSET Group /\ \A h \in S : sent[h] < MaxEvents
  BY DEF Targets
<1>3. /\ Emit(S, S) /\ handled' = [Heard(S) EXCEPT ![g] = Append(@, e.n)]
      /\ UNCHANGED <<registry, handlers, listening, aborted, started, loading, agenda>>
  BY DEF ReplayNext
<1>4. g \notin S /\ g \notin listening
  BY <1>1 DEF Targets, DrainInv, ReleasedStaysEmpty
<1>5. Len(handled[g]) < sent[g] /\ e.n = Len(handled[g]) + 1
  <2>1. handled[g] \in Seq(1..MaxEvents) /\ sent[g] \in 0..MaxEvents
    BY <1>1 DEF DrainInv, TypeOK
  <2>2. Len(handled[g]) < Len(backlog[g])
    BY DEF ReplayNext, Replaying, Replayed
  <2>3. Len(backlog[g]) = sent[g] /\ \A i \in 1..sent[g] : backlog[g][i].n = i
    BY <1>1 DEF DrainInv, BacklogIsComplete
  <2>4. QED BY <2>1, <2>2, <2>3 DEF Replayed
<1> HIDE DEF S, e
<1>6. ASSUME NEW h \in Group PROVE
        /\ handled'[h] \in Seq(1..MaxEvents)
        /\ \A i \in DOMAIN handled'[h] : handled'[h][i] = i
        /\ Len(handled'[h]) <= sent'[h]
        /\ h \in listening => Len(handled'[h]) = sent'[h]
  <2>1. /\ Heard(S)[h] \in Seq(1..MaxEvents)
        /\ \A i \in DOMAIN Heard(S)[h] : Heard(S)[h][i] = i
        /\ Len(Heard(S)[h]) <= IF h \in S THEN sent[h] + 1 ELSE sent[h]
        /\ h \in listening => Len(Heard(S)[h]) = IF h \in S THEN sent[h] + 1 ELSE sent[h]
    BY <1>2, HeardInOrder
  <2>2. sent'[h] = IF h \in S THEN sent[h] + 1 ELSE sent[h]
    BY <1>3 DEF Emit
  <2>3. CASE h # g
    <3>1. handled'[h] = Heard(S)[h]
      BY <1>3, <2>3 DEF Heard
    <3>2. QED BY <2>1, <2>2, <3>1
  <2>4. CASE h = g
    <3>1. Heard(S)[g] = handled[g] /\ handled'[g] = Append(handled[g], e.n)
      BY <1>1, <1>3, <1>4 DEF Heard
    <3>2. handled[g] \in Seq(1..MaxEvents) /\ sent[g] \in 0..MaxEvents
      BY <1>1 DEF DrainInv, TypeOK
    <3>3. e.n \in 1..MaxEvents
      BY <1>5, <3>2
    <3>4. Append(handled[g], e.n) \in Seq(1..MaxEvents)
      BY <3>2, <3>3
    <3>5. \A i \in DOMAIN Append(handled[g], e.n) : Append(handled[g], e.n)[i] = i
      BY <1>5, <2>1, <2>4, <3>1, <3>2, <3>3
    <3>6. Len(Append(handled[g], e.n)) <= sent[g]
      BY <1>5, <3>2, <3>3
    <3>7. QED BY <1>4, <2>2, <2>4, <3>1, <3>4, <3>5, <3>6
  <2>5. QED BY <2>3, <2>4
<1>7. handled' \in [Group -> Seq(1..MaxEvents)]
  <2>1. handled' = [h \in Group |-> handled'[h]]
    BY <1>3 DEF Heard
  <2>2. QED BY <1>6, <2>1
<1>8. HandledInOrder' /\ NotAhead' /\ ListenersMissNothing'
  BY <1>3, <1>6 DEF HandledInOrder, NotAhead, ListenersMissNothing, DrainInv, TypeOK
<1>9. QED BY <1>2, <1>3, <1>7, <1>8, EmitStep

-----------------------------------------------------------------------------
LEMMA EventsUntouched ==
  ASSUME DrainInv, UNCHANGED <<backlog, buffering, listening, aborted, sent, handled>>
  PROVE  /\ BacklogIsComplete' /\ HandledInOrder' /\ NotAhead' /\ ListenersMissNothing'
         /\ ReleasedStaysEmpty' /\ AbortedOrListening'
BY DEF DrainInv, BacklogIsComplete, HandledInOrder, NotAhead, ListenersMissNothing,
       ReleasedStaysEmpty, AbortedOrListening

\* A feature that drains: it is alone on the agenda, or all registered ones are.
LEMMA DrainCallInv ==
  ASSUME DrainInv, Idle, NEW f \in Feature, DrainCall(f),
         loading[f] \in {"waiting", "loaded"}, f \in AutoStart \/ started,
         NEW l \in {"skipped", "staged"}, loading' = [loading EXCEPT ![f] = l],
         UNCHANGED <<backlog, buffering, handlers, listening, aborted, started, sent, handled>>
  PROVE  DrainInv'
<1> USE DEF DrainInv
<1>1. buffering[f] # "null" \/ aborted
  BY DEF ReleasedOnce
<1>2. loading' \in [Feature -> Loading] /\ loading'[f] = l
  BY DEF TypeOK, Loading
<1>3. ASSUME registry[f] = "absent" PROVE DrainInv'
  <2>1. agenda' = <<[group |-> f, activate |-> TRUE, abort |-> FALSE]>> /\ UNCHANGED registry
    BY <1>3 DEF DrainCall
  <2>2. [group |-> f, activate |-> TRUE, abort |-> FALSE] \in Item
    BY DEF Item
  <2>3. TypeOK'
    BY <1>2, <2>1, <2>2 DEF TypeOK
  <2>4. ReleasedOnce'
    BY <1>3, <2>1 DEF ReleasedOnce, TypeOK
  <2>5. DOMAIN agenda' = {1} /\ agenda'[1].group = f
    BY <2>1
  <2>6. AgendaIsNew'
    BY <1>1, <1>2, <2>5 DEF AgendaIsNew
  <2>7. AgendaIsSorted'
    BY <1>3, <2>1, <2>5 DEF AgendaIsSorted
  <2>8. QED BY <2>3, <2>4, <2>6, <2>7, EventsUntouched
<1>4. ASSUME registry[f] # "absent" PROVE DrainInv'
  <2>1. registry' = [registry EXCEPT ![f] = "staged"]
    BY <1>4 DEF DrainCall
  <2>2. PICK q \in CheckCanDrainAll(registry') : agenda' = Drained(q)
    BY <1>4 DEF DrainCall
  <2>3. registry' \in [Feature -> {"absent", "waiting", "staged"}]
    BY <2>1 DEF TypeOK
  <2>4. /\ Drained(q) \in Seq(Item) /\ DOMAIN Drained(q) = DOMAIN q
        /\ \A i \in DOMAIN q :
              /\ Drained(q)[i] = [group |-> q[i], activate |-> TRUE, abort |-> FALSE]
              /\ q[i] \in Feature /\ registry'[q[i]] = "staged"
              /\ \A h \in Feature : registry'[h] # "absent" =>
                   registry'[h] = "staged" /\ \E j \in DOMAIN q : q[j] = h
        /\ \A i, j \in DOMAIN q : i < j => q[i] # q[j] /\ Priority[q[i]] <= Priority[q[j]]
    BY <2>3, DrainAll
  <2>5. TypeOK'
    BY <1>2, <2>2, <2>3, <2>4 DEF TypeOK
  <2>6. ReleasedOnce'
    BY <1>1, <1>4, <2>1 DEF ReleasedOnce, TypeOK
  <2>7. AgendaIsNew'
    <3>1. \A h \in Feature : registry'[h] = "staged" =>
            /\ loading'[h] \notin {"waiting", "loaded"}
            /\ ~aborted' => buffering'[h] # "null"
      BY <2>6 DEF ReleasedOnce
    <3>2. \A i \in DOMAIN agenda' : agenda'[i].group = q[i] /\ i \in DOMAIN q
      BY <2>2, <2>4
    <3>3. \A i, j \in DOMAIN agenda' : i < j => agenda'[i].group # agenda'[j].group
      BY <2>4, <3>2
    <3>4. \A i \in DOMAIN agenda' :
            /\ ~aborted' => buffering'[agenda'[i].group] # "null"
            /\ agenda'[i].group \in Feature
            /\ loading'[agenda'[i].group] \notin {"waiting", "loaded"}
      BY <2>4, <3>1, <3>2
    <3>5. QED BY <3>3, <3>4 DEF AgendaIsNew
  <2>8. AgendaIsSorted'
    BY <2>2, <2>4 DEF AgendaIsSorted
  <2>9. QED BY <2>5, <2>6, <2>7, <2>8, EventsUntouched
<1>5. QED BY <1>3, <1>4

\* A feature that deregisters: its group, then the others if it was the last one.
LEMMA DisableInv == ASSUME DrainInv, NEW f \in Feature, Disable(f) PROVE DrainInv'
<1> USE DEF DrainInv, Disable
<1> DEFINE x == [group |-> f, activate |-> FALSE, abort |-> FALSE]
<1>1. /\ loading[f] = "loaded" /\ loading' \in [Feature -> Loading]
      /\ loading' = [loading EXCEPT ![f] = "off"]
  BY DEF TypeOK, Loading
<1>2. /\ registry' = [registry EXCEPT ![f] = "absent"]
      /\ registry' \in [Feature -> {"absent", "waiting", "staged"}] /\ registry'[f] = "absent"
  BY DEF DeregisterCall, TypeOK
<1>3. PICK q \in CheckCanDrainAll(registry') : agenda' = <<x>> \o Drained(q)
  BY DEF DeregisterCall
<1>4. /\ Drained(q) \in Seq(Item) /\ DOMAIN Drained(q) = DOMAIN q
      /\ \A i \in DOMAIN q :
            /\ Drained(q)[i] = [group |-> q[i], activate |-> TRUE, abort |-> FALSE]
            /\ q[i] \in Feature /\ registry'[q[i]] = "staged"
            /\ \A h \in Feature : registry'[h] # "absent" =>
                 registry'[h] = "staged" /\ \E j \in DOMAIN q : q[j] = h
      /\ \A i, j \in DOMAIN q : i < j => q[i] # q[j] /\ Priority[q[i]] <= Priority[q[j]]
  <2>1. registry' \in [Feature -> {"absent", "waiting", "staged"}]
    BY <1>2
  <2>2. QED BY <2>1, DrainAll
<1>5. <<x>> \in Seq(Item)
  BY DEF Item
<1>6. /\ agenda' \in Seq(Item) /\ agenda'[1] = x
      /\ \A i \in DOMAIN q : i + 1 \in DOMAIN agenda' /\ agenda'[i + 1] = Drained(q)[i]
      /\ \A i \in DOMAIN agenda' : i # 1 => i - 1 \in DOMAIN q /\ agenda'[i] = Drained(q)[i - 1]
      /\ \A i \in DOMAIN agenda' : i \in Nat \ {0}
  BY <1>3, <1>4, <1>5
<1> HIDE DEF x
<1>7. TypeOK'
  BY <1>1, <1>2, <1>6 DEF TypeOK
<1>8. ReleasedOnce'
  BY <1>1, <1>2 DEF ReleasedOnce, TypeOK
<1>9. /\ \A h \in Feature : registry'[h] = "staged" =>
           /\ loading'[h] \notin {"waiting", "loaded"}
           /\ ~aborted' => buffering'[h] # "null"
      /\ loading'[f] \notin {"waiting", "loaded"}
      /\ ~aborted' => buffering'[f] # "null"
  BY <1>1, <1>8 DEF ReleasedOnce, TypeOK
<1>10. x.group = f
  BY DEF x
<1>11. \A i \in DOMAIN agenda' : i # 1 =>
          agenda'[i].group = q[i - 1] /\ ~agenda'[i].abort
  BY <1>4, <1>6
<1>12. AgendaIsNew'
  <2>1. \A i, j \in DOMAIN agenda' : i < j => agenda'[i].group # agenda'[j].group
    <3> SUFFICES ASSUME NEW i \in DOMAIN agenda', NEW j \in DOMAIN agenda', i < j
                 PROVE  agenda'[i].group # agenda'[j].group
      OBVIOUS
    <3>1. j # 1 /\ agenda'[j].group = q[j - 1] /\ j - 1 \in DOMAIN q
      BY <1>6, <1>11
    <3>2. CASE i = 1
      BY <1>2, <1>4, <1>6, <1>10, <3>1, <3>2
    <3>3. CASE i # 1
      <4>1. agenda'[i].group = q[i - 1] /\ i - 1 \in DOMAIN q /\ i - 1 < j - 1
        BY <1>6, <1>11, <3>3
      <4>2. QED BY <1>4, <3>1, <4>1
    <3>4. QED BY <3>2, <3>3
  <2>2. \A i \in DOMAIN agenda' :
          /\ ~aborted' => buffering'[agenda'[i].group] # "null"
          /\ agenda'[i].group \in Feature
          /\ loading'[agenda'[i].group] \notin {"waiting", "loaded"}
    <3> TAKE i \in DOMAIN agenda'
    <3>1. CASE i = 1
      BY <1>6, <1>9, <1>10, <3>1
    <3>2. CASE i # 1
      <4>1. i - 1 \in DOMAIN q /\ agenda'[i].group = q[i - 1]
        BY <1>6, <1>11, <3>2
      <4>2. QED BY <1>4, <1>9, <4>1
    <3>3. QED BY <3>1, <3>2
  <2>3. QED BY <2>1, <2>2 DEF AgendaIsNew
<1>13. AgendaIsSorted'
  <2> SUFFICES ASSUME NEW i \in DOMAIN agenda', registry'[agenda'[i].group] # "absent"
      PROVE  /\ \A h \in Feature :
                  /\ registry'[h] # "waiting"
                  /\ registry'[h] = "staged" => \E j \in DOMAIN agenda' : agenda'[j].group = h
             /\ \A j \in DOMAIN agenda' : i < j =>
                  Priority[agenda'[i].group] <= Priority[agenda'[j].group]
    <3>1. \A i \in DOMAIN agenda' : ~agenda'[i].abort
      BY <1>6, <1>11 DEF x
    <3>2. QED BY <3>1 DEF AgendaIsSorted
  <2>1. i # 1 /\ i - 1 \in DOMAIN q /\ agenda'[i].group = q[i - 1]
    BY <1>2, <1>6, <1>10, <1>11
  <2>2. \A h \in Feature : registry'[h] # "absent" =>
          registry'[h] = "staged" /\ \E j \in DOMAIN q : q[j] = h
    BY <1>4, <2>1
  <2>3. \A j \in DOMAIN q : j + 1 \in DOMAIN agenda' /\ agenda'[j + 1].group = q[j]
    BY <1>4, <1>6
  <2>4. ASSUME NEW j \in DOMAIN agenda', i < j
        PROVE  Priority[agenda'[i].group] <= Priority[agenda'[j].group]
    <3>1. j # 1 /\ j - 1 \in DOMAIN q /\ agenda'[j].group = q[j - 1] /\ i - 1 < j - 1
      BY <1>6, <1>11, <2>4
    <3>2. QED BY <1>4, <2>1, <3>1
  <2>5. QED BY <2>2, <2>3, <2>4
<1>14. QED BY <1>7, <1>8, <1>12, <1>13, EventsUntouched

\* A single group on the agenda: a failed import, or the session's group.
LEMMA FailImportInv == ASSUME DrainInv, NEW f \in Feature, FailImport(f) PROVE DrainInv'
<1> USE DEF DrainInv, FailImport
<1>1. agenda' = <<[group |-> f, activate |-> TRUE, abort |-> TRUE]>>
  OBVIOUS
<1>2. [group |-> f, activate |-> TRUE, abort |-> TRUE] \in Item
  BY DEF Item
<1>3. DOMAIN agenda' = {1} /\ agenda'[1].group = f /\ agenda'[1].abort
  BY <1>1
<1>4. loading' = [loading EXCEPT ![f] = "failed"] /\ loading[f] = "waiting"
  BY DEF Loads
<1>5. TypeOK'
  BY <1>1, <1>2 DEF TypeOK, Loading
<1>6. ReleasedOnce'
  BY <1>4 DEF ReleasedOnce, TypeOK, Loads
<1>7. AgendaIsNew'
  BY <1>3, <1>4 DEF AgendaIsNew, ReleasedOnce, TypeOK
<1>8. AgendaIsSorted'
  BY <1>3 DEF AgendaIsSorted
<1>9. QED BY <1>5, <1>6, <1>7, <1>8, EventsUntouched

LEMMA DrainUnregisteredInv ==
  ASSUME DrainInv, NEW g \in Group, DrainUnregistered(g) PROVE DrainInv'
<1> USE DEF DrainInv, DrainUnregistered
<1>1. agenda' = <<[group |-> g, activate |-> TRUE, abort |-> FALSE]>> /\ g \notin Feature
  OBVIOUS
<1>2. [group |-> g, activate |-> TRUE, abort |-> FALSE] \in Item
  BY DEF Item
<1>3. DOMAIN agenda' = {1} /\ agenda'[1].group = g /\ agenda'[1].activate
  BY <1>1
<1>4. handlers' = handlers \cup {g}
  BY DEF RegisterHandler
<1>5. TypeOK'
  BY <1>1, <1>2, <1>4 DEF TypeOK
<1>6. ReleasedOnce'
  BY DEF ReleasedOnce
<1>7. AgendaIsNew'
  BY <1>1, <1>3, <1>4 DEF AgendaIsNew, ReleasedOnce
<1>8. AgendaIsSorted'
  BY <1>1, <1>3 DEF AgendaIsSorted
<1>9. QED BY <1>5, <1>6, <1>7, <1>8, EventsUntouched

LEMMA LoadInv == ASSUME DrainInv, NEW f \in Feature, Load(f) PROVE DrainInv'
<1> USE DEF DrainInv, Load, Loads, Idle
<1>1. handlers' = handlers \cup {f} /\ loading' = [loading EXCEPT ![f] = "loaded"]
  BY DEF RegisterHandler
<1>2. TypeOK'
  BY <1>1 DEF TypeOK, Loading
<1>3. ReleasedOnce'
  BY <1>1 DEF ReleasedOnce, TypeOK
<1>4. AgendaIsNew' /\ AgendaIsSorted'
  BY DEF AgendaIsNew, AgendaIsSorted
<1>5. QED BY <1>2, <1>3, <1>4, EventsUntouched

LEMMA StartInv == ASSUME DrainInv, Start PROVE DrainInv'
<1> USE DEF DrainInv, Start, Idle
<1>1. TypeOK'
  BY DEF TypeOK
<1>2. ReleasedOnce'
  BY DEF ReleasedOnce, TypeOK
<1>3. AgendaIsNew' /\ AgendaIsSorted'
  BY DEF AgendaIsNew, AgendaIsSorted
<1>4. QED BY <1>1, <1>2, <1>3, EventsUntouched

-----------------------------------------------------------------------------
\* A group is done: its events were all replayed, and it is never listed again.
LEMMA FinishGroupInv == ASSUME DrainInv, FinishGroup PROVE DrainInv'
<1> USE DEF DrainInv
<1> DEFINE item == Head(agenda)
           g == item.group
<1>1. /\ agenda \in Seq(Item) /\ agenda # <<>> /\ 1 \in DOMAIN agenda
      /\ item = agenda[1] /\ item \in Item /\ g \in Group /\ item.abort \in BOOLEAN
  <2>1. agenda \in Seq(Item) /\ agenda # <<>>
    BY DEF FinishGroup, Idle, TypeOK
  <2>2. 1 \in DOMAIN agenda /\ Head(agenda) = agenda[1]
    BY <2>1
  <2>3. QED BY <2>1, <2>2, AgendaGroups DEF Item
<1>2. /\ agenda' \in Seq(Item)
      /\ \A i \in DOMAIN agenda' : /\ i + 1 \in DOMAIN agenda /\ i + 1 > 1
                                   /\ agenda'[i] = agenda[i + 1]
      /\ \A i \in DOMAIN agenda : i # 1 => i - 1 \in DOMAIN agenda' /\ agenda'[i - 1] = agenda[i]
      /\ \A i \in DOMAIN agenda' : i \in Int
  <2>1. agenda' = Tail(agenda)
    BY DEF FinishGroup
  <2>2. QED BY <1>1, <2>1
<1>3. /\ ~Replaying
      /\ registry' = [f \in Feature |->
           IF f = g /\ ~item.abort THEN "absent" ELSE registry[f]]
      /\ listening' = IF ~aborted /\ item.activate /\ g \in handlers
                      THEN listening \cup {g} ELSE listening
      /\ handlers' = IF ~aborted THEN handlers \ {g} ELSE handlers
      /\ aborted' = (aborted \/ item.abort)
      /\ backlog' = [h \in Group |-> IF item.abort \/ (~aborted /\ h = g)
                                     THEN <<>> ELSE backlog[h]]
      /\ buffering' = [h \in Group |-> IF item.abort THEN "missing"
                                       ELSE IF ~aborted /\ h = g THEN "null"
                                       ELSE buffering[h]]
      /\ UNCHANGED <<started, loading, sent, handled>>
  BY DEF FinishGroup
<1>4. /\ ~aborted => buffering[g] # "null"
      /\ g \in Feature => loading[g] \notin {"waiting", "loaded"}
      /\ g \notin Feature => item.activate /\ g \in handlers
      /\ \A i \in DOMAIN agenda' : agenda'[i].group # g
  BY <1>1, <1>2 DEF AgendaIsNew
<1>5. TypeOK'
  <2>1. registry' \in [Feature -> {"absent", "waiting", "staged"}]
    BY <1>3 DEF TypeOK
  <2>2. backlog' \in [Group -> Seq(Event)]
    <3>1. <<>> \in Seq(Event) /\ \A h \in Group : backlog[h] \in Seq(Event)
      BY DEF TypeOK
    <3>2. QED BY <1>3, <3>1
  <2>3. buffering' \in [Group -> {"missing", "open", "null"}]
    BY <1>3 DEF TypeOK
  <2>4. handlers' \in SUBSET Group /\ listening' \in SUBSET Group /\ aborted' \in BOOLEAN
    BY <1>1, <1>3 DEF TypeOK
  <2>5. QED BY <1>2, <1>3, <2>1, <2>2, <2>3, <2>4 DEF TypeOK
<1> HIDE DEF item
<1>6. BacklogIsComplete'
  BY <1>3 DEF BacklogIsComplete
<1>7. HandledInOrder' /\ NotAhead'
  BY <1>3 DEF HandledInOrder, NotAhead
<1>8. ListenersMissNothing'
  <2>1. ASSUME ~aborted, item.activate, g \in handlers PROVE Len(handled[g]) = sent[g]
    <3>1. handled[g] \in Seq(1..MaxEvents) /\ sent[g] \in 0..MaxEvents /\ Len(handled[g]) <= sent[g]
      BY <1>1 DEF TypeOK, NotAhead
    <3>2. CASE buffering[g] = "open"
      <4>1. ~(Len(handled[g]) < Len(backlog[g]))
        BY <1>1, <1>3, <2>1, <3>2 DEF Replaying, Replayed, Idle, item
      <4>2. Len(backlog[g]) = sent[g]
        BY <1>1, <3>2 DEF BacklogIsComplete
      <4>3. QED BY <3>1, <4>1, <4>2
    <3>3. CASE buffering[g] = "missing"
      <4>1. sent[g] = 0
        BY <1>1, <2>1, <3>3 DEF BacklogIsComplete
      <4>2. QED BY <3>1, <4>1
    <3>4. QED BY <1>1, <1>4, <2>1, <3>2, <3>3 DEF TypeOK
  <2>2. QED BY <1>3, <2>1 DEF ListenersMissNothing
<1>9. AbortedOrListening'
  BY <1>3, ZenonT(60) DEF AbortedOrListening, TypeOK
<1>10. ReleasedStaysEmpty'
  <2>1. \A h \in Group : buffering'[h] # "open" => backlog'[h] = <<>>
    BY <1>3 DEF ReleasedStaysEmpty
  <2>2. \A h \in Group : h \in listening' => buffering'[h] # "open"
    BY <1>5, <1>9 DEF AbortedOrListening, TypeOK
  <2>3. QED BY <2>1, <2>2 DEF ReleasedStaysEmpty
<1>11. ReleasedOnce'
  <2>1. /\ \A f \in Feature : registry'[f] = "staged" => registry[f] = "staged"
        /\ ~aborted' => \A f \in Feature : registry'[f] # "absent" =>
                          registry[f] # "absent" /\ f # g
    BY <1>3
  <2>2. ~aborted' => ~aborted /\ \A h \in Group : h # g => buffering'[h] = buffering[h]
    BY <1>3
  <2>3. ~aborted' => \A f \in Feature :
          registry'[f] # "absent" \/ loading'[f] \in {"waiting", "loaded"} =>
            buffering'[f] # "null"
    BY <1>3, <1>4, <2>1, <2>2 DEF ReleasedOnce
  <2>4. ~aborted' => \A h \in Group \ (Feature \cup listening') : buffering'[h] # "null"
    BY <1>3, <1>4, <2>2 DEF ReleasedOnce
  <2>5. QED BY <1>3, <2>1, <2>3, <2>4 DEF ReleasedOnce
<1>12. AgendaIsNew'
  <2>1. \A i, j \in DOMAIN agenda' : i < j => agenda'[i].group # agenda'[j].group
    <3> TAKE i, j \in DOMAIN agenda'
    <3>1. i < j => i + 1 < j + 1
      BY <1>2
    <3>2. QED BY <1>2, <3>1 DEF AgendaIsNew
  <2>2. ASSUME NEW i \in DOMAIN agenda'
        PROVE  LET h == agenda'[i].group IN
               /\ ~aborted' => buffering'[h] # "null"
               /\ h \in Feature => loading'[h] \notin {"waiting", "loaded"}
               /\ h \notin Feature => agenda'[i].activate /\ h \in handlers'
    <3> DEFINE h == agenda'[i].group
    <3>1. /\ ~aborted => buffering[h] # "null"
          /\ h \in Feature => loading[h] \notin {"waiting", "loaded"}
          /\ h \notin Feature => agenda'[i].activate /\ h \in handlers
      BY <1>2 DEF AgendaIsNew
    <3>2. h \in Group /\ h # g
      BY <1>2, <1>4, AgendaGroups
    <3> HIDE DEF h
    <3>3. /\ ~aborted' => buffering'[h] # "null"
          /\ h \in Feature => loading'[h] \notin {"waiting", "loaded"}
          /\ h \notin Feature => agenda'[i].activate /\ h \in handlers'
      BY <1>3, <3>1, <3>2
    <3>4. QED BY <3>3 DEF h
  <2>3. QED BY <2>1, <2>2 DEF AgendaIsNew
<1>13. AgendaIsSorted'
  <2> SUFFICES ASSUME NEW i \in DOMAIN agenda'
      PROVE  LET h == agenda'[i].group IN
             /\ agenda'[i].abort => DOMAIN agenda' = {1}
             /\ h \in Feature /\ registry'[h] # "absent" /\ ~agenda'[i].abort =>
                 /\ \A f \in Feature :
                      /\ registry'[f] # "waiting"
                      /\ registry'[f] = "staged" => \E j \in DOMAIN agenda' : agenda'[j].group = f
                 /\ \A j \in DOMAIN agenda' : i < j => Priority[h] <= Priority[agenda'[j].group]
    BY DEF AgendaIsSorted
  <2> DEFINE h == agenda'[i].group
  <2>1. i + 1 \in DOMAIN agenda /\ i + 1 # 1 /\ agenda'[i] = agenda[i + 1]
    BY <1>2
  <2>2. ~agenda'[i].abort /\ ~item.abort
    BY <1>1, <2>1 DEF AgendaIsSorted
  <2>3. ASSUME h \in Feature, registry'[h] # "absent", NEW f \in Feature
        PROVE  /\ registry'[f] # "waiting"
               /\ registry'[f] = "staged" => \E j \in DOMAIN agenda' : agenda'[j].group = f
    <3>1. registry[h] # "absent"
      BY <1>3, <2>3
    <3>2. /\ registry[f] # "waiting"
          /\ registry[f] = "staged" => \E j \in DOMAIN agenda : agenda[j].group = f
      BY <2>1, <2>2, <2>3, <3>1 DEF AgendaIsSorted
    <3>3. registry'[f] = IF f = g THEN "absent" ELSE registry[f]
      BY <1>3, <2>2
    <3>4. ASSUME registry'[f] = "staged" PROVE \E j \in DOMAIN agenda' : agenda'[j].group = f
      <4>1. PICK j \in DOMAIN agenda : agenda[j].group = f
        BY <3>2, <3>3, <3>4
      <4>2. j # 1
        BY <1>1, <3>3, <3>4, <4>1
      <4>3. QED BY <1>2, <4>1, <4>2
    <3>5. QED BY <3>2, <3>3, <3>4
  <2>4. ASSUME h \in Feature, registry'[h] # "absent", NEW j \in DOMAIN agenda', i < j
        PROVE  Priority[h] <= Priority[agenda'[j].group]
    <3>1. registry[h] # "absent"
      BY <1>3, <2>4
    <3>2. j + 1 \in DOMAIN agenda /\ i + 1 < j + 1 /\ agenda'[j] = agenda[j + 1]
      BY <1>2, <2>4
    <3>3. QED BY <2>1, <2>2, <2>4, <3>1, <3>2 DEF AgendaIsSorted
  <2>5. QED BY <2>2, <2>3, <2>4
<1>14. QED BY <1>5, <1>6, <1>7, <1>8, <1>9, <1>10, <1>11, <1>12, <1>13

LEMMA AbortInv == ASSUME DrainInv, Abort PROVE DrainInv'
<1> USE DEF DrainInv, Abort, Idle
<1>1. TypeOK'
  <2>1. [g \in Group |-> <<>>] \in [Group -> Seq(Event)]
    OBVIOUS
  <2>2. QED BY <2>1 DEF TypeOK
<1>2. /\ BacklogIsComplete' /\ HandledInOrder' /\ NotAhead' /\ ListenersMissNothing'
      /\ ReleasedStaysEmpty' /\ AbortedOrListening'
  BY DEF BacklogIsComplete, HandledInOrder, NotAhead, ListenersMissNothing,
         ReleasedStaysEmpty, AbortedOrListening
<1>3. ReleasedOnce' /\ AgendaIsNew' /\ AgendaIsSorted'
  BY DEF ReleasedOnce, AgendaIsNew, AgendaIsSorted
<1>4. QED BY <1>1, <1>2, <1>3

LEMMA NextInv == DrainInv /\ [Next]_vars => DrainInv'
<1> SUFFICES ASSUME DrainInv, [Next]_vars PROVE DrainInv'
  OBVIOUS
<1>1. CASE \E g \in Group : Handle(g)
  BY <1>1, HandleInv
<1>2. CASE ReplayNext
  BY <1>2, ReplayInv
<1>3. CASE FinishGroup
  BY <1>3, FinishGroupInv
<1>4. CASE Start
  BY <1>4, StartInv
<1>5. ASSUME NEW f \in Feature, SkipImport(f) PROVE DrainInv'
  BY <1>5, DrainCallInv DEF SkipImport, Loads
<1>6. ASSUME NEW f \in Feature, StageFeature(f) PROVE DrainInv'
  <2>1. f \in AutoStart \/ started
    BY <1>6 DEF StageFeature, DrainInv, ReleasedOnce, TypeOK
  <2>2. QED BY <1>6, <2>1, DrainCallInv DEF StageFeature
<1>7. CASE \E f \in Feature : Load(f) \/ Disable(f) \/ FailImport(f)
  BY <1>7, LoadInv, DisableInv, FailImportInv
<1>8. CASE \E g \in Group : DrainUnregistered(g)
  BY <1>8, DrainUnregisteredInv
<1>9. CASE Abort
  BY <1>9, AbortInv
<1>10. CASE UNCHANGED vars
  <2>1. ReleasedOnce' /\ AgendaIsNew' /\ AgendaIsSorted' /\ TypeOK'
    BY <1>10 DEF vars, DrainInv, ReleasedOnce, AgendaIsNew, AgendaIsSorted, TypeOK
  <2>2. QED BY <1>10, <2>1, EventsUntouched DEF vars, DrainInv
<1>11. QED BY <1>1, <1>2, <1>3, <1>4, <1>5, <1>6, <1>7, <1>8, <1>9, <1>10 DEF Next

\* Every reachable state satisfies the inductive invariant: what the drain registry,
\* the backlog's entries and the run of the drain have to do with one another.
THEOREM DrainInvariant == Spec => []DrainInv
<1>1. QED BY InitInv, NextInv, PTL DEF Spec

\* The variables keep their types, whatever is registered, drained or aborted.
THEOREM DrainTypes == Spec => []TypeOK
<1>1. DrainInv => TypeOK
  BY DEF DrainInv
<1>2. QED BY <1>1, DrainInvariant, PTL

\* Buffering, replay and live delivery hand every group each of its events once, in
\* the order of emission, also when handlers emit during the replay.
THEOREM EachEventOnceInOrder == Spec => []HandledInOrder
<1>1. DrainInv => HandledInOrder
  BY DEF DrainInv
<1>2. QED BY <1>1, DrainInvariant, PTL

\* drainGroup attaches handlers without losing an event in between.
THEOREM NothingMissed == Spec => []ListenersMissNothing
<1>1. DrainInv => ListenersMissNothing
  BY DEF DrainInv
<1>2. QED BY <1>1, DrainInvariant, PTL

\* A released entry of the backlog stays empty: ee.buffer opens only a missing one.
THEOREM NoMemoryHeld == Spec => []ReleasedStaysEmpty
<1>1. DrainInv => ReleasedStaysEmpty
  BY DEF DrainInv
<1>2. QED BY <1>1, DrainInvariant, PTL

\* checkCanDrainAll replays nothing before all registered features are staged, and
\* then by priority.
THEOREM ReplaysByPriority == Spec => ReplayWaitsForAll
<1>1. DrainInv /\ [Next]_vars =>
        [LET g == Head(agenda).group IN
         ReplayNext /\ ~Head(agenda).abort /\ g \in Feature /\ registry[g] # "absent" =>
           \A f \in Feature : /\ registry[f] # "waiting"
                              /\ registry[f] = "staged" /\ Priority[f] < Priority[g]
                                   => buffering[f] # "open"]_vars
  <2> DEFINE g == Head(agenda).group
  <2> SUFFICES ASSUME DrainInv, ReplayNext, ~Head(agenda).abort, g \in Feature,
                      registry[g] # "absent", NEW f \in Feature
      PROVE  /\ registry[f] # "waiting"
             /\ ~(registry[f] = "staged" /\ Priority[f] < Priority[g])
    OBVIOUS
  <2>1. agenda \in Seq(Item) /\ agenda # <<>>
    BY DEF ReplayNext, Replaying, Idle, DrainInv, TypeOK
  <2>2. 1 \in DOMAIN agenda /\ Head(agenda) = agenda[1] /\ \A j \in DOMAIN agenda : j >= 1
    BY <2>1
  <2>3. /\ registry[f] # "waiting"
        /\ registry[f] = "staged" => \E j \in DOMAIN agenda : agenda[j].group = f
        /\ \A j \in DOMAIN agenda : 1 < j => Priority[g] <= Priority[agenda[j].group]
    BY <2>2 DEF DrainInv, AgendaIsSorted
  <2>4. ASSUME registry[f] = "staged", Priority[f] < Priority[g] PROVE FALSE
    <3>1. PICK j \in DOMAIN agenda : agenda[j].group = f
      BY <2>3, <2>4
    <3>2. Priority[f] \in Nat /\ Priority[g] \in Nat
      OBVIOUS
    <3>3. CASE j = 1
      BY <2>2, <2>4, <3>1, <3>2, <3>3
    <3>4. CASE j # 1
      <4>1. 1 < j
        BY <2>1, <2>2, <3>4
      <4>2. QED BY <2>3, <2>4, <3>1, <3>2, <4>1
    <3>5. QED BY <3>3, <3>4
  <2>5. QED BY <2>3, <2>4
<1>2. QED BY <1>1, DrainInvariant, PTL DEF Spec, ReplayWaitsForAll
=============================================================================
