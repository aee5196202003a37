----------------------------- MODULE SoftNavProofs -----------------------------
(***************************************************************************)
(* The safety properties of SoftNav, for every number of interactions,     *)
(* events and messages.  A handler is a composition of methods on a world: *)
(* each lemma says what one method keeps of the invariant.                 *)
(***************************************************************************)
EXTENDS SoftNav, SequenceTheorems, WellFoundedInduction, TLAPS

USE SoftNavAssumption

Stages == {"waiting", "draining", "on", "off", "absent"}
Triggers == {"none", "initialPageLoad", "click", "popstate", "api"}
Statuses == {"none", "finished", "cancelled"} \cup Open
TimerNames == {"cancel", "task", "longtask"}
Opts == [waitForEnd : BOOLEAN, targetPageLoad : BOOLEAN]
Later == 2..MaxIxns

Messages ==
  [kind : {"event"}, arg : Events, t : Nat, n : Ixns]
    \cup [kind : {"get"}, arg : Opts, t : Nat, n : Later]
    \cup [kind : {"newUIEvent"}, arg : {"click", "popstate"}, t : Nat, n : Later]
    \cup [kind : {"newURL", "newDom", "end", "save", "ignore"}, arg : {""}, t : Nat, n : Ixns]

Navs == [visit : Visits, stage : Stages, cur : Ixns \cup {None}, handle : Ixns \cup {None},
         asked : BOOLEAN, buffer : SUBSET Ixns, queue : Seq(Messages), starts : Ixns,
         observing : BOOLEAN, loaded : BOOLEAN, hidden : BOOLEAN]
Interactions ==
  [trigger : Triggers, start : Nat, end : Nat, status : Statuses, hist : Nat, dom : Nat,
   customEnd : Nat, keepOpen : BOOLEAN, forceSave : BOOLEAN, forceIgnore : BOOLEAN,
   timers : SUBSET TimerNames, watching : BOOLEAN, withheld : Seq(Events),
   children : SUBSET Events, sent : BOOLEAN, live : BOOLEAN]
EventTypes == [at : Nat, outcomes : Nat, ixn : Ixns \cup {None}, stack : BOOLEAN]

\* Nothing is said of the error feature, the others do not read it
IsWorld(w) ==
  /\ w = [nav |-> w.nav, ixn |-> w.ixn, evt |-> w.evt, err |-> w.err, clock |-> w.clock]
  /\ w.nav \in Navs /\ w.ixn \in [Ixns -> Interactions] /\ w.evt \in [Events -> EventTypes]
  /\ w.clock \in Nat \ {0}

\* The interaction in progress is open, and no other one but the page load is; it is
\* the one with timers, and what is withheld is withheld by one that is open
OneIsOpen(w) ==
  /\ w.nav.cur # None => w.nav.cur # PageLoad /\ w.ixn[w.nav.cur].status \in Open
  /\ \A n \in Ixns : w.ixn[n].status \in Open => n \in {PageLoad, w.nav.cur}
  /\ \A n \in Ixns : w.ixn[n].timers # {} => n = w.nav.cur
  /\ \A n \in Ixns : w.ixn[n].withheld # <<>> => w.ixn[n].status \in Open

\* Messages wait for the drain only, in the order of their times, and none is older than
\* the interaction in progress.  An event has the time when it began
Timely(m) == m.kind # "event"
InOrder(w) ==
  /\ w.nav.queue # <<>> => w.nav.stage \in {"waiting", "draining"}
  /\ w.nav.cur # None => w.ixn[w.nav.cur].start <= w.clock
  /\ \A i \in DOMAIN w.nav.queue : Timely(w.nav.queue[i]) =>
       /\ w.nav.queue[i].t <= w.clock
       /\ w.nav.cur # None => w.ixn[w.nav.cur].start <= w.nav.queue[i].t
       /\ \A j \in DOMAIN w.nav.queue :
            i < j /\ Timely(w.nav.queue[j]) => w.nav.queue[i].t <= w.nav.queue[j].t

\* OpenIsTimed, but for k: its last timer has just fired
Timed(w, k) ==
  w.nav.cur \notin {None, k} /\ w.ixn[w.nav.cur].trigger # "api" /\ ~w.ixn[w.nav.cur].keepOpen
    => w.ixn[w.nav.cur].timers # {}

Observed(w) == w.nav.cur # None /\ w.ixn[w.nav.cur].live => w.nav.observing

\* A message to a handle comes after the one that asks for it
OfHandle == {"end", "save", "ignore"}
Asked(w) ==
  w.nav.asked /\ w.nav.stage # "off" =>
    w.nav.handle # None \/ \E i \in DOMAIN w.nav.queue : w.nav.queue[i].kind = "get"
Answered(w) ==
  \A i \in DOMAIN w.nav.queue : w.nav.queue[i].kind \in OfHandle =>
    w.nav.handle # None \/ \E j \in 1..(i - 1) : w.nav.queue[j].kind = "get"
Handles(w) == Asked(w) /\ Answered(w)

\* Where an event is: it waits in one place until it is dealt with, once
Held(w, e) == \E n \in Ixns : e \in Range(w.ixn[n].withheld)
Queued(w, e) ==
  \E i \in DOMAIN w.nav.queue : w.nav.queue[i].kind = "event" /\ w.nav.queue[i].arg = e
Placed(w, e) ==
  /\ w.evt[e].outcomes \in {0, 1}
  /\ w.evt[e].at = 0 => w.evt[e].outcomes = 0
  /\ Held(w, e) \/ Queued(w, e) => w.evt[e].outcomes = 0 /\ w.evt[e].at > 0
  /\ ~(Held(w, e) /\ Queued(w, e))
HeldOnce(w) ==
  \A m, n \in Ixns : \A i \in DOMAIN w.ixn[m].withheld, j \in DOMAIN w.ixn[n].withheld :
    w.ixn[m].withheld[i] = w.ixn[n].withheld[j] => m = n /\ i = j
QueuedOnce(w) ==
  \A i, j \in DOMAIN w.nav.queue :
    /\ w.nav.queue[i].kind = "event" /\ w.nav.queue[j].kind = "event"
    /\ w.nav.queue[i].arg = w.nav.queue[j].arg
    => i = j
EventsPlaced(w) == HeldOnce(w) /\ QueuedOnce(w) /\ \A e \in Events : Placed(w, e)

Core(w, k) == IsWorld(w) /\ OneIsOpen(w) /\ InOrder(w) /\ Timed(w, k)
Good(w) == Core(w, None) /\ Observed(w) /\ Handles(w) /\ EventsPlaced(w)
IInv == Good(World)

-----------------------------------------------------------------------------
LEMMA IxnsAreNumbers ==
  /\ PageLoad \in Ixns /\ Ixns \subseteq Nat \ {0} /\ None \notin Ixns /\ None # PageLoad
  /\ Later \subseteq Ixns \ {PageLoad}
  BY DEF Ixns, PageLoad, None, Later

LEMMA StatusesAreOpenOrNot ==
  /\ Open \subseteq Statuses /\ "finished" \notin Open /\ "cancelled" \notin Open
  /\ "none" \notin Open
  /\ {"finished", "cancelled", "in progress", "pending finish"} \subseteq Statuses
  /\ "in progress" \in Open /\ "pending finish" \in Open
  BY DEF Open, Statuses

LEMMA MaxOfThree ==
  ASSUME NEW a \in Nat, NEW b \in Nat, NEW c \in Nat
  PROVE  Max({a, b, c}) \in Nat
<1>1. \E x \in {a, b, c} : \A y \in {a, b, c} : x >= y
  OBVIOUS
<1>2. QED BY <1>1 DEF Max

\* There is a greatest one of some interactions
LEMMA MaxIsOne ==
  ASSUME NEW S \in SUBSET Ixns, S # {}
  PROVE  Max(S) \in S
<1> DEFINE T == {MaxIxns - n : n \in S}
<1>1. T \subseteq Nat /\ T # {}
  <2>1. MaxIxns \in Nat
    OBVIOUS
  <2>2. \A n \in S : MaxIxns - n \in Nat
    BY <2>1 DEF Ixns
  <2>3. QED BY <2>2
<1>2. PICK x \in T : \A y \in T : ~(<<y, x>> \in OpToRel(<, Nat))
  <2> HIDE DEF T
  <2>1. QED BY <1>1, NatLessThanWellFounded, WFMin
<1>3. \A y \in T : ~(y < x)
  BY <1>1, <1>2 DEF OpToRel
<1>4. PICK m \in S : x = MaxIxns - m
  OBVIOUS
<1>5. \A n \in S : m >= n
  <2>1. ASSUME NEW n \in S PROVE m >= n
    <3>1. ~(MaxIxns - n < MaxIxns - m)
      BY <1>3, <1>4
    <3>2. QED BY <3>1 DEF Ixns
  <2>2. QED BY <2>1
<1>6. QED BY <1>5 DEF Max

\* What is in a sequence after it grew or lost its head
LEMMA SequenceFacts ==
  ASSUME NEW S, NEW s \in Seq(S)
  PROVE  /\ Range(s) \subseteq S
         /\ \A x \in S : /\ Append(s, x) \in Seq(S) /\ Range(Append(s, x)) = Range(s) \cup {x}
                         /\ DOMAIN Append(s, x) = DOMAIN s \cup {Len(s) + 1}
                         /\ Append(s, x)[Len(s) + 1] = x
                         /\ \A i \in DOMAIN s : Append(s, x)[i] = s[i]
         /\ s # <<>> => /\ Head(s) = s[1] /\ 1 \in DOMAIN s /\ Tail(s) \in Seq(S)
                        /\ \A i \in DOMAIN Tail(s) : i + 1 \in DOMAIN s /\ Tail(s)[i] = s[i + 1]
                        /\ \A i \in DOMAIN s : i > 1 => /\ i - 1 \in DOMAIN Tail(s)
                                                        /\ Tail(s)[i - 1] = s[i]
         /\ DOMAIN s = 1..Len(s) /\ Len(s) \in Nat
         /\ s = <<>> <=> Range(s) = {}
<1>1. Range(s) \subseteq S
  BY DEF Range
<1>2. ASSUME NEW x \in S
      PROVE  /\ Append(s, x) \in Seq(S) /\ Range(Append(s, x)) = Range(s) \cup {x}
             /\ DOMAIN Append(s, x) = DOMAIN s \cup {Len(s) + 1}
             /\ Append(s, x)[Len(s) + 1] = x
             /\ \A i \in DOMAIN s : Append(s, x)[i] = s[i]
  <2>1. /\ Append(s, x) \in Seq(S) /\ DOMAIN Append(s, x) = DOMAIN s \cup {Len(s) + 1}
        /\ Append(s, x)[Len(s) + 1] = x
    BY AppendProperties
  <2>2. \A i \in DOMAIN s : Append(s, x)[i] = s[i]
    BY AppendProperties
  <2>3. QED BY <2>1, <2>2 DEF Range
<1>3. ASSUME s # <<>>
      PROVE  /\ Head(s) = s[1] /\ 1 \in DOMAIN s /\ Tail(s) \in Seq(S)
             /\ \A i \in DOMAIN Tail(s) : i + 1 \in DOMAIN s /\ Tail(s)[i] = s[i + 1]
             /\ \A i \in DOMAIN s : i > 1 => /\ i - 1 \in DOMAIN Tail(s)
                                             /\ Tail(s)[i - 1] = s[i]
  <2>1. Head(s) = s[1] /\ 1 \in DOMAIN s /\ Tail(s) \in Seq(S)
    BY <1>3
  <2>2. ASSUME NEW i \in DOMAIN Tail(s) PROVE i + 1 \in DOMAIN s /\ Tail(s)[i] = s[i + 1]
    BY <1>3
  <2>3. ASSUME NEW i \in DOMAIN s, i > 1 PROVE i - 1 \in DOMAIN Tail(s) /\ Tail(s)[i - 1] = s[i]
    <3>1. i \in 1..Len(s) /\ Len(Tail(s)) = Len(s) - 1 /\ Tail(s) \in Seq(S)
      BY <1>3
    <3>2. i - 1 \in DOMAIN Tail(s)
      <4>1. DOMAIN Tail(s) = 1..(Len(s) - 1)
        BY <3>1
      <4>2. QED BY <2>3, <3>1, <4>1
    <3>3. (i - 1) + 1 = i
      BY <3>1
    <3>4. QED BY <2>2, <3>2, <3>3
  <2>4. QED BY <2>1, <2>2, <2>3
<1>4. s = <<>> <=> Range(s) = {}
  <2>1. DOMAIN s = {} <=> Len(s) = 0
    OBVIOUS
  <2>2. s = <<>> <=> Len(s) = 0
    BY EmptySeq
  <2>3. QED BY <2>1, <2>2 DEF Range
<1>5. DOMAIN s = 1..Len(s) /\ Len(s) \in Nat
  OBVIOUS
<1>6. QED BY <1>1, <1>2, <1>3, <1>4, <1>5

\* One interaction changes
IxnSet(w, v, k, x) ==
  /\ IsWorld(v)
  /\ v.nav = w.nav /\ v.evt = w.evt /\ v.err = w.err /\ v.clock = w.clock
  /\ v.ixn[k] = x
  /\ \A n \in Ixns : n # k => v.ixn[n] = w.ixn[n]

LEMMA SetIxn ==
  ASSUME NEW w, IsWorld(w), NEW k \in Ixns, NEW x \in Interactions, NEW v,
         v = [w EXCEPT !.ixn = [w.ixn EXCEPT ![k] = x]]
  PROVE  IxnSet(w, v, k, x)
<1>1. /\ v.nav = w.nav /\ v.evt = w.evt /\ v.err = w.err /\ v.clock = w.clock
      /\ v.ixn = [w.ixn EXCEPT ![k] = x]
      /\ v = [nav |-> v.nav, ixn |-> v.ixn, evt |-> v.evt, err |-> v.err, clock |-> v.clock]
  BY DEF IsWorld
<1>2. QED BY <1>1 DEF IsWorld, IxnSet

\* The feature changes
NavSet(w, v, x) ==
  /\ IsWorld(v)
  /\ v.nav = x /\ v.ixn = w.ixn /\ v.evt = w.evt /\ v.err = w.err /\ v.clock = w.clock

LEMMA SetNav ==
  ASSUME NEW w, IsWorld(w), NEW x \in Navs, NEW v, v = [w EXCEPT !.nav = x]
  PROVE  NavSet(w, v, x)
<1>1. /\ v.nav = x /\ v.evt = w.evt /\ v.err = w.err /\ v.clock = w.clock /\ v.ixn = w.ixn
      /\ v = [nav |-> v.nav, ixn |-> v.ixn, evt |-> v.evt, err |-> v.err, clock |-> v.clock]
  BY DEF IsWorld
<1>2. QED BY <1>1 DEF IsWorld, NavSet

\* The fields the invariant reads of an interaction and of the feature
SameIxn(x, y) ==
  /\ y.trigger = x.trigger /\ y.start = x.start /\ y.status = x.status /\ y.live = x.live
  /\ y.keepOpen = x.keepOpen /\ y.timers = x.timers /\ y.withheld = x.withheld
SameNav(w, v) ==
  /\ v.nav.stage = w.nav.stage /\ v.nav.queue = w.nav.queue /\ v.nav.starts = w.nav.starts
  /\ v.nav.handle = w.nav.handle /\ v.nav.asked = w.nav.asked /\ v.clock = w.clock
SameCurrent(w, v) == v.nav.cur = w.nav.cur /\ v.nav.observing = w.nav.observing

\* A step that none of them notices
Keeps(w, v) ==
  /\ IsWorld(v) /\ SameNav(w, v) /\ SameCurrent(w, v) /\ v.evt = w.evt
  /\ \A n \in Ixns : SameIxn(w.ixn[n], v.ixn[n])

\* The events of s are dealt with
Deals(w, v, s) ==
  \A e \in Events :
    /\ e \notin Range(s) => v.evt[e] = w.evt[e]
    /\ e \in Range(s) => /\ v.evt[e].at = w.evt[e].at
                         /\ v.evt[e].outcomes = Dealt(w.evt[e].outcomes, s, e)

\* The interaction k is closed, and what it withheld is dealt with
Closes(w, v, k) ==
  /\ IsWorld(v) /\ SameNav(w, v)
  /\ k = PageLoad => SameCurrent(w, v)
  /\ k # PageLoad => v.nav.cur = None
  /\ v.ixn[k].status \notin Open /\ v.ixn[k].withheld = <<>>
  /\ \A n \in Ixns : n # k => SameIxn(w.ixn[n], v.ixn[n])
  /\ Deals(w, v, w.ixn[k].withheld)

LEMMA SameIsTransitive ==
  ASSUME NEW u, NEW v, NEW w
  PROVE  /\ Keeps(u, v) /\ Keeps(v, w) => Keeps(u, w)
         /\ \A k \in Ixns : Keeps(u, v) /\ Closes(v, w, k) => Closes(u, w, k)
<1>1. Keeps(u, v) /\ Keeps(v, w) => Keeps(u, w)
  BY DEF Keeps, SameNav, SameCurrent, SameIxn
<1>2. ASSUME NEW k \in Ixns, Keeps(u, v), Closes(v, w, k) PROVE Closes(u, w, k)
  BY <1>2 DEF Keeps, SameNav, SameCurrent, SameIxn, Closes, Deals
<1>3. QED BY <1>1, <1>2

-----------------------------------------------------------------------------
\* What the invariant does not read of an interaction may change
LEMMA SameFields ==
  ASSUME NEW x \in Interactions, NEW C \in SUBSET Events, NEW b \in BOOLEAN
  PROVE  /\ [x EXCEPT !.children = C] \in Interactions /\ SameIxn(x, [x EXCEPT !.children = C])
         /\ [x EXCEPT !.sent = b] \in Interactions /\ SameIxn(x, [x EXCEPT !.sent = b])
         /\ [x EXCEPT !.forceSave = b] \in Interactions /\ SameIxn(x, [x EXCEPT !.forceSave = b])
         /\ [x EXCEPT !.forceIgnore = b] \in Interactions
         /\ SameIxn(x, [x EXCEPT !.forceIgnore = b])
         /\ SameIxn(x, x)
  BY DEF Interactions, SameIxn

\* The outcomes of some events
OnlyDeals(w, v, s) ==
  /\ IsWorld(v) /\ v.nav = w.nav /\ v.clock = w.clock /\ Deals(w, v, s)
  /\ \A n \in Ixns : SameIxn(w.ixn[n], v.ixn[n])

LEMMA OutcomeDeals ==
  ASSUME NEW w, IsWorld(w), NEW s \in Seq(Events), NEW k \in Ixns \cup {None}, NEW alone,
         NEW v, v = Outcome(w, s, k, alone)
  PROVE  OnlyDeals(w, v, s)
<1> DEFINE to == [e \in Range(s) |-> IF e \in alone THEN None ELSE k]
           E == [e \in Events |->
                   IF e \in Range(s)
                   THEN [w.evt[e] EXCEPT !.outcomes = Dealt(w.evt[e].outcomes, s, e), !.ixn = to[e]]
                   ELSE w.evt[e]]
           C == (Range(s) \cap Requests) \ alone
           I == [n \in Ixns |->
                   IF n = k THEN [w.ixn[n] EXCEPT !.children = w.ixn[n].children \cup C]
                   ELSE w.ixn[n]]
           R == [w.err EXCEPT !.buckets = StoreJserrors(w, s, to)]
<1>1. v = [w EXCEPT !.evt = E, !.ixn = I, !.err = R]
  BY DEF Outcome
<1>2. C \subseteq Events
  BY DEF Events
<1>3. \A n \in Ixns : I[n] \in Interactions /\ SameIxn(w.ixn[n], I[n])
  <2> HIDE DEF C
  <2>1. \A n \in Ixns : w.ixn[n] \in Interactions /\ w.ixn[n].children \in SUBSET Events
    BY DEF IsWorld, Interactions
  <2>2. \A n \in Ixns : w.ixn[n].children \cup C \in SUBSET Events
    BY <1>2, <2>1
  <2>3. ASSUME NEW n \in Ixns PROVE I[n] \in Interactions /\ SameIxn(w.ixn[n], I[n])
    <3>1. I[n] \in {w.ixn[n], [w.ixn[n] EXCEPT !.children = w.ixn[n].children \cup C]}
      OBVIOUS
    <3>2. QED BY <2>1, <2>2, <3>1, SameFields
  <2>4. QED BY <2>3
<1>4. \A e \in Events : E[e] \in EventTypes
  <2>1. \A e \in Events : w.evt[e] \in EventTypes
    BY DEF IsWorld
  <2>2. \A e \in Range(s) : to[e] \in Ixns \cup {None}
    OBVIOUS
  <2>3. \A e \in Events : Dealt(w.evt[e].outcomes, s, e) \in Nat
    BY DEF Dealt
  <2> HIDE DEF to
  <2>4. QED BY <2>1, <2>2, <2>3 DEF EventTypes
<1>5. \A e \in Events :
        /\ e \notin Range(s) => E[e] = w.evt[e]
        /\ e \in Range(s) => /\ E[e].at = w.evt[e].at
                             /\ E[e].outcomes = Dealt(w.evt[e].outcomes, s, e)
  <2>1. \A e \in Events : w.evt[e] \in EventTypes
    BY DEF IsWorld
  <2> HIDE DEF to
  <2>2. QED BY <2>1 DEF EventTypes
<1>6. I \in [Ixns -> Interactions] /\ E \in [Events -> EventTypes]
  <2>1. DOMAIN I = Ixns /\ DOMAIN E = Events
    OBVIOUS
  <2>2. QED BY <1>3, <1>4, <2>1
<1> HIDE DEF E, I, R
<1>7. /\ v.nav = w.nav /\ v.clock = w.clock /\ v.evt = E /\ v.ixn = I /\ v.err = R
      /\ v = [nav |-> v.nav, ixn |-> v.ixn, evt |-> v.evt, err |-> v.err, clock |-> v.clock]
  BY <1>1 DEF IsWorld
<1>8. QED BY <1>3, <1>5, <1>6, <1>7 DEF IsWorld, Deals, OnlyDeals

\* What an interaction withheld hears that it has ended
Ends(w, v, k) ==
  /\ IsWorld(v) /\ v.nav = w.nav /\ v.clock = w.clock
  /\ v.ixn[k].status = w.ixn[k].status /\ v.ixn[k].timers = w.ixn[k].timers
  /\ v.ixn[k].withheld = <<>>
  /\ \A n \in Ixns : n # k => SameIxn(w.ixn[n], v.ixn[n])
  /\ Deals(w, v, w.ixn[k].withheld)

LEMMA WithheldEnds ==
  ASSUME NEW w, IsWorld(w), NEW k \in Ixns
  PROVE  Ends(w, OnFinished(w, k), k) /\ Ends(w, OnCancelled(w, k), k)
<1> DEFINE s == w.ixn[k].withheld
<1>1. s \in Seq(Events)
  BY DEF IsWorld, Interactions
<1>2. ASSUME NEW u, NEW j \in Ixns \cup {None}, NEW alone, u = Outcome(w, s, j, alone),
             NEW v, v = [u EXCEPT !.ixn[k].withheld = <<>>]
      PROVE  Ends(w, v, k)
  <2>1. /\ IsWorld(u) /\ u.nav = w.nav /\ u.clock = w.clock /\ Deals(w, u, s)
        /\ \A n \in Ixns : SameIxn(w.ixn[n], u.ixn[n])
    <3> HIDE DEF s
    <3>1. OnlyDeals(w, u, s)
      BY <1>1, <1>2, OutcomeDeals
    <3>2. QED BY <3>1 DEF OnlyDeals
  <2> DEFINE x == [u.ixn[k] EXCEPT !.withheld = <<>>]
  <2>2. v = [u EXCEPT !.ixn = [u.ixn EXCEPT ![k] = x]]
    BY <1>2, <2>1
  <2>3. <<>> \in Seq(Events) /\ u.ixn[k] \in Interactions
    BY <2>1 DEF IsWorld
  <2>4. x \in Interactions /\ x.withheld = <<>> /\ x.status = u.ixn[k].status
        /\ x.timers = u.ixn[k].timers
    BY <2>3 DEF Interactions
  <2> HIDE DEF x
  <2>5. /\ IsWorld(v) /\ v.nav = u.nav /\ v.evt = u.evt /\ v.clock = u.clock /\ v.ixn[k] = x
        /\ \A n \in Ixns : n # k => v.ixn[n] = u.ixn[n]
    <3>1. IxnSet(u, v, k, x)
      BY <2>1, <2>2, <2>4, SetIxn
    <3>2. QED BY <3>1 DEF IxnSet
  <2>6. QED BY <2>1, <2>4, <2>5 DEF Ends, SameIxn, Deals
<1>3. Ends(w, OnFinished(w, k), k)
  BY <1>2 DEF OnFinished, Process
<1>4. Ends(w, OnCancelled(w, k), k)
  BY <1>2 DEF OnCancelled, GiveBack
<1>5. QED BY <1>3, <1>4

\* makeHarvestPayload and events.add
LEMMA HarvestKeeps ==
  ASSUME NEW w, IsWorld(w)
  PROVE  /\ Keeps(w, Harvest(w))
         /\ \A k \in Ixns : Keeps(w, AddToHarvest(w, k))
<1>1. ASSUME NEW u, IsWorld(u) PROVE Keeps(u, Harvest(u))
  <2>1. CASE u.nav.stage \notin {"draining", "on"}
    BY <1>1, <2>1 DEF Harvest, Keeps, SameNav, SameCurrent, SameIxn
  <2>2. CASE u.nav.stage \in {"draining", "on"}
    <3> DEFINE N == [u.nav EXCEPT !.buffer = {}]
               I == [n \in Ixns |-> [u.ixn[n] EXCEPT !.sent = u.ixn[n].sent \/ n \in u.nav.buffer]]
               v == Harvest(u)
    <3>1. v = [u EXCEPT !.nav = N, !.ixn = I]
      BY <1>1, <2>2 DEF Harvest, IsWorld
    <3>2. N \in Navs /\ \A f \in {"stage"} : N.stage = u.nav.stage /\ N.queue = u.nav.queue
            /\ N.starts = u.nav.starts /\ N.handle = u.nav.handle /\ N.asked = u.nav.asked
            /\ N.cur = u.nav.cur /\ N.observing = u.nav.observing
      BY <1>1 DEF IsWorld, Navs
    <3>3. \A n \in Ixns : I[n] \in Interactions /\ SameIxn(u.ixn[n], I[n])
      <4>1. \A n \in Ixns : u.ixn[n] \in Interactions
        BY <1>1 DEF IsWorld
      <4>2. QED BY <4>1, SameFields
    <3>4. I \in [Ixns -> Interactions]
      BY <3>3
    <3> HIDE DEF N, I, v
    <3>5. /\ v.nav = N /\ v.clock = u.clock /\ v.evt = u.evt /\ v.ixn = I
          /\ v = [nav |-> v.nav, ixn |-> v.ixn, evt |-> v.evt, err |-> v.err, clock |-> v.clock]
      BY <1>1, <3>1 DEF IsWorld
    <3>6. Keeps(u, v)
      BY <1>1, <3>2, <3>3, <3>4, <3>5 DEF Keeps, SameNav, SameCurrent, IsWorld
    <3>7. QED BY <3>6 DEF v
  <2>3. QED BY <2>1, <2>2
<1>2. ASSUME NEW k \in Ixns PROVE Keeps(w, AddToHarvest(w, k))
  <2> DEFINE N == [w.nav EXCEPT !.buffer = w.nav.buffer \cup {k}]
             v == [w EXCEPT !.nav = N]
  <2>1. N \in Navs /\ N.stage = w.nav.stage /\ N.queue = w.nav.queue
            /\ N.starts = w.nav.starts /\ N.handle = w.nav.handle /\ N.asked = w.nav.asked
            /\ N.cur = w.nav.cur /\ N.observing = w.nav.observing
    BY DEF IsWorld, Navs
  <2>2. v = [w EXCEPT !.nav.buffer = w.nav.buffer \cup {k}]
    BY DEF IsWorld
  <2> HIDE DEF N
  <2>3. /\ IsWorld(v) /\ v.nav = N /\ v.ixn = w.ixn /\ v.evt = w.evt /\ v.clock = w.clock
    BY <2>1, SetNav DEF NavSet
  <2> HIDE DEF v
  <2>4. Keeps(w, v)
    BY <2>1, <2>3 DEF Keeps, SameNav, SameCurrent, SameIxn
  <2>5. Keeps(w, Harvest(v))
    BY <1>1, <2>3, <2>4, SameIsTransitive
  <2>6. AddToHarvest(w, k) \in {v, Harvest(v)}
    BY <2>2 DEF AddToHarvest
  <2>7. QED BY <2>4, <2>5, <2>6
<1>3. QED BY <1>1, <1>2

LEMMA KeepsItself ==
  ASSUME NEW w, IsWorld(w)
  PROVE  Keeps(w, w)
  BY DEF Keeps, SameNav, SameCurrent, SameIxn

\* setClosureHandlers
LEMMA CloseCurrentSets ==
  ASSUME NEW w, IsWorld(w), NEW k \in Ixns, NEW v, v = CloseCurrent(w, k)
  PROVE  /\ IsWorld(v) /\ SameNav(w, v) /\ v.ixn = w.ixn /\ v.evt = w.evt
         /\ k = PageLoad => SameCurrent(w, v)
         /\ k # PageLoad => v.nav.cur = None
<1>1. CASE k = PageLoad
  BY <1>1 DEF CloseCurrent, SameNav, SameCurrent
<1>2. CASE k # PageLoad
  <2> DEFINE N == [w.nav EXCEPT !.cur = None, !.observing = FALSE]
  <2>1. v = [w EXCEPT !.nav = N]
    BY <1>2 DEF CloseCurrent, IsWorld
  <2>2. /\ N \in Navs /\ N.cur = None
        /\ N.stage = w.nav.stage /\ N.queue = w.nav.queue /\ N.starts = w.nav.starts
        /\ N.handle = w.nav.handle /\ N.asked = w.nav.asked
    BY DEF IsWorld, Navs
  <2> HIDE DEF N
  <2>3. NavSet(w, v, N)
    BY <2>1, <2>2, SetNav
  <2>4. QED BY <1>2, <2>2, <2>3 DEF NavSet, SameNav
<1>3. QED BY <1>1, <1>2

\* An interaction ends, the harvest takes note, its handlers run, and then those of its events
LEMMA EndCloses ==
  ASSUME NEW w, IsWorld(w), NEW k \in Ixns, NEW x \in Interactions,
         x.status \notin Open, x.withheld = w.ixn[k].withheld, x.timers = w.ixn[k].timers,
         NEW v, IxnSet(w, v, k, x), NEW y, Keeps(v, y), NEW u, u = CloseCurrent(y, k),
         NEW z, Ends(u, z, k)
  PROVE  Closes(w, z, k) /\ z.ixn[k].timers = w.ixn[k].timers
<1>1. /\ IsWorld(v) /\ v.nav = w.nav /\ v.evt = w.evt /\ v.clock = w.clock /\ v.ixn[k] = x
      /\ \A n \in Ixns : n # k => v.ixn[n] = w.ixn[n]
  BY DEF IxnSet
<1>2. /\ IsWorld(y) /\ SameNav(v, y) /\ SameCurrent(v, y) /\ y.evt = v.evt
      /\ \A n \in Ixns : SameIxn(v.ixn[n], y.ixn[n])
  BY DEF Keeps
<1>3. /\ IsWorld(u) /\ SameNav(y, u) /\ u.ixn = y.ixn /\ u.evt = y.evt
      /\ k = PageLoad => SameCurrent(y, u)
      /\ k # PageLoad => u.nav.cur = None
  BY <1>2, CloseCurrentSets
<1>4. /\ IsWorld(z) /\ z.nav = u.nav /\ z.clock = u.clock
      /\ z.ixn[k].status = u.ixn[k].status /\ z.ixn[k].timers = u.ixn[k].timers
      /\ z.ixn[k].withheld = <<>>
      /\ \A n \in Ixns : n # k => SameIxn(u.ixn[n], z.ixn[n])
      /\ Deals(u, z, u.ixn[k].withheld)
  BY DEF Ends
<1>5. SameNav(w, z) /\ (k = PageLoad => SameCurrent(w, z)) /\ (k # PageLoad => z.nav.cur = None)
  BY <1>1, <1>2, <1>3, <1>4 DEF SameNav, SameCurrent
<1>6. \A n \in Ixns : n # k => SameIxn(w.ixn[n], z.ixn[n])
  BY <1>1, <1>2, <1>3, <1>4 DEF SameIxn
<1>7. /\ z.ixn[k].status = x.status /\ z.ixn[k].timers = x.timers
      /\ u.ixn[k].withheld = w.ixn[k].withheld
  BY <1>1, <1>2, <1>3, <1>4 DEF SameIxn
<1>8. Deals(w, z, w.ixn[k].withheld)
  BY <1>1, <1>2, <1>3, <1>4, <1>7 DEF Deals
<1>9. QED BY <1>4, <1>5, <1>6, <1>7, <1>8 DEF Closes

\* #finish and #cancel
LEMMA FinishCloses ==
  ASSUME NEW w, IsWorld(w), NEW k \in Ixns, NEW end \in Nat
  PROVE  /\ Closes(w, Finish(w, k, end), k)
         /\ Finish(w, k, end).ixn[k].timers = w.ixn[k].timers
<1> DEFINE o == w.ixn[k]
           m == Max({o.dom, o.hist, end})
           x == [o EXCEPT !.status = "finished", !.end = m]
           v == [w EXCEPT !.ixn[k].status = "finished", !.ixn[k].end = m]
           y == IF k = PageLoad THEN v ELSE AddToHarvest(v, k)
           u == CloseCurrent(y, k)
<1>1. o \in Interactions /\ o.dom \in Nat /\ o.hist \in Nat
  BY DEF IsWorld, Interactions
<1>2. m \in Nat
  <2> HIDE DEF o
  <2>1. QED BY <1>1, MaxOfThree
<1>3. v = [w EXCEPT !.ixn = [w.ixn EXCEPT ![k] = x]]
  BY DEF IsWorld
<1>4. /\ x \in Interactions /\ x.status = "finished" /\ x.withheld = o.withheld
      /\ x.timers = o.timers
  <2> HIDE DEF o, m
  <2>1. QED BY <1>1, <1>2, StatusesAreOpenOrNot DEF Interactions
<1>5. Finish(w, k, end) = OnFinished(u, k)
  BY DEF Finish, CloseCurrent
<1> HIDE DEF x, v
<1>6. IxnSet(w, v, k, x)
  BY <1>3, <1>4, SetIxn
<1>7. IsWorld(v)
  BY <1>6 DEF IxnSet
<1>8. Keeps(v, y)
  BY <1>7, KeepsItself, HarvestKeeps
<1> HIDE DEF y
<1>9. IsWorld(y)
  BY <1>8 DEF Keeps
<1>10. IsWorld(u)
  BY <1>9, CloseCurrentSets
<1>11. Ends(u, OnFinished(u, k), k)
  <2> HIDE DEF u
  <2>1. QED BY <1>10, WithheldEnds
<1>12. x.status \notin Open
  BY <1>4, StatusesAreOpenOrNot
<1>13. QED BY <1>4, <1>5, <1>6, <1>8, <1>11, <1>12, EndCloses

LEMMA CancelCloses ==
  ASSUME NEW w, IsWorld(w), NEW k \in Ixns
  PROVE  /\ Closes(w, Cancel(w, k), k)
         /\ Cancel(w, k).ixn[k].timers = w.ixn[k].timers
<1> DEFINE o == w.ixn[k]
           x == [o EXCEPT !.status = "cancelled"]
           v == [w EXCEPT !.ixn[k].status = "cancelled"]
           u == CloseCurrent(v, k)
<1>1. o \in Interactions
  BY DEF IsWorld, Interactions
<1>3. v = [w EXCEPT !.ixn = [w.ixn EXCEPT ![k] = x]]
  BY DEF IsWorld
<1>4. /\ x \in Interactions /\ x.status = "cancelled" /\ x.withheld = o.withheld
      /\ x.timers = o.timers
  <2> HIDE DEF o
  <2>1. QED BY <1>1, StatusesAreOpenOrNot DEF Interactions
<1>5. Cancel(w, k) = OnCancelled(u, k)
  BY DEF Cancel
<1> HIDE DEF x, v
<1>6. IxnSet(w, v, k, x)
  BY <1>3, <1>4, SetIxn
<1>7. IsWorld(v)
  BY <1>6 DEF IxnSet
<1>8. Keeps(v, v)
  BY <1>7, KeepsItself
<1>10. IsWorld(u)
  BY <1>7, CloseCurrentSets
<1>11. Ends(u, OnCancelled(u, k), k)
  <2> HIDE DEF u
  <2>1. QED BY <1>10, WithheldEnds
<1>12. x.status \notin Open
  BY <1>4, StatusesAreOpenOrNot
<1>13. QED BY <1>4, <1>5, <1>6, <1>8, <1>11, <1>12, EndCloses

LEMMA IxnKeeps ==
  ASSUME NEW w, NEW k \in Ixns, NEW x, SameIxn(w.ixn[k], x), NEW v, IxnSet(w, v, k, x)
  PROVE  Keeps(w, v)
  BY DEF IxnSet, Keeps, SameNav, SameCurrent, SameIxn

\* The page load is pushed to the harvest whatever follows
LEMMA OnDoneKeeps ==
  ASSUME NEW w, IsWorld(w), NEW k \in Ixns
  PROVE  Keeps(w, OnDone(w, k))
<1>1. CASE k # PageLoad
  BY <1>1, KeepsItself DEF OnDone
<1>2. CASE k = PageLoad
  <2> DEFINE x == [w.ixn[k] EXCEPT !.forceSave = TRUE]
             v == [w EXCEPT !.ixn[k].forceSave = TRUE]
  <2>1. v = [w EXCEPT !.ixn = [w.ixn EXCEPT ![k] = x]]
    BY DEF IsWorld
  <2>2. w.ixn[k] \in Interactions
    BY DEF IsWorld
  <2>3. x \in Interactions /\ SameIxn(w.ixn[k], x)
    BY <2>2, SameFields
  <2>4. OnDone(w, k) = AddToHarvest(v, k)
    BY <1>2 DEF OnDone
  <2> HIDE DEF x, v
  <2>5. IxnSet(w, v, k, x)
    BY <2>1, <2>3, SetIxn
  <2>6. Keeps(w, v)
    BY <2>3, <2>5, IxnKeeps
  <2>7. IsWorld(v)
    BY <2>6 DEF Keeps
  <2>8. Keeps(v, AddToHarvest(v, k))
    BY <2>7, HarvestKeeps
  <2>9. QED BY <2>4, <2>6, <2>8, SameIsTransitive
<1>3. QED BY <1>1, <1>2

\* done() closes the interaction, and its timers, or does nothing
ClosesAll(w, v, k) == Closes(w, v, k) /\ v.ixn[k].timers = {}
Stays(w, k, byApi) == (w.ixn[k].keepOpen /\ ~byApi) \/ w.ixn[k].status \notin Open

LEMMA DoneCloses ==
  ASSUME NEW w, IsWorld(w), NEW k \in Ixns, NEW end \in Nat, NEW byApi \in BOOLEAN
  PROVE  /\ Stays(w, k, byApi) => Done(w, k, end, byApi) = w
         /\ ~Stays(w, k, byApi) => ClosesAll(w, Done(w, k, end, byApi), k)
<1>1. Stays(w, k, byApi) => Done(w, k, end, byApi) = w
  BY DEF Done, Stays
<1>2. ASSUME ~Stays(w, k, byApi) PROVE ClosesAll(w, Done(w, k, end, byApi), k)
  <2> DEFINE x == [w.ixn[k] EXCEPT !.timers = {}]
             u == [w EXCEPT !.ixn[k].timers = {}]
             v == OnDone(u, k)
             at == IF end = 0 THEN w.clock ELSE end
             z == Done(w, k, end, byApi)
  <2>1. u = [w EXCEPT !.ixn = [w.ixn EXCEPT ![k] = x]]
    BY DEF IsWorld
  <2>2. w.ixn[k] \in Interactions
    BY DEF IsWorld
  <2>3. x \in Interactions /\ x.timers = {} /\ x.withheld = w.ixn[k].withheld
    BY <2>2 DEF Interactions
  <2>4. at \in Nat
    BY DEF IsWorld
  <2>5. z \in {Cancel(v, k), Finish(v, k, end), Finish(v, k, at)}
    BY <1>2 DEF Done, Stays
  <2> HIDE DEF x, u, at, z
  <2>6. IxnSet(w, u, k, x)
    BY <2>1, <2>3, SetIxn
  <2>7. IsWorld(u)
    BY <2>6 DEF IxnSet
  <2>8. Keeps(u, v)
    BY <2>7, OnDoneKeeps
  <2> HIDE DEF v
  <2>9. IsWorld(v)
    BY <2>8 DEF Keeps
  <2>10. Closes(v, z, k) /\ z.ixn[k].timers = v.ixn[k].timers
    <3>1. CASE z = Cancel(v, k)
      BY <2>9, <3>1, CancelCloses
    <3>2. CASE z = Finish(v, k, end)
      BY <2>9, <3>2, FinishCloses
    <3>3. CASE z = Finish(v, k, at)
      BY <2>4, <2>9, <3>3, FinishCloses
    <3>4. QED BY <2>5, <3>1, <3>2, <3>3
  <2>11. Closes(u, z, k)
    BY <2>8, <2>10, SameIsTransitive
  <2>12. z.ixn[k].timers = {}
    BY <2>3, <2>6, <2>8, <2>10 DEF Keeps, SameIxn, IxnSet
  <2>13. Closes(w, z, k)
    <3>1. /\ u.nav = w.nav /\ u.evt = w.evt /\ u.clock = w.clock
          /\ u.ixn[k].withheld = w.ixn[k].withheld
          /\ \A n \in Ixns : n # k => u.ixn[n] = w.ixn[n]
      BY <2>3, <2>6 DEF IxnSet
    <3>2. QED BY <2>11, <3>1 DEF Closes, SameNav, SameCurrent, SameIxn, Deals
  <2>14. QED BY <2>12, <2>13 DEF ClosesAll, z
<1>3. QED BY <1>1, <1>2
-----------------------------------------------------------------------------
(***************************************************************************)
(* What the invariant makes of the steps nothing notices, and of an        *)
(* interaction that closes.                                                *)
(***************************************************************************)
LEMMA KeepsCore ==
  ASSUME NEW w, NEW v, Keeps(w, v)
  PROVE  /\ \A j \in Ixns \cup {None} : Core(w, j) => Core(v, j)
         /\ Observed(w) => Observed(v)
         /\ Handles(w) => Handles(v)
<1>1. ASSUME NEW j \in Ixns \cup {None}, Core(w, j) PROVE Core(v, j)
  <2>1. /\ IsWorld(v) /\ v.nav.cur = w.nav.cur /\ v.nav.queue = w.nav.queue
        /\ v.nav.stage = w.nav.stage /\ v.clock = w.clock
        /\ \A n \in Ixns : SameIxn(w.ixn[n], v.ixn[n])
    BY DEF Keeps, SameNav, SameCurrent
  <2>2. w.nav.cur \in Ixns \cup {None}
    BY <1>1 DEF Core, IsWorld, Navs
  <2>3. OneIsOpen(v)
    BY <1>1, <2>1, <2>2 DEF Core, OneIsOpen, SameIxn
  <2>4. InOrder(v)
    BY <1>1, <2>1, <2>2 DEF Core, InOrder, SameIxn
  <2>5. Timed(v, j)
    BY <1>1, <2>1, <2>2 DEF Core, Timed, SameIxn
  <2>6. QED BY <2>1, <2>3, <2>4, <2>5 DEF Core
<1>2. ASSUME Observed(w) PROVE Observed(v)
  <2>1. v.nav.cur \in Ixns \cup {None}
    BY DEF Keeps, IsWorld, Navs
  <2>2. QED BY <1>2, <2>1 DEF Observed, Keeps, SameCurrent, SameIxn
<1>3. ASSUME Handles(w) PROVE Handles(v)
  BY <1>3 DEF Handles, Asked, Answered, Keeps, SameNav
<1>4. QED BY <1>1, <1>2, <1>3

LEMMA ClosesCore ==
  ASSUME NEW w, NEW k \in Ixns, NEW j \in {None, k}, Core(w, j), w.ixn[k].status \in Open,
         NEW v, ClosesAll(w, v, k)
  PROVE  /\ Core(v, None)
         /\ v.nav.cur = IF k = PageLoad THEN w.nav.cur ELSE None
         /\ Observed(w) => Observed(v)
         /\ Handles(w) => Handles(v)
<1>1. /\ IsWorld(v) /\ v.nav.queue = w.nav.queue /\ v.nav.stage = w.nav.stage
      /\ v.clock = w.clock /\ v.ixn[k].status \notin Open /\ v.ixn[k].withheld = <<>>
      /\ v.ixn[k].timers = {}
      /\ \A n \in Ixns : n # k => SameIxn(w.ixn[n], v.ixn[n])
      /\ v.nav.handle = w.nav.handle /\ v.nav.asked = w.nav.asked
  BY DEF ClosesAll, Closes, SameNav
<1>2. v.nav.cur = IF k = PageLoad THEN w.nav.cur ELSE None
  BY DEF ClosesAll, Closes, SameCurrent
<1>3. w.nav.cur \in Ixns \cup {None}
  BY DEF Core, IsWorld, Navs
<1>4. /\ w.nav.cur # None => w.nav.cur # PageLoad /\ w.ixn[w.nav.cur].status \in Open
      /\ \A n \in Ixns : w.ixn[n].status \in Open => n \in {PageLoad, w.nav.cur}
      /\ \A n \in Ixns : w.ixn[n].timers # {} => n = w.nav.cur
      /\ \A n \in Ixns : w.ixn[n].withheld # <<>> => w.ixn[n].status \in Open
  BY DEF Core, OneIsOpen
<1>5. k = PageLoad \/ k = w.nav.cur
  BY <1>4
<1>6. OneIsOpen(v)
  <2>1. v.nav.cur # None => v.nav.cur # PageLoad /\ v.ixn[v.nav.cur].status \in Open
    BY <1>1, <1>2, <1>3, <1>4 DEF SameIxn
  <2>2. ASSUME NEW n \in Ixns, v.ixn[n].status \in Open PROVE n \in {PageLoad, v.nav.cur}
    BY <1>1, <1>2, <1>4, <1>5, <2>2 DEF SameIxn
  <2>3. ASSUME NEW n \in Ixns, v.ixn[n].timers # {} PROVE n = v.nav.cur
    BY <1>1, <1>2, <1>4, <1>5, <2>3 DEF SameIxn
  <2>4. ASSUME NEW n \in Ixns, v.ixn[n].withheld # <<>> PROVE v.ixn[n].status \in Open
    BY <1>1, <1>4, <2>4 DEF SameIxn
  <2>5. QED BY <2>1, <2>2, <2>3, <2>4 DEF OneIsOpen
<1>7. v.nav.cur # None => v.nav.cur = w.nav.cur /\ SameIxn(w.ixn[v.nav.cur], v.ixn[v.nav.cur])
  BY <1>1, <1>2, <1>3, <1>4
<1>8. InOrder(v)
  BY <1>1, <1>7 DEF Core, InOrder, SameIxn
<1>9. Timed(v, None)
  <2>1. v.nav.cur # None => k # v.nav.cur
    BY <1>2, <1>4
  <2>2. QED BY <1>7, <2>1 DEF Core, Timed, SameIxn
<1>10. Observed(w) => Observed(v)
  <2>1. v.nav.cur # None => v.nav.observing = w.nav.observing
    BY <1>2 DEF ClosesAll, Closes, SameCurrent
  <2>2. QED BY <1>7, <2>1 DEF Observed, SameIxn
<1>11. Handles(w) => Handles(v)
  BY <1>1 DEF Handles, Asked, Answered
<1>12. QED BY <1>1, <1>2, <1>6, <1>8, <1>9, <1>10, <1>11 DEF Core

-----------------------------------------------------------------------------
(***************************************************************************)
(* What a step makes of the events: it leaves them where they are, or an   *)
(* event that was withheld is dealt with, once.                            *)
(***************************************************************************)
Rests(w, v, e) == v.evt[e] = w.evt[e] /\ (Held(v, e) <=> Held(w, e))
Leaves(w, v, e) ==
  Held(w, e) /\ ~Held(v, e) /\ v.evt[e].at = w.evt[e].at /\ v.evt[e].outcomes = 1
Advance(w, v) ==
  /\ v.nav.queue = w.nav.queue
  /\ \A n \in Ixns : v.ixn[n].withheld \in {w.ixn[n].withheld, <<>>}
  /\ \A e \in Events : Rests(w, v, e) \/ Leaves(w, v, e)

SameEvents(w, v) ==
  /\ v.nav.queue = w.nav.queue /\ v.evt = w.evt
  /\ \A n \in Ixns : v.ixn[n].withheld = w.ixn[n].withheld

LEMMA SameEventsAdvance ==
  ASSUME NEW w, NEW v, SameEvents(w, v)
  PROVE  Advance(w, v)
<1>1. \A e \in Events : Held(v, e) <=> Held(w, e)
  BY DEF SameEvents, Held
<1>2. QED BY <1>1 DEF Advance, Rests, SameEvents

LEMMA KeepsAdvance ==
  ASSUME NEW w, NEW v, Keeps(w, v)
  PROVE  Advance(w, v)
<1>1. SameEvents(w, v)
  BY DEF Keeps, SameEvents, SameNav, SameIxn
<1>2. QED BY <1>1, SameEventsAdvance

LEMMA AdvanceIsTransitive ==
  ASSUME NEW u, NEW v, NEW w, Advance(u, v), Advance(v, w)
  PROVE  Advance(u, w)
<1>1. w.nav.queue = u.nav.queue
  BY DEF Advance
<1>2. \A n \in Ixns : w.ixn[n].withheld \in {u.ixn[n].withheld, <<>>}
  BY DEF Advance
<1>3. ASSUME NEW e \in Events PROVE Rests(u, w, e) \/ Leaves(u, w, e)
  <2>1. (Rests(u, v, e) \/ Leaves(u, v, e)) /\ (Rests(v, w, e) \/ Leaves(v, w, e))
    BY DEF Advance
  <2>2. QED BY <2>1 DEF Rests, Leaves
<1>4. QED BY <1>1, <1>2, <1>3 DEF Advance

LEMMA ClosesAdvance ==
  ASSUME NEW w, IsWorld(w), EventsPlaced(w), NEW k \in Ixns, NEW v, Closes(w, v, k)
  PROVE  Advance(w, v)
<1> DEFINE s == w.ixn[k].withheld
<1>1. /\ v.nav.queue = w.nav.queue /\ v.ixn[k].withheld = <<>>
      /\ \A n \in Ixns : n # k => v.ixn[n].withheld = w.ixn[n].withheld
  BY DEF Closes, SameNav, SameIxn
<1>2. \A n \in Ixns : v.ixn[n].withheld \in {w.ixn[n].withheld, <<>>}
  BY <1>1
<1>3. Range(v.ixn[k].withheld) = {}
  BY <1>1 DEF Range
<1>4. \A e \in Events :
        /\ e \notin Range(s) => v.evt[e] = w.evt[e]
        /\ e \in Range(s) => /\ v.evt[e].at = w.evt[e].at
                             /\ v.evt[e].outcomes = Dealt(w.evt[e].outcomes, s, e)
  BY DEF Closes, Deals
<1>5. ASSUME NEW e \in Events, e \notin Range(s) PROVE Rests(w, v, e)
  <2>1. Held(v, e) <=> Held(w, e)
    BY <1>1, <1>3, <1>5 DEF Held
  <2>2. QED BY <1>4, <1>5, <2>1 DEF Rests
<1>6. ASSUME NEW e \in Events, e \in Range(s) PROVE Leaves(w, v, e)
  <2>1. PICK i \in DOMAIN s : s[i] = e
    BY <1>6 DEF Range
  <2>2. Held(w, e)
    BY <1>6 DEF Held
  <2>3. w.evt[e].outcomes = 0
    BY <2>2 DEF EventsPlaced, Placed
  <2>4. \A m, n \in Ixns : \A a \in DOMAIN w.ixn[m].withheld, b \in DOMAIN w.ixn[n].withheld :
          w.ixn[m].withheld[a] = w.ixn[n].withheld[b] => m = n /\ a = b
    BY DEF EventsPlaced, HeldOnce
  <2>5. \A a, b \in DOMAIN s : s[a] = e /\ s[b] = e => a = b
    BY <2>4
  <2>6. Dealt(w.evt[e].outcomes, s, e) = 1
    BY <2>3, <2>5 DEF Dealt
  <2>7. ~Held(v, e)
    <3>1. ASSUME NEW n \in Ixns, e \in Range(v.ixn[n].withheld) PROVE FALSE
      <4>1. n # k
        BY <1>3, <3>1
      <4>2. PICK b \in DOMAIN w.ixn[n].withheld : w.ixn[n].withheld[b] = e
        BY <1>1, <3>1, <4>1 DEF Range
      <4>3. QED BY <2>1, <2>4, <4>1, <4>2
    <3>2. QED BY <3>1 DEF Held
  <2>8. QED BY <1>4, <1>6, <2>2, <2>6, <2>7 DEF Leaves
<1>7. QED BY <1>1, <1>2, <1>5, <1>6 DEF Advance

\* The fate of an event, and where it may go from there
FateIn(w, e) ==
  LET n == w.evt[e].outcomes
  IN IF w.evt[e].at = 0 THEN "new"
     ELSE IF n = 0 /\ Held(w, e) /\ ~Queued(w, e) THEN "kept"
     ELSE IF n = 0 /\ Queued(w, e) /\ ~Held(w, e) THEN "queued"
     ELSE IF n = 0 /\ ~Queued(w, e) /\ ~Held(w, e) THEN "dropped"
     ELSE IF n = 1 /\ ~Queued(w, e) /\ ~Held(w, e)
          THEN IF w.evt[e].ixn = None THEN "alone" ELSE "attached"
     ELSE "twice"

Onward(a, b) ==
  \/ a = b
  \/ a = "new"
  \/ a = "queued" /\ b # "new"
  \/ a = "kept" /\ b \in {"alone", "attached"}
Moved(w, v, S) == \A e \in Events \ S : Onward(FateIn(w, e), FateIn(v, e))

LEMMA FatesAreKnown ==
  ASSUME NEW w, NEW e \in Events, Placed(w, e)
  PROVE  /\ FateIn(w, e) \in {"new", "kept", "alone", "attached", "queued", "dropped"}
         /\ w.evt[e].at # 0 => FateIn(w, e) # "new"
         /\ w.evt[e].at # 0 /\ Held(w, e) => FateIn(w, e) = "kept"
         /\ w.evt[e].at # 0 /\ w.evt[e].outcomes = 1 => FateIn(w, e) \in {"alone", "attached"}
         /\ w.evt[e].at # 0 /\ Queued(w, e) => FateIn(w, e) = "queued"
  BY DEF FateIn, Placed

LEMMA AdvancePlaces ==
  ASSUME NEW w, EventsPlaced(w), NEW v, Advance(w, v)
  PROVE  EventsPlaced(v) /\ Moved(w, v, {})
<1>1. v.nav.queue = w.nav.queue
  BY DEF Advance
<1>2. \A e \in Events : Queued(v, e) <=> Queued(w, e)
  BY <1>1 DEF Queued
<1>3. HeldOnce(v)
  <2>1. \A n \in Ixns : v.ixn[n].withheld = w.ixn[n].withheld \/ DOMAIN v.ixn[n].withheld = {}
    BY DEF Advance
  <2>2. \A m, n \in Ixns : \A a \in DOMAIN w.ixn[m].withheld, b \in DOMAIN w.ixn[n].withheld :
          w.ixn[m].withheld[a] = w.ixn[n].withheld[b] => m = n /\ a = b
    BY DEF EventsPlaced, HeldOnce
  <2>3. QED BY <2>1, <2>2 DEF HeldOnce
<1>4. QueuedOnce(v)
  BY <1>1 DEF EventsPlaced, QueuedOnce
<1>5. ASSUME NEW e \in Events PROVE Placed(v, e) /\ Onward(FateIn(w, e), FateIn(v, e))
  <2>1. Placed(w, e)
    BY DEF EventsPlaced
  <2>2. CASE Rests(w, v, e)
    <3>1. Placed(v, e)
      BY <1>2, <2>1, <2>2 DEF Rests, Placed
    <3>2. FateIn(v, e) = FateIn(w, e)
      BY <1>2, <2>2 DEF Rests, FateIn
    <3>3. QED BY <3>1, <3>2 DEF Onward
  <2>3. CASE Leaves(w, v, e)
    <3>1. /\ Held(w, e) /\ ~Held(v, e) /\ ~Queued(v, e) /\ v.evt[e].outcomes = 1
          /\ v.evt[e].at = w.evt[e].at /\ w.evt[e].at > 0 /\ w.evt[e].at # 0
      BY <1>2, <2>1, <2>3 DEF Leaves, Placed
    <3>2. Placed(v, e)
      BY <3>1 DEF Placed
    <3>3. FateIn(w, e) = "kept" /\ FateIn(v, e) \in {"alone", "attached"}
      BY <2>1, <3>1, <3>2, FatesAreKnown
    <3>4. QED BY <3>2, <3>3 DEF Onward
  <2>4. QED BY <2>2, <2>3 DEF Advance
<1>6. QED BY <1>3, <1>4, <1>5 DEF EventsPlaced, Moved

LEMMA OnwardIsTransitive ==
  ASSUME NEW a, NEW b, NEW c, Onward(a, b), Onward(b, c)
  PROVE  Onward(a, c)
  BY DEF Onward

-----------------------------------------------------------------------------
(***************************************************************************)
(* The methods that open an interaction, or change one.                    *)
(***************************************************************************)
\* An interaction changes, and stays open or closed; the timers of i may all have fired
LEMMA IxnCore ==
  ASSUME NEW w, NEW j \in Ixns \cup {None}, Core(w, j), NEW k \in Ixns, NEW x, NEW v,
         IxnSet(w, v, k, x), NEW i \in Ixns \cup {None},
         x.status \in Open <=> w.ixn[k].status \in Open,
         x.start = w.ixn[k].start, x.withheld = w.ixn[k].withheld \/ x.status \in Open,
         x.timers # {} => k = w.nav.cur,
         j \in {i, k, None},
         k = w.nav.cur => k = i \/ x.trigger = "api" \/ x.keepOpen \/ x.timers # {}
  PROVE  Core(v, i) /\ (x.withheld = w.ixn[k].withheld => SameEvents(w, v))
<1>1. /\ IsWorld(v) /\ v.nav = w.nav /\ v.evt = w.evt /\ v.clock = w.clock /\ v.ixn[k] = x
      /\ \A n \in Ixns : n # k => v.ixn[n] = w.ixn[n]
  BY DEF IxnSet
<1>2. w.nav.cur \in Ixns \cup {None}
  BY DEF Core, IsWorld, Navs
<1>3. /\ w.nav.cur # None => w.nav.cur # PageLoad /\ w.ixn[w.nav.cur].status \in Open
      /\ \A n \in Ixns : w.ixn[n].status \in Open => n \in {PageLoad, w.nav.cur}
      /\ \A n \in Ixns : w.ixn[n].timers # {} => n = w.nav.cur
      /\ \A n \in Ixns : w.ixn[n].withheld # <<>> => w.ixn[n].status \in Open
  BY DEF Core, OneIsOpen
<1>4. OneIsOpen(v)
  BY <1>1, <1>2, <1>3 DEF OneIsOpen
<1>5. InOrder(v)
  <2>1. InOrder(w)
    BY DEF Core
  <2>2. v.nav.cur # None => v.ixn[v.nav.cur].start = w.ixn[w.nav.cur].start
    BY <1>1, <1>2
  <2>3. QED BY <1>1, <2>1, <2>2 DEF InOrder
<1>6. Timed(v, i)
  <2>1. Timed(w, j)
    BY DEF Core
  <2>2. CASE k = w.nav.cur
    BY <1>1, <2>2 DEF Timed
  <2>3. CASE k # w.nav.cur
    <3>1. w.nav.cur # None => v.ixn[w.nav.cur] = w.ixn[w.nav.cur]
      BY <1>1, <1>2, <2>3
    <3>2. CASE j \in {i, None}
      BY <1>1, <2>1, <3>1, <3>2 DEF Timed
    <3>3. CASE j = k
      BY <1>1, <2>1, <2>3, <3>1, <3>3 DEF Timed
    <3>4. QED BY <3>2, <3>3
  <2>4. QED BY <2>2, <2>3
<1>7. ASSUME x.withheld = w.ixn[k].withheld PROVE SameEvents(w, v)
  <2>1. \A n \in Ixns : v.ixn[n].withheld = w.ixn[n].withheld
    BY <1>1, <1>7
  <2>2. QED BY <1>1, <2>1 DEF SameEvents
<1>8. QED BY <1>1, <1>4, <1>5, <1>6, <1>7 DEF Core

\* The feature changes, but not its current interaction nor what waits
LEMMA NavCore ==
  ASSUME NEW w, NEW j \in Ixns \cup {None}, Core(w, j), NEW N, NEW v, NavSet(w, v, N),
         N.cur = w.nav.cur, N.queue = w.nav.queue,
         N.stage = w.nav.stage \/ N.queue = <<>> \/ N.stage \in {"waiting", "draining"}
  PROVE  Core(v, j) /\ SameEvents(w, v)
<1>1. IsWorld(v) /\ v.nav = N /\ v.ixn = w.ixn /\ v.evt = w.evt /\ v.clock = w.clock
  BY DEF NavSet
<1>2. OneIsOpen(v)
  BY <1>1 DEF Core, OneIsOpen
<1>3. InOrder(v)
  BY <1>1 DEF Core, InOrder
<1>4. Timed(v, j)
  BY <1>1 DEF Core, Timed
<1>5. SameEvents(w, v)
  BY <1>1 DEF SameEvents
<1>6. QED BY <1>1, <1>2, <1>3, <1>4, <1>5 DEF Core

\* A new interaction in progress when there is none
Begins(u, v, n) ==
  /\ Core(v, None) /\ SameEvents(u, v) /\ SameNav(u, v)
  /\ v.nav.cur = n /\ v.nav.observing = u.nav.observing
  /\ v.ixn[n].live => u.nav.stage = "on"

LEMMA BeginBegins ==
  ASSUME NEW u, Core(u, None), u.nav.cur = None, NEW n \in Later, NEW t \in Nat, t <= u.clock,
         \A i \in DOMAIN u.nav.queue : Timely(u.nav.queue[i]) => t <= u.nav.queue[i].t,
         NEW trigger \in {"click", "popstate", "api"}, NEW timers \in SUBSET TimerNames,
         trigger = "api" \/ timers # {}
  PROVE  Begins(u, Begin(u, n, trigger, t, timers), n)
<1> DEFINE N == [u.nav EXCEPT !.cur = n]
           on == u.nav.stage = "on"
           x == [NewInteraction(trigger, t) EXCEPT !.timers = timers, !.live = on]
           y == [u EXCEPT !.nav = N]
           v == Begin(u, n, trigger, t, timers)
<1>1. IsWorld(u) /\ u.nav \in Navs /\ n \in Ixns /\ n # PageLoad /\ n # None
  BY IxnsAreNumbers DEF Core, IsWorld
<1>2. v = [y EXCEPT !.ixn = [y.ixn EXCEPT ![n] = x]]
  BY <1>1 DEF Begin, IsWorld
<1>3. /\ N \in Navs /\ N.cur = n /\ N.observing = u.nav.observing
      /\ N.stage = u.nav.stage /\ N.queue = u.nav.queue /\ N.starts = u.nav.starts
      /\ N.handle = u.nav.handle /\ N.asked = u.nav.asked
  BY <1>1 DEF Navs
<1>4. /\ x \in Interactions /\ x.trigger = trigger /\ x.start = t /\ x.status = "in progress"
      /\ x.timers = timers /\ x.withheld = <<>> /\ (x.live <=> on)
  <2>1. /\ trigger \in Triggers /\ on \in BOOLEAN /\ "in progress" \in Statuses
    BY StatusesAreOpenOrNot DEF Triggers
  <2>3. <<>> \in Seq(Events)
    OBVIOUS
  <2> HIDE DEF on
  <2>2. QED BY <2>1, <2>3 DEF NewInteraction, Interactions
<1>5. NavSet(u, y, N)
  <2> HIDE DEF N
  <2>1. QED BY <1>1, <1>3, SetNav
<1>6. IsWorld(y) /\ y.nav = N /\ y.ixn = u.ixn /\ y.evt = u.evt /\ y.clock = u.clock
  BY <1>5 DEF NavSet
<1>7. IxnSet(y, v, n, x)
  <2> HIDE DEF x, y, v
  <2>1. QED BY <1>1, <1>2, <1>4, <1>6, SetIxn
<1> HIDE DEF N, x, y, v
<1>8. /\ IsWorld(v) /\ v.nav = N /\ v.evt = u.evt /\ v.clock = u.clock /\ v.ixn[n] = x
      /\ \A m \in Ixns : m # n => v.ixn[m] = u.ixn[m]
  BY <1>6, <1>7 DEF IxnSet
<1>9. /\ \A m \in Ixns : u.ixn[m].status \in Open => m = PageLoad
      /\ \A m \in Ixns : u.ixn[m].timers = {}
      /\ \A m \in Ixns : u.ixn[m].withheld # <<>> => u.ixn[m].status \in Open
  <2>1. None \notin Ixns
    BY IxnsAreNumbers
  <2>2. OneIsOpen(u)
    BY DEF Core
  <2>3. QED BY <2>1, <2>2 DEF OneIsOpen
<1>10. x.status \in Open
  BY <1>4, StatusesAreOpenOrNot
<1>11. OneIsOpen(v)
  BY <1>1, <1>3, <1>4, <1>8, <1>9, <1>10 DEF OneIsOpen
<1>12. InOrder(v)
  BY <1>1, <1>3, <1>4, <1>8 DEF Core, InOrder
<1>13. Timed(v, None)
  BY <1>1, <1>3, <1>4, <1>8 DEF Timed
<1>14. SameEvents(u, v)
  <2>1. u.ixn[n].withheld = <<>>
    BY <1>1, <1>9
  <2>2. \A m \in Ixns : v.ixn[m].withheld = u.ixn[m].withheld
    BY <1>4, <1>8, <2>1
  <2>3. QED BY <1>3, <1>8, <2>2 DEF SameEvents
<1>15. SameNav(u, v)
  BY <1>3, <1>8 DEF SameNav
<1>16. QED BY <1>3, <1>4, <1>8, <1>11, <1>12, <1>13, <1>14, <1>15 DEF Begins, Core, v

\* The interaction that a time belongs to
LEMMA GetInteractionIsActive ==
  ASSUME NEW w, IsWorld(w), NEW t \in Nat
  PROVE  LET k == GetInteractionFor(w, t)
         IN /\ k \in Ixns \cup {None}
            /\ k # None => IsActiveDuring(w.ixn[k], t)
            /\ w.nav.cur # None /\ IsActiveDuring(w.ixn[w.nav.cur], t) => k = w.nav.cur
<1> DEFINE k == GetInteractionFor(w, t)
           finished == {n \in w.nav.buffer \ {PageLoad} : IsActiveDuring(w.ixn[n], t)}
<1>1. w.nav.cur \in Ixns \cup {None} /\ w.nav.buffer \subseteq Ixns
  BY DEF IsWorld, Navs
<1>2. CASE w.nav.cur # None /\ IsActiveDuring(w.ixn[w.nav.cur], t)
  BY <1>1, <1>2 DEF GetInteractionFor
<1>3. CASE ~(w.nav.cur # None /\ IsActiveDuring(w.ixn[w.nav.cur], t))
  <2>1. k = IF finished # {} THEN Max(finished)
            ELSE IF IsActiveDuring(w.ixn[PageLoad], t) THEN PageLoad ELSE None
    BY <1>3 DEF GetInteractionFor
  <2>2. CASE finished # {}
    <3>1. Max(finished) \in finished
      <4>1. finished \in SUBSET Ixns
        BY <1>1
      <4> HIDE DEF finished
      <4>2. QED BY <2>2, <4>1, MaxIsOne
    <3>2. QED BY <1>1, <1>3, <2>1, <2>2, <3>1
  <2>3. CASE finished = {}
    BY <1>3, <2>1, <2>3, IxnsAreNumbers
  <2>4. QED BY <2>2, <2>3
<1>4. QED BY <1>2, <1>3

-----------------------------------------------------------------------------
(***************************************************************************)
(* The messages, but for the events: what they do to the invariant.        *)
(***************************************************************************)
DueAt(w, t) ==
  /\ t \in Nat /\ t <= w.clock
  /\ w.nav.cur # None => w.ixn[w.nav.cur].start <= t
  /\ \A i \in DOMAIN w.nav.queue : Timely(w.nav.queue[i]) => t <= w.nav.queue[i].t

\* A handler that leaves the drain and the API alone, but may give a handle
Reacts(w, v) ==
  /\ Core(v, None) /\ Advance(w, v)
  /\ v.nav.stage = w.nav.stage /\ v.nav.starts = w.nav.starts /\ v.nav.asked = w.nav.asked
  /\ v.clock = w.clock
  /\ w.nav.handle # None => v.nav.handle # None

LEMMA KeepsReacts ==
  ASSUME NEW w, Core(w, None), NEW v, Keeps(w, v)
  PROVE  Reacts(w, v)
<1>1. Core(v, None) /\ Advance(w, v)
  BY KeepsCore, KeepsAdvance
<1>2. QED BY <1>1 DEF Reacts, Keeps, SameNav

LEMMA CoreKeepsItself ==
  ASSUME NEW w, Core(w, None)
  PROVE  Keeps(w, w) /\ Reacts(w, w)
<1>1. Keeps(w, w)
  BY KeepsItself DEF Core
<1>2. QED BY <1>1, KeepsReacts

LEMMA ClosesReacts ==
  ASSUME NEW w, NEW k \in Ixns, NEW j \in {None, k}, Core(w, j), EventsPlaced(w),
         w.ixn[k].status \in Open, NEW v, ClosesAll(w, v, k)
  PROVE  Reacts(w, v)
<1>1. IsWorld(w) /\ Closes(w, v, k)
  BY DEF Core, ClosesAll
<1>2. Core(v, None) /\ Advance(w, v)
  BY <1>1, ClosesCore, ClosesAdvance
<1>3. QED BY <1>1, <1>2 DEF Reacts, Closes, SameNav

\* done() of any interaction
LEMMA DoneReacts ==
  ASSUME NEW w, EventsPlaced(w), NEW k \in Ixns, NEW end \in Nat, NEW byApi \in BOOLEAN,
         Core(w, None) \/ (Core(w, k) /\ ~byApi /\ k = w.nav.cur),
         NEW v, v = Done(w, k, end, byApi)
  PROVE  /\ Reacts(w, v)
         /\ Observed(w) => Observed(v)
         /\ ~Stays(w, k, byApi) /\ k # PageLoad => v.nav.cur = None
<1>1. IsWorld(w)
  BY DEF Core
<1>2. CASE ~Stays(w, k, byApi)
  <2>1. ClosesAll(w, v, k)
    BY <1>1, <1>2, DoneCloses
  <2>2. w.ixn[k].status \in Open
    BY <1>2 DEF Stays
  <2>3. PICK j \in {None, k} : Core(w, j)
    OBVIOUS
  <2>4. Reacts(w, v)
    BY <2>1, <2>2, <2>3, ClosesReacts
  <2>5. v.nav.cur = (IF k = PageLoad THEN w.nav.cur ELSE None) /\ (Observed(w) => Observed(v))
    BY <2>1, <2>2, <2>3, ClosesCore
  <2>6. QED BY <2>4, <2>5
<1>3. CASE Stays(w, k, byApi)
  <2>1. v = w
    BY <1>1, <1>3, DoneCloses
  <2>2. Core(w, None)
    <3>1. CASE Core(w, k) /\ ~byApi /\ k = w.nav.cur
      <4>1. k # None /\ w.ixn[k].keepOpen
        BY <1>3, <3>1, IxnsAreNumbers DEF Core, OneIsOpen, Stays
      <4>2. Timed(w, None)
        BY <3>1, <4>1 DEF Timed
      <4>3. QED BY <3>1, <4>2 DEF Core
    <3>2. QED BY <3>1
  <2>3. QED BY <1>3, <2>1, <2>2, CoreKeepsItself
<1>4. QED BY <1>2, <1>3

LEMMA DoneByItselfReacts ==
  ASSUME NEW w, EventsPlaced(w), NEW k \in Ixns \cup {None},
         Core(w, None) \/ (Core(w, k) /\ k = w.nav.cur),
         NEW v, v = DoneByItself(w, k)
  PROVE  Reacts(w, v) /\ (Observed(w) => Observed(v))
<1>1. CASE k = None
  BY <1>1, CoreKeepsItself DEF DoneByItself
<1>2. CASE k # None
  <2>1. w.ixn[k].customEnd \in Nat /\ k \in Ixns
    BY <1>2 DEF Core, IsWorld, Interactions
  <2>2. v = Done(w, k, w.ixn[k].customEnd, FALSE)
    BY <1>2 DEF DoneByItself
  <2>3. QED BY <2>1, <2>2, DoneReacts
<1>3. QED BY <1>1, <1>2

\* Once the one in progress is closed another one begins
LEMMA BeginReacts ==
  ASSUME NEW w, NEW u, Reacts(w, u), NEW n, NEW v, Begins(u, v, n)
  PROVE  Reacts(w, v) /\ (u.nav.stage # "on" => Observed(v))
<1>1. Advance(u, v)
  BY SameEventsAdvance DEF Begins
<1>2. Advance(w, u)
  BY DEF Reacts
<1>3. Advance(w, v)
  BY <1>1, <1>2, AdvanceIsTransitive
<1>4. QED BY <1>3 DEF Reacts, Begins, SameNav, Observed

\* startUIInteraction: the observer is started by the one who sent the message
LEMMA StartUIInteractionReacts ==
  ASSUME NEW w, Core(w, None), EventsPlaced(w), NEW t, DueAt(w, t), NEW n \in Later,
         NEW trigger \in {"click", "popstate"},
         NEW v, v = StartUIInteraction(w, n, trigger, t)
  PROVE  Reacts(w, v) /\ (Observed(w) /\ w.nav.stage # "on" => Observed(v))
<1> DEFINE c == w.nav.cur
           u == DoneByItself(w, c)
<1>1. CASE v = w
  BY <1>1, CoreKeepsItself
<1>2. CASE v # w
  <2>1. v = Begin(u, n, trigger, t, {"cancel"}) /\ (c # None => ~w.ixn[c].keepOpen)
    BY <1>2 DEF StartUIInteraction
  <2>2. c \in Ixns \cup {None}
    BY DEF Core, IsWorld, Navs
  <2>3. Reacts(w, u)
    <3> HIDE DEF c, u
    <3>1. u = DoneByItself(w, c)
      BY DEF u
    <3>2. QED BY <2>2, <3>1, DoneByItselfReacts
  <2>4. u.nav.cur = None
    <3>1. CASE c = None
      BY <3>1 DEF DoneByItself
    <3>2. CASE c # None
      <4>1. c \in Ixns /\ c # PageLoad /\ w.ixn[c].status \in Open /\ w.ixn[c].customEnd \in Nat
        BY <2>2, <3>2 DEF Core, OneIsOpen, IsWorld, Interactions
      <4>2. ~Stays(w, c, FALSE)
        BY <2>1, <3>2, <4>1 DEF Stays
      <4>3. u = Done(w, c, w.ixn[c].customEnd, FALSE)
        BY <3>2 DEF DoneByItself
      <4> HIDE DEF c, u
      <4>4. QED BY <4>1, <4>2, <4>3, DoneReacts
    <3>3. QED BY <3>1, <3>2
  <2> HIDE DEF u
  <2>5. /\ Core(u, None) /\ u.nav.queue = w.nav.queue /\ u.clock = w.clock
        /\ u.nav.stage = w.nav.stage
    BY <2>3 DEF Reacts, Advance
  <2>6. /\ t \in Nat /\ t <= u.clock
        /\ \A i \in DOMAIN u.nav.queue : Timely(u.nav.queue[i]) => t <= u.nav.queue[i].t
    BY <2>5 DEF DueAt
  <2>7. {"cancel"} \in SUBSET TimerNames /\ {"cancel"} # {}
    BY DEF TimerNames
  <2>8. Begins(u, v, n)
    <3>1. trigger \in {"click", "popstate", "api"}
      OBVIOUS
    <3>2. QED BY <2>1, <2>4, <2>5, <2>6, <2>7, <3>1, BeginBegins
  <2>9. QED BY <2>3, <2>5, <2>8, BeginReacts
<1>3. QED BY <1>1, <1>2

LEMMA HandleKeeps ==
  ASSUME NEW w, Core(w, None), w.nav.handle \in Ixns
  PROVE  /\ Keeps(w, [w EXCEPT !.ixn[w.nav.handle].forceSave = TRUE])
         /\ Keeps(w, [w EXCEPT !.ixn[w.nav.handle].forceIgnore = TRUE])
<1> DEFINE h == w.nav.handle
<1>1. IsWorld(w) /\ w.ixn[h] \in Interactions
  BY DEF Core, IsWorld
<1>2. ASSUME NEW x \in Interactions, SameIxn(w.ixn[h], x),
             NEW v, v = [w EXCEPT !.ixn = [w.ixn EXCEPT ![h] = x]]
      PROVE  Keeps(w, v)
  <2> HIDE DEF h
  <2>1. h \in Ixns
    BY DEF h
  <2>2. IxnSet(w, v, h, x)
    BY <1>1, <1>2, <2>1, SetIxn
  <2>3. QED BY <1>2, <2>1, <2>2, IxnKeeps
<1>3. Keeps(w, [w EXCEPT !.ixn[h].forceSave = TRUE])
  <2> DEFINE x == [w.ixn[h] EXCEPT !.forceSave = TRUE]
             v == [w EXCEPT !.ixn[h].forceSave = TRUE]
  <2>1. x \in Interactions /\ SameIxn(w.ixn[h], x)
    BY <1>1, SameFields
  <2>2. v = [w EXCEPT !.ixn = [w.ixn EXCEPT ![h] = x]]
    BY <1>1 DEF IsWorld
  <2> HIDE DEF x, v, h
  <2>3. Keeps(w, v)
    BY <1>2, <2>1, <2>2
  <2>4. QED BY <2>3 DEF v
<1>4. Keeps(w, [w EXCEPT !.ixn[h].forceIgnore = TRUE])
  <2> DEFINE x == [w.ixn[h] EXCEPT !.forceIgnore = TRUE]
             v == [w EXCEPT !.ixn[h].forceIgnore = TRUE]
  <2>1. x \in Interactions /\ SameIxn(w.ixn[h], x)
    BY <1>1, SameFields
  <2>2. v = [w EXCEPT !.ixn = [w.ixn EXCEPT ![h] = x]]
    BY <1>1 DEF IsWorld
  <2> HIDE DEF x, v, h
  <2>3. Keeps(w, v)
    BY <1>2, <2>1, <2>2
  <2>4. QED BY <2>3 DEF v
<1>5. QED BY <1>3, <1>4

LEMMA UpdateHistoryKeeps ==
  ASSUME NEW w, Core(w, None), NEW t \in Nat
  PROVE  Keeps(w, UpdateHistory(w, t))
<1> DEFINE c == w.nav.cur
           x == [w.ixn[c] EXCEPT !.hist = t]
           v == [w EXCEPT !.ixn[c].hist = t]
<1>1. IsWorld(w) /\ c \in Ixns \cup {None}
  BY DEF Core, IsWorld, Navs
<1>2. UpdateHistory(w, t) = w \/ (c # None /\ UpdateHistory(w, t) = v)
  BY DEF UpdateHistory
<1>3. ASSUME c # None PROVE Keeps(w, v)
  <2>1. c \in Ixns /\ w.ixn[c] \in Interactions
    BY <1>1, <1>3 DEF IsWorld
  <2>2. x \in Interactions /\ SameIxn(w.ixn[c], x)
    <3> HIDE DEF c
    <3>1. QED BY <2>1 DEF Interactions, SameIxn
  <2>3. v = [w EXCEPT !.ixn = [w.ixn EXCEPT ![c] = x]]
    BY <1>1, <2>1 DEF IsWorld
  <2> HIDE DEF x, v, c
  <2>4. IxnSet(w, v, c, x)
    BY <1>1, <2>1, <2>2, <2>3, SetIxn
  <2>5. QED BY <2>1, <2>2, <2>4, IxnKeeps
<1>4. QED BY <1>2, <1>3, CoreKeepsItself

\* checkHistoryAndDomChange
LEMMA CheckReacts ==
  ASSUME NEW w, Core(w, None), w.nav.cur # None
  PROVE  /\ Reacts(w, CheckHistoryAndDomChange(w))
         /\ Observed(w) => Observed(CheckHistoryAndDomChange(w))
<1> DEFINE c == w.nav.cur
           o == w.ixn[c]
           T == (o.timers \ {"cancel"}) \cup {"task"}
           x == [o EXCEPT !.status = "pending finish", !.watching = TRUE, !.timers = T]
           v == [w EXCEPT !.ixn[c].status = "pending finish", !.ixn[c].watching = TRUE,
                          !.ixn[c].timers = (w.ixn[c].timers \ {"cancel"}) \cup {"task"}]
<1>1. IsWorld(w) /\ c \in Ixns /\ o \in Interactions /\ o.status \in Open
  BY DEF Core, OneIsOpen, IsWorld, Navs
<1>2. CheckHistoryAndDomChange(w) \in {w, v}
  BY <1>1 DEF CheckHistoryAndDomChange, IsWorld
<1>3. T \subseteq TimerNames /\ T # {}
  BY <1>1 DEF TimerNames, Interactions
<1>4. /\ x \in Interactions /\ x.status = "pending finish" /\ x.timers = T
      /\ x.start = o.start /\ x.withheld = o.withheld /\ x.live = o.live
  <2> HIDE DEF o, T
  <2>1. QED BY <1>1, <1>3, StatusesAreOpenOrNot DEF Interactions
<1>5. v = [w EXCEPT !.ixn = [w.ixn EXCEPT ![c] = x]]
  BY <1>1 DEF IsWorld
<1> HIDE DEF x, v
<1>6. IxnSet(w, v, c, x)
  <2> HIDE DEF c
  <2>1. QED BY <1>1, <1>4, <1>5, SetIxn
<1>7. Core(v, None) /\ SameEvents(w, v)
  <2>1. x.status \in Open <=> w.ixn[c].status \in Open
    BY <1>1, <1>4, StatusesAreOpenOrNot
  <2> HIDE DEF T
  <2>2. QED BY <1>1, <1>3, <1>4, <1>6, <2>1, IxnCore
<1>8. Reacts(w, v)
  BY <1>6, <1>7, SameEventsAdvance DEF Reacts, IxnSet
<1>9. Observed(w) => Observed(v)
  BY <1>1, <1>4, <1>6 DEF Observed, IxnSet
<1>10. QED BY <1>2, <1>8, <1>9, CoreKeepsItself

LEMMA ReactsIsTransitive ==
  ASSUME NEW u, NEW v, NEW w, Reacts(u, v), Reacts(v, w)
  PROVE  Reacts(u, w)
<1>1. Advance(u, w)
  BY AdvanceIsTransitive DEF Reacts
<1>2. QED BY <1>1 DEF Reacts

LEMMA NewDomReacts ==
  ASSUME NEW w, Core(w, None), NEW t \in Nat
  PROVE  Reacts(w, NewDom(w, t)) /\ (Observed(w) => Observed(NewDom(w, t)))
<1> DEFINE c == w.nav.cur
           x == [w.ixn[c] EXCEPT !.dom = t]
           v == [w EXCEPT !.ixn[c].dom = t]
           u == IF w.ixn[c].hist = 0 \/ t < w.ixn[c].hist THEN w ELSE v
<1>1. IsWorld(w) /\ c \in Ixns \cup {None}
  BY DEF Core, IsWorld, Navs
<1>2. CASE c = None
  BY <1>2, CoreKeepsItself DEF NewDom
<1>3. CASE c # None
  <2>1. c \in Ixns /\ w.ixn[c] \in Interactions
    BY <1>1, <1>3 DEF IsWorld
  <2>2. x \in Interactions /\ SameIxn(w.ixn[c], x)
    <3> HIDE DEF c
    <3>1. QED BY <2>1 DEF Interactions, SameIxn
  <2>3. v = [w EXCEPT !.ixn = [w.ixn EXCEPT ![c] = x]]
    BY <1>1, <2>1 DEF IsWorld
  <2>4. Keeps(w, v)
    <3> HIDE DEF x, v, c
    <3>1. IxnSet(w, v, c, x)
      BY <1>1, <2>1, <2>2, <2>3, SetIxn
    <3>2. QED BY <2>1, <2>2, <3>1, IxnKeeps
  <2>5. Keeps(w, u)
    <3> HIDE DEF v
    <3>1. QED BY <2>4, CoreKeepsItself
  <2>6. NewDom(w, t) = CheckHistoryAndDomChange(u)
    BY <1>3 DEF NewDom
  <2> HIDE DEF u
  <2>7. Core(u, None) /\ (Observed(w) => Observed(u)) /\ Reacts(w, u)
    BY <2>5, KeepsCore, KeepsReacts
  <2>8. u.nav.cur # None
    BY <1>3, <2>5 DEF Keeps, SameCurrent
  <2>9. Reacts(u, NewDom(w, t)) /\ (Observed(u) => Observed(NewDom(w, t)))
    BY <2>6, <2>7, <2>8, CheckReacts
  <2>10. QED BY <2>7, <2>9, ReactsIsTransitive
<1>4. QED BY <1>2, <1>3

\* The API asks for a handle
GivesHandle(w, v) ==
  Reacts(w, v) /\ v.nav.handle \in Ixns /\ (Observed(w) => Observed(v))

LEMMA HandleGiven ==
  ASSUME NEW w, NEW u, Reacts(w, u), NEW h \in Ixns, NEW watched \in BOOLEAN,
         watched = TRUE \/ (watched = u.nav.observing /\ (Observed(w) => Observed(u))),
         NEW v, v = [u EXCEPT !.nav = [u.nav EXCEPT !.handle = h, !.observing = watched]]
  PROVE  GivesHandle(w, v)
<1> DEFINE N == [u.nav EXCEPT !.handle = h, !.observing = watched]
<1>1. Core(u, None) /\ Advance(w, u) /\ IsWorld(u) /\ u.nav \in Navs
  BY DEF Reacts, Core, IsWorld
<1>2. /\ N \in Navs /\ N.handle = h /\ N.observing = watched
      /\ N.stage = u.nav.stage /\ N.queue = u.nav.queue /\ N.starts = u.nav.starts
      /\ N.asked = u.nav.asked /\ N.cur = u.nav.cur
  BY <1>1 DEF Navs
<1> HIDE DEF N
<1>3. NavSet(u, v, N)
  BY <1>1, <1>2, SetNav DEF N
<1>4. Core(v, None) /\ SameEvents(u, v)
  BY <1>1, <1>2, <1>3, NavCore
<1>5. Advance(w, v)
  BY <1>1, <1>4, SameEventsAdvance, AdvanceIsTransitive
<1>6. v.nav = N /\ v.clock = u.clock /\ v.ixn = u.ixn
  BY <1>3 DEF NavSet
<1>7. h # None
  BY IxnsAreNumbers
<1>8. Reacts(w, v)
  BY <1>2, <1>4, <1>5, <1>6, <1>7 DEF Reacts
<1>9. Observed(w) => Observed(v)
  BY <1>2, <1>6 DEF Observed
<1>10. QED BY <1>2, <1>6, <1>8, <1>9 DEF GivesHandle

\* waitForEnd
LEMMA KeptOpen ==
  ASSUME NEW w, NEW u, GivesHandle(w, u),
         NEW v, v = [u EXCEPT !.ixn[u.nav.handle].keepOpen = TRUE,
                              !.ixn[u.nav.handle].timers = u.ixn[u.nav.handle].timers \ {"cancel"}]
  PROVE  GivesHandle(w, v)
<1> DEFINE h == u.nav.handle
           o == u.ixn[h]
           T == o.timers \ {"cancel"}
           x == [o EXCEPT !.keepOpen = TRUE, !.timers = T]
<1>1. /\ Reacts(w, u) /\ Core(u, None) /\ Advance(w, u) /\ IsWorld(u) /\ h \in Ixns
      /\ o \in Interactions
  BY DEF GivesHandle, Reacts, Core, IsWorld
<1>2. T \subseteq TimerNames /\ (T # {} => o.timers # {})
  BY <1>1 DEF Interactions
<1>3. /\ x \in Interactions /\ x.status = o.status /\ x.timers = T /\ x.keepOpen
      /\ x.start = o.start /\ x.withheld = o.withheld /\ x.live = o.live
  <2> HIDE DEF o, T
  <2>1. QED BY <1>1, <1>2 DEF Interactions
<1>4. v = [u EXCEPT !.ixn = [u.ixn EXCEPT ![h] = x]]
  BY <1>1 DEF IsWorld
<1>5. T # {} => h = u.nav.cur
  BY <1>1, <1>2 DEF Core, OneIsOpen
<1> HIDE DEF x, T
<1>6. IxnSet(u, v, h, x)
  <2> HIDE DEF h
  <2>1. QED BY <1>1, <1>3, <1>4, SetIxn
<1>7. Core(v, None) /\ SameEvents(u, v)
  <2>1. x.status \in Open <=> u.ixn[h].status \in Open
    BY <1>3
  <2> HIDE DEF h
  <2>2. QED BY <1>1, <1>3, <1>5, <1>6, <2>1, IxnCore DEF o
<1>8. Advance(w, v)
  BY <1>1, <1>7, SameEventsAdvance, AdvanceIsTransitive
<1>9. v.nav = u.nav /\ v.clock = u.clock /\ v.ixn[h] = x
      /\ \A n \in Ixns : n # h => v.ixn[n] = u.ixn[n]
  BY <1>6 DEF IxnSet
<1>10. Reacts(w, v)
  BY <1>1, <1>7, <1>8, <1>9 DEF Reacts
<1>11. Observed(u) => Observed(v)
  <2>1. u.nav.cur \in Ixns \cup {None}
    BY <1>1 DEF IsWorld, Navs
  <2>2. \A n \in Ixns : v.ixn[n].live = u.ixn[n].live
    BY <1>3, <1>9
  <2>3. QED BY <1>9, <2>1, <2>2 DEF Observed
<1>12. QED BY <1>1, <1>9, <1>10, <1>11 DEF GivesHandle

LEMMA ApiGetGives ==
  ASSUME NEW w, Core(w, None), NEW t, DueAt(w, t), NEW n \in Later, NEW opts \in Opts
  PROVE  GivesHandle(w, ApiGet(w, n, t, opts))
<1> DEFINE a == IF opts.targetPageLoad THEN PageLoad ELSE GetInteractionFor(w, t)
           u == Begin(w, n, "api", t, {})
           old == [w EXCEPT !.nav.handle = a]
           new == [u EXCEPT !.nav.handle = u.nav.cur, !.nav.observing = TRUE]
           known == opts.targetPageLoad \/ a \notin {None, PageLoad}
           v == IF known THEN old ELSE new
           kept == [v EXCEPT !.ixn[v.nav.handle].keepOpen = TRUE,
                             !.ixn[v.nav.handle].timers = v.ixn[v.nav.handle].timers \ {"cancel"}]
<1>1. ApiGet(w, n, t, opts) \in {v, kept}
  BY DEF ApiGet
<1>2. IsWorld(w) /\ t \in Nat /\ w.nav.cur \in Ixns \cup {None}
  BY DEF Core, DueAt, IsWorld, Navs
<1>3. a \in Ixns \cup {None} /\ (~opts.targetPageLoad /\ w.nav.cur # None => a = w.nav.cur)
  <2>1. w.nav.cur # None => IsActiveDuring(w.ixn[w.nav.cur], t)
    BY DEF Core, OneIsOpen, DueAt, IsActiveDuring
  <2>2. QED BY <1>2, <2>1, GetInteractionIsActive, IxnsAreNumbers
<1>4. CASE known
  <2>1. a \in Ixns
    BY <1>3, <1>4, IxnsAreNumbers
  <2>2. old = [w EXCEPT !.nav = [w.nav EXCEPT !.handle = a, !.observing = w.nav.observing]]
    BY <1>2 DEF IsWorld, Navs
  <2>3. Reacts(w, w) /\ w.nav.observing \in BOOLEAN
    BY <1>2, CoreKeepsItself DEF IsWorld, Navs
  <2> HIDE DEF a, old
  <2>4. GivesHandle(w, old)
    BY <2>1, <2>2, <2>3, HandleGiven
  <2>5. v = old
    BY <1>4
  <2> HIDE DEF v
  <2>6. GivesHandle(w, kept)
    BY <2>4, <2>5, KeptOpen
  <2>7. QED BY <1>1, <2>4, <2>5, <2>6
<1>5. CASE ~known
  <2>1. w.nav.cur = None
    BY <1>2, <1>3, <1>5 DEF Core, OneIsOpen
  <2>2. Begins(w, u, n)
    <3>1. /\ t <= w.clock
          /\ \A i \in DOMAIN w.nav.queue : Timely(w.nav.queue[i]) => t <= w.nav.queue[i].t
      BY DEF DueAt
    <3>2. {} \in SUBSET TimerNames /\ "api" \in {"click", "popstate", "api"}
      OBVIOUS
    <3> HIDE DEF u
    <3>3. u = Begin(w, n, "api", t, {})
      BY DEF u
    <3>4. QED BY <1>2, <2>1, <3>1, <3>2, <3>3, BeginBegins
  <2> HIDE DEF u
  <2>3. Reacts(w, u)
    BY <2>2, CoreKeepsItself, BeginReacts
  <2>4. u.nav.cur = n /\ n \in Ixns /\ IsWorld(u)
    BY <2>2, IxnsAreNumbers DEF Begins, Core
  <2>5. new = [u EXCEPT !.nav = [u.nav EXCEPT !.handle = n, !.observing = TRUE]]
    BY <2>4 DEF IsWorld, Navs
  <2>8. GivesHandle(w, new)
    <3> HIDE DEF new
    <3>1. QED BY <2>3, <2>4, <2>5, HandleGiven
  <2>9. v = new
    BY <1>5
  <2> HIDE DEF v, new
  <2>10. GivesHandle(w, kept)
    BY <2>8, <2>9, KeptOpen
  <2>11. QED BY <1>1, <2>8, <2>9, <2>10
<1>6. QED BY <1>4, <1>5

LEMMA MessageFacts ==
  ASSUME NEW m \in Messages
  PROVE  /\ m.t \in Nat
         /\ m.kind \in {"get", "newUIEvent"} => m.n \in Later
         /\ m.kind = "event" => m.arg \in Events
         /\ m.kind = "get" => m.arg \in Opts
         /\ m.kind = "newUIEvent" => m.arg \in {"click", "popstate"}
         /\ m.kind \in {"event", "get", "newUIEvent", "newURL", "newDom"} \cup OfHandle
  BY DEF Messages, OfHandle

LEMMA ReceiveReacts ==
  ASSUME NEW w, Core(w, None), EventsPlaced(w), NEW m \in Messages, Timely(m), DueAt(w, m.t),
         m.kind \in OfHandle => w.nav.handle # None,
         NEW v, v = Receive(w, m)
  PROVE  /\ Reacts(w, v)
         /\ m.kind = "get" => v.nav.handle # None
         /\ Observed(w) /\ (m.kind = "newUIEvent" => w.nav.stage # "on") => Observed(v)
<1>1. m.t \in Nat /\ m.kind # "event"
  BY MessageFacts DEF Timely
<1>2. CASE m.kind = "newUIEvent"
  <2>1. v = StartUIInteraction(w, m.n, m.arg, m.t)
    BY <1>2 DEF Receive
  <2>2. m.n \in Later /\ m.arg \in {"click", "popstate"}
    BY <1>2, MessageFacts
  <2>3. QED BY <1>2, <2>1, <2>2, StartUIInteractionReacts
<1>3. CASE m.kind = "newURL"
  <2>1. v = UpdateHistory(w, m.t)
    BY <1>3 DEF Receive
  <2>2. Keeps(w, v)
    BY <1>1, <2>1, UpdateHistoryKeeps
  <2>3. QED BY <1>3, <2>2, KeepsReacts, KeepsCore
<1>4. CASE m.kind = "newDom"
  <2>1. v = NewDom(w, m.t)
    BY <1>4 DEF Receive
  <2>2. QED BY <1>1, <1>4, <2>1, NewDomReacts
<1>5. CASE m.kind = "get"
  <2>1. v = ApiGet(w, m.n, m.t, m.arg)
    BY <1>5 DEF Receive
  <2>2. m.n \in Later /\ m.arg \in Opts
    BY <1>5, MessageFacts
  <2>3. GivesHandle(w, v)
    BY <2>1, <2>2, ApiGetGives
  <2>4. QED BY <2>3, IxnsAreNumbers DEF GivesHandle
<1>6. CASE m.kind \in OfHandle
  <2>1. w.nav.handle \in Ixns
    BY <1>6 DEF Core, IsWorld, Navs
  <2>2. CASE m.kind = "end"
    <3>1. v = Done(w, w.nav.handle, m.t, TRUE)
      BY <2>2 DEF Receive
    <3>2. Reacts(w, v) /\ (Observed(w) => Observed(v))
      BY <1>1, <2>1, <3>1, DoneReacts, SMTT(20), ZenonT(60)
    <3>3. QED BY <2>2, <3>2
  <2>3. CASE m.kind = "save"
    <3>1. v = [w EXCEPT !.ixn[w.nav.handle].forceSave = TRUE]
      BY <2>3 DEF Receive
    <3>2. Keeps(w, v)
      BY <2>1, <3>1, HandleKeeps
    <3>3. QED BY <2>3, <3>2, KeepsReacts, KeepsCore
  <2>4. CASE m.kind = "ignore"
    <3>1. v = [w EXCEPT !.ixn[w.nav.handle].forceIgnore = TRUE]
      BY <2>4 DEF Receive
    <3>2. Keeps(w, v)
      BY <2>1, <3>1, HandleKeeps
    <3>3. QED BY <2>4, <3>2, KeepsReacts, KeepsCore
  <2>5. QED BY <1>6, <2>2, <2>3, <2>4 DEF OfHandle
<1>7. QED BY <1>1, <1>2, <1>3, <1>4, <1>5, <1>6, MessageFacts DEF OfHandle
-----------------------------------------------------------------------------
(***************************************************************************)
(* An event that nobody has dealt with yet is withheld by an interaction   *)
(* that is open, or dealt with at once.                                    *)
(***************************************************************************)
Loose(w, e) == /\ w.evt[e].at > 0 /\ w.evt[e].outcomes = 0
               /\ ~Held(w, e) /\ ~Queued(w, e)

Takes(w, v, e) ==
  /\ Core(v, None) /\ EventsPlaced(v) /\ v.nav = w.nav /\ v.clock = w.clock
  /\ Observed(w) => Observed(v)
  /\ Moved(w, v, {e})
  /\ FateIn(v, e) \in {"kept", "alone", "attached"}

LEMMA DealtAlone ==
  ASSUME NEW w, Core(w, None), EventsPlaced(w), NEW e \in Events, Loose(w, e),
         NEW v, OnlyDeals(w, v, <<e>>)
  PROVE  Takes(w, v, e)
<1>1. /\ IsWorld(v) /\ v.nav = w.nav /\ v.clock = w.clock /\ Deals(w, v, <<e>>)
      /\ \A n \in Ixns : SameIxn(w.ixn[n], v.ixn[n])
  BY DEF OnlyDeals
<1>2. /\ \A d \in Events \ {e} : v.evt[d] = w.evt[d]
      /\ v.evt[e].at = w.evt[e].at /\ v.evt[e].outcomes = 1
  <2>1. Range(<<e>>) = {e}
    BY DEF Range
  <2>2. Dealt(0, <<e>>, e) = 1
    BY DEF Dealt
  <2>3. QED BY <1>1, <2>1, <2>2 DEF Deals, Loose
<1>3. w.nav.cur \in Ixns \cup {None}
  BY DEF Core, IsWorld, Navs
<1>4. Core(v, None)
  <2>1. OneIsOpen(v)
    BY <1>1, <1>3 DEF Core, OneIsOpen, SameIxn
  <2>2. InOrder(v)
    BY <1>1, <1>3 DEF Core, InOrder, SameIxn
  <2>3. Timed(v, None)
    BY <1>1, <1>3 DEF Core, Timed, SameIxn
  <2>4. QED BY <1>1, <2>1, <2>2, <2>3 DEF Core
<1>5. Observed(w) => Observed(v)
  BY <1>1, <1>3 DEF Observed, SameIxn
<1>6. \A d \in Events : (Held(v, d) <=> Held(w, d)) /\ (Queued(v, d) <=> Queued(w, d))
  BY <1>1 DEF Held, Queued, SameIxn
<1>7. HeldOnce(v) /\ QueuedOnce(v)
  <2>1. \A n \in Ixns : v.ixn[n].withheld = w.ixn[n].withheld
    BY <1>1 DEF SameIxn
  <2>2. HeldOnce(v)
    BY <2>1 DEF EventsPlaced, HeldOnce
  <2>3. QED BY <1>1, <2>2 DEF EventsPlaced, QueuedOnce
<1>8. ASSUME NEW d \in Events PROVE Placed(v, d)
  <2>1. Placed(w, d)
    BY DEF EventsPlaced
  <2>2. CASE d = e
    BY <1>2, <1>6, <2>2 DEF Loose, Placed
  <2>3. CASE d # e
    BY <1>2, <1>6, <2>1, <2>3 DEF Placed
  <2>4. QED BY <2>2, <2>3
<1>9. Moved(w, v, {e})
  <2>1. ASSUME NEW d \in Events \ {e} PROVE FateIn(v, d) = FateIn(w, d)
    BY <1>2, <1>6 DEF FateIn
  <2>2. QED BY <2>1 DEF Moved, Onward
<1>10. FateIn(v, e) \in {"alone", "attached"}
  BY <1>2, <1>6 DEF FateIn, Loose
<1>11. QED BY <1>1, <1>4, <1>5, <1>7, <1>8, <1>9, <1>10 DEF Takes, EventsPlaced

LEMMA WithheldTakes ==
  ASSUME NEW w, Core(w, None), EventsPlaced(w), NEW e \in Events, Loose(w, e),
         NEW k \in Ixns, w.ixn[k].status \in Open,
         NEW v, v = [w EXCEPT !.ixn[k].withheld = Append(w.ixn[k].withheld, e)]
  PROVE  Takes(w, v, e)
<1> DEFINE o == w.ixn[k]
           s == o.withheld
           x == [o EXCEPT !.withheld = Append(s, e)]
<1>1. IsWorld(w) /\ o \in Interactions /\ s \in Seq(Events) /\ w.nav.cur \in Ixns \cup {None}
  BY DEF Core, IsWorld, Interactions, Navs
<1>2. /\ Append(s, e) \in Seq(Events) /\ Range(Append(s, e)) = Range(s) \cup {e}
      /\ DOMAIN Append(s, e) = DOMAIN s \cup {Len(s) + 1} /\ Append(s, e)[Len(s) + 1] = e
      /\ \A i \in DOMAIN s : Append(s, e)[i] = s[i]
  <2> HIDE DEF s
  <2>1. QED BY <1>1, SequenceFacts
<1>3. /\ x \in Interactions /\ x.status = o.status /\ x.timers = o.timers /\ x.live = o.live
      /\ x.start = o.start /\ x.keepOpen = o.keepOpen /\ x.trigger = o.trigger
      /\ x.withheld = Append(s, e)
  <2> DEFINE q == Append(s, e)
  <2>1. q \in Seq(Events)
    BY <1>2
  <2> HIDE DEF o, q, s
  <2>2. QED BY <1>1, <2>1 DEF Interactions, q
<1>4. v = [w EXCEPT !.ixn = [w.ixn EXCEPT ![k] = x]]
  BY <1>1 DEF IsWorld
<1> HIDE DEF x
<1>5. IxnSet(w, v, k, x)
  BY <1>1, <1>3, <1>4, SetIxn
<1>6. /\ IsWorld(v) /\ v.nav = w.nav /\ v.evt = w.evt /\ v.clock = w.clock /\ v.ixn[k] = x
      /\ \A n \in Ixns : n # k => v.ixn[n] = w.ixn[n]
  BY <1>5 DEF IxnSet
<1>7. Core(v, None)
  <2>1. x.status \in Open <=> w.ixn[k].status \in Open
    BY <1>3
  <2>2. x.timers # {} => k = w.nav.cur
    BY <1>3 DEF Core, OneIsOpen
  <2>3. k = w.nav.cur => x.trigger = "api" \/ x.keepOpen \/ x.timers # {}
    BY <1>3, IxnsAreNumbers DEF Core, Timed
  <2>4. None \in {None, k} /\ None \in Ixns \cup {None}
    OBVIOUS
  <2> HIDE DEF s
  <2>5. QED BY <1>3, <1>5, <2>1, <2>2, <2>3, <2>4, IxnCore DEF o
<1>8. Observed(w) => Observed(v)
  <2>1. \A n \in Ixns : v.ixn[n].live = w.ixn[n].live
    BY <1>3, <1>6
  <2>2. QED BY <1>1, <1>6, <2>1 DEF Observed
<1>9. \A d \in Events : (Held(v, d) <=> Held(w, d) \/ d = e) /\ (Queued(v, d) <=> Queued(w, d))
  <2>1. Range(v.ixn[k].withheld) = Range(w.ixn[k].withheld) \cup {e}
    BY <1>2, <1>3, <1>6
  <2>2. \A n \in Ixns : n # k => v.ixn[n].withheld = w.ixn[n].withheld
    BY <1>6
  <2>3. QED BY <1>6, <2>1, <2>2 DEF Held, Queued
<1>10. HeldOnce(v)
  <2>1. SUFFICES ASSUME NEW m \in Ixns, NEW n \in Ixns, NEW i \in DOMAIN v.ixn[m].withheld,
                        NEW j \in DOMAIN v.ixn[n].withheld,
                        v.ixn[m].withheld[i] = v.ixn[n].withheld[j]
                 PROVE  m = n /\ i = j
    BY DEF HeldOnce
  <2>2. \A l \in Ixns : \A a \in DOMAIN w.ixn[l].withheld : w.ixn[l].withheld[a] # e
    BY DEF Loose, Held, Range
  <2>3. \A l \in Ixns : \A a \in DOMAIN v.ixn[l].withheld :
          \/ l = k /\ a = Len(s) + 1 /\ v.ixn[l].withheld[a] = e
          \/ a \in DOMAIN w.ixn[l].withheld /\ v.ixn[l].withheld[a] = w.ixn[l].withheld[a]
    BY <1>2, <1>3, <1>6, SMTT(20), ZenonT(60)
  <2>4. \A l, r \in Ixns : \A a \in DOMAIN w.ixn[l].withheld, b \in DOMAIN w.ixn[r].withheld :
          w.ixn[l].withheld[a] = w.ixn[r].withheld[b] => l = r /\ a = b
    BY DEF EventsPlaced, HeldOnce
  <2> DEFINE new(l, a) == l = k /\ a = Len(s) + 1 /\ v.ixn[l].withheld[a] = e
             old(l, a) == /\ a \in DOMAIN w.ixn[l].withheld
                          /\ v.ixn[l].withheld[a] = w.ixn[l].withheld[a]
  <2>5. (new(m, i) \/ old(m, i)) /\ (new(n, j) \/ old(n, j))
    BY <2>3
  <2>6. CASE new(m, i) /\ new(n, j)
    BY <2>6
  <2>7. CASE new(m, i) /\ old(n, j)
    BY <2>1, <2>2, <2>7
  <2>8. CASE old(m, i) /\ new(n, j)
    BY <2>1, <2>2, <2>8
  <2>9. CASE old(m, i) /\ old(n, j)
    BY <2>1, <2>4, <2>9
  <2>10. QED BY <2>5, <2>6, <2>7, <2>8, <2>9
<1>11. QueuedOnce(v)
  BY <1>6 DEF EventsPlaced, QueuedOnce
<1>12. ASSUME NEW d \in Events PROVE Placed(v, d)
  <2>1. Placed(w, d)
    BY DEF EventsPlaced
  <2>2. QED BY <1>6, <1>9, <2>1 DEF Placed, Loose
<1>13. Moved(w, v, {e})
  <2>1. ASSUME NEW d \in Events \ {e} PROVE FateIn(v, d) = FateIn(w, d)
    BY <1>6, <1>9 DEF FateIn
  <2>2. QED BY <2>1 DEF Moved, Onward
<1>14. FateIn(v, e) = "kept"
  <2>1. ~Queued(w, e) /\ w.evt[e].outcomes = 0 /\ w.evt[e].at # 0
    BY DEF Loose
  <2>2. Held(v, e) /\ ~Queued(v, e)
    BY <1>9, <2>1
  <2>3. v.evt[e].outcomes = 0 /\ v.evt[e].at # 0
    BY <1>6, <2>1
  <2>4. QED BY <2>2, <2>3 DEF FateIn
<1>15. QED BY <1>6, <1>7, <1>8, <1>10, <1>11, <1>12, <1>13, <1>14 DEF Takes, EventsPlaced

\* #handleAjaxEvent and #handleJserror
LEMMA HandOverTakes ==
  ASSUME NEW w, Core(w, None), EventsPlaced(w), NEW e \in Events, Loose(w, e),
         NEW v, v = HandOver(w, e)
  PROVE  Takes(w, v, e)
<1> DEFINE k == GetInteractionFor(w, w.evt[e].at)
<1>1. IsWorld(w) /\ w.evt[e].at \in Nat
  BY DEF Core, IsWorld, EventTypes
<1>2. k \in Ixns \cup {None} /\ (k # None => IsActiveDuring(w.ixn[k], w.evt[e].at))
  BY <1>1, GetInteractionIsActive
<1>3. <<e>> \in Seq(Events)
  OBVIOUS
<1>4. CASE k = None
  <2>1. v = Outcome(w, <<e>>, None, {})
    BY <1>4 DEF HandOver, GiveBack
  <2>2. OnlyDeals(w, v, <<e>>)
    BY <1>1, <1>3, <2>1, OutcomeDeals
  <2>3. QED BY <2>2, DealtAlone
<1>5. CASE k # None /\ w.ixn[k].status = "finished"
  <2> DEFINE late == {d \in Range(<<e>>) : w.evt[d].at > w.ixn[k].end}
  <2>1. v = Outcome(w, <<e>>, k, late)
    BY <1>5 DEF HandOver, Process
  <2> HIDE DEF k, late
  <2>2. OnlyDeals(w, v, <<e>>)
    BY <1>1, <1>2, <1>3, <2>1, OutcomeDeals
  <2>3. QED BY <2>2, DealtAlone
<1>6. CASE k # None /\ w.ixn[k].status # "finished"
  <2>1. v = [w EXCEPT !.ixn[k].withheld = Append(w.ixn[k].withheld, e)]
    BY <1>1, <1>6 DEF HandOver, IsWorld
  <2>2. k \in Ixns /\ w.ixn[k].status \in Open
    BY <1>2, <1>6 DEF IsActiveDuring
  <2> HIDE DEF k
  <2>3. QED BY <2>1, <2>2, WithheldTakes
<1>7. QED BY <1>4, <1>5, <1>6

-----------------------------------------------------------------------------
(***************************************************************************)
(* The messages on their way: they wait for the drain, or are received.    *)
(***************************************************************************)
LEMMA MovedIsTransitive ==
  ASSUME NEW u, NEW v, NEW w, NEW S, NEW T, Moved(u, v, S), Moved(v, w, T)
  PROVE  Moved(u, w, S \cup T)
  BY OnwardIsTransitive DEF Moved

\* Any message joins the queue
Queues(w, v, m) ==
  /\ Core(v, None) /\ v.evt = w.evt /\ v.ixn = w.ixn /\ v.clock = w.clock
  /\ v.nav = [w.nav EXCEPT !.queue = Append(w.nav.queue, m)]
  /\ v.nav.cur = w.nav.cur /\ v.nav.observing = w.nav.observing /\ v.nav.stage = w.nav.stage
  /\ v.nav.starts = w.nav.starts /\ v.nav.handle = w.nav.handle /\ v.nav.asked = w.nav.asked
  /\ DOMAIN v.nav.queue = DOMAIN w.nav.queue \cup {Len(w.nav.queue) + 1}
  /\ v.nav.queue[Len(w.nav.queue) + 1] = m
  /\ \A i \in DOMAIN w.nav.queue : v.nav.queue[i] = w.nav.queue[i]
  /\ DOMAIN w.nav.queue = 1..Len(w.nav.queue) /\ Len(w.nav.queue) \in Nat

LEMMA EnqueueQueues ==
  ASSUME NEW w, Core(w, None), w.nav.stage = "waiting", NEW m \in Messages,
         Timely(m) => m.t = w.clock,
         NEW v, v = [w EXCEPT !.nav.queue = Append(w.nav.queue, m)]
  PROVE  Queues(w, v, m)
<1> DEFINE q == w.nav.queue
           a == Append(q, m)
           N == [w.nav EXCEPT !.queue = a]
<1>1. IsWorld(w) /\ w.nav \in Navs /\ q \in Seq(Messages)
  BY DEF Core, IsWorld, Navs
<1>2. /\ a \in Seq(Messages) /\ DOMAIN a = DOMAIN q \cup {Len(q) + 1} /\ a[Len(q) + 1] = m
      /\ \A i \in DOMAIN q : a[i] = q[i]
      /\ DOMAIN q = 1..Len(q) /\ Len(q) \in Nat
  <2> HIDE DEF q
  <2>1. QED BY <1>1, SequenceFacts
<1>3. v = [w EXCEPT !.nav = N]
  BY <1>1 DEF IsWorld
<1>4. /\ N \in Navs /\ N.queue = a /\ N.cur = w.nav.cur /\ N.observing = w.nav.observing
      /\ N.stage = w.nav.stage /\ N.starts = w.nav.starts /\ N.handle = w.nav.handle
      /\ N.asked = w.nav.asked
  <2> HIDE DEF a
  <2>1. QED BY <1>1, <1>2 DEF Navs
<1>5. NavSet(w, v, N)
  <2> HIDE DEF N
  <2>1. QED BY <1>1, <1>3, <1>4, SetNav
<1> HIDE DEF N
<1>6. IsWorld(v) /\ v.nav = N /\ v.ixn = w.ixn /\ v.evt = w.evt /\ v.clock = w.clock
  BY <1>5 DEF NavSet
<1>7. OneIsOpen(v) /\ Timed(v, None)
  BY <1>4, <1>6 DEF Core, OneIsOpen, Timed
<1>8. InOrder(v)
  <2>1. InOrder(w) /\ w.clock \in Nat
    BY DEF Core, IsWorld
  <2>2. \A i \in DOMAIN a : (i \in DOMAIN q /\ a[i] = q[i]) \/ (i = Len(q) + 1 /\ a[i] = m)
    <3> HIDE DEF a, q
    <3>1. ASSUME NEW i \in DOMAIN a
          PROVE  (i \in DOMAIN q /\ a[i] = q[i]) \/ (i = Len(q) + 1 /\ a[i] = m)
      <4>1. i \in DOMAIN q \/ i = Len(q) + 1
        BY <1>2
      <4>2. QED BY <1>2, <4>1
    <3>2. QED BY <3>1
  <2>3. \A i \in DOMAIN q : i < Len(q) + 1
    <3> HIDE DEF q
    <3>1. QED BY <1>2
  <2>4. v.nav.queue # <<>> => v.nav.stage \in {"waiting", "draining"}
    BY <1>4, <1>6
  <2>5. v.nav.cur # None => v.ixn[v.nav.cur].start <= v.clock
    BY <1>4, <1>6, <2>1 DEF InOrder
  <2>6. ASSUME NEW i \in DOMAIN a, Timely(a[i])
        PROVE  /\ a[i].t <= w.clock
               /\ w.nav.cur # None => w.ixn[w.nav.cur].start <= a[i].t
    <3>1. CASE i \in DOMAIN q /\ a[i] = q[i]
      BY <2>1, <2>6, <3>1 DEF InOrder
    <3>2. CASE i = Len(q) + 1 /\ a[i] = m
      <4>1. a[i].t = w.clock
        BY <2>6, <3>2
      <4>2. QED BY <2>1, <4>1 DEF InOrder
    <3>3. QED BY <2>2, <3>1, <3>2
  <2>7. ASSUME NEW i \in DOMAIN a, NEW j \in DOMAIN a, i < j, Timely(a[i]), Timely(a[j])
        PROVE  a[i].t <= a[j].t
    <3>1. CASE j \in DOMAIN q /\ a[j] = q[j]
      <4>1. i \in DOMAIN q /\ a[i] = q[i]
        <5> HIDE DEF a, q
        <5>1. QED BY <1>2, <2>2, <2>7, <3>1
      <4>2. QED BY <2>1, <2>7, <3>1, <4>1 DEF InOrder
    <3>2. CASE j = Len(q) + 1 /\ a[j] = m
      BY <2>6, <2>7, <3>2
    <3>3. QED BY <2>2, <3>1, <3>2
  <2> HIDE DEF a
  <2>8. QED BY <1>4, <1>6, <2>4, <2>5, <2>6, <2>7 DEF InOrder
<1>9. v.nav = [w.nav EXCEPT !.queue = Append(w.nav.queue, m)]
  BY <1>6 DEF N
<1>10. QED BY <1>2, <1>4, <1>6, <1>7, <1>8, <1>9 DEF Queues, Core

\* The handlers' steps
Steps(w, v) == Good(v) /\ Moved(w, v, {})

\* A message but an event was sent.  The handle is the sender's concern, and the observer
Sent(w, v, m) ==
  /\ Core(v, None) /\ EventsPlaced(v) /\ Handles(v) /\ Moved(w, v, {})
  /\ m.kind # "newUIEvent" => Observed(v)
  /\ v.nav.stage = w.nav.stage /\ v.clock = w.clock /\ v.nav.starts = w.nav.starts

Sendable(w, m) ==
  /\ Core(w, None) /\ EventsPlaced(w) /\ Observed(w) /\ Answered(w)
  /\ w.nav.stage \in {"waiting", "on"}
  /\ m \in Messages /\ Timely(m) /\ m.t = w.clock
  /\ m.kind = "get" \/ Asked(w)
  /\ m.kind \in OfHandle => w.nav.asked

LEMMA EnqueueSends ==
  ASSUME NEW w, NEW m, Sendable(w, m), w.nav.stage = "waiting",
         NEW v, v = [w EXCEPT !.nav.queue = Append(w.nav.queue, m)]
  PROVE  Sent(w, v, m)
<1>1. Queues(w, v, m)
  BY EnqueueQueues DEF Sendable
<1>2. /\ Core(v, None) /\ v.evt = w.evt /\ v.ixn = w.ixn /\ v.clock = w.clock
      /\ v.nav.cur = w.nav.cur /\ v.nav.observing = w.nav.observing /\ v.nav.stage = w.nav.stage
      /\ v.nav.starts = w.nav.starts /\ v.nav.handle = w.nav.handle /\ v.nav.asked = w.nav.asked
      /\ DOMAIN v.nav.queue = DOMAIN w.nav.queue \cup {Len(w.nav.queue) + 1}
      /\ v.nav.queue[Len(w.nav.queue) + 1] = m
      /\ \A i \in DOMAIN w.nav.queue : v.nav.queue[i] = w.nav.queue[i]
      /\ DOMAIN w.nav.queue = 1..Len(w.nav.queue) /\ Len(w.nav.queue) \in Nat
  BY <1>1 DEF Queues
<1>3. m.kind # "event"
  BY DEF Sendable, Timely
<1>4. \A e \in Events : (Queued(v, e) <=> Queued(w, e)) /\ (Held(v, e) <=> Held(w, e))
  <2>1. \A e \in Events : Queued(v, e) <=> Queued(w, e)
    BY <1>2, <1>3, ZenonT(60) DEF Queued
  <2>2. \A e \in Events : Held(v, e) <=> Held(w, e)
    BY <1>2 DEF Held
  <2>3. QED BY <2>1, <2>2
<1>5. EventsPlaced(v)
  <2>1. QueuedOnce(v)
    <3>1. ASSUME NEW i \in DOMAIN v.nav.queue, v.nav.queue[i].kind = "event"
          PROVE  i \in DOMAIN w.nav.queue /\ v.nav.queue[i] = w.nav.queue[i]
      BY <1>2, <1>3, <3>1
    <3>2. QueuedOnce(w)
      BY DEF Sendable, EventsPlaced
    <3>3. QED BY <3>1, <3>2 DEF QueuedOnce
  <2>2. HeldOnce(v)
    BY <1>2 DEF Sendable, EventsPlaced, HeldOnce
  <2>3. \A e \in Events : Placed(v, e)
    BY <1>2, <1>4, ZenonT(60) DEF Sendable, EventsPlaced, Placed
  <2>4. QED BY <2>1, <2>2, <2>3 DEF EventsPlaced
<1>6. Moved(w, v, {})
  <2>1. ASSUME NEW e \in Events PROVE FateIn(v, e) = FateIn(w, e)
    BY <1>2, <1>4 DEF FateIn
  <2>2. QED BY <2>1 DEF Moved, Onward
<1>7. Asked(v)
  <2>1. CASE m.kind = "get"
    <3>1. Len(w.nav.queue) + 1 \in DOMAIN v.nav.queue
      BY <1>2
    <3>2. QED BY <1>2, <2>1, <3>1, SMTT(60) DEF Asked
  <2>2. CASE m.kind # "get"
    <3>1. Asked(w)
      BY <2>2 DEF Sendable
    <3>2. QED BY <1>2, <3>1, ZenonT(60) DEF Asked
  <2>3. QED BY <2>1, <2>2
<1>8. Answered(v)
  <2>1. ASSUME NEW i \in DOMAIN v.nav.queue, v.nav.queue[i].kind \in OfHandle,
               v.nav.handle = None
        PROVE  \E j \in 1..(i - 1) : v.nav.queue[j].kind = "get"
    <3>1. CASE i \in DOMAIN w.nav.queue
      <4>1. PICK j \in 1..(i - 1) : w.nav.queue[j].kind = "get"
        BY <1>2, <2>1, <3>1 DEF Sendable, Answered
      <4>2. j \in DOMAIN w.nav.queue
        BY <1>2, <3>1
      <4>3. QED BY <1>2, <4>1, <4>2
    <3>2. CASE i = Len(w.nav.queue) + 1
      <4>1. m.kind \in OfHandle /\ m.kind # "get"
        BY <1>2, <2>1, <3>2 DEF OfHandle
      <4>2. PICK j \in DOMAIN w.nav.queue : w.nav.queue[j].kind = "get"
        BY <1>2, <2>1, <4>1 DEF Sendable, Asked
      <4>3. j \in 1..(i - 1)
        BY <1>2, <3>2
      <4>4. QED BY <1>2, <4>2, <4>3
    <3>3. QED BY <1>2, <3>1, <3>2
  <2>2. QED BY <2>1 DEF Answered
<1>9. Observed(v)
  BY <1>2 DEF Sendable, Observed
<1>10. QED BY <1>2, <1>5, <1>6, <1>7, <1>8, <1>9 DEF Sent, Handles

LEMMA ReceiveSends ==
  ASSUME NEW w, NEW m, Sendable(w, m), w.nav.stage = "on", NEW v, v = Receive(w, m)
  PROVE  Sent(w, v, m)
<1>1. /\ Core(w, None) /\ EventsPlaced(w) /\ Observed(w) /\ m \in Messages /\ Timely(m)
      /\ m.t = w.clock
  BY DEF Sendable
<1>2. w.nav.queue = <<>> /\ DOMAIN w.nav.queue = {}
  BY <1>1 DEF Core, InOrder
<1>3. DueAt(w, m.t)
  BY <1>1, <1>2 DEF DueAt, Core, InOrder, IsWorld
<1>4. m.kind \in OfHandle => w.nav.handle # None
  <2>1. ASSUME m.kind \in OfHandle PROVE w.nav.handle # None
    <3>1. w.nav.asked /\ Asked(w)
      BY <2>1 DEF Sendable, OfHandle
    <3>2. QED BY <1>2, <3>1 DEF Asked
  <2>2. QED BY <2>1
<1>5. /\ Reacts(w, v)
      /\ m.kind = "get" => v.nav.handle # None
      /\ m.kind # "newUIEvent" => Observed(v)
  BY <1>1, <1>3, <1>4, ReceiveReacts
<1>6. /\ Core(v, None) /\ Advance(w, v) /\ v.nav.stage = w.nav.stage /\ v.clock = w.clock
      /\ v.nav.starts = w.nav.starts /\ v.nav.asked = w.nav.asked /\ v.nav.queue = <<>>
      /\ w.nav.handle # None => v.nav.handle # None
  BY <1>2, <1>5 DEF Reacts, Advance
<1>7. EventsPlaced(v) /\ Moved(w, v, {})
  BY <1>1, <1>6, AdvancePlaces
<1>8. Handles(v)
  <2>1. Answered(v)
    BY <1>6 DEF Answered
  <2>2. Asked(v)
    BY <1>2, <1>5, <1>6 DEF Asked, Sendable
  <2>3. QED BY <2>1, <2>2 DEF Handles
<1>9. QED BY <1>5, <1>6, <1>7, <1>8 DEF Sent

\* handle()
LEMMA SendSends ==
  ASSUME NEW w, NEW kind, NEW arg,
         NEW m, m = [kind |-> kind, arg |-> arg, t |-> w.clock, n |-> w.nav.starts],
         Sendable(w, m), NEW v, v = Send(w, kind, arg, w.clock)
  PROVE  Sent(w, v, m)
<1>1. CASE w.nav.stage = "waiting"
  <2>1. v = [w EXCEPT !.nav.queue = Append(w.nav.queue, m)]
    BY <1>1 DEF Send, Sendable, Core, IsWorld, Navs
  <2>2. QED BY <1>1, <2>1, EnqueueSends
<1>2. CASE w.nav.stage = "on"
  <2>1. v = Receive(w, m)
    BY <1>2 DEF Send
  <2>2. QED BY <1>2, <2>1, ReceiveSends
<1>3. QED BY <1>1, <1>2 DEF Sendable

-----------------------------------------------------------------------------
(***************************************************************************)
(* The events on their way: a request that ended, an error that occurred.  *)
(***************************************************************************)
\* What is proved of a step that places one event
Places(w, v, e) == Good(v) /\ Moved(w, v, {e})

LEMMA TakesPlaces ==
  ASSUME NEW w, Good(w), NEW e \in Events, NEW v, Takes(w, v, e)
  PROVE  Places(w, v, e)
<1>1. Core(v, None) /\ EventsPlaced(v) /\ v.nav = w.nav /\ Observed(v) /\ Moved(w, v, {e})
  BY DEF Takes, Good
<1>2. Handles(v)
  BY <1>1 DEF Good, Handles, Asked, Answered
<1>3. QED BY <1>1, <1>2 DEF Places, Good

LEMMA EnqueuePlaces ==
  ASSUME NEW w, Good(w), NEW e \in Events, Loose(w, e), w.nav.stage = "waiting",
         NEW m \in Messages, m.kind = "event", m.arg = e,
         NEW v, v = [w EXCEPT !.nav.queue = Append(w.nav.queue, m)]
  PROVE  Places(w, v, e)
<1>1. Queues(w, v, m)
  BY EnqueueQueues DEF Good, Timely
<1>2. /\ Core(v, None) /\ v.evt = w.evt /\ v.ixn = w.ixn
      /\ v.nav.cur = w.nav.cur /\ v.nav.observing = w.nav.observing /\ v.nav.stage = w.nav.stage
      /\ v.nav.handle = w.nav.handle /\ v.nav.asked = w.nav.asked
      /\ DOMAIN v.nav.queue = DOMAIN w.nav.queue \cup {Len(w.nav.queue) + 1}
      /\ v.nav.queue[Len(w.nav.queue) + 1] = m
      /\ \A i \in DOMAIN w.nav.queue : v.nav.queue[i] = w.nav.queue[i]
      /\ DOMAIN w.nav.queue = 1..Len(w.nav.queue) /\ Len(w.nav.queue) \in Nat
  BY <1>1 DEF Queues
<1>3. \A d \in Events : (Queued(v, d) <=> Queued(w, d) \/ d = e) /\ (Held(v, d) <=> Held(w, d))
  <2>1. ASSUME NEW d \in Events PROVE Queued(v, d) <=> Queued(w, d) \/ d = e
    <3>1. Queued(w, d) => Queued(v, d)
      BY <1>2 DEF Queued
    <3>2. Queued(v, e)
      BY <1>2 DEF Queued
    <3>3. Queued(v, d) => Queued(w, d) \/ d = e
      BY <1>2 DEF Queued
    <3>4. QED BY <3>1, <3>2, <3>3
  <2>2. \A d \in Events : Held(v, d) <=> Held(w, d)
    BY <1>2 DEF Held
  <2>3. QED BY <2>1, <2>2
<1>4. HeldOnce(v)
  BY <1>2 DEF Good, EventsPlaced, HeldOnce
<1>5. QueuedOnce(v)
  <2>1. \A i \in DOMAIN w.nav.queue : ~(w.nav.queue[i].kind = "event" /\ w.nav.queue[i].arg = e)
    BY DEF Loose, Queued
  <2>2. QueuedOnce(w)
    BY DEF Good, EventsPlaced
  <2>3. SUFFICES ASSUME NEW i \in DOMAIN v.nav.queue, NEW j \in DOMAIN v.nav.queue,
                        v.nav.queue[i].kind = "event", v.nav.queue[j].kind = "event",
                        v.nav.queue[i].arg = v.nav.queue[j].arg
                 PROVE  i = j
    BY DEF QueuedOnce
  <2>4. CASE i \in DOMAIN w.nav.queue /\ j \in DOMAIN w.nav.queue
    BY <1>2, <2>2, <2>3, <2>4 DEF QueuedOnce
  <2>5. CASE i \in DOMAIN w.nav.queue /\ j \notin DOMAIN w.nav.queue
    BY <1>2, <2>1, <2>3, <2>5, SMTT(20), ZenonT(60)
  <2>6. CASE i \notin DOMAIN w.nav.queue /\ j \in DOMAIN w.nav.queue
    BY <1>2, <2>1, <2>3, <2>6, ZenonT(60)
  <2>7. CASE i \notin DOMAIN w.nav.queue /\ j \notin DOMAIN w.nav.queue
    BY <1>2, <2>7
  <2>8. QED BY <2>4, <2>5, <2>6, <2>7
<1>6. ASSUME NEW d \in Events PROVE Placed(v, d)
  <2>1. Placed(w, d)
    BY DEF Good, EventsPlaced
  <2>2. CASE d = e
    BY <1>2, <1>3, <2>1, <2>2 DEF Placed, Loose
  <2>3. CASE d # e
    BY <1>2, <1>3, <2>1, <2>3 DEF Placed
  <2>4. QED BY <2>2, <2>3
<1>7. Moved(w, v, {e})
  <2>1. ASSUME NEW d \in Events \ {e} PROVE FateIn(v, d) = FateIn(w, d)
    BY <1>2, <1>3 DEF FateIn
  <2>2. QED BY <2>1 DEF Moved, Onward
<1>8. Observed(v)
  BY <1>2 DEF Good, Observed
<1>9. Asked(v)
  BY <1>2, ZenonT(60) DEF Good, Handles, Asked
<1>10. Answered(v)
  <2>1. ASSUME NEW i \in DOMAIN v.nav.queue, v.nav.queue[i].kind \in OfHandle,
               v.nav.handle = None
        PROVE  \E j \in 1..(i - 1) : v.nav.queue[j].kind = "get"
    <3>1. i \in DOMAIN w.nav.queue
      BY <1>2, <2>1 DEF OfHandle
    <3>2. PICK j \in 1..(i - 1) : w.nav.queue[j].kind = "get"
      BY <1>2, <2>1, <3>1 DEF Good, Handles, Answered
    <3>3. j \in DOMAIN w.nav.queue
      BY <1>2, <3>1
    <3>4. QED BY <1>2, <3>2, <3>3
  <2>2. QED BY <2>1 DEF Answered
<1>11. QED BY <1>2, <1>4, <1>5, <1>6, <1>7, <1>8, <1>9, <1>10
           DEF Places, Good, Handles, EventsPlaced

\* The report gives the event its time
Timestamps(w, v, e) ==
  /\ Good(v) /\ Loose(v, e) /\ v.nav = w.nav /\ v.clock = w.clock
  /\ \A d \in Events \ {e} : FateIn(v, d) = FateIn(w, d)

LEMMA TimeIsGiven ==
  ASSUME NEW w, Good(w), NEW e \in Events, w.evt[e].at = 0, NEW t \in Nat \ {0},
         NEW b \in BOOLEAN, NEW r,
         NEW v, v = [w EXCEPT !.evt = [w.evt EXCEPT ![e] = [w.evt[e] EXCEPT !.at = t, !.stack = b]],
                              !.err = r]
  PROVE  Timestamps(w, v, e)
<1> DEFINE x == [w.evt[e] EXCEPT !.at = t, !.stack = b]
<1>1. IsWorld(w) /\ w.evt[e] \in EventTypes /\ w.nav.cur \in Ixns \cup {None}
  BY DEF Good, Core, IsWorld, Navs
<1>2. x \in EventTypes /\ x.at = t /\ x.outcomes = w.evt[e].outcomes
  BY <1>1 DEF EventTypes
<1> HIDE DEF x
<1>3. /\ v.nav = w.nav /\ v.ixn = w.ixn /\ v.clock = w.clock
      /\ v.evt = [w.evt EXCEPT ![e] = x]
      /\ v = [nav |-> v.nav, ixn |-> v.ixn, evt |-> v.evt, err |-> v.err, clock |-> v.clock]
  BY <1>1 DEF IsWorld, x
<1>4. v.evt[e] = x /\ \A d \in Events \ {e} : v.evt[d] = w.evt[d]
  BY <1>1, <1>3 DEF IsWorld
<1>5. IsWorld(v)
  BY <1>1, <1>2, <1>3 DEF IsWorld
<1>6. Core(v, None)
  BY <1>3, <1>5 DEF Good, Core, OneIsOpen, InOrder, Timed
<1>7. Observed(v) /\ Handles(v)
  BY <1>3 DEF Good, Observed, Handles, Asked, Answered
<1>8. \A d \in Events : (Held(v, d) <=> Held(w, d)) /\ (Queued(v, d) <=> Queued(w, d))
  BY <1>3 DEF Held, Queued
<1>9. w.evt[e].outcomes = 0 /\ ~Held(w, e) /\ ~Queued(w, e)
  BY DEF Good, EventsPlaced, Placed
<1>10. ASSUME NEW d \in Events PROVE Placed(v, d)
  <2>1. Placed(w, d)
    BY DEF Good, EventsPlaced
  <2>2. QED BY <1>2, <1>4, <1>8, <1>9, <2>1 DEF Placed
<1>11. EventsPlaced(v)
  BY <1>3, <1>10 DEF Good, EventsPlaced, HeldOnce, QueuedOnce
<1>12. Loose(v, e)
  BY <1>2, <1>4, <1>8, <1>9 DEF Loose
<1>13. \A d \in Events \ {e} : FateIn(v, d) = FateIn(w, d)
  BY <1>4, <1>8 DEF FateIn
<1>14. QED BY <1>3, <1>6, <1>7, <1>11, <1>12, <1>13 DEF Timestamps, Good

\* storeXhr and #storeError
LEMMA ReportSteps ==
  ASSUME NEW w, Good(w), NEW e \in Events, w.evt[e].at = 0, NEW t \in Nat \ {0},
         NEW v, v = Report(w, e, t)
  PROVE  Steps(w, v)
<1> DEFINE b == e \in Errors /\ ~w.err.stackReported
           u == [w EXCEPT !.evt[e].at = t, !.evt[e].stack = b,
                          !.err.stackReported = w.err.stackReported \/ e \in Errors]
           m == [kind |-> "event", arg |-> e, t |-> t, n |-> u.nav.starts]
<1>1. IsWorld(w)
  BY DEF Good, Core
<1>2. v = IF w.nav.stage = "absent" THEN GiveBack(u, <<e>>) ELSE Send(u, "event", e, t)
  BY <1>1 DEF Report, IsWorld
<1>3. u = [w EXCEPT !.evt = [w.evt EXCEPT ![e] = [w.evt[e] EXCEPT !.at = t, !.stack = b]],
                    !.err = [w.err EXCEPT !.stackReported = w.err.stackReported \/ e \in Errors]]
  BY <1>1 DEF IsWorld, EventTypes
<1>4. b \in BOOLEAN
  OBVIOUS
<1> HIDE DEF b, u
<1>5. Timestamps(w, u, e)
  BY <1>3, <1>4, TimeIsGiven
<1>6. /\ Good(u) /\ Loose(u, e) /\ u.nav = w.nav /\ Core(u, None) /\ EventsPlaced(u)
      /\ \A d \in Events \ {e} : FateIn(u, d) = FateIn(w, d)
  BY <1>5 DEF Timestamps, Good
<1>7. FateIn(w, e) = "new"
  BY DEF FateIn
<1>8. ASSUME Places(u, v, e) PROVE Steps(w, v)
  <2>1. Good(v) /\ Moved(u, v, {e})
    BY <1>8 DEF Places
  <2>2. ASSUME NEW d \in Events PROVE Onward(FateIn(w, d), FateIn(v, d))
    <3>1. CASE d = e
      BY <1>7, <3>1 DEF Onward
    <3>2. CASE d # e
      BY <1>6, <2>1, <3>2 DEF Moved
    <3>3. QED BY <3>1, <3>2
  <2>3. QED BY <2>1, <2>2 DEF Steps, Moved
<1>9. CASE w.nav.stage = "absent"
  <2>1. v = Outcome(u, <<e>>, None, {})
    BY <1>2, <1>9 DEF GiveBack
  <2>2. <<e>> \in Seq(Events) /\ None \in Ixns \cup {None} /\ IsWorld(u)
    BY <1>6 DEF Core
  <2>3. OnlyDeals(u, v, <<e>>)
    BY <2>1, <2>2, OutcomeDeals
  <2>4. QED BY <1>6, <1>8, <2>3, DealtAlone, TakesPlaces
<1>10. CASE w.nav.stage = "waiting"
  <2>1. v = [u EXCEPT !.nav.queue = Append(u.nav.queue, m)]
    BY <1>2, <1>6, <1>10 DEF Send, Core, IsWorld, Navs
  <2>2. m \in Messages /\ m.kind = "event" /\ m.arg = e
    BY <1>6 DEF Messages, Core, IsWorld, Navs
  <2> HIDE DEF m
  <2>3. QED BY <1>6, <1>8, <1>10, <2>1, <2>2, EnqueuePlaces
<1>11. CASE w.nav.stage = "on"
  <2>1. v = Receive(u, m)
    BY <1>2, <1>6, <1>11 DEF Send
  <2>2. v = HandOver(u, e)
    BY <2>1 DEF Receive
  <2>3. QED BY <1>6, <1>8, <2>2, HandOverTakes, TakesPlaces
<1>12. CASE w.nav.stage \notin {"absent", "waiting", "on"}
  <2>1. v = u
    BY <1>2, <1>6, <1>12 DEF Send
  <2>2. Places(u, v, e)
    BY <1>6, <2>1 DEF Places, Moved, Onward
  <2>3. QED BY <1>8, <2>2
<1>13. QED BY <1>9, <1>10, <1>11, <1>12

-----------------------------------------------------------------------------
(***************************************************************************)
(* A step applies a world to the variables: what nobody reads any more of  *)
(* a closed interaction is forgotten, and the invariant does not miss it.  *)
(***************************************************************************)
LEMMA SettledIsKnown ==
  ASSUME NEW x \in Interactions
  PROVE  /\ Settle(x) \in Interactions /\ Settle(x).status = x.status
         /\ Settle(x).timers = x.timers /\ Settle(x).withheld = x.withheld
         /\ x.status \in Open => Settle(x) = x
<1>1. CASE x.status \in Open
  BY <1>1 DEF Settle
<1>2. CASE x.status \notin Open
  <2>1. Settle(x) =
          [trigger |-> x.trigger, start |-> x.start, end |-> x.end, status |-> x.status,
           hist |-> 0, dom |-> 0, customEnd |-> 0, keepOpen |-> FALSE, forceSave |-> FALSE,
           forceIgnore |-> x.forceIgnore, timers |-> x.timers, watching |-> FALSE,
           withheld |-> x.withheld, children |-> x.children, sent |-> x.sent, live |-> TRUE]
    BY <1>2 DEF Settle, NewInteraction
  <2>2. QED BY <1>2, <2>1 DEF Interactions
<1>3. QED BY <1>1, <1>2

LEMMA SettleGood ==
  ASSUME NEW v, Good(v),
         NEW u, u = [nav |-> v.nav, ixn |-> [k \in Ixns |-> Settle(v.ixn[k])],
                     evt |-> v.evt, err |-> v.err, clock |-> v.clock]
  PROVE  Good(u) /\ \A e \in Events : FateIn(u, e) = FateIn(v, e) /\ u.evt[e] = v.evt[e]
<1>1. IsWorld(v) /\ v.nav.cur \in Ixns \cup {None}
  BY DEF Good, Core, IsWorld, Navs
<1>2. u.nav = v.nav /\ u.evt = v.evt /\ u.clock = v.clock
  OBVIOUS
<1>3. \A n \in Ixns : /\ u.ixn[n] \in Interactions /\ u.ixn[n].status = v.ixn[n].status
                      /\ u.ixn[n].timers = v.ixn[n].timers
                      /\ u.ixn[n].withheld = v.ixn[n].withheld
                      /\ v.ixn[n].status \in Open => u.ixn[n] = v.ixn[n]
  <2>1. \A n \in Ixns : v.ixn[n] \in Interactions /\ u.ixn[n] = Settle(v.ixn[n])
    BY <1>1 DEF IsWorld
  <2>2. QED BY <2>1, SettledIsKnown
<1>4. IsWorld(u)
  <2>1. u.ixn \in [Ixns -> Interactions]
    BY <1>3
  <2>2. u = [nav |-> u.nav, ixn |-> u.ixn, evt |-> u.evt, err |-> u.err, clock |-> u.clock]
    OBVIOUS
  <2>3. QED BY <1>1, <1>2, <2>1, <2>2 DEF IsWorld
<1>5. v.nav.cur # None => u.ixn[v.nav.cur] = v.ixn[v.nav.cur]
  BY <1>1, <1>3 DEF Good, Core, OneIsOpen
<1>6. OneIsOpen(u) /\ InOrder(u) /\ Timed(u, None)
  <2>1. OneIsOpen(u)
    BY <1>2, <1>3, <1>5 DEF Good, Core, OneIsOpen
  <2>2. InOrder(u)
    BY <1>2, <1>5 DEF Good, Core, InOrder
  <2>3. Timed(u, None)
    BY <1>2, <1>5 DEF Good, Core, Timed
  <2>4. QED BY <2>1, <2>2, <2>3
<1>7. Observed(u) /\ Handles(u)
  BY <1>2, <1>5 DEF Good, Observed, Handles, Asked, Answered
<1>8. \A e \in Events : (Held(u, e) <=> Held(v, e)) /\ (Queued(u, e) <=> Queued(v, e))
  <2>1. \A e \in Events : Held(u, e) <=> Held(v, e)
    BY <1>3 DEF Held
  <2>2. QED BY <1>2, <2>1 DEF Queued
<1>9. EventsPlaced(u)
  <2>1. HeldOnce(u)
    BY <1>3 DEF Good, EventsPlaced, HeldOnce
  <2>2. QueuedOnce(u)
    BY <1>2 DEF Good, EventsPlaced, QueuedOnce
  <2>3. ASSUME NEW e \in Events PROVE Placed(u, e)
    BY <1>2, <1>8 DEF Good, EventsPlaced, Placed
  <2>4. QED BY <2>1, <2>2, <2>3 DEF EventsPlaced
<1>10. \A e \in Events : FateIn(u, e) = FateIn(v, e)
  BY <1>2, <1>8 DEF FateIn
<1>11. QED BY <1>2, <1>4, <1>6, <1>7, <1>9, <1>10 DEF Good, Core

\* A step of the variables
Moves == Good(World') /\ \A e \in Events : Onward(FateIn(World, e), FateIn(World', e))

LEMMA ApplyMoves ==
  ASSUME NEW v, Steps(World, v), Apply(v)
  PROVE  Moves
<1>1. Good(v) /\ \A e \in Events : Onward(FateIn(World, e), FateIn(v, e))
  BY DEF Steps, Moved
<1>2. World' = [nav |-> v.nav, ixn |-> [k \in Ixns |-> Settle(v.ixn[k])],
                evt |-> v.evt, err |-> v.err, clock |-> v.clock]
  BY DEF Apply, World
<1>3. Good(World') /\ \A e \in Events : FateIn(World', e) = FateIn(v, e)
  BY <1>1, <1>2, SettleGood
<1>4. QED BY <1>1, <1>3 DEF Moves

LEMMA ReactsSteps ==
  ASSUME NEW w, EventsPlaced(w), Handles(w), NEW v, Reacts(w, v), Observed(v)
  PROVE  Steps(w, v)
<1>1. /\ Core(v, None) /\ Advance(w, v) /\ v.nav.stage = w.nav.stage
      /\ v.nav.asked = w.nav.asked /\ v.nav.queue = w.nav.queue
      /\ w.nav.handle # None => v.nav.handle # None
  BY DEF Reacts, Advance
<1>2. EventsPlaced(v) /\ Moved(w, v, {})
  BY <1>1, AdvancePlaces
<1>3. Handles(v)
  BY <1>1 DEF Handles, Asked, Answered
<1>4. QED BY <1>1, <1>2, <1>3 DEF Steps, Good

\* Two steps, one after the other
LEMMA StepsAreTransitive ==
  ASSUME NEW u, NEW v, NEW w, Moved(u, v, {}), Steps(v, w)
  PROVE  Steps(u, w)
<1>1. Moved(u, w, {} \cup {})
  BY MovedIsTransitive DEF Steps
<1>2. {} \cup {} = {}
  OBVIOUS
<1>3. QED BY <1>1, <1>2 DEF Steps

LEMMA KeepsSteps ==
  ASSUME NEW w, Good(w), NEW v, Keeps(w, v)
  PROVE  Steps(w, v)
<1>1. Reacts(w, v) /\ Observed(v)
  BY KeepsReacts, KeepsCore DEF Good
<1>2. QED BY <1>1, ReactsSteps DEF Good

\* The feature changes, but neither what it holds nor the interaction in progress
NavHolds(w, v) ==
  Core(v, None) /\ EventsPlaced(v) /\ Observed(v) /\ Moved(w, v, {})

LEMMA NavChanges ==
  ASSUME NEW w, Good(w), NEW N \in Navs,
         N.cur = w.nav.cur, N.queue = w.nav.queue,
         N.stage = w.nav.stage \/ N.queue = <<>> \/ N.stage \in {"waiting", "draining"},
         w.nav.observing => N.observing,
         NEW v, NavSet(w, v, N)
  PROVE  NavHolds(w, v)
<1>1. IsWorld(w) /\ Core(w, None) /\ None \in Ixns \cup {None}
  BY DEF Good, Core
<1>2. Core(v, None) /\ SameEvents(w, v)
  BY <1>1, NavCore
<1>3. v.nav = N /\ v.ixn = w.ixn /\ v.clock = w.clock
  BY DEF NavSet
<1>4. EventsPlaced(v) /\ Moved(w, v, {})
  BY <1>2, SameEventsAdvance, AdvancePlaces DEF Good
<1>5. Observed(v)
  BY <1>3 DEF Good, Observed
<1>6. QED BY <1>2, <1>4, <1>5 DEF NavHolds

LEMMA NavSteps ==
  ASSUME NEW w, Good(w), NEW N \in Navs,
         N.cur = w.nav.cur, N.queue = w.nav.queue, N.handle = w.nav.handle,
         N.asked = w.nav.asked, w.nav.observing => N.observing,
         N.stage = w.nav.stage \/ (w.nav.stage # "off" /\ (N.queue = <<>> \/ N.stage = "draining")),
         NEW v, v = [w EXCEPT !.nav = N]
  PROVE  Steps(w, v)
<1>1. NavSet(w, v, N)
  BY SetNav DEF Good, Core
<1>2. NavHolds(w, v)
  BY <1>1, NavChanges
<1>3. v.nav = N
  BY <1>1 DEF NavSet
<1>4. Handles(v)
  BY <1>3 DEF Good, Handles, Asked, Answered
<1>5. QED BY <1>2, <1>4 DEF NavHolds, Steps, Good

\* The DOM is observed from now on
LEMMA ObserveSteps ==
  ASSUME NEW w, Core(w, None), EventsPlaced(w), Handles(w), NEW v, v = Observe(w)
  PROVE  Steps(w, v) /\ v.nav.stage = w.nav.stage /\ v.clock = w.clock
<1> DEFINE N == [w.nav EXCEPT !.observing = TRUE]
<1>1. IsWorld(w) /\ w.nav \in Navs
  BY DEF Core, IsWorld
<1>2. v = [w EXCEPT !.nav = N]
  BY <1>1 DEF Observe, IsWorld
<1>3. /\ N \in Navs /\ N.cur = w.nav.cur /\ N.queue = w.nav.queue /\ N.handle = w.nav.handle
      /\ N.asked = w.nav.asked /\ N.stage = w.nav.stage /\ N.observing = TRUE
  BY <1>1 DEF Navs
<1> HIDE DEF N
<1>4. NavSet(w, v, N)
  BY <1>1, <1>2, <1>3, SetNav
<1>5. Core(v, None) /\ SameEvents(w, v)
  <2>1. None \in Ixns \cup {None}
    OBVIOUS
  <2>2. QED BY <1>3, <1>4, <2>1, NavCore
<1>6. v.nav = N /\ v.clock = w.clock
  BY <1>4 DEF NavSet
<1>7. EventsPlaced(v) /\ Moved(w, v, {})
  BY <1>5, SameEventsAdvance, AdvancePlaces
<1>8. Observed(v) /\ Handles(v)
  BY <1>3, <1>6 DEF Observed, Handles, Asked, Answered
<1>9. QED BY <1>3, <1>5, <1>6, <1>7, <1>8 DEF Steps, Good

\* The counter of the starts
LEMMA StartsSteps ==
  ASSUME NEW w, Good(w), w.nav.starts < MaxIxns, NEW v, v = Starts(w)
  PROVE  /\ Steps(w, v) /\ v.nav.starts \in Later
         /\ v.nav.stage = w.nav.stage /\ v.clock = w.clock
<1> DEFINE N == [w.nav EXCEPT !.starts = w.nav.starts + 1]
<1>1. IsWorld(w) /\ w.nav \in Navs
  BY DEF Good, Core, IsWorld
<1>2. v = [w EXCEPT !.nav = N]
  BY <1>1 DEF Starts, IsWorld
<1>3. w.nav.starts + 1 \in Later /\ w.nav.starts + 1 \in Ixns
  BY <1>1 DEF Navs, Later, Ixns
<1>4. /\ N \in Navs /\ N.cur = w.nav.cur /\ N.queue = w.nav.queue /\ N.handle = w.nav.handle
      /\ N.asked = w.nav.asked /\ N.stage = w.nav.stage /\ N.observing = w.nav.observing
      /\ N.starts = w.nav.starts + 1
  BY <1>1, <1>3 DEF Navs
<1> HIDE DEF N
<1>5. Steps(w, v)
  BY <1>2, <1>4, NavSteps
<1>6. v.nav = N /\ v.clock = w.clock
  BY <1>1, <1>2 DEF IsWorld
<1>7. QED BY <1>3, <1>4, <1>5, <1>6

\* What is not read of the error feature
LEMMA SendErrorsKeeps ==
  ASSUME NEW w, IsWorld(w)
  PROVE  Keeps(w, SendErrors(w))
<1> DEFINE v == SendErrors(w)
           r == [w.err EXCEPT !.buckets = <<>>,
                              !.stackSent = w.err.stackSent \/ TRUE \in Range(w.err.buckets)]
<1>1. v = [w EXCEPT !.err = r]
  BY DEF SendErrors, IsWorld
<1> HIDE DEF r
<1>2. /\ v.nav = w.nav /\ v.ixn = w.ixn /\ v.evt = w.evt /\ v.clock = w.clock
      /\ v = [nav |-> v.nav, ixn |-> v.ixn, evt |-> v.evt, err |-> v.err, clock |-> v.clock]
  BY <1>1 DEF IsWorld
<1> HIDE DEF v
<1>3. IsWorld(v)
  BY <1>2 DEF IsWorld
<1>4. Keeps(w, v)
  BY <1>2, <1>3 DEF Keeps, SameNav, SameCurrent, SameIxn
<1>5. QED BY <1>4 DEF v

-----------------------------------------------------------------------------
(***************************************************************************)
(* The drain: the first message leaves the queue and is received.          *)
(***************************************************************************)
Dequeues(w, v, m) ==
  /\ Core(v, None) /\ v.evt = w.evt /\ v.ixn = w.ixn /\ v.clock = w.clock
  /\ v.nav.cur = w.nav.cur /\ v.nav.observing = w.nav.observing /\ v.nav.stage = w.nav.stage
  /\ v.nav.handle = w.nav.handle /\ v.nav.asked = w.nav.asked
  /\ m \in Messages /\ m = w.nav.queue[1] /\ 1 \in DOMAIN w.nav.queue
  /\ DOMAIN w.nav.queue \subseteq Nat /\ DOMAIN v.nav.queue \subseteq Nat
  /\ \A i \in DOMAIN v.nav.queue :
       /\ i > 0 /\ i + 1 \in DOMAIN w.nav.queue
       /\ v.nav.queue[i] = w.nav.queue[i + 1]
  /\ \A i \in DOMAIN w.nav.queue :
       i > 1 => i - 1 \in DOMAIN v.nav.queue /\ v.nav.queue[i - 1] = w.nav.queue[i]
  /\ \A i \in DOMAIN w.nav.queue : i > 0

LEMMA QueueDequeues ==
  ASSUME NEW w, Core(w, None), w.nav.queue # <<>>,
         NEW v, v = [w EXCEPT !.nav.queue = Tail(w.nav.queue)]
  PROVE  Dequeues(w, v, Head(w.nav.queue))
<1> DEFINE q == w.nav.queue
           m == Head(q)
           a == Tail(q)
           N == [w.nav EXCEPT !.queue = a]
<1>1. IsWorld(w) /\ w.nav \in Navs /\ q \in Seq(Messages) /\ q # <<>>
  BY DEF Core, IsWorld, Navs
<1>2. /\ a \in Seq(Messages) /\ m = q[1] /\ 1 \in DOMAIN q
      /\ \A i \in DOMAIN a : i + 1 \in DOMAIN q /\ a[i] = q[i + 1]
      /\ \A i \in DOMAIN q : i > 1 => i - 1 \in DOMAIN a /\ a[i - 1] = q[i]
      /\ DOMAIN q = 1..Len(q) /\ Len(q) \in Nat
  <2> HIDE DEF q
  <2>1. QED BY <1>1, SequenceFacts
<1>3. DOMAIN a = 1..Len(a) /\ Len(a) \in Nat /\ m \in Messages
  <2>1. DOMAIN a = 1..Len(a) /\ Len(a) \in Nat
    <3> HIDE DEF a
    <3>1. QED BY <1>2, SequenceFacts
  <2>2. q[1] \in Messages
    <3> HIDE DEF q
    <3>1. QED BY <1>1, <1>2
  <2>3. QED BY <1>2, <2>1, <2>2
<1>4. v = [w EXCEPT !.nav = N]
  BY <1>1 DEF IsWorld
<1>5. /\ N \in Navs /\ N.queue = a /\ N.cur = w.nav.cur /\ N.observing = w.nav.observing
      /\ N.stage = w.nav.stage /\ N.handle = w.nav.handle /\ N.asked = w.nav.asked
  <2> HIDE DEF a
  <2>1. QED BY <1>1, <1>2 DEF Navs
<1>6. NavSet(w, v, N)
  <2> HIDE DEF N
  <2>1. QED BY <1>1, <1>4, <1>5, SetNav
<1> HIDE DEF N
<1>7. IsWorld(v) /\ v.nav = N /\ v.ixn = w.ixn /\ v.evt = w.evt /\ v.clock = w.clock
  BY <1>6 DEF NavSet
<1>8. OneIsOpen(v) /\ Timed(v, None)
  BY <1>5, <1>7 DEF Core, OneIsOpen, Timed
<1>9. InOrder(v)
  <2>1. InOrder(w)
    BY DEF Core
  <2>2. v.nav.queue # <<>> => v.nav.stage \in {"waiting", "draining"}
    BY <1>1, <1>5, <1>7, <2>1 DEF InOrder
  <2>3. v.nav.cur # None => v.ixn[v.nav.cur].start <= v.clock
    BY <1>5, <1>7, <2>1 DEF InOrder
  <2>4. ASSUME NEW i \in DOMAIN a, Timely(a[i])
        PROVE  /\ a[i].t <= w.clock
               /\ w.nav.cur # None => w.ixn[w.nav.cur].start <= a[i].t
    <3>1. i + 1 \in DOMAIN q /\ a[i] = q[i + 1]
      BY <1>2
    <3>2. QED BY <2>1, <2>4, <3>1 DEF InOrder
  <2>5. ASSUME NEW i \in DOMAIN a, NEW j \in DOMAIN a, i < j, Timely(a[i]), Timely(a[j])
        PROVE  a[i].t <= a[j].t
    <3>1. /\ i + 1 \in DOMAIN q /\ a[i] = q[i + 1]
          /\ j + 1 \in DOMAIN q /\ a[j] = q[j + 1]
      BY <1>2
    <3>2. i + 1 < j + 1
      <4> HIDE DEF a
      <4>1. QED BY <1>3, <2>5
    <3>3. QED BY <2>1, <2>5, <3>1, <3>2 DEF InOrder
  <2> HIDE DEF a
  <2>6. QED BY <1>5, <1>7, <2>2, <2>3, <2>4, <2>5 DEF InOrder
<1>10. v.nav.queue = a
  BY <1>5, <1>7
<1> HIDE DEF a, m
<1>11. /\ DOMAIN q \subseteq Nat /\ \A i \in DOMAIN q : i > 0
       /\ DOMAIN v.nav.queue \subseteq Nat /\ \A i \in DOMAIN v.nav.queue : i > 0
  BY <1>2, <1>3, <1>10
<1>12. Dequeues(w, v, m)
  BY <1>2, <1>3, <1>5, <1>7, <1>8, <1>9, <1>10, <1>11 DEF Dequeues, Core
<1>13. QED BY <1>12 DEF m

\* What is left of the queue when a message was taken from it
Left(w, v, m) ==
  /\ Core(v, None) /\ Observed(v) /\ EventsPlaced(v) /\ v.clock = w.clock
  /\ v.nav.stage = w.nav.stage /\ v.nav.handle = w.nav.handle /\ v.nav.asked = w.nav.asked
  /\ Moved(w, v, IF m.kind = "event" THEN {m.arg} ELSE {})
  /\ m.kind = "event" => /\ m.arg \in Events /\ Loose(v, m.arg)
                         /\ FateIn(w, m.arg) = "queued"
  /\ Timely(m) => DueAt(v, m.t)
  /\ m.kind \in OfHandle => v.nav.handle # None
  /\ v.nav.handle # None \/ m.kind = "get" \/ Handles(v)

LEMMA DequeueLeaves ==
  ASSUME NEW w, Good(w), NEW m, NEW v, Dequeues(w, v, m)
  PROVE  Left(w, v, m)
<1>1. /\ Core(v, None) /\ v.evt = w.evt /\ v.ixn = w.ixn /\ v.clock = w.clock
      /\ v.nav.cur = w.nav.cur /\ v.nav.observing = w.nav.observing /\ v.nav.stage = w.nav.stage
      /\ v.nav.handle = w.nav.handle /\ v.nav.asked = w.nav.asked
      /\ m \in Messages /\ m = w.nav.queue[1] /\ 1 \in DOMAIN w.nav.queue
      /\ DOMAIN w.nav.queue \subseteq Nat /\ DOMAIN v.nav.queue \subseteq Nat
      /\ \A i \in DOMAIN v.nav.queue :
           /\ i > 0 /\ i + 1 \in DOMAIN w.nav.queue
           /\ v.nav.queue[i] = w.nav.queue[i + 1]
      /\ \A i \in DOMAIN w.nav.queue :
           i > 1 => i - 1 \in DOMAIN v.nav.queue /\ v.nav.queue[i - 1] = w.nav.queue[i]
      /\ \A i \in DOMAIN w.nav.queue : i > 0
  BY DEF Dequeues
<1>2. Observed(v)
  BY <1>1 DEF Good, Observed
<1>3. \A d \in Events : Held(v, d) <=> Held(w, d)
  BY <1>1 DEF Held
<1>4. \A d \in Events : Queued(v, d) => Queued(w, d)
  BY <1>1 DEF Queued
<1>5. ASSUME NEW d \in Events, Queued(w, d), ~(m.kind = "event" /\ m.arg = d) PROVE Queued(v, d)
  <2>1. PICK i \in DOMAIN w.nav.queue : w.nav.queue[i].kind = "event" /\ w.nav.queue[i].arg = d
    BY <1>5 DEF Queued
  <2>2. i > 1
    BY <1>1, <1>5, <2>1
  <2>3. QED BY <1>1, <2>1, <2>2 DEF Queued
<1>6. QueuedOnce(w) /\ HeldOnce(w)
  BY DEF Good, EventsPlaced
<1>7. QueuedOnce(v) /\ HeldOnce(v)
  <2>1. SUFFICES ASSUME NEW i \in DOMAIN v.nav.queue, NEW j \in DOMAIN v.nav.queue,
                        v.nav.queue[i].kind = "event", v.nav.queue[j].kind = "event",
                        v.nav.queue[i].arg = v.nav.queue[j].arg
                 PROVE  i = j
    BY <1>1, <1>6 DEF QueuedOnce, HeldOnce
  <2>2. i \in Nat /\ j \in Nat
    BY <1>1
  <2>3. i + 1 = j + 1
    BY <1>1, <1>6, <2>1 DEF QueuedOnce
  <2>4. QED BY <2>2, <2>3
<1>8. ASSUME NEW d \in Events PROVE Placed(v, d)
  <2>1. Placed(w, d)
    BY DEF Good, EventsPlaced
  <2>2. QED BY <1>1, <1>3, <1>4, <2>1 DEF Placed
<1>9. EventsPlaced(v)
  BY <1>7, <1>8 DEF EventsPlaced
<1>10. ASSUME NEW d \in Events, ~(m.kind = "event" /\ m.arg = d)
       PROVE  FateIn(v, d) = FateIn(w, d)
  <2>1. Queued(v, d) <=> Queued(w, d)
    BY <1>4, <1>5, <1>10
  <2>2. QED BY <1>1, <1>3, <2>1 DEF FateIn
<1>11. Moved(w, v, IF m.kind = "event" THEN {m.arg} ELSE {})
  BY <1>10 DEF Moved, Onward
<1>12. ASSUME m.kind = "event"
       PROVE  /\ m.arg \in Events /\ Loose(v, m.arg) /\ FateIn(w, m.arg) = "queued"
  <2>1. m.arg \in Events /\ Queued(w, m.arg)
    BY <1>1, <1>12, MessageFacts DEF Queued
  <2>2. /\ w.evt[m.arg].outcomes = 0 /\ w.evt[m.arg].at > 0 /\ ~Held(w, m.arg)
    BY <2>1 DEF Good, EventsPlaced, Placed
  <2>3. ~Queued(v, m.arg)
    <3>1. ASSUME NEW i \in DOMAIN v.nav.queue, v.nav.queue[i].kind = "event",
                 v.nav.queue[i].arg = m.arg
          PROVE  FALSE
      <4>1. i + 1 = 1
        BY <1>1, <1>6, <1>12, <3>1 DEF QueuedOnce
      <4>2. QED BY <1>1, <4>1
    <3>2. QED BY <3>1 DEF Queued
  <2>4. Loose(v, m.arg)
    BY <1>1, <1>3, <2>1, <2>2, <2>3 DEF Loose
  <2>5. FateIn(w, m.arg) = "queued"
    <3>1. w.evt[m.arg].at # 0
      BY <1>1, <2>1, <2>2, SMTT(20), ZenonT(60) DEF Core, IsWorld, EventTypes
    <3>2. QED BY <2>1, <2>2, <3>1 DEF FateIn
  <2>6. QED BY <2>1, <2>4, <2>5
<1>13. ASSUME Timely(m) PROVE DueAt(v, m.t)
  <2>1. InOrder(w) /\ m.t \in Nat
    BY <1>1, MessageFacts DEF Good, Core
  <2>2. m.t <= w.clock /\ (w.nav.cur # None => w.ixn[w.nav.cur].start <= m.t)
    BY <1>1, <1>13, <2>1 DEF InOrder
  <2>3. ASSUME NEW i \in DOMAIN v.nav.queue, Timely(v.nav.queue[i])
        PROVE  m.t <= v.nav.queue[i].t
    <3>1. i + 1 \in DOMAIN w.nav.queue /\ v.nav.queue[i] = w.nav.queue[i + 1] /\ 1 < i + 1
      BY <1>1
    <3>2. QED BY <1>1, <1>13, <2>1, <2>3, <3>1 DEF InOrder
  <2>4. QED BY <1>1, <2>1, <2>2, <2>3 DEF DueAt
<1>14. ASSUME m.kind \in OfHandle PROVE v.nav.handle # None
  <2>1. w.nav.handle # None \/ \E j \in 1..(1 - 1) : w.nav.queue[j].kind = "get"
    BY <1>1, <1>14 DEF Good, Handles, Answered
  <2>2. QED BY <1>1, <2>1
<1>15. ASSUME v.nav.handle = None, m.kind # "get" PROVE Handles(v)
  <2>1. Asked(w) /\ Answered(w) /\ w.nav.handle = None
    BY <1>1, <1>15 DEF Good, Handles
  <2>2. Asked(v)
    <3>1. ASSUME w.nav.asked, w.nav.stage # "off"
          PROVE  \E i \in DOMAIN v.nav.queue : v.nav.queue[i].kind = "get"
      <4>1. PICK i \in DOMAIN w.nav.queue : w.nav.queue[i].kind = "get"
        BY <2>1, <3>1 DEF Asked
      <4>2. i > 1
        BY <1>1, <1>15, <4>1
      <4>3. QED BY <1>1, <4>1, <4>2
    <3>2. QED BY <1>1, <3>1 DEF Asked
  <2>3. ASSUME NEW i \in DOMAIN v.nav.queue, v.nav.queue[i].kind \in OfHandle
        PROVE  \E j \in 1..(i - 1) : v.nav.queue[j].kind = "get"
    <3>1. i + 1 \in DOMAIN w.nav.queue /\ w.nav.queue[i + 1].kind \in OfHandle /\ i \in Nat
      BY <1>1, <2>3
    <3>2. PICK j \in 1..((i + 1) - 1) : w.nav.queue[j].kind = "get"
      BY <2>1, <3>1 DEF Answered
    <3>3. j # 1
      BY <1>1, <1>15, <3>2
    <3>4. j \in DOMAIN w.nav.queue /\ j > 1 /\ j - 1 \in 1..(i - 1)
      <4>1. Len(w.nav.queue) \in Nat /\ DOMAIN w.nav.queue = 1..Len(w.nav.queue)
        BY DEF Good, Core, IsWorld, Navs
      <4>2. QED BY <3>1, <3>2, <3>3, <4>1, SMTT(60)
    <3>5. v.nav.queue[j - 1].kind = "get"
      BY <1>1, <3>2, <3>4
    <3>6. QED BY <3>4, <3>5
  <2>4. QED BY <2>2, <2>3 DEF Handles, Answered
<1>16. QED BY <1>1, <1>2, <1>9, <1>11, <1>12, <1>13, <1>14, <1>15 DEF Left

LEMMA HandlesStay ==
  ASSUME NEW w, NEW v, NEW m, v.nav.queue = w.nav.queue, v.nav.stage = w.nav.stage,
         v.nav.asked = w.nav.asked, w.nav.handle # None \/ m.kind = "get" \/ Handles(w),
         w.nav.handle # None => v.nav.handle # None,
         m.kind = "get" => v.nav.handle # None
  PROVE  Handles(v)
<1>1. CASE v.nav.handle # None
  BY <1>1 DEF Handles, Asked, Answered
<1>2. CASE v.nav.handle = None
  BY <1>2 DEF Handles, Asked, Answered
<1>3. QED BY <1>1, <1>2

LEMMA ReceiveLeft ==
  ASSUME NEW w, NEW u, NEW m \in Messages, Left(w, u, m), u.nav.stage # "on",
         NEW v, v = Receive(u, m)
  PROVE  Steps(w, v)
<1>1. /\ Core(u, None) /\ Observed(u) /\ EventsPlaced(u)
      /\ u.nav.handle # None \/ m.kind = "get" \/ Handles(u)
  BY DEF Left
<1>2. CASE m.kind = "event"
  <2> DEFINE e == m.arg
  <2>1. e \in Events /\ Loose(u, e) /\ FateIn(w, e) = "queued" /\ Moved(w, u, {e})
    BY <1>2 DEF Left
  <2>2. v = HandOver(u, e)
    BY <1>2 DEF Receive
  <2> HIDE DEF e
  <2>3. Takes(u, v, e)
    BY <1>1, <2>1, <2>2, HandOverTakes
  <2>4. /\ Core(v, None) /\ EventsPlaced(v) /\ v.nav = u.nav /\ Observed(v)
        /\ Moved(u, v, {e}) /\ FateIn(v, e) \in {"kept", "alone", "attached"}
    BY <1>1, <2>3 DEF Takes
  <2>5. Handles(v)
    BY <1>1, <1>2, <2>4, HandlesStay
  <2>6. Moved(w, v, {e})
    <3>1. {e} \cup {e} = {e}
      OBVIOUS
    <3>2. QED BY <2>1, <2>4, <3>1, MovedIsTransitive
  <2>7. Moved(w, v, {})
    <3>1. Onward(FateIn(w, e), FateIn(v, e))
      BY <2>1, <2>4 DEF Onward
    <3>2. QED BY <2>6, <3>1 DEF Moved
  <2>8. QED BY <2>4, <2>5, <2>7 DEF Steps, Good
<1>3. CASE m.kind # "event"
  <2>1. Moved(w, u, {}) /\ DueAt(u, m.t) /\ (m.kind \in OfHandle => u.nav.handle # None)
    BY <1>3 DEF Left, Timely
  <2>2. Timely(m)
    BY <1>3 DEF Timely
  <2>3. Reacts(u, v) /\ Observed(v) /\ (m.kind = "get" => v.nav.handle # None)
    BY <1>1, <2>1, <2>2, ReceiveReacts
  <2>4. /\ Core(v, None) /\ Advance(u, v) /\ v.nav.stage = u.nav.stage
        /\ v.nav.asked = u.nav.asked /\ v.nav.queue = u.nav.queue
        /\ u.nav.handle # None => v.nav.handle # None
    BY <2>3 DEF Reacts, Advance
  <2>5. EventsPlaced(v) /\ Moved(u, v, {})
    BY <1>1, <2>4, AdvancePlaces
  <2>6. Handles(v)
    BY <1>1, <2>3, <2>4, HandlesStay
  <2>7. Steps(u, v)
    BY <2>3, <2>4, <2>5, <2>6 DEF Steps, Good
  <2>8. QED BY <2>1, <2>7, StepsAreTransitive
<1>4. QED BY <1>2, <1>3

-----------------------------------------------------------------------------
(***************************************************************************)
(* The actions.                                                            *)
(***************************************************************************)
LEMMA WorldFields ==
  /\ World.nav = nav /\ World.ixn = ixn /\ World.evt = evt /\ World.err = err
  /\ World.clock = clock
  BY DEF World

LEMMA WorldTypes ==
  ASSUME Good(World)
  PROVE  /\ IsWorld(World) /\ Core(World, None)
         /\ nav \in Navs /\ ixn \in [Ixns -> Interactions] /\ evt \in [Events -> EventTypes]
         /\ clock \in Nat \ {0} /\ nav.cur \in Ixns \cup {None}
  BY WorldFields DEF Good, Core, IsWorld, Navs

\* One message of the drain
LEMMA DrainOneMoves ==
  ASSUME Good(World), nav.stage = "draining", DrainOne
  PROVE  Moves
<1> DEFINE m == Head(nav.queue)
           u == [World EXCEPT !.nav.queue = Tail(nav.queue)]
           v == Receive(u, m)
<1>1. nav.queue # <<>> /\ Apply(v)
  <2>1. u = [World EXCEPT !.nav.queue = Tail(@)]
    BY WorldFields
  <2>2. QED BY <2>1 DEF DrainOne
<1> HIDE DEF v, m, u
<1>2. Dequeues(World, u, m)
  BY <1>1, QueueDequeues, WorldFields, WorldTypes DEF m, u
<1>3. Left(World, u, m)
  BY <1>2, DequeueLeaves
<1>4. m \in Messages /\ u.nav.stage = "draining"
  BY <1>2, WorldFields DEF Dequeues
<1>5. Steps(World, v)
  BY <1>3, <1>4, ReceiveLeft DEF v
<1>6. QED BY <1>1, <1>5, ApplyMoves

LEMMA DrainedMoves ==
  ASSUME Good(World), nav.stage = "draining", Drained
  PROVE  Moves
<1> DEFINE N == [nav EXCEPT !.stage = "on"]
           v == [World EXCEPT !.nav = N]
<1>1. nav.queue = <<>> /\ Apply(v)
  <2>1. v = [World EXCEPT !.nav.stage = "on"]
    BY WorldFields
  <2>2. QED BY <2>1 DEF Drained
<1>2. /\ N \in Navs /\ N.cur = nav.cur /\ N.queue = nav.queue /\ N.handle = nav.handle
      /\ N.asked = nav.asked /\ N.observing = nav.observing
  BY WorldTypes DEF Navs, Stages
<1> HIDE DEF N
<1>3. Steps(World, v)
  BY <1>1, <1>2, NavSteps, WorldFields
<1> HIDE DEF v
<1>4. QED BY <1>1, <1>3, ApplyMoves

LEMMA SpaOnMoves ==
  ASSUME Good(World), SpaOn
  PROVE  Moves
<1> DEFINE N == [nav EXCEPT !.stage = "draining"]
           v == [World EXCEPT !.nav = N]
<1>1. nav.stage = "waiting" /\ Apply(v)
  <2>1. v = [World EXCEPT !.nav.stage = "draining"]
    BY WorldFields
  <2>2. QED BY <2>1 DEF SpaOn
<1>2. /\ N \in Navs /\ N.cur = nav.cur /\ N.queue = nav.queue /\ N.handle = nav.handle
      /\ N.asked = nav.asked /\ N.observing = nav.observing /\ N.stage = "draining"
  BY WorldTypes DEF Navs, Stages
<1> HIDE DEF N
<1>3. Steps(World, v)
  BY <1>1, <1>2, NavSteps, WorldFields
<1> HIDE DEF v
<1>4. QED BY <1>1, <1>3, ApplyMoves

\* The feature is switched off: what waits for the drain is dropped
LEMMA SpaOffMoves ==
  ASSUME Good(World), SpaOff
  PROVE  Moves
<1> DEFINE N == [nav EXCEPT !.stage = "off", !.queue = <<>>]
           w == World
           v == [World EXCEPT !.nav = N]
<1>1. nav.stage = "waiting" /\ Apply(v)
  <2>1. v = [World EXCEPT !.nav.stage = "off", !.nav.queue = <<>>]
    BY WorldFields
  <2>2. QED BY <2>1 DEF SpaOff
<1>2. /\ N \in Navs /\ N.cur = nav.cur /\ N.queue = <<>> /\ N.handle = nav.handle
      /\ N.asked = nav.asked /\ N.observing = nav.observing /\ N.stage = "off"
  <2>1. <<>> \in Seq(Messages)
    OBVIOUS
  <2>2. QED BY <2>1, WorldTypes DEF Navs, Stages
<1> HIDE DEF N
<1>3. NavSet(World, v, N)
  BY <1>2, SetNav, WorldTypes
<1> HIDE DEF v
<1>4. IsWorld(v) /\ v.nav = N /\ v.ixn = ixn /\ v.evt = evt /\ v.clock = clock
  BY <1>3, WorldFields DEF NavSet
<1>5. DOMAIN N.queue = {}
  BY <1>2
<1>6. Core(v, None)
  BY <1>2, <1>4, <1>5, WorldFields DEF Good, Core, OneIsOpen, InOrder, Timed
<1>7. Observed(v) /\ Handles(v)
  BY <1>2, <1>4, <1>5, WorldFields DEF Good, Observed, Handles, Asked, Answered
<1>8. \A d \in Events : (Held(v, d) <=> Held(w, d)) /\ ~Queued(v, d)
  BY <1>4, <1>5, WorldFields DEF Held, Queued
<1>9. HeldOnce(v) /\ QueuedOnce(v)
  BY <1>4, <1>5, WorldFields DEF Good, EventsPlaced, HeldOnce, QueuedOnce
<1>10. ASSUME NEW d \in Events
       PROVE  Placed(v, d) /\ Onward(FateIn(w, d), FateIn(v, d))
  <2>1. Placed(w, d) /\ v.evt[d] = w.evt[d]
    BY <1>4, WorldFields DEF Good, EventsPlaced
  <2>2. Placed(v, d)
    BY <1>8, <2>1 DEF Placed
  <2>3. CASE FateIn(w, d) = "queued"
    <3>1. v.evt[d].at # 0
      BY <2>1, <2>3 DEF FateIn
    <3>2. FateIn(v, d) # "new"
      BY <2>2, <3>1, FatesAreKnown
    <3>3. QED BY <2>2, <2>3, <3>2 DEF Onward
  <2>4. CASE ~Queued(w, d)
    <3>1. (Held(v, d) <=> Held(w, d)) /\ ~Queued(v, d) /\ v.evt[d] = w.evt[d]
      BY <1>8, <2>1
    <3> HIDE DEF w
    <3>2. FateIn(v, d) = FateIn(w, d)
      BY <2>4, <3>1 DEF FateIn
    <3>3. QED BY <2>2, <3>2 DEF Onward
  <2>5. CASE Queued(w, d)
    <3>1. w.evt[d].at # 0 /\ w.evt[d].outcomes = 0 /\ ~Held(w, d)
      BY <2>1, <2>5, WorldTypes, WorldFields DEF Placed, EventTypes
    <3>2. QED BY <2>3, <2>5, <3>1 DEF FateIn
  <2>6. QED BY <2>2, <2>4, <2>5
<1>11. Steps(World, v)
  BY <1>6, <1>7, <1>9, <1>10 DEF Steps, Good, EventsPlaced, Moved
<1>12. QED BY <1>1, <1>11, ApplyMoves

LEMMA TickMoves ==
  ASSUME Good(World), Tick
  PROVE  Moves
<1> DEFINE v == [World EXCEPT !.clock = clock + 1]
<1>1. Apply(v)
  <2>1. v = [World EXCEPT !.clock = @ + 1]
    BY WorldFields
  <2>2. QED BY <2>1 DEF Tick
<1>2. /\ v.nav = nav /\ v.ixn = ixn /\ v.evt = evt /\ v.clock = clock + 1
      /\ v = [nav |-> v.nav, ixn |-> v.ixn, evt |-> v.evt, err |-> v.err, clock |-> v.clock]
  BY DEF World
<1> HIDE DEF v
<1>3. IsWorld(v)
  BY <1>2, WorldTypes DEF IsWorld
<1>4. InOrder(v)
  <2>1. InOrder(World) /\ clock \in Nat
    BY WorldTypes DEF Good, Core
  <2>2. nav.cur # None => ixn[nav.cur].start <= clock + 1
    <3>1. ixn[nav.cur].start \in Nat \/ nav.cur = None
      BY WorldTypes DEF Interactions
    <3>2. QED BY <2>1, <3>1, WorldFields DEF InOrder
  <2>3. ASSUME NEW i \in DOMAIN nav.queue, Timely(nav.queue[i])
        PROVE  nav.queue[i].t <= clock + 1
    <3>1. nav.queue[i].t \in Nat
      <4>1. nav.queue \in Seq(Messages)
        BY WorldTypes DEF Navs
      <4>2. nav.queue[i] \in Messages
        BY <4>1
      <4>3. QED BY <4>2, MessageFacts
    <3>2. QED BY <2>1, <2>3, <3>1, WorldFields DEF InOrder
  <2>4. QED BY <1>2, <2>1, <2>2, <2>3, WorldFields DEF InOrder
<1>5. OneIsOpen(v) /\ Timed(v, None)
  BY <1>2, WorldFields DEF Good, Core, OneIsOpen, Timed
<1>6. Observed(v) /\ Handles(v)
  BY <1>2, WorldFields DEF Good, Observed, Handles, Asked, Answered
<1>7. SameEvents(World, v)
  BY <1>2, WorldFields DEF SameEvents
<1>8. EventsPlaced(v) /\ Moved(World, v, {})
  BY <1>7, SameEventsAdvance, AdvancePlaces DEF Good
<1>9. Steps(World, v)
  BY <1>3, <1>4, <1>5, <1>6, <1>8 DEF Steps, Good, Core
<1>10. QED BY <1>1, <1>9, ApplyMoves

\* The messages of the page that carry nothing
LEMMA EmptySends ==
  ASSUME NEW w, Good(w), w.nav.stage \in {"waiting", "on"},
         NEW kind \in {"newURL", "newDom", "end", "save", "ignore"},
         kind \in OfHandle => w.nav.asked,
         NEW v, v = Send(w, kind, "", w.clock)
  PROVE  Steps(w, v)
<1> DEFINE m == [kind |-> kind, arg |-> "", t |-> w.clock, n |-> w.nav.starts]
<1>1. w.clock \in Nat /\ w.nav.starts \in Ixns
  BY DEF Good, Core, IsWorld, Navs
<1>2. m \in Messages /\ m.kind = kind /\ m.t = w.clock
  BY <1>1 DEF Messages
<1>3. Sendable(w, m)
  BY <1>2 DEF Sendable, Good, Handles, Timely
<1>4. Sent(w, v, m)
  BY <1>3, SendSends
<1>5. QED BY <1>4 DEF Sent, Steps, Good

LEMMA PushStateMoves ==
  ASSUME Good(World), PushState
  PROVE  Moves
<1> DEFINE v == Send(World, "newURL", "", clock)
<1>1. /\ Apply(v) /\ World.nav.stage \in {"waiting", "on"}
      /\ v = Send(World, "newURL", "", World.clock)
  BY WorldFields DEF PushState, Sends
<1> HIDE DEF v
<1>2. Steps(World, v)
  BY <1>1, EmptySends DEF OfHandle
<1>3. QED BY <1>1, <1>2, ApplyMoves

LEMMA DomChangesMoves ==
  ASSUME Good(World), DomChanges
  PROVE  Moves
<1> DEFINE v == Send(World, "newDom", "", clock)
<1>1. /\ Apply(v) /\ World.nav.stage \in {"waiting", "on"}
      /\ v = Send(World, "newDom", "", World.clock)
  BY WorldFields DEF DomChanges, Sends
<1> HIDE DEF v
<1>2. Steps(World, v)
  BY <1>1, EmptySends DEF OfHandle
<1>3. QED BY <1>1, <1>2, ApplyMoves

LEMMA HandleApiMoves ==
  ASSUME Good(World), NEW kind \in {"end", "save", "ignore"}, HandleApi(kind)
  PROVE  Moves
<1> DEFINE v == Send(World, kind, "", clock)
<1>1. /\ Apply(v) /\ World.nav.stage \in {"waiting", "on"} /\ v = Send(World, kind, "", World.clock)
      /\ World.nav.asked
  BY WorldFields DEF HandleApi, Sends
<1> HIDE DEF v
<1>2. Steps(World, v)
  BY <1>1, EmptySends
<1>3. QED BY <1>1, <1>2, ApplyMoves

\* An event of the user: the observer starts after the message was handled
LEMMA UserInputSteps ==
  ASSUME NEW w, Good(w), w.nav.stage \in {"waiting", "on"}, w.nav.starts < MaxIxns,
         NEW arg \in {"click", "popstate"},
         NEW v, v = Observe(Send(Starts(w), "newUIEvent", arg, w.clock))
  PROVE  Steps(w, v) /\ v.nav.stage = w.nav.stage /\ v.clock = w.clock
<1> DEFINE u == Starts(w)
           m == [kind |-> "newUIEvent", arg |-> arg, t |-> u.clock, n |-> u.nav.starts]
           y == Send(u, "newUIEvent", arg, u.clock)
<1>1. /\ Steps(w, u) /\ u.nav.starts \in Later /\ u.nav.stage = w.nav.stage /\ u.clock = w.clock
  BY StartsSteps
<1>2. v = Observe(y)
  BY <1>1
<1> HIDE DEF u
<1>3. Good(u) /\ Moved(w, u, {}) /\ u.clock \in Nat
  BY <1>1 DEF Steps, Good, Core, IsWorld
<1>4. m \in Messages /\ m.kind = "newUIEvent" /\ m.t = u.clock
  BY <1>1, <1>3 DEF Messages
<1>5. Sendable(u, m)
  BY <1>1, <1>3, <1>4 DEF Sendable, Good, Handles, Timely, OfHandle
<1> HIDE DEF y
<1>6. Sent(u, y, m)
  BY <1>5, SendSends DEF y
<1>7. /\ Core(y, None) /\ EventsPlaced(y) /\ Handles(y) /\ Moved(u, y, {})
      /\ y.nav.stage = u.nav.stage /\ y.clock = u.clock
  BY <1>6 DEF Sent
<1>8. Steps(y, v) /\ v.nav.stage = y.nav.stage /\ v.clock = y.clock
  BY <1>2, <1>7, ObserveSteps
<1>9. QED BY <1>1, <1>3, <1>7, <1>8, StepsAreTransitive

LEMMA UserEventMoves ==
  ASSUME Good(World), UserEvent
  PROVE  Moves
<1> DEFINE v == Observe(Send(Starts(World), "newUIEvent", "click", clock))
<1>1. /\ Apply(v) /\ World.nav.stage \in {"waiting", "on"} /\ World.nav.starts < MaxIxns
      /\ v = Observe(Send(Starts(World), "newUIEvent", "click", World.clock))
  BY WorldFields DEF UserEvent, Sends
<1> HIDE DEF v
<1>2. Steps(World, v)
  BY <1>1, UserInputSteps
<1>3. QED BY <1>1, <1>2, ApplyMoves

LEMMA PopstateMoves ==
  ASSUME Good(World), NEW debounced \in BOOLEAN, Popstate(debounced)
  PROVE  Moves
<1> DEFINE u == IF debounced THEN World
                ELSE Observe(Send(Starts(World), "newUIEvent", "popstate", clock))
           v == Send(u, "newURL", "", clock)
<1>1. /\ Apply(v) /\ World.nav.stage \in {"waiting", "on"} /\ World.nav.starts < MaxIxns
  BY WorldFields DEF Popstate, Sends
<1>2. Steps(World, u) /\ u.nav.stage = World.nav.stage /\ u.clock = World.clock
  <2>1. CASE debounced
    <3>1. u = World
      BY <2>1
    <3>2. Moved(World, World, {})
      BY DEF Moved, Onward
    <3>3. QED BY <3>1, <3>2 DEF Steps
  <2>2. CASE ~debounced
    <3>1. u = Observe(Send(Starts(World), "newUIEvent", "popstate", World.clock))
      BY <2>2, WorldFields
    <3> HIDE DEF u
    <3>2. QED BY <1>1, <3>1, UserInputSteps
  <2>3. QED BY <2>1, <2>2
<1> HIDE DEF u
<1>3. v = Send(u, "newURL", "", u.clock)
  BY <1>2, WorldFields
<1> HIDE DEF v
<1>4. Good(u) /\ Moved(World, u, {})
  BY <1>2 DEF Steps
<1>5. Steps(u, v)
  BY <1>1, <1>2, <1>3, <1>4, EmptySends DEF OfHandle
<1>6. QED BY <1>1, <1>4, <1>5, StepsAreTransitive, ApplyMoves

LEMMA GetApiMoves ==
  ASSUME Good(World), NEW opts \in Opts, GetApi(opts)
  PROVE  Moves
<1> DEFINE s == Starts(World)
           N == [s.nav EXCEPT !.asked = TRUE]
           u == [s EXCEPT !.nav = N]
           m == [kind |-> "get", arg |-> opts, t |-> u.clock, n |-> u.nav.starts]
           v == Send(u, "get", opts, clock)
<1>1. /\ Steps(World, s) /\ s.nav.starts \in Later /\ s.nav.stage = nav.stage /\ s.clock = clock
  BY StartsSteps, WorldFields DEF GetApi
<1>2. Good(s) /\ Moved(World, s, {}) /\ IsWorld(s) /\ s.nav \in Navs /\ clock \in Nat
  BY <1>1, WorldTypes DEF Steps, Good, Core, IsWorld
<1>3. Apply(v) /\ nav.stage \in {"waiting", "on"}
  <2>1. u = [s EXCEPT !.nav.asked = TRUE]
    BY <1>2 DEF IsWorld
  <2>2. QED BY <2>1 DEF GetApi, Sends
<1> HIDE DEF s
<1>4. /\ N \in Navs /\ N.cur = s.nav.cur /\ N.queue = s.nav.queue /\ N.handle = s.nav.handle
      /\ N.starts = s.nav.starts /\ N.observing = s.nav.observing /\ N.stage = s.nav.stage
  BY <1>2 DEF Navs
<1> HIDE DEF N
<1>5. NavSet(s, u, N)
  BY <1>2, <1>4, SetNav
<1> HIDE DEF u
<1>6. NavHolds(s, u)
  BY <1>2, <1>4, <1>5, NavChanges
<1>7. /\ Core(u, None) /\ EventsPlaced(u) /\ Observed(u) /\ Moved(s, u, {})
      /\ u.nav = N /\ u.clock = clock
  BY <1>1, <1>5, <1>6 DEF NavHolds, NavSet
<1>8. Answered(u)
  BY <1>2, <1>4, <1>7 DEF Good, Handles, Answered
<1>9. m \in Messages /\ m.kind = "get" /\ m.t = u.clock
  BY <1>1, <1>2, <1>4, <1>7 DEF Messages
<1>10. Sendable(u, m)
  BY <1>1, <1>3, <1>4, <1>7, <1>8, <1>9 DEF Sendable, Timely, OfHandle
<1>11. v = Send(u, "get", opts, u.clock)
  BY <1>7
<1> HIDE DEF v
<1>12. Sent(u, v, m)
  BY <1>10, <1>11, SendSends
<1>13. Steps(u, v)
  BY <1>9, <1>12 DEF Sent, Steps, Good
<1>14. Steps(World, v)
  BY <1>2, <1>7, <1>13, StepsAreTransitive
<1>15. QED BY <1>3, <1>14, ApplyMoves

\* The interaction in progress changes: the timers of i may all have fired
LEMMA CurrentChanges ==
  ASSUME NEW w, Good(w), NEW k \in Ixns, k = w.nav.cur, NEW x \in Interactions,
         x.status = w.ixn[k].status, x.start = w.ixn[k].start, x.live = w.ixn[k].live,
         x.withheld = w.ixn[k].withheld, NEW i \in {k, None}, i = k \/ x.timers # {},
         NEW v, v = [w EXCEPT !.ixn = [w.ixn EXCEPT ![k] = x]]
  PROVE  /\ Core(v, i) /\ EventsPlaced(v) /\ Observed(v) /\ Handles(v) /\ Moved(w, v, {})
         /\ v.nav = w.nav /\ v.ixn[k] = x /\ v.clock = w.clock
<1>1. IsWorld(w) /\ Core(w, None)
  BY DEF Good, Core
<1>2. IxnSet(w, v, k, x)
  BY <1>1, SetIxn
<1>3. /\ v.nav = w.nav /\ v.clock = w.clock /\ v.ixn[k] = x
      /\ \A n \in Ixns : n # k => v.ixn[n] = w.ixn[n]
  BY <1>2 DEF IxnSet
<1>4. Core(v, i) /\ SameEvents(w, v)
  <2>1. None \in {i, k, None} /\ None \in Ixns \cup {None} /\ i \in Ixns \cup {None}
    OBVIOUS
  <2>2. x.status \in Open <=> w.ixn[k].status \in Open
    OBVIOUS
  <2>3. x.timers # {} => k = w.nav.cur
    OBVIOUS
  <2>4. k = w.nav.cur => k = i \/ x.trigger = "api" \/ x.keepOpen \/ x.timers # {}
    OBVIOUS
  <2>5. QED BY <1>1, <1>2, <2>1, <2>2, <2>3, <2>4, IxnCore
<1>5. EventsPlaced(v) /\ Moved(w, v, {})
  BY <1>4, SameEventsAdvance, AdvancePlaces DEF Good
<1>6. Observed(v)
  BY <1>3 DEF Good, Observed
<1>7. Handles(v)
  BY <1>3 DEF Good, Handles, Asked, Answered
<1>8. QED BY <1>3, <1>4, <1>5, <1>6, <1>7

LEMMA LongTaskMoves ==
  ASSUME Good(World), LongTask
  PROVE  Moves
<1> DEFINE k == nav.cur
           T == (ixn[k].timers \ {"task"}) \cup {"longtask"}
           x == [ixn[k] EXCEPT !.customEnd = clock, !.timers = T]
           v == [World EXCEPT !.ixn = [ixn EXCEPT ![k] = x]]
<1>1. k \in Ixns /\ ixn[k] \in Interactions /\ clock \in Nat
  BY WorldTypes DEF LongTask
<1>2. Apply(v)
  <2>1. v = [World EXCEPT !.ixn[nav.cur].customEnd = clock,
                          !.ixn[nav.cur].timers = (@ \ {"task"}) \cup {"longtask"}]
    BY <1>1, WorldTypes DEF World
  <2>2. QED BY <2>1 DEF LongTask
<1>3. T \subseteq TimerNames /\ T # {}
  BY <1>1 DEF Interactions, TimerNames
<1>4. /\ x \in Interactions /\ x.status = ixn[k].status /\ x.start = ixn[k].start
      /\ x.live = ixn[k].live /\ x.withheld = ixn[k].withheld /\ x.timers = T
  <2> HIDE DEF T
  <2>1. QED BY <1>1, <1>3 DEF Interactions
<1> HIDE DEF x
<1>5. /\ Core(v, None) /\ EventsPlaced(v) /\ Observed(v) /\ Handles(v) /\ Moved(World, v, {})
  BY <1>1, <1>3, <1>4, CurrentChanges, WorldFields
<1> HIDE DEF v
<1>6. Steps(World, v)
  BY <1>5 DEF Steps, Good
<1>7. QED BY <1>2, <1>6, ApplyMoves

\* A timer fires: it is one of the interaction in progress, and perhaps its last one
LEMMA FiredMoves ==
  ASSUME Good(World), NEW k \in Ixns, NEW name, name \in ixn[k].timers,
         NEW u, u = [World EXCEPT !.ixn[k].timers = ixn[k].timers \ {name}],
         Apply(DoneByItself(u, nav.cur)) \/ Apply(DoneByItself(u, k))
  PROVE  Moves
<1> DEFINE T == ixn[k].timers \ {name}
           x == [ixn[k] EXCEPT !.timers = T]
           v == DoneByItself(u, k)
<1>1. k = nav.cur /\ ixn[k] \in Interactions
  BY WorldTypes, WorldFields DEF Good, Core, OneIsOpen
<1>2. u = [World EXCEPT !.ixn = [ixn EXCEPT ![k] = x]]
  BY WorldTypes, WorldFields DEF World
<1>3. T \subseteq TimerNames
  BY <1>1 DEF Interactions
<1>4. /\ x \in Interactions /\ x.status = ixn[k].status /\ x.start = ixn[k].start
      /\ x.live = ixn[k].live /\ x.withheld = ixn[k].withheld
  <2> HIDE DEF T
  <2>1. QED BY <1>1, <1>3 DEF Interactions
<1> HIDE DEF x
<1>5. /\ Core(u, k) /\ EventsPlaced(u) /\ Observed(u) /\ Handles(u) /\ Moved(World, u, {})
      /\ u.nav = nav
  BY <1>1, <1>2, <1>4, CurrentChanges, WorldFields
<1>6. Reacts(u, v) /\ Observed(v)
  BY <1>1, <1>5, DoneByItselfReacts
<1>7. Apply(v)
  BY <1>1
<1> HIDE DEF v
<1>8. Steps(u, v)
  BY <1>5, <1>6, ReactsSteps
<1>9. QED BY <1>5, <1>7, <1>8, StepsAreTransitive, ApplyMoves

LEMMA TimerMoves ==
  ASSUME Good(World), Timer
  PROVE  Moves
<1>1. PICK k \in Ixns : CancelTimer(k) \/ TaskTimer(k) \/ LongTaskTimer(k)
  BY DEF Timer
<1>2. CASE CancelTimer(k)
  <2>1. /\ "cancel" \in ixn[k].timers
        /\ Apply(DoneByItself([World EXCEPT !.ixn[k].timers = ixn[k].timers \ {"cancel"}], nav.cur))
    BY <1>2, WorldFields DEF CancelTimer
  <2>2. QED BY <2>1, FiredMoves
<1>3. CASE TaskTimer(k)
  <2>1. /\ "task" \in ixn[k].timers
        /\ Apply(DoneByItself([World EXCEPT !.ixn[k].timers = ixn[k].timers \ {"task"}], k))
    BY <1>3, WorldFields DEF TaskTimer
  <2>2. QED BY <2>1, FiredMoves
<1>4. CASE LongTaskTimer(k)
  <2>1. /\ "longtask" \in ixn[k].timers
        /\ Apply(DoneByItself([World EXCEPT !.ixn[k].timers = ixn[k].timers \ {"longtask"}],
                              nav.cur))
    BY <1>4, WorldFields DEF LongTaskTimer
  <2>2. QED BY <2>1, FiredMoves
<1>5. QED BY <1>1, <1>2, <1>3, <1>4

LEMMA LoadEventMoves ==
  ASSUME Good(World), LoadEvent
  PROVE  Moves
<1> DEFINE N == [nav EXCEPT !.loaded = TRUE]
           u == [World EXCEPT !.nav = N]
           v == Done(u, PageLoad, clock, FALSE)
<1>1. Apply(v)
  <2>1. u = [World EXCEPT !.nav.loaded = TRUE]
    BY WorldFields
  <2>2. QED BY <2>1 DEF LoadEvent
<1>2. /\ N \in Navs /\ N.cur = nav.cur /\ N.queue = nav.queue /\ N.handle = nav.handle
      /\ N.asked = nav.asked /\ N.observing = nav.observing /\ N.stage = nav.stage
  BY WorldTypes DEF Navs
<1> HIDE DEF N
<1>3. Steps(World, u)
  BY <1>2, NavSteps, WorldFields
<1> HIDE DEF u
<1>4. /\ Good(u) /\ Moved(World, u, {}) /\ Core(u, None) /\ EventsPlaced(u) /\ Handles(u)
      /\ Observed(u)
  BY <1>3 DEF Steps, Good
<1>5. Reacts(u, v) /\ Observed(v)
  <2>1. clock \in Nat /\ PageLoad \in Ixns
    BY WorldTypes, IxnsAreNumbers
  <2>2. QED BY <1>4, <2>1, DoneReacts
<1> HIDE DEF v
<1>6. Steps(u, v)
  BY <1>4, <1>5, ReactsSteps
<1>7. QED BY <1>1, <1>4, <1>6, StepsAreTransitive, ApplyMoves

LEMMA ReportMoves ==
  ASSUME Good(World), NEW e \in Events, NEW t \in Nat \ {0}, Occurs(e), Apply(Report(World, e, t))
  PROVE  Moves
<1>1. Steps(World, Report(World, e, t))
  BY ReportSteps, WorldFields DEF Occurs
<1>2. QED BY <1>1, ApplyMoves

LEMMA HarvestsMove ==
  ASSUME Good(World), HarvestNavs \/ HarvestErrors
  PROVE  Moves
<1>1. IsWorld(World)
  BY WorldTypes
<1>2. Keeps(World, Harvest(World)) /\ Keeps(World, SendErrors(World))
  BY <1>1, HarvestKeeps, SendErrorsKeeps
<1>3. Steps(World, Harvest(World)) /\ Steps(World, SendErrors(World))
  BY <1>2, KeepsSteps
<1>4. QED BY <1>3, ApplyMoves DEF HarvestNavs, HarvestErrors

\* beforeUnload, and the final harvest
LEMMA HideMoves ==
  ASSUME Good(World), Hide
  PROVE  Moves
<1> DEFINE N == [nav EXCEPT !.hidden = TRUE]
           u == [World EXCEPT !.nav = N]
           y == IF nav.stage = "on" THEN DoneByItself(u, nav.cur) ELSE u
           v == SendErrors(Harvest(y))
<1>1. Apply(v)
  <2>1. u = [World EXCEPT !.nav.hidden = TRUE]
    BY WorldFields
  <2>2. QED BY <2>1 DEF Hide
<1>2. /\ N \in Navs /\ N.cur = nav.cur /\ N.queue = nav.queue /\ N.handle = nav.handle
      /\ N.asked = nav.asked /\ N.observing = nav.observing /\ N.stage = nav.stage
  BY WorldTypes DEF Navs
<1> HIDE DEF N
<1>3. Steps(World, u)
  BY <1>2, NavSteps, WorldFields
<1> HIDE DEF u
<1>4. /\ Good(u) /\ Moved(World, u, {}) /\ Core(u, None) /\ EventsPlaced(u) /\ Handles(u)
      /\ Observed(u)
  BY <1>3 DEF Steps, Good
<1>5. Steps(u, y)
  <2>1. CASE nav.stage = "on"
    <3>1. y = DoneByItself(u, nav.cur) /\ nav.cur \in Ixns \cup {None}
      BY <2>1, WorldTypes
    <3> HIDE DEF y
    <3>2. Reacts(u, y) /\ Observed(y)
      BY <1>4, <3>1, DoneByItselfReacts
    <3>3. QED BY <1>4, <3>2, ReactsSteps
  <2>2. CASE nav.stage # "on"
    <3>1. y = u
      BY <2>2
    <3>2. QED BY <1>4, <3>1 DEF Steps, Moved, Onward
  <2>3. QED BY <2>1, <2>2
<1> HIDE DEF y
<1>6. Good(y) /\ IsWorld(y)
  BY <1>5 DEF Steps, Good, Core
<1>7. Steps(y, Harvest(y)) /\ IsWorld(Harvest(y))
  <2>1. Keeps(y, Harvest(y))
    BY <1>6, HarvestKeeps
  <2>2. QED BY <1>6, <2>1, KeepsSteps DEF Keeps
<1>8. Steps(Harvest(y), v)
  <2>1. Keeps(Harvest(y), v)
    BY <1>7, SendErrorsKeeps
  <2>2. Good(Harvest(y))
    BY <1>7 DEF Steps
  <2>3. QED BY <2>1, <2>2, KeepsSteps
<1> HIDE DEF v
<1>9. Steps(World, v)
  <2>1. Moved(World, y, {})
    BY <1>4, <1>5, StepsAreTransitive DEF Steps
  <2>2. Steps(y, v)
    BY <1>7, <1>8, StepsAreTransitive DEF Steps
  <2>3. QED BY <2>1, <2>2, StepsAreTransitive
<1>10. QED BY <1>1, <1>9, ApplyMoves

-----------------------------------------------------------------------------
(***************************************************************************)
(* The invariant holds at first, and every step keeps it.                  *)
(***************************************************************************)
LEMMA InteractionsAtFirst ==
  /\ NewInteraction("initialPageLoad", 0) \in Interactions
  /\ NewInteraction("initialPageLoad", 0).status = "in progress"
  /\ NewInteraction("initialPageLoad", 0).timers = {}
  /\ NewInteraction("initialPageLoad", 0).withheld = <<>>
  /\ NoInteraction \in Interactions /\ NoInteraction.status = "none"
  /\ NoInteraction.timers = {} /\ NoInteraction.withheld = <<>>
<1>1. <<>> \in Seq(Events)
  OBVIOUS
<1>2. {"in progress", "none"} \subseteq Statuses /\ {"initialPageLoad", "none"} \subseteq Triggers
  BY DEF Statuses, Open, Triggers
<1> DEFINE s == <<>>
           x == NewInteraction("initialPageLoad", 0)
           y == NewInteraction("none", 0)
<1>3. /\ x = [trigger |-> "initialPageLoad", start |-> 0, end |-> 0, status |-> "in progress",
              hist |-> 0, dom |-> 0, customEnd |-> 0, keepOpen |-> FALSE, forceSave |-> FALSE,
              forceIgnore |-> FALSE, timers |-> {}, watching |-> FALSE, withheld |-> s,
              children |-> {}, sent |-> FALSE, live |-> TRUE]
      /\ y = [trigger |-> "none", start |-> 0, end |-> 0, status |-> "in progress",
              hist |-> 0, dom |-> 0, customEnd |-> 0, keepOpen |-> FALSE, forceSave |-> FALSE,
              forceIgnore |-> FALSE, timers |-> {}, watching |-> FALSE, withheld |-> s,
              children |-> {}, sent |-> FALSE, live |-> TRUE]
      /\ NoInteraction = [y EXCEPT !.status = "none"]
  BY DEF NewInteraction, NoInteraction
<1>4. s \in Seq(Events)
  BY <1>1
<1> HIDE DEF s, x, y
<1>5. x \in Interactions /\ y \in Interactions
  BY <1>2, <1>3, <1>4 DEF Interactions
<1>6. NoInteraction \in Interactions
  BY <1>2, <1>3, <1>5 DEF Interactions
<1>7. x.status = "in progress" /\ x.timers = {} /\ x.withheld = s
  BY <1>3
<1>8. /\ NoInteraction.status = "none" /\ NoInteraction.timers = {}
      /\ NoInteraction.withheld = s
  BY <1>3
<1>9. s = <<>> /\ x = NewInteraction("initialPageLoad", 0)
  BY DEF s, x
<1>10. QED BY <1>5, <1>6, <1>7, <1>8, <1>9

LEMMA InitIsGood == Init => IInv /\ \A e \in Events : FateIn(World, e) = "new"
<1> SUFFICES ASSUME Init PROVE IInv /\ \A e \in Events : FateIn(World, e) = "new"
  OBVIOUS
<1>1. PICK visit \in Visits :
        nav = [visit |-> visit, stage |-> visit.stage, cur |-> None, handle |-> None,
               asked |-> FALSE, buffer |-> {}, queue |-> <<>>, starts |-> 1,
               observing |-> FALSE, loaded |-> FALSE, hidden |-> FALSE]
  BY DEF Init
<1>2. visit.stage \in Stages
  BY DEF Stages
<1>3. /\ nav \in Navs /\ nav.cur = None /\ nav.queue = <<>> /\ ~nav.asked
      /\ DOMAIN nav.queue = {}
  <2>1. <<>> \in Seq(Messages) /\ 1 \in Ixns
    BY IxnsAreNumbers DEF PageLoad
  <2> DEFINE s == <<>>
  <2>2. s \in Seq(Messages)
    BY <2>1
  <2>3. nav = [visit |-> visit, stage |-> visit.stage, cur |-> None, handle |-> None,
               asked |-> FALSE, buffer |-> {}, queue |-> s, starts |-> 1,
               observing |-> FALSE, loaded |-> FALSE, hidden |-> FALSE]
    BY <1>1
  <2> HIDE DEF s
  <2>4. nav \in Navs
    BY <1>2, <2>1, <2>2, <2>3 DEF Navs
  <2>5. nav.cur = None /\ nav.queue = s /\ ~nav.asked
    BY <2>3
  <2>6. QED BY <2>4, <2>5 DEF s
<1>4. \A n \in Ixns : /\ ixn[n] \in Interactions /\ ixn[n].timers = {} /\ ixn[n].withheld = <<>>
                      /\ ixn[n].status \in Open => n = PageLoad
  <2>1. \A n \in Ixns : ixn[n] = IF n = PageLoad THEN NewInteraction("initialPageLoad", 0)
                                ELSE NoInteraction
    BY DEF Init
  <2>2. QED BY <2>1, InteractionsAtFirst, StatusesAreOpenOrNot
<1>5. ixn \in [Ixns -> Interactions]
  <2>1. ixn = [n \in Ixns |-> ixn[n]]
    BY DEF Init
  <2>2. QED BY <1>4, <2>1
<1>6. evt \in [Events -> EventTypes] /\ \A e \in Events : evt[e].at = 0 /\ evt[e].outcomes = 0
  BY DEF Init, EventTypes
<1>7. clock \in Nat \ {0}
  BY DEF Init
<1>8. IsWorld(World)
  BY <1>3, <1>5, <1>6, <1>7 DEF IsWorld, World
<1>9. Core(World, None)
  BY <1>3, <1>4, <1>8, WorldFields DEF Core, OneIsOpen, InOrder, Timed
<1>10. Observed(World) /\ Handles(World)
  BY <1>3, WorldFields DEF Observed, Handles, Asked, Answered
<1>11. \A e \in Events : ~Held(World, e) /\ ~Queued(World, e)
  <2>1. Range(<<>>) = {}
    BY DEF Range
  <2>2. QED BY <1>3, <1>4, <2>1, WorldFields DEF Held, Queued
<1>12. EventsPlaced(World)
  <2>1. DOMAIN <<>> = {}
    OBVIOUS
  <2>2. HeldOnce(World)
    BY <1>4, <2>1, WorldFields DEF HeldOnce
  <2>3. QueuedOnce(World)
    BY <1>3, WorldFields DEF QueuedOnce
  <2>4. ASSUME NEW e \in Events PROVE Placed(World, e)
    BY <1>6, <1>11, WorldFields DEF Placed
  <2>5. QED BY <2>2, <2>3, <2>4 DEF EventsPlaced
<1>13. \A e \in Events : FateIn(World, e) = "new"
  BY <1>6, WorldFields DEF FateIn
<1>14. QED BY <1>9, <1>10, <1>12, <1>13 DEF IInv, Good

LEMMA NextMoves == IInv /\ Next => Moves
<1> SUFFICES ASSUME Good(World), Next PROVE Moves
  BY DEF IInv
<1>1. CASE nav.stage = "draining"
  BY <1>1, DrainOneMoves, DrainedMoves DEF Next
<1>2. CASE nav.stage # "draining"
  <2>1. Event
    BY <1>2 DEF Next
  <2>2. CASE Tick \/ SpaOn \/ SpaOff
    BY <2>2, TickMoves, SpaOnMoves, SpaOffMoves
  <2>3. CASE UserEvent \/ PushState \/ DomChanges
    BY <2>3, UserEventMoves, PushStateMoves, DomChangesMoves
  <2>4. CASE LongTask \/ LoadEvent \/ Timer
    BY <2>4, LongTaskMoves, LoadEventMoves, TimerMoves
  <2>5. CASE HarvestNavs \/ HarvestErrors \/ Hide
    BY <2>5, HarvestsMove, HideMoves
  <2>6. CASE \E debounced \in BOOLEAN : Popstate(debounced)
    BY <2>6, PopstateMoves
  <2>7. CASE \E opts \in [waitForEnd : BOOLEAN, targetPageLoad : BOOLEAN] : GetApi(opts)
    BY <2>7, GetApiMoves DEF Opts
  <2>8. CASE \E kind \in {"end", "save", "ignore"} : HandleApi(kind)
    BY <2>8, HandleApiMoves
  <2>9. CASE \E e \in Requests, t \in 1..MaxTime : RequestEnds(e, t)
    <3>1. PICK e \in Requests, t \in 1..MaxTime : RequestEnds(e, t)
      BY <2>9
    <3>2. e \in Events /\ t \in Nat \ {0}
      BY DEF Events
    <3>3. QED BY <3>1, <3>2, ReportMoves DEF RequestEnds
  <2>10. CASE \E e \in Errors : ErrorOccurs(e)
    <3>1. PICK e \in Errors : ErrorOccurs(e)
      BY <2>10
    <3>2. e \in Events /\ clock \in Nat \ {0}
      BY WorldTypes DEF Events
    <3>3. QED BY <3>1, <3>2, ReportMoves DEF ErrorOccurs
  <2>11. QED BY <2>1, <2>2, <2>3, <2>4, <2>5, <2>6, <2>7, <2>8, <2>9, <2>10 DEF Event
<1>3. QED BY <1>1, <1>2

LEMMA StutterKeeps == UNCHANGED vars => World' = World
  BY DEF vars, World

\* The inductive invariant: what an interaction in progress, its timers and its observer
\* have to do with each other, and where every event is.
THEOREM SoftNavInvariant == Spec => []IInv
<1>1. Init => IInv
  BY InitIsGood
<1>2. IInv /\ [Next]_vars => IInv'
  <2> SUFFICES ASSUME IInv, [Next]_vars PROVE IInv'
    OBVIOUS
  <2>1. CASE Next
    BY <2>1, NextMoves DEF Moves, IInv
  <2>2. CASE UNCHANGED vars
    BY <2>2, StutterKeeps DEF IInv
  <2>3. QED BY <2>1, <2>2
<1>3. QED BY <1>1, <1>2, PTL DEF Spec

\* Only the interaction in progress has timers, so the timer that fires for "the current
\* one" closes the interaction it was set for.
THEOREM TimersCloseTheirOwn == Spec => []TimersAreOfTheCurrent
<1>1. IInv => TimersAreOfTheCurrent
  BY WorldFields DEF IInv, Good, Core, OneIsOpen, TimersAreOfTheCurrent
<1>2. QED BY <1>1, SoftNavInvariant, PTL

\* The DOM is observed while an interaction that began after the drain is open.
THEOREM LiveIsObserved == Spec => []ObservedWhileOpen
<1>1. IInv => ObservedWhileOpen
  BY WorldFields DEF IInv, Good, Observed, ObservedWhileOpen
<1>2. QED BY <1>1, SoftNavInvariant, PTL

\* An interaction of the user that is open has a timer that will close it.
THEOREM UserInteractionsAreTimed == Spec => []OpenIsTimed
<1>1. IInv => OpenIsTimed
  BY WorldFields, IxnsAreNumbers DEF IInv, Good, Core, Timed, OpenIsTimed
<1>2. QED BY <1>1, SoftNavInvariant, PTL

-----------------------------------------------------------------------------
(***************************************************************************)
(* SoftNav implements Handover.                                            *)
(***************************************************************************)
LEMMA FateIsFateIn == \A e \in Events : Fate(e) = FateIn(World, e)
<1> SUFFICES ASSUME NEW e \in Events PROVE Fate(e) = FateIn(World, e)
  OBVIOUS
<1>1. (Withheld(e) <=> Held(World, e)) /\ (Waits(e) <=> Queued(World, e))
  BY WorldFields DEF Withheld, Held, Waits, Queued
<1>2. QED BY <1>1, WorldFields DEF Fate, FateIn

LEMMA FateIsFateInNext == \A e \in Events : Fate(e)' = FateIn(World', e)
<1> SUFFICES ASSUME NEW e \in Events PROVE Fate(e)' = FateIn(World', e)
  OBVIOUS
<1>1. /\ World'.nav = nav' /\ World'.ixn = ixn' /\ World'.evt = evt' /\ World'.err = err'
      /\ World'.clock = clock'
  BY DEF World
<1>2. (Withheld(e)' <=> Held(World', e)) /\ (Waits(e)' <=> Queued(World', e))
  BY <1>1 DEF Withheld, Held, Waits, Queued
<1>3. QED BY <1>1, <1>2 DEF Fate, FateIn

\* The fates a step may lead to are those Handover allows.
LEMMA OnwardIsAllowed ==
  ASSUME NEW a \in Handovers!Fates, NEW b \in Handovers!Fates, Onward(a, b)
  PROVE  b \in Handovers!Moves[a]
  BY DEF Handovers!Fates, Handovers!Moves, Onward

LEMMA FatesAreAbstract == IInv => \A e \in Events : FateIn(World, e) \in Handovers!Fates
<1> SUFFICES ASSUME IInv, NEW e \in Events PROVE FateIn(World, e) \in Handovers!Fates
  OBVIOUS
<1>1. Placed(World, e)
  BY DEF IInv, Good, EventsPlaced
<1>2. QED BY <1>1, FatesAreKnown DEF Handovers!Fates

\* Every event handed over has one outcome, which is final, and what an interaction
\* withholds is neither lost nor given back twice.
THEOREM EventsAreHandedOver == Spec => ImplementsHandover
<1> DEFINE fate == [e \in Events |-> Fate(e)]
<1>1. Init => Handovers!Init
  <2> SUFFICES ASSUME Init PROVE fate = [e \in Events |-> "new"]
    BY DEF Handovers!Init
  <2>1. \A e \in Events : Fate(e) = "new"
    BY InitIsGood, FateIsFateIn
  <2>2. QED BY <2>1
<1>2. IInv /\ IInv' /\ [Next]_vars => [Handovers!Next]_fate
  <2> SUFFICES ASSUME IInv, IInv', [Next]_vars
               PROVE  Handovers!Next \/ fate' = fate
    OBVIOUS
  <2>1. CASE Next
    <3>1. ASSUME NEW e \in Events
          PROVE  /\ Fate(e) \in Handovers!Fates /\ Fate(e)' \in Handovers!Fates
                 /\ Fate(e)' \in Handovers!Moves[Fate(e)]
      <4>1. Onward(FateIn(World, e), FateIn(World', e))
        BY <2>1, NextMoves DEF Moves
      <4>2. FateIn(World, e) \in Handovers!Fates
        BY FatesAreAbstract
      <4>3. FateIn(World', e) \in Handovers!Fates
        <5>1. Placed(World', e)
          BY DEF IInv, Good, EventsPlaced
        <5>2. QED BY <5>1, FatesAreKnown DEF Handovers!Fates
      <4>4. FateIn(World', e) \in Handovers!Moves[FateIn(World, e)]
        BY <4>1, <4>2, <4>3, OnwardIsAllowed
      <4>5. QED BY <4>2, <4>3, <4>4, FateIsFateIn, FateIsFateInNext
    <3>2. fate' = [e \in Events |-> Fate(e)'] /\ \A e \in Events : fate[e] = Fate(e)
      OBVIOUS
    <3>3. fate' \in [Events -> Handovers!Fates]
      BY <3>1, <3>2
    <3>4. \A e \in Events : fate'[e] \in Handovers!Moves[fate[e]]
      BY <3>1, <3>2
    <3>5. QED BY <3>3, <3>4 DEF Handovers!Next
  <2>2. CASE UNCHANGED vars
    <3>1. ASSUME NEW e \in Events PROVE Fate(e)' = Fate(e)
      BY <2>2, StutterKeeps, FateIsFateIn, FateIsFateInNext
    <3>2. QED BY <3>1
  <2>3. QED BY <2>1, <2>2
<1>3. QED BY <1>1, <1>2, SoftNavInvariant, PTL DEF Spec, ImplementsHandover, Handovers!Spec

=============================================================================
