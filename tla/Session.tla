------------------------------- MODULE Session -------------------------------
(***************************************************************************)
(* SessionEntity: the tabs of one origin share a session record in local   *)
(* storage.  Each tab keeps a copy of it and two timers, one for the hard  *)
(* expiry and one for inactivity, and learns of other tabs' writes through *)
(* storage events, which arrive later and in order.                        *)
(*                                                                         *)
(* JavaScript runs a callback to completion, so what it does to storage,   *)
(* copy and timers is one step, composed here from functions on a world:   *)
(* what the running tab sees.  The clock is in coarse units; a timer may   *)
(* fire late.  The millisecond in which a page loads exactly when a stored *)
(* timestamp is reached is left out (Timer refuses 0 ms, and the next      *)
(* feature's import tries again).                                          *)
(***************************************************************************)
EXTENDS Naturals, Sequences

CONSTANTS
  Tab,          \* pages of the origin that may be open
  ExpiresMs,    \* init.session.expiresMs
  InactiveMs,   \* init.session.inactiveMs
  None,         \* no record in storage
  Reopens,      \* whether pages close and load again
  LoadVisible,  \* whether pages load visible, hidden or either
  Inputs,       \* what features, API calls and the user do to the session
  MayClear,     \* whether the user may clear the site's storage
  Punctual,     \* whether timers fire when due or may be late
  MaxTime,      \* bound of the clock
  MaxSessions,  \* bound: sessions started in a behaviour
  MaxQueue      \* bound: undelivered storage events of a tab

ASSUME DurationAssumption ==
  /\ ExpiresMs \in Nat \ {0}
  /\ InactiveMs \in 1..ExpiresMs
ASSUME BoundAssumption ==
  /\ MaxTime \in Nat \ {0}
  /\ MaxSessions \in Nat
  /\ MaxQueue \in Nat
  /\ {Reopens, MayClear, Punctual} \cup LoadVisible \subseteq BOOLEAN
  /\ Inputs \subseteq {"mode", "consent", "attribute", "reset", "hide"}
ASSUME NoneAssumption ==
  None \notin [value : Nat, expiresAt : Nat, inactiveAt : Nat, mode : Nat,
               custom : BOOLEAN, consent : BOOLEAN]

VARIABLES
  now,         \* Date.now()
  stored,      \* the record under lookupKey in local storage
  open,        \* tabs with a SessionEntity
  wasOpen,     \* tabs that have loaded before
  visible,     \* document.visibilityState
  state,       \* SessionEntity.state
  own,         \* the entity's expiresTimer and inactiveTimer
  leaked,      \* timers of a nested setup() that the entity has lost track of
  events,      \* storage events on their way to a tab
  nextValue,   \* the next random session value
  lastWriter   \* history: the tab that wrote storage last, None if none

vars == <<now, stored, open, wasOpen, visible, state, own, leaked, events,
          nextValue, lastWriter>>

Value == 1..(MaxSessions + 3)
Instant == 0..(MaxTime + ExpiresMs)
Record == [value : Value, expiresAt : Instant, inactiveAt : Instant,
           mode : Value \cup {0}, custom : BOOLEAN, consent : BOOLEAN]
Blank == [value |-> 0, expiresAt |-> 0, inactiveAt |-> 0, mode |-> 0,
          custom |-> FALSE, consent |-> FALSE]

\* When the two timers of a setup are due, Off for not armed, and the
\* initialMs the interaction timer is created again with.
Off == 0
Timers == [expires : Instant, inactive : Instant, initialMs : 0..InactiveMs]
Due(at) == at # Off /\ now >= at
NoTimers == [expires |-> Off, inactive |-> Off, initialMs |-> 0]

TypeOK ==
  /\ now \in 1..MaxTime
  /\ stored \in Record \cup {None}
  /\ open \in SUBSET Tab
  /\ wasOpen \in SUBSET Tab
  /\ visible \in [Tab -> BOOLEAN]
  /\ state \in [Tab -> Record \cup {Blank}]
  /\ \A t \in open : state[t] \in Record
  /\ own \in [Tab -> Timers]
  /\ leaked \in [Tab -> Timers]
  /\ events \in [Tab -> Seq(Record)]
  /\ nextValue \in Value
  /\ lastWriter \in Tab \cup {None}

Init ==
  /\ now = 1
  /\ stored = None
  /\ open = {}
  /\ wasOpen = {}
  /\ visible = [t \in Tab |-> FALSE]
  /\ state = [t \in Tab |-> Blank]
  /\ own = [t \in Tab |-> NoTimers]
  /\ leaked = [t \in Tab |-> NoTimers]
  /\ events = [t \in Tab |-> <<>>]
  /\ nextValue = 1
  /\ lastWriter = None

-----------------------------------------------------------------------------
\* What the running tab reads and changes, and the storage events it causes.
World(t) == [stored |-> stored, state |-> state[t], own |-> own[t],
             leaked |-> leaked[t], next |-> nextValue, sent |-> <<>>]

\* isExpired, of either timestamp
IsExpired(r) == r # None /\ (now > r.expiresAt \/ now > r.inactiveAt)

\* write(): the data is merged into the tab's copy, which is stored whole
Write(w, r) == [w EXCEPT !.state = r, !.stored = r, !.sent = Append(@, r)]

\* setup() arms both timers for the time that is left; the interaction timer
\* keeps that time as its initialMs.
TimersFor(r) ==
  [expires |-> r.expiresAt, inactive |-> r.inactiveAt, initialMs |-> r.inactiveAt - now]

NewRecord(w) == [value |-> w.next, expiresAt |-> now + ExpiresMs,
                 inactiveAt |-> now + InactiveMs, mode |-> 0, custom |-> FALSE,
                 consent |-> w.state.consent]
StartSession(w, r) ==
  Write([w EXCEPT !.own = TimersFor(r), !.next = w.next + 1], r)

\* setup() on empty storage: a new session, which only inherits the consent
SetupKeepsMode(w) ==     \* mutant: feature data survives with the consent
  StartSession(w, [NewRecord(w) EXCEPT !.mode = w.state.mode])
SetupDropsConsent(w) ==  \* mutant: nothing survives
  StartSession(w, [NewRecord(w) EXCEPT !.consent = FALSE])
Setup(w) == StartSession(w, NewRecord(w))

\* reset(): storage is emptied, the entity's timers are aborted, setup().  The
\* other tabs hear of the removal too, but sync(null) changes nothing there.
Reset(w) == Setup([w EXCEPT !.stored = None])

\* read(): an expired record is reset on the way
Read(w) == IF IsExpired(w.stored) THEN Reset(w) ELSE w

\* What { ...session.read(), field } amounts to once it is merged
Merged(w) == IF w.stored = None THEN w.state ELSE w.stored

\* refresh()
RefreshExtends(w) ==  \* mutant: the hard expiry slides along
  LET v == Read(w)
  IN Write(v, [Merged(v) EXCEPT !.inactiveAt = now + InactiveMs,
                                !.expiresAt = now + ExpiresMs])
Refresh(w) ==
  LET v == Read(w) IN Write(v, [Merged(v) EXCEPT !.inactiveAt = now + InactiveMs])

\* InteractionTimer.refresh of the entity's timer, and of the lost one
RefreshOwnUnarmed(w) == Refresh(w)  \* mutant: storage is refreshed, the timer is not
RefreshOwn(w) == Refresh([w EXCEPT !.own.inactive = now + w.own.initialMs])
RefreshLeaked(w) == Refresh([w EXCEPT !.leaked.inactive = now + w.leaked.initialMs])
HasLeaked(w) == w.leaked.initialMs # 0

\* Each event handler runs for the lost timer first; where that resets the
\* session the entity's own handler is removed before its turn.
OnInteraction(w) ==
  IF ~HasLeaked(w) THEN RefreshOwn(w)
  ELSE IF IsExpired(w.stored) THEN RefreshLeaked(w)
  ELSE RefreshOwn(RefreshLeaked(w))

\* resume(): storage decides, and nothing stored counts as expired
OnResume(w) ==
  IF w.stored = None \/ IsExpired(w.stored)
  THEN Reset([w EXCEPT !.leaked.inactive = Off])
  ELSE OnInteraction(w)

\* pause(): the tab's copy is stored, the interaction timers stop
OnPauseStopsAll(w) ==  \* mutant: the expiry timer stops too
  Write([w EXCEPT !.own.inactive = Off, !.own.expires = Off, !.leaked.inactive = Off], w.state)
OnPause(w) ==
  LET once == Write([w EXCEPT !.own.inactive = Off, !.leaked.inactive = Off], w.state)
  IN IF HasLeaked(w) THEN Write(once, w.state) ELSE once

-----------------------------------------------------------------------------
\* The step of tab t that leaves world w behind
Apply(t, w) ==
  /\ w.next <= MaxSessions + 1
  /\ \A u \in open \ {t} : Len(events[u]) + Len(w.sent) <= MaxQueue
  /\ stored' = w.stored
  /\ state' = [state EXCEPT ![t] = w.state]
  /\ own' = [own EXCEPT ![t] = w.own]
  /\ leaked' = [leaked EXCEPT ![t] = w.leaked]
  /\ nextValue' = w.next
  /\ events' = [u \in Tab |-> IF u \in open \ {t} THEN events[u] \o w.sent ELSE events[u]]
  /\ lastWriter' = IF w.sent = <<>> THEN lastWriter ELSE t

\* The constructor.  A valid record is joined; an expired one is reset by the
\* read() inside setup(), which nests another setup() and goes on to arm a
\* second pair of timers.
Loaded(w) ==
  IF w.stored = None THEN Setup(w)
  ELSE IF ~IsExpired(w.stored)
  THEN [w EXCEPT !.state = w.stored, !.own = TimersFor(w.stored)]
  ELSE LET inner == Reset(w) IN Write([inner EXCEPT !.leaked = inner.own], inner.state)

Load(t, vis) ==
  /\ t \notin open
  /\ t \in wasOpen => Reopens
  /\ stored # None => now \notin {stored.expiresAt, stored.inactiveAt}
  /\ open' = open \cup {t}
  /\ wasOpen' = wasOpen \cup {t}
  /\ visible' = [visible EXCEPT ![t] = vis]
  /\ Apply(t, Loaded(World(t)))
  /\ UNCHANGED now

Close(t) ==
  /\ Reopens
  /\ t \in open
  /\ open' = open \ {t}
  /\ visible' = [visible EXCEPT ![t] = FALSE]
  /\ state' = [state EXCEPT ![t] = Blank]
  /\ own' = [own EXCEPT ![t] = NoTimers]
  /\ leaked' = [leaked EXCEPT ![t] = NoTimers]
  /\ events' = [events EXCEPT ![t] = <<>>]
  /\ UNCHANGED <<now, stored, wasOpen, nextValue, lastWriter>>

\* A callback of an open tab
Run(t, w) ==
  /\ t \in open
  /\ Apply(t, w)
  /\ UNCHANGED <<now, open, wasOpen, visible>>

\* onEnd of the timers
ExpiresTimerEnds(t) ==
  \/ Due(own[t].expires) /\ Run(t, Reset(World(t)))
  \/ Due(leaked[t].expires) /\ Run(t, Reset([World(t) EXCEPT !.leaked.expires = Off]))
InactiveTimerEnds(t) ==
  \/ Due(own[t].inactive) /\ Run(t, Reset(World(t)))
  \/ Due(leaked[t].inactive) /\ Run(t, Reset([World(t) EXCEPT !.leaked.inactive = Off]))

\* A click, keydown or scroll that the 500 ms debounce lets through
Interact(t) == visible[t] /\ Run(t, OnInteraction(World(t)))

Hide(t) ==
  /\ "hide" \in Inputs
  /\ t \in open /\ visible[t]
  /\ visible' = [visible EXCEPT ![t] = FALSE]
  /\ Apply(t, OnPause(World(t)))
  /\ UNCHANGED <<now, open, wasOpen>>

Show(t) ==
  /\ t \in open /\ ~visible[t]
  /\ visible' = [visible EXCEPT ![t] = TRUE]
  /\ Apply(t, OnResume(World(t)))
  /\ UNCHANGED <<now, open, wasOpen>>

\* The 'storage' listener: sync(newValue)
StorageEventOfSession(t) ==  \* mutant: records of other sessions are ignored
  /\ t \in open
  /\ events[t] # <<>>
  /\ state' = IF Head(events[t]).value # state[t].value
              THEN state ELSE [state EXCEPT ![t] = Head(events[t])]
  /\ events' = [events EXCEPT ![t] = Tail(@)]
  /\ UNCHANGED <<now, stored, open, wasOpen, visible, own, leaked, nextValue, lastWriter>>
StorageEvent(t) ==
  /\ t \in open
  /\ events[t] # <<>>
  /\ state' = [state EXCEPT ![t] = Head(events[t])]
  /\ events' = [events EXCEPT ![t] = Tail(@)]
  /\ UNCHANGED <<now, stored, open, wasOpen, visible, own, leaked, nextValue, lastWriter>>

\* A feature records its mode for the session this tab is in
WriteMode(t) ==
  "mode" \in Inputs /\ Run(t, Write(World(t), [state[t] EXCEPT !.mode = state[t].value]))

\* newrelic.consent(accept)
Consent(t, accept) ==
  "consent" \in Inputs /\ Run(t, Write(World(t), [state[t] EXCEPT !.consent = accept]))

\* syncCustomAttribute; deleting from a missing record writes nothing
SyncCustomAttribute(t, present) ==
  LET v == Read(World(t))
  IN /\ "attribute" \in Inputs
     /\ Run(t, IF ~present /\ v.stored = None THEN v
               ELSE Write(v, [Merged(v) EXCEPT !.custom = present]))

\* newrelic.setUserId(value, true)
ResetByApi(t) == "reset" \in Inputs /\ Run(t, Reset(World(t)))

\* The user clears the site's data: no event names the key
ClearStorage ==
  /\ MayClear
  /\ stored' = None
  /\ lastWriter' = None
  /\ UNCHANGED <<now, open, wasOpen, visible, state, own, leaked, events, nextValue>>

Tick ==
  /\ now < MaxTime
  /\ Punctual => \A t \in open : \A tm \in {own[t], leaked[t]} :
                   ~Due(tm.expires) /\ ~Due(tm.inactive)
  /\ now' = now + 1
  /\ UNCHANGED <<stored, open, wasOpen, visible, state, own, leaked, events,
                 nextValue, lastWriter>>

Next ==
  \/ \E t \in Tab :
       \/ \E vis \in LoadVisible : Load(t, vis)
       \/ Close(t)
       \/ ExpiresTimerEnds(t)
       \/ InactiveTimerEnds(t)
       \/ Interact(t)
       \/ Hide(t)
       \/ Show(t)
       \/ StorageEvent(t)
       \/ WriteMode(t)
       \/ \E accept \in BOOLEAN : Consent(t, accept)
       \/ \E present \in BOOLEAN : SyncCustomAttribute(t, present)
       \/ ResetByApi(t)
  \/ ClearStorage
  \/ Tick

Spec == Init /\ [][Next]_vars

\* A due timer of an open page fires in the end
Fairness == \A t \in Tab : WF_vars(ExpiresTimerEnds(t))
FairSpec == Spec /\ Fairness

-----------------------------------------------------------------------------
\* Every copy of a session record there is: stored, held by a tab, on its way
Copies ==
  ({stored} \cup {state[t] : t \in open}
            \cup UNION {{events[t][i] : i \in DOMAIN events[t]} : t \in open}) \ {None}

\* The hard expiry of a session is fixed when it starts, whatever the tabs
\* write over each other: all copies of one session agree on it.
OneExpiryPerSession ==
  \A r, s \in Copies : r.value = s.value => r.expiresAt = s.expiresAt

\* What a feature decided for one session never shows up in a later one: a
\* mode in any copy was written in the session of that copy.
ModeBelongsToSession ==
  \A r \in Copies : r.mode # 0 => r.mode = r.value

\* With its storage events delivered, a tab holds what is stored, except the
\* one that wrote last and whose own events may be behind its write.
TabsConverge ==
  \A t \in open :
    lastWriter # None /\ t # lastWriter /\ events[t] = <<>> => state[t] = stored

\* The tab armed its timers for a whole session of its own: joining a stored
\* session gives the inactivity timer a shorter period, and a setup that nests
\* leaves a second pair of timers behind.
StartedItsSession(t) == own[t].initialMs = InactiveMs /\ leaked[t] = NoTimers

\* A timer ends a session only when it is due.  In a tab that started its
\* session, the inactivity timer ends it when the last activity is inactiveMs
\* ago (init-types.js:65 "how long a session will last without user activity
\* before expiring"); the expiry timer ends one expiresMs after it started,
\* whichever session it was armed for (init-types.js:64 "how long a session
\* will last before expiring").
TimersEndOnlyWhenDue ==
  [][\A t \in Tab : stored # None =>
       /\ StartedItsSession(t) /\ InactiveTimerEnds(t) => now >= stored.inactiveAt
       /\ leaked[t] = NoTimers /\ ExpiresTimerEnds(t) => now >= stored.expiresAt]_vars

\* Consent given on a page stands through every reset of its session until it
\* is withdrawn, and reaches storage each time.
ConsentStands ==
  [][(\E t \in open : state[t].consent)
     /\ ~(\E t \in Tab : Consent(t, FALSE) \/ Close(t)) /\ ~ClearStorage
     => /\ \E t \in open : state'[t].consent
        /\ stored # None => stored'.consent]_vars

\* A session past its hard expiry does not stay in storage while a page is
\* open, visible or not.
OldSessionsEnd ==
  \A v \in 1..(MaxSessions - 1) :
    (open # {} /\ stored # None /\ stored.value = v /\ now > stored.expiresAt)
      ~> (open = {} \/ stored = None \/ stored.value # v)
=============================================================================
