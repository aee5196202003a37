---------------------------- MODULE SessionProofs ----------------------------
(***************************************************************************)
(* Proofs about Session for any number of tabs, any durations and every    *)
(* way in which storage events, timers and resets interleave: types, that  *)
(* all copies of a session agree on its expiry, that a mode stays in the   *)
(* session it was decided in, and that tabs converge on what is stored;    *)
(* and for a tab alone, that its timers end a session when it is due and   *)
(* that consent stands.                                                    *)
(***************************************************************************)
EXTENDS Session, SequenceTheorems, TLAPS

USE DurationAssumption, BoundAssumption

-----------------------------------------------------------------------------
\* A record and a world while a callback runs: the bound on sessions is only
\* looked at when it is done.
Rec == [value : Nat \ {0}, expiresAt : Instant, inactiveAt : Instant,
        mode : Nat, custom : BOOLEAN, consent : BOOLEAN]
WorldType == [stored : Rec \cup {None}, state : Rec \cup {Blank}, own : Timers,
              leaked : Timers, next : Nat \ {0}, sent : Seq(Rec)]

\* All copies if the running tab's are those of world w and the others' are C
All(w, C) ==
  (C \cup {w.stored, w.state} \cup {w.sent[i] : i \in DOMAIN w.sent}) \ {None, Blank}

Sound(r, next) ==
  /\ r \in Rec
  /\ r.value < next
  /\ r.inactiveAt <= now + InactiveMs
  /\ r.mode # 0 => r.mode = r.value

OneExpiry(S) == \A r, s \in S : r.value = s.value => r.expiresAt = s.expiresAt

Good(w, C) ==
  /\ w \in WorldType
  /\ \A r \in All(w, C) : Sound(r, w.next)
  /\ OneExpiry(All(w, C))

SessionInv ==
  /\ TypeOK
  /\ \A t \in Tab \ open : state[t] = Blank /\ events[t] = <<>>
  /\ \A r \in Copies : Sound(r, nextValue)
  /\ OneExpiry(Copies)

LEMMA RecIsReal == \A r \in Rec : r # None /\ r # Blank
<1> TAKE r \in Rec
<1>1. r \in [value : Nat, expiresAt : Nat, inactiveAt : Nat, mode : Nat,
             custom : BOOLEAN, consent : BOOLEAN]
  BY DEF Rec, Instant
<1>2. r.value # 0 /\ Blank.value = 0
  BY DEF Rec, Blank
<1>3. QED BY <1>1, <1>2, NoneAssumption

-----------------------------------------------------------------------------
\* Storing a record that keeps value and expiry of a known copy
LEMMA WriteGood ==
  ASSUME now \in 1..MaxTime, NEW w, NEW C, Good(w, C), NEW s \in All(w, C), NEW r,
         Sound(r, w.next), r.value = s.value, r.expiresAt = s.expiresAt
  PROVE  /\ Good(Write(w, r), C)
         /\ Write(w, r).state = r /\ Write(w, r).stored = r /\ Write(w, r).next = w.next
         /\ Write(w, r).own = w.own /\ Write(w, r).leaked = w.leaked
<1> DEFINE v == Write(w, r)
<1>1. w \in WorldType /\ r \in Rec
  BY DEF Good, Sound
<1>2. /\ v \in WorldType
      /\ v.state = r /\ v.stored = r /\ v.next = w.next /\ v.sent = Append(w.sent, r)
      /\ v.own = w.own /\ v.leaked = w.leaked
  <2>1. v \in WorldType
    <3>1. Append(w.sent, r) \in Seq(Rec)
      BY <1>1 DEF WorldType
    <3>2. QED BY <1>1, <3>1, Zenon DEF Write, WorldType
  <2>2. v.state = r /\ v.stored = r /\ v.sent = Append(w.sent, r)
    BY <1>1 DEF Write, WorldType
  <2>3. v.next = w.next /\ v.own = w.own /\ v.leaked = w.leaked
    BY <1>1 DEF Write, WorldType
  <2>4. QED BY <2>1, <2>2, <2>3
<1>3. \A x \in All(v, C) : x \in All(w, C) \/ x = r
  <2> SUFFICES ASSUME NEW x \in All(v, C), x # r PROVE x \in All(w, C)
    OBVIOUS
  <2>1. x # None /\ x # Blank
    BY DEF All
  <2>2. CASE x \in C
    BY <2>1, <2>2 DEF All
  <2>3. CASE \E i \in DOMAIN v.sent : x = v.sent[i]
    <3>1. PICK i \in DOMAIN Append(w.sent, r) : x = Append(w.sent, r)[i]
      BY <1>2, <2>3
    <3>2. w.sent \in Seq(Rec)
      BY <1>1 DEF WorldType
    <3>3. i \in DOMAIN w.sent /\ x = w.sent[i]
      BY <1>1, <3>1, <3>2
    <3>4. QED BY <2>1, <3>3 DEF All
  <2>4. QED BY <1>2, <2>2, <2>3 DEF All
<1> HIDE DEF v
<1>4. \A x \in All(v, C) : Sound(x, v.next)
  BY <1>2, <1>3 DEF Good
<1>5. OneExpiry(All(v, C))
  BY <1>3 DEF Good, OneExpiry
<1>6. QED BY <1>2, <1>4, <1>5 DEF Good, v

\* Timers do not matter to the copies, and dropping a copy does no harm
LEMMA FewerCopies ==
  ASSUME NEW w, NEW C, Good(w, C), NEW v \in WorldType,
         v.stored \in {w.stored, None}, v.state = w.state, v.sent = w.sent, v.next = w.next
  PROVE  Good(v, C)
<1>1. All(v, C) \subseteq All(w, C)
  BY DEF All
<1>2. QED BY <1>1 DEF Good, OneExpiry

-----------------------------------------------------------------------------
\* A new session: its value is fresh, so it agrees with every copy there is.
LEMMA SetupGood ==
  ASSUME now \in 1..MaxTime, NEW w, NEW C, Good(w, C)
  PROVE  /\ Good(Setup(w), C) /\ Setup(w).state \in Rec
         /\ Setup(w).leaked = w.leaked /\ Setup(w).next = w.next + 1
         /\ Setup(w).stored = Setup(w).state /\ Setup(w).own \in Timers
<1> DEFINE r == NewRecord(w)
           u == [w EXCEPT !.own = TimersFor(r), !.next = w.next + 1]
<1>1. w \in WorldType /\ w.next \in Nat \ {0}
  BY DEF Good, WorldType
<1>2. /\ r \in Rec /\ r.value = w.next /\ r.inactiveAt = now + InactiveMs
      /\ r.expiresAt = now + ExpiresMs /\ r.mode = 0
  <2>1. w.state.consent \in BOOLEAN
    <3>1. w.state \in Rec \cup {Blank}
      BY <1>1 DEF WorldType
    <3>2. \A x \in Rec : x.consent \in BOOLEAN
      BY DEF Rec
    <3>3. Blank.consent \in BOOLEAN
      BY DEF Blank
    <3>4. QED BY <3>1, <3>2, <3>3
  <2>2. now + ExpiresMs \in Instant /\ now + InactiveMs \in Instant
    BY DEF Instant
  <2>3. QED BY <1>1, <2>1, <2>2 DEF NewRecord, Rec
<1>3. TimersFor(r) \in Timers
  <2>1. r.inactiveAt - now = InactiveMs
    BY <1>2
  <2>2. r.inactiveAt \in Instant /\ r.expiresAt \in Instant
    BY <1>2 DEF Rec
  <2>3. QED BY <2>1, <2>2 DEF TimersFor, Timers
<1> HIDE DEF r
<1>4. /\ u \in WorldType /\ u.stored = w.stored /\ u.state = w.state /\ u.sent = w.sent
      /\ u.own \in Timers /\ u.leaked = w.leaked /\ u.next = w.next + 1
  <2>1. u \in WorldType
    <3>1. w.next + 1 \in Nat \ {0}
      BY <1>1
    <3>2. QED BY <1>1, <1>3, <3>1, Zenon DEF WorldType
  <2>2. u.stored = w.stored /\ u.state = w.state /\ u.sent = w.sent
    BY <1>1 DEF WorldType
  <2>3. u.own \in Timers /\ u.leaked = w.leaked /\ u.next = w.next + 1
    BY <1>1, <1>3 DEF WorldType
  <2>4. QED BY <2>1, <2>2, <2>3
<1>5. Setup(w) = Write(u, r)
  BY DEF Setup, StartSession, r
<1> HIDE DEF u
<1>6. Good(u, {r} \cup C)
  <2>1. All(u, {r} \cup C) = {r} \cup All(w, C)
    <3>1. r # None /\ r # Blank
      BY <1>2, RecIsReal
    <3>2. QED BY <1>4, <3>1 DEF All
  <2>2. \A x \in All(w, C) : Sound(x, w.next) /\ x.value \in Nat
    BY DEF Good, Sound, Rec
  <2>3. Sound(r, u.next)
    BY <1>1, <1>2, <1>4 DEF Sound
  <2>4. \A x \in All(w, C) : Sound(x, u.next)
    BY <1>1, <1>4, <2>2 DEF Sound
  <2>5. OneExpiry({r} \cup All(w, C))
    <3>1. \A x \in All(w, C) : x.value # r.value
      BY <1>1, <1>2, <2>2 DEF Sound
    <3>2. QED BY <3>1 DEF Good, OneExpiry
  <2>6. QED BY <1>4, <2>1, <2>3, <2>4, <2>5 DEF Good
<1>7. /\ r \in All(u, {r} \cup C) /\ Sound(r, u.next)
  BY <1>1, <1>2, <1>4, RecIsReal DEF All, Sound
<1>8. Good(Write(u, r), {r} \cup C) /\ Write(u, r).state = r /\ Write(u, r).stored = r
      /\ Write(u, r).next = u.next /\ Write(u, r).own = u.own
      /\ Write(u, r).leaked = u.leaked
  BY <1>6, <1>7, WriteGood
<1>9. All(Write(u, r), C) \subseteq All(Write(u, r), {r} \cup C)
  BY DEF All
<1>10. Good(Write(u, r), C)
  BY <1>8, <1>9 DEF Good, OneExpiry
<1>11. QED BY <1>2, <1>4, <1>5, <1>8, <1>10

\* The world of a tab that has a session
Live(w, C) == Good(w, C) /\ w.state \in Rec

LEMMA ResetLive ==
  ASSUME now \in 1..MaxTime, NEW w, NEW C, Good(w, C)
  PROVE  Live(Reset(w), C) /\ Reset(w).leaked = w.leaked
<1> DEFINE u == [w EXCEPT !.stored = None]
<1>1. w \in WorldType
  BY DEF Good
<1>2. u \in WorldType
  <2>1. None \in Rec \cup {None}
    OBVIOUS
  <2>2. QED BY <1>1, <2>1, Zenon DEF WorldType
<1>3. u.stored = None /\ u.state = w.state /\ u.sent = w.sent /\ u.next = w.next
      /\ u.leaked = w.leaked
  BY <1>1 DEF WorldType
<1> HIDE DEF u
<1>4. Good(u, C)
  BY <1>2, <1>3, FewerCopies
<1>5. QED BY <1>3, <1>4, SetupGood DEF Reset, Live, u

LEMMA ReadLive ==
  ASSUME now \in 1..MaxTime, NEW w, NEW C, Live(w, C)
  PROVE  Live(Read(w), C) /\ Read(w).leaked = w.leaked
BY ResetLive DEF Read, Live

LEMMA StateIsKnown ==
  ASSUME NEW w, NEW C, Live(w, C)
  PROVE  /\ w.state \in All(w, C) /\ w.state \in Rec /\ Sound(w.state, w.next)
         /\ Merged(w) \in All(w, C) /\ Merged(w) \in Rec /\ Sound(Merged(w), w.next)
<1>1. w.state \in All(w, C)
  BY RecIsReal DEF Live, All
<1>2. Merged(w) \in All(w, C)
  <2>1. CASE w.stored = None
    BY <1>1, <2>1 DEF Merged
  <2>2. CASE w.stored # None
    <3>1. w.stored \in Rec
      BY <2>2 DEF Live, Good, WorldType
    <3>2. QED BY <2>2, <3>1, RecIsReal DEF Merged, All
  <2>3. QED BY <2>1, <2>2
<1>3. QED BY <1>1, <1>2 DEF Live, Good, Sound

\* Storing the tab's copy or the merged one with fields that may change freely
LEMMA WriteLive ==
  ASSUME now \in 1..MaxTime, NEW w, NEW C, Live(w, C), NEW s \in {w.state, Merged(w)},
         NEW r \in Rec, r.value = s.value, r.expiresAt = s.expiresAt,
         r.inactiveAt <= now + InactiveMs, r.mode # 0 => r.mode = r.value
  PROVE  /\ Live(Write(w, r), C)
         /\ Write(w, r).own = w.own /\ Write(w, r).leaked = w.leaked
<1>1. s \in All(w, C) /\ Sound(s, w.next)
  BY StateIsKnown
<1>2. Sound(r, w.next)
  BY <1>1 DEF Sound
<1>3. Good(w, C)
  BY DEF Live
<1>4. QED BY <1>1, <1>2, <1>3, WriteGood DEF Live

LEMMA RefreshLive ==
  ASSUME now \in 1..MaxTime, NEW w, NEW C, Live(w, C)
  PROVE  Live(Refresh(w), C) /\ Refresh(w).leaked = w.leaked
<1> DEFINE v == Read(w)
           m == Merged(v)
           r == [m EXCEPT !.inactiveAt = now + InactiveMs]
<1>1. Live(v, C) /\ v.leaked = w.leaked
  BY ReadLive
<1> HIDE DEF v
<1>2. m \in Rec /\ Sound(m, v.next)
  BY <1>1, StateIsKnown
<1>3. now + InactiveMs \in Instant /\ now + InactiveMs <= now + InactiveMs
  BY DEF Instant
<1>4. r \in Rec
  BY <1>2, <1>3 DEF Rec
<1>5. r.value = m.value /\ r.expiresAt = m.expiresAt /\ r.inactiveAt = now + InactiveMs
      /\ r.mode = m.mode
  BY <1>2 DEF Rec
<1> HIDE DEF r
<1>6. r.inactiveAt <= now + InactiveMs /\ (r.mode # 0 => r.mode = r.value)
  BY <1>2, <1>3, <1>5 DEF Sound
<1>7. Live(Write(v, r), C) /\ Write(v, r).leaked = v.leaked
  BY <1>1, <1>4, <1>5, <1>6, WriteLive
<1>8. Refresh(w) = Write(v, r)
  BY DEF Refresh, r, v
<1>9. QED BY <1>1, <1>7, <1>8

-----------------------------------------------------------------------------
\* Arming a timer again or switching it off
LEMMA TimerLive ==
  ASSUME NEW w, NEW C, Live(w, C), NEW x \in Instant
  PROVE  /\ Live([w EXCEPT !.own.inactive = x], C)
         /\ Live([w EXCEPT !.leaked.inactive = x], C)
         /\ Live([w EXCEPT !.leaked.expires = x], C)
         /\ Live([w EXCEPT !.own.inactive = x, !.leaked.inactive = x], C)
<1>1. w \in WorldType /\ w.own \in Timers /\ w.leaked \in Timers
  BY DEF Live, Good, WorldType
<1>2. /\ [w.own EXCEPT !.inactive = x] \in Timers
      /\ [w.leaked EXCEPT !.inactive = x] \in Timers
      /\ [w.leaked EXCEPT !.expires = x] \in Timers
  BY <1>1 DEF Timers
<1>3. ASSUME NEW o \in Timers, NEW l \in Timers
      PROVE  Live([w EXCEPT !.own = o, !.leaked = l], C)
  <2> DEFINE v == [w EXCEPT !.own = o, !.leaked = l]
  <2>1. v \in WorldType
    BY <1>1, Zenon DEF WorldType
  <2>2. v.stored = w.stored /\ v.state = w.state /\ v.sent = w.sent /\ v.next = w.next
    BY <1>1 DEF WorldType
  <2> HIDE DEF v
  <2>3. Good(v, C)
    BY <2>1, <2>2, FewerCopies DEF Live
  <2>4. QED BY <2>2, <2>3 DEF Live, v
<1>4. /\ [w EXCEPT !.own.inactive = x] =
           [w EXCEPT !.own = [w.own EXCEPT !.inactive = x], !.leaked = w.leaked]
      /\ [w EXCEPT !.leaked.inactive = x] =
           [w EXCEPT !.own = w.own, !.leaked = [w.leaked EXCEPT !.inactive = x]]
      /\ [w EXCEPT !.leaked.expires = x] =
           [w EXCEPT !.own = w.own, !.leaked = [w.leaked EXCEPT !.expires = x]]
      /\ [w EXCEPT !.own.inactive = x, !.leaked.inactive = x] =
           [w EXCEPT !.own = [w.own EXCEPT !.inactive = x],
                     !.leaked = [w.leaked EXCEPT !.inactive = x]]
  BY <1>1 DEF WorldType
<1>5. QED BY <1>1, <1>2, <1>3, <1>4

LEMMA RearmedInTime ==
  ASSUME now \in 1..MaxTime, NEW w, NEW C, Live(w, C)
  PROVE  now + w.own.initialMs \in Instant /\ now + w.leaked.initialMs \in Instant
<1>1. w.own.initialMs \in 0..InactiveMs /\ w.leaked.initialMs \in 0..InactiveMs
  BY DEF Live, Good, WorldType, Timers
<1>2. QED BY <1>1 DEF Instant

LEMMA RefreshOwnLive ==
  ASSUME now \in 1..MaxTime, NEW w, NEW C, Live(w, C) PROVE Live(RefreshOwn(w), C)
BY RearmedInTime, TimerLive, RefreshLive DEF RefreshOwn

LEMMA RefreshLeakedLive ==
  ASSUME now \in 1..MaxTime, NEW w, NEW C, Live(w, C) PROVE Live(RefreshLeaked(w), C)
BY RearmedInTime, TimerLive, RefreshLive DEF RefreshLeaked

LEMMA InteractionLive ==
  ASSUME now \in 1..MaxTime, NEW w, NEW C, Live(w, C) PROVE Live(OnInteraction(w), C)
BY RefreshOwnLive, RefreshLeakedLive DEF OnInteraction

LEMMA ResumeLive ==
  ASSUME now \in 1..MaxTime, NEW w, NEW C, Live(w, C) PROVE Live(OnResume(w), C)
<1>1. Off \in Instant
  BY DEF Off, Instant
<1>2. Live([w EXCEPT !.leaked.inactive = Off], C)
  BY <1>1, TimerLive
<1>3. Live(Reset([w EXCEPT !.leaked.inactive = Off]), C)
  BY <1>2, ResetLive DEF Live
<1>4. QED BY <1>3, InteractionLive DEF OnResume

LEMMA WriteStateLive ==
  ASSUME now \in 1..MaxTime, NEW w, NEW C, Live(w, C)
  PROVE  Live(Write(w, w.state), C) /\ Write(w, w.state).state = w.state
<1>1. w.state \in All(w, C) /\ w.state \in Rec /\ Sound(w.state, w.next)
  BY StateIsKnown
<1>2. QED BY <1>1, WriteGood DEF Live

LEMMA PauseLive ==
  ASSUME now \in 1..MaxTime, NEW w, NEW C, Live(w, C) PROVE Live(OnPause(w), C)
<1> DEFINE v == [w EXCEPT !.own.inactive = Off, !.leaked.inactive = Off]
<1>1. Off \in Instant
  BY DEF Off, Instant
<1>2. Live(v, C)
  BY <1>1, TimerLive
<1>3. v.state = w.state
  BY DEF Live, Good, WorldType
<1> HIDE DEF v
<1>4. Live(Write(v, w.state), C) /\ Write(v, w.state).state = w.state
  BY <1>2, <1>3, WriteStateLive
<1>5. Live(Write(Write(v, w.state), w.state), C)
  BY <1>4, WriteStateLive
<1>6. QED BY <1>4, <1>5 DEF OnPause, v

\* The constructor: a tab that joins arms its timers for what is left
LEMMA LoadedLive ==
  ASSUME now \in 1..MaxTime, NEW w, NEW C, Good(w, C),
         w.stored # None => now \notin {w.stored.expiresAt, w.stored.inactiveAt}
  PROVE  Live(Loaded(w), C)
<1>1. CASE w.stored = None
  BY <1>1, SetupGood DEF Loaded, Live
<1>2. CASE w.stored # None /\ IsExpired(w.stored)
  <2> DEFINE inner == Reset(w)
  <2>1. Live(inner, C)
    BY ResetLive
  <2> HIDE DEF inner
  <2> DEFINE v == [inner EXCEPT !.leaked = inner.own]
  <2>2. inner \in WorldType /\ inner.own \in Timers
    BY <2>1 DEF Live, Good, WorldType
  <2>3. v \in WorldType
    BY <2>2, Zenon DEF WorldType
  <2>4. v.stored = inner.stored /\ v.state = inner.state /\ v.sent = inner.sent
        /\ v.next = inner.next
    BY <2>2 DEF WorldType
  <2> HIDE DEF v
  <2>5. Live(v, C)
    BY <2>1, <2>3, <2>4, FewerCopies DEF Live
  <2>6. Live(Write(v, v.state), C)
    BY <2>5, WriteStateLive
  <2>7. QED BY <1>2, <2>4, <2>6 DEF Loaded, inner, v
<1>3. CASE w.stored # None /\ ~IsExpired(w.stored)
  <2> DEFINE r == w.stored
             v == [w EXCEPT !.state = r, !.own = TimersFor(r)]
  <2>1. w \in WorldType /\ r \in Rec
    BY <1>3 DEF Good, WorldType
  <2>2. r \in All(w, C) /\ Sound(r, w.next)
    BY <2>1, RecIsReal DEF Good, All
  <2>3. r.inactiveAt \in Nat /\ now < r.inactiveAt /\ r.inactiveAt <= now + InactiveMs
    <3>1. r.inactiveAt \in Nat
      BY <2>1 DEF Rec, Instant
    <3>2. now <= r.inactiveAt /\ now # r.inactiveAt
      BY <1>3, <3>1 DEF IsExpired
    <3>3. QED BY <2>2, <3>1, <3>2 DEF Sound
  <2>4. TimersFor(r) \in Timers
    <3>1. r.inactiveAt - now \in 0..InactiveMs
      BY <2>3
    <3>2. QED BY <2>1, <3>1 DEF TimersFor, Timers, Rec
  <2>5. v \in WorldType
    BY <2>1, <2>4, Zenon DEF WorldType
  <2>6. v.stored = r /\ v.state = r /\ v.sent = w.sent /\ v.next = w.next
    BY <2>1 DEF WorldType
  <2> HIDE DEF v
  <2>7. All(v, C) \subseteq All(w, C)
    BY <2>6 DEF All
  <2>8. Good(v, C)
    BY <2>5, <2>6, <2>7 DEF Good, OneExpiry
  <2>9. QED BY <1>3, <2>1, <2>6, <2>8 DEF Loaded, Live, v
<1>4. QED BY <1>1, <1>2, <1>3

-----------------------------------------------------------------------------
\* The copies that tab t does not hold itself: other tabs' and those on their way
Others(t) == {state[u] : u \in open \ {t}}
             \cup UNION {{events[u][i] : i \in DOMAIN events[u]} : u \in open}

LEMMA RecordIsRec ==
  /\ Record \subseteq Rec
  /\ \A r \in Rec : r.value <= MaxSessions + 3 /\ r.mode \in {0, r.value} => r \in Record
<1>1. Record \subseteq Rec
  BY DEF Record, Rec, Value
<1>2. ASSUME NEW r \in Rec, r.value <= MaxSessions + 3, r.mode \in {0, r.value}
      PROVE  r \in Record
  <2>1. r.value \in Value /\ r.mode \in Value \cup {0}
    BY <1>2 DEF Rec, Value
  <2>2. QED BY <1>2, <2>1 DEF Rec, Record
<1>3. QED BY <1>1, <1>2

LEMMA WorldGood ==
  ASSUME SessionInv, NEW t \in Tab
  PROVE  /\ Good(World(t), Others(t))
         /\ t \in open => Live(World(t), Others(t))
         /\ World(t).stored = stored
         /\ t \in open => World(t).state = state[t] /\ state[t] \in Rec
<1> DEFINE w == World(t)
<1>1. /\ stored \in Rec \cup {None} /\ state[t] \in Rec \cup {Blank}
      /\ t \in open => state[t] \in Rec
      /\ own[t] \in Timers /\ leaked[t] \in Timers /\ nextValue \in Nat \ {0}
  BY RecordIsRec DEF SessionInv, TypeOK, Value
<1>2. <<>> \in Seq(Rec)
  OBVIOUS
<1>3. w \in WorldType
  BY <1>1, <1>2 DEF World, WorldType
<1>4. w.stored = stored /\ w.state = state[t] /\ w.sent = <<>> /\ w.next = nextValue
  BY DEF World
<1> HIDE DEF w
<1>5. All(w, Others(t)) \subseteq Copies
  <2> SUFFICES ASSUME NEW r \in All(w, Others(t)) PROVE r \in Copies
    OBVIOUS
  <2>1. r # None /\ r # Blank
    BY DEF All
  <2>2. CASE r = stored
    BY <2>1, <2>2 DEF Copies
  <2>3. CASE r = state[t]
    BY <2>1, <2>3 DEF Copies, SessionInv
  <2>4. CASE r \in Others(t)
    BY <2>1, <2>4 DEF Copies, Others
  <2>5. QED BY <1>4, <2>2, <2>3, <2>4 DEF All
<1>6. Good(w, Others(t))
  BY <1>3, <1>4, <1>5 DEF Good, SessionInv, OneExpiry
<1>7. QED BY <1>1, <1>4, <1>6 DEF Live, w

\* A step that leaves a live world behind keeps the invariant.
LEMMA ApplyInv ==
  ASSUME SessionInv, NEW t \in Tab, NEW w, Live(w, Others(t)), Apply(t, w),
         now' = now, open' = open \cup {t}, wasOpen' \in SUBSET Tab,
         visible' \in [Tab -> BOOLEAN]
  PROVE  SessionInv'
<1>1. /\ w \in WorldType /\ w.state \in Rec /\ w.next \in Nat \ {0}
      /\ w.stored \in Rec \cup {None} /\ w.sent \in Seq(Rec)
      /\ w.own \in Timers /\ w.leaked \in Timers
  BY DEF Live, Good, WorldType
<1>2. \A r \in All(w, Others(t)) : Sound(r, w.next) /\ r \in Record
  <2> TAKE r \in All(w, Others(t))
  <2>1. Sound(r, w.next)
    BY DEF Live, Good
  <2>2. r \in Rec /\ r.value <= MaxSessions + 3 /\ r.mode \in {0, r.value}
    BY <1>1, <2>1 DEF Sound, Apply, Rec
  <2>3. QED BY <2>1, <2>2, RecordIsRec
<1>3. w.state \in All(w, Others(t))
  BY <1>1, RecIsReal DEF All
<1>4. w.stored # None => w.stored \in All(w, Others(t))
  BY <1>1, RecIsReal DEF All
<1>5. \A i \in DOMAIN w.sent : w.sent[i] \in All(w, Others(t))
  <2>1. \A i \in DOMAIN w.sent : w.sent[i] \in Rec
    BY <1>1
  <2>2. QED BY <2>1, RecIsReal DEF All
<1>6. w.sent \in Seq(Record)
  <2>1. \A i \in DOMAIN w.sent : w.sent[i] \in Record
    BY <1>2, <1>5
  <2>2. QED BY <1>1, <2>1
<1>7. /\ \A u \in Tab : events[u] \in Seq(Record)
      /\ events' = [u \in Tab |-> IF u \in open \ {t} THEN events[u] \o w.sent ELSE events[u]]
      /\ events' \in [Tab -> Seq(Record)]
  <2>1. \A u \in Tab : events[u] \in Seq(Record) /\ events[u] \o w.sent \in Seq(Record)
    BY <1>6 DEF SessionInv, TypeOK
  <2>2. events' = [u \in Tab |-> IF u \in open \ {t} THEN events[u] \o w.sent ELSE events[u]]
    BY DEF Apply
  <2>3. QED BY <2>1, <2>2
<1>8. /\ state' = [state EXCEPT ![t] = w.state] /\ stored' = w.stored
      /\ nextValue' = w.next /\ w.next <= MaxSessions + 1
  BY DEF Apply
<1>9. TypeOK'
  <2>1. stored' \in Record \cup {None}
    BY <1>1, <1>2, <1>4, <1>8
  <2>2. /\ state' \in [Tab -> Record \cup {Blank}]
        /\ \A u \in open' : state'[u] \in Record
    BY <1>2, <1>3, <1>8 DEF SessionInv, TypeOK
  <2>3. own' \in [Tab -> Timers] /\ leaked' \in [Tab -> Timers]
    BY <1>1 DEF SessionInv, TypeOK, Apply
  <2>4. nextValue' \in Value
    BY <1>1, <1>8 DEF Value
  <2>5. lastWriter' \in Tab \cup {None}
    BY DEF SessionInv, TypeOK, Apply
  <2>6. now' \in 1..MaxTime /\ open' \in SUBSET Tab
    BY DEF SessionInv, TypeOK
  <2>7. QED BY <1>7, <2>1, <2>2, <2>3, <2>4, <2>5, <2>6 DEF TypeOK
<1>10. \A u \in Tab \ open' : state'[u] = Blank /\ events'[u] = <<>>
  BY <1>7, <1>8 DEF SessionInv, TypeOK
<1>11. Copies' \subseteq All(w, Others(t))
  <2> SUFFICES ASSUME NEW r \in Copies' PROVE r \in All(w, Others(t))
    OBVIOUS
  <2>1. r # None
    BY DEF Copies
  <2>2. CASE r = stored'
    BY <1>4, <1>8, <2>1, <2>2
  <2>3. CASE \E u \in open' : r = state'[u]
    <3>1. PICK u \in open' : r = state'[u]
      BY <2>3
    <3>2. CASE u = t
      BY <1>3, <1>8, <3>1, <3>2 DEF SessionInv, TypeOK
    <3>3. CASE u # t
      <4>1. r = state[u] /\ u \in open \ {t} /\ state[u] \in Record
        BY <1>8, <3>1, <3>3 DEF SessionInv, TypeOK
      <4>2. QED BY <4>1, RecordIsRec, RecIsReal DEF All, Others
    <3>4. QED BY <3>2, <3>3
  <2>4. CASE \E u \in open' : \E i \in DOMAIN events'[u] : r = events'[u][i]
    <3>0. PICK u \in open' : \E i \in DOMAIN events'[u] : r = events'[u][i]
      BY <2>4
    <3>1. PICK i \in DOMAIN events'[u] : r = events'[u][i]
      BY <3>0
    <3>2. u \in Tab /\ events[u] \in Seq(Record)
      BY <1>7, <3>1 DEF SessionInv, TypeOK
    <3>3. CASE u \in open /\ i \in DOMAIN events[u] /\ r = events[u][i]
      <4>1. r \in Record
        BY <3>2, <3>3
      <4>2. r \in Others(t)
        BY <3>3 DEF Others
      <4>3. QED BY <4>1, <4>2, RecordIsRec, RecIsReal DEF All
    <3>4. CASE u \in open \ {t} /\ ~(i \in DOMAIN events[u])
      <4>1. events'[u] = events[u] \o w.sent
        BY <1>7, <3>2, <3>4
      <4>2. i - Len(events[u]) \in DOMAIN w.sent /\ r = w.sent[i - Len(events[u])]
        <5>1. \A p, q \in Seq(Record) : \A k \in DOMAIN (p \o q) : k \notin DOMAIN p =>
                k - Len(p) \in DOMAIN q /\ (p \o q)[k] = q[k - Len(p)]
          OBVIOUS
        <5>2. i \in DOMAIN (events[u] \o w.sent) /\ r = (events[u] \o w.sent)[i]
          BY <3>1, <4>1
        <5>3. QED BY <1>6, <3>2, <3>4, <5>1, <5>2, Zenon
      <4>3. QED BY <1>5, <4>2
    <3>5. CASE u \in open \ {t} /\ i \in DOMAIN events[u]
      <4>1. events'[u] = events[u] \o w.sent
        BY <1>7, <3>2, <3>5
      <4>2. r = events[u][i]
        BY <1>6, <3>1, <3>2, <3>5, <4>1
      <4>3. QED BY <3>3, <3>5, <4>2
    <3>6. CASE u = t
      <4>1. events'[u] = events[u]
        BY <1>7, <3>2, <3>6
      <4>2. CASE t \in open
        BY <3>1, <3>3, <3>6, <4>1, <4>2
      <4>3. CASE t \notin open
        <5>1. events[t] = <<>>
          BY <4>3 DEF SessionInv
        <5>2. DOMAIN events'[u] = {}
          BY <3>6, <4>1, <5>1
        <5>3. QED BY <3>1, <5>2
      <4>4. QED BY <4>2, <4>3
    <3>7. QED BY <3>1, <3>4, <3>5, <3>6
  <2>5. QED BY <2>2, <2>3, <2>4 DEF Copies
<1>12. \A r \in Copies' : Sound(r, nextValue)'
  <2> TAKE r \in Copies'
  <2>1. Sound(r, w.next)
    BY <1>2, <1>11
  <2>2. QED BY <1>8, <2>1 DEF Sound, Rec, Instant
<1>13. OneExpiry(Copies)'
  BY <1>11 DEF Live, Good, OneExpiry
<1>14. QED BY <1>9, <1>10, <1>12, <1>13 DEF SessionInv

-----------------------------------------------------------------------------
\* Callbacks of an open tab, and loading a page
LEMMA RunInv ==
  ASSUME SessionInv, NEW t \in Tab, NEW w, Live(w, Others(t)), Run(t, w)
  PROVE  SessionInv'
BY ApplyInv DEF Run, SessionInv, TypeOK

LEMMA LoadInv ==
  ASSUME SessionInv, NEW t \in Tab, NEW vis \in LoadVisible, Load(t, vis)
  PROVE  SessionInv'
<1>1. now \in 1..MaxTime /\ Good(World(t), Others(t)) /\ World(t).stored = stored
  BY WorldGood DEF SessionInv, TypeOK
<1>2. Live(Loaded(World(t)), Others(t))
  BY <1>1, LoadedLive DEF Load
<1>3. wasOpen' \in SUBSET Tab /\ visible' \in [Tab -> BOOLEAN]
  BY DEF Load, SessionInv, TypeOK
<1>4. QED BY <1>2, <1>3, ApplyInv DEF Load

\* What each callback leaves behind is a live world
LEMMA CallbacksLive ==
  ASSUME SessionInv, NEW t \in open
  PROVE  LET w == World(t)
             C == Others(t)
         IN /\ Live(w, C)
            /\ Live(Reset(w), C)
            /\ Live(Reset([w EXCEPT !.leaked.expires = Off]), C)
            /\ Live(Reset([w EXCEPT !.leaked.inactive = Off]), C)
            /\ Live(OnInteraction(w), C)
            /\ Live(OnPause(w), C)
            /\ Live(OnResume(w), C)
<1> DEFINE w == World(t)
           C == Others(t)
<1>1. now \in 1..MaxTime /\ Live(w, C) /\ Off \in Instant
  BY WorldGood DEF SessionInv, TypeOK, Off, Instant
<1> HIDE DEF w, C
<1>2. Live(Reset(w), C)
  BY <1>1, ResetLive DEF Live
<1>3. Live(Reset([w EXCEPT !.leaked.expires = Off]), C)
  BY <1>1, TimerLive, ResetLive DEF Live
<1>4. Live(Reset([w EXCEPT !.leaked.inactive = Off]), C)
  BY <1>1, TimerLive, ResetLive DEF Live
<1>5. Live(OnInteraction(w), C) /\ Live(OnPause(w), C) /\ Live(OnResume(w), C)
  BY <1>1, InteractionLive, PauseLive, ResumeLive
<1>6. QED BY <1>1, <1>2, <1>3, <1>4, <1>5 DEF w, C

\* Features and API calls write one field of the tab's copy
LEMMA FieldLive ==
  ASSUME SessionInv, NEW t \in open, NEW b \in BOOLEAN
  PROVE  /\ Live(Write(World(t), [state[t] EXCEPT !.mode = state[t].value]), Others(t))
         /\ Live(Write(World(t), [state[t] EXCEPT !.consent = b]), Others(t))
<1> DEFINE r == [state[t] EXCEPT !.mode = state[t].value]
           s == [state[t] EXCEPT !.consent = b]
<1>1. now \in 1..MaxTime /\ Live(World(t), Others(t))
      /\ World(t).state = state[t] /\ state[t] \in Rec
  BY WorldGood DEF SessionInv, TypeOK
<1>2. Sound(state[t], World(t).next)
  BY <1>1, StateIsKnown
<1>3. /\ r \in Rec /\ r.value = state[t].value /\ r.expiresAt = state[t].expiresAt
      /\ r.inactiveAt = state[t].inactiveAt /\ r.mode = r.value
  BY <1>1 DEF Rec
<1>4. /\ s \in Rec /\ s.value = state[t].value /\ s.expiresAt = state[t].expiresAt
      /\ s.inactiveAt = state[t].inactiveAt /\ s.mode = state[t].mode
  BY <1>1 DEF Rec
<1> HIDE DEF r, s
<1>5. Live(Write(World(t), r), Others(t))
  BY <1>1, <1>2, <1>3, WriteLive DEF Sound
<1>6. Live(Write(World(t), s), Others(t))
  BY <1>1, <1>2, <1>4, WriteLive DEF Sound
<1>7. QED BY <1>5, <1>6 DEF r, s

LEMMA AttributeInv ==
  ASSUME SessionInv, NEW t \in Tab, NEW present \in BOOLEAN,
         SyncCustomAttribute(t, present)
  PROVE  SessionInv'
<1> DEFINE v == Read(World(t))
           m == Merged(v)
           r == [m EXCEPT !.custom = present]
<1>1. t \in open
  BY DEF SyncCustomAttribute, Run
<1>2. now \in 1..MaxTime /\ Live(v, Others(t))
  BY <1>1, WorldGood, ReadLive DEF SessionInv, TypeOK
<1> HIDE DEF v
<1>3. m \in Rec /\ Sound(m, v.next)
  BY <1>2, StateIsKnown
<1>4. /\ r \in Rec /\ r.value = m.value /\ r.expiresAt = m.expiresAt
      /\ r.inactiveAt = m.inactiveAt /\ r.mode = m.mode
  BY <1>3 DEF Rec
<1> HIDE DEF r
<1>5. Live(Write(v, r), Others(t))
  BY <1>2, <1>3, <1>4, WriteLive DEF Sound
<1>6. Run(t, v) \/ Run(t, Write(v, r))
  BY DEF SyncCustomAttribute, v, r
<1>7. QED BY <1>2, <1>5, <1>6, RunInv

\* A step that adds no copy
LEMMA FewerCopiesInv ==
  ASSUME SessionInv, TypeOK', Copies' \subseteq Copies,
         now' \in {now, now + 1}, nextValue' = nextValue,
         \A t \in Tab \ open' : state'[t] = Blank /\ events'[t] = <<>>
  PROVE  SessionInv'
<1>1. \A r \in Copies' : Sound(r, nextValue)'
  <2> TAKE r \in Copies'
  <2>1. Sound(r, nextValue) /\ r.inactiveAt \in Nat /\ now \in Nat
    BY DEF SessionInv, Sound, Rec, Instant, TypeOK
  <2>2. QED BY <2>1 DEF Sound, Rec, Instant
<1>2. OneExpiry(Copies)'
  BY DEF SessionInv, OneExpiry
<1>3. QED BY <1>1, <1>2 DEF SessionInv

LEMMA StorageEventInv ==
  ASSUME SessionInv, NEW t \in Tab, StorageEvent(t) PROVE SessionInv'
<1>1. t \in open /\ events[t] # <<>> /\ \A u \in Tab : events[u] \in Seq(Record)
  BY DEF StorageEvent, SessionInv, TypeOK
<1>2. /\ state' = [state EXCEPT ![t] = Head(events[t])]
      /\ events' = [events EXCEPT ![t] = Tail(events[t])]
      /\ UNCHANGED <<now, stored, open, wasOpen, visible, own, leaked, nextValue, lastWriter>>
  BY DEF StorageEvent
<1>3. /\ 1 \in DOMAIN events[t] /\ Head(events[t]) = events[t][1]
      /\ Head(events[t]) \in Record /\ Tail(events[t]) \in Seq(Record)
      /\ \A i \in DOMAIN Tail(events[t]) :
           i + 1 \in DOMAIN events[t] /\ Tail(events[t])[i] = events[t][i + 1]
  BY <1>1
<1>4. TypeOK'
  BY <1>2, <1>3 DEF SessionInv, TypeOK
<1>5. Copies' \subseteq Copies
  <2> SUFFICES ASSUME NEW r \in Copies' PROVE r \in Copies
    OBVIOUS
  <2>1. r # None
    BY DEF Copies
  <2>2. CASE r = stored'
    BY <1>2, <2>1, <2>2 DEF Copies
  <2>3. CASE \E u \in open' : r = state'[u]
    <3>1. PICK u \in open : r = state'[u]
      BY <1>2, <2>3
    <3>2. CASE u = t
      <4>1. r = events[t][1]
        BY <1>1, <1>2, <1>3, <3>1, <3>2 DEF SessionInv, TypeOK
      <4>2. QED BY <1>1, <1>3, <2>1, <4>1 DEF Copies
    <3>3. CASE u # t
      <4>1. r = state[u]
        BY <1>2, <3>1, <3>3 DEF SessionInv, TypeOK
      <4>2. QED BY <2>1, <3>1, <4>1 DEF Copies
    <3>4. QED BY <3>2, <3>3
  <2>4. CASE \E u \in open' : \E i \in DOMAIN events'[u] : r = events'[u][i]
    <3>1. PICK u \in open : \E i \in DOMAIN events'[u] : r = events'[u][i]
      BY <1>2, <2>4
    <3>2. \E i \in DOMAIN events[u] : r = events[u][i]
      <4>1. CASE u = t
        <5>1. events'[u] = Tail(events[t])
          BY <1>1, <1>2, <4>1 DEF SessionInv, TypeOK
        <5>2. QED BY <1>3, <3>1, <4>1, <5>1
      <4>2. CASE u # t
        <5>1. events'[u] = events[u]
          BY <1>2, <3>1, <4>2 DEF SessionInv, TypeOK
        <5>2. QED BY <3>1, <5>1
      <4>3. QED BY <4>1, <4>2
    <3>3. QED BY <2>1, <3>2 DEF Copies
  <2>5. QED BY <2>2, <2>3, <2>4 DEF Copies
<1>6. \A u \in Tab \ open' : state'[u] = Blank /\ events'[u] = <<>>
  BY <1>1, <1>2 DEF SessionInv, TypeOK
<1>7. QED BY <1>2, <1>4, <1>5, <1>6, FewerCopiesInv

LEMMA CloseInv == ASSUME SessionInv, NEW t \in Tab, Close(t) PROVE SessionInv'
<1>1. <<>> \in Seq(Record) /\ NoTimers \in Timers
  BY DEF NoTimers, Timers, Off, Instant
<1>2. /\ open' = open \ {t} /\ UNCHANGED <<now, stored, wasOpen, nextValue, lastWriter>>
      /\ visible' = [visible EXCEPT ![t] = FALSE]
      /\ state' = [state EXCEPT ![t] = Blank] /\ events' = [events EXCEPT ![t] = <<>>]
      /\ own' = [own EXCEPT ![t] = NoTimers] /\ leaked' = [leaked EXCEPT ![t] = NoTimers]
  BY DEF Close
<1>3. TypeOK'
  BY <1>1, <1>2 DEF SessionInv, TypeOK
<1>4. \A u \in open' : u \in open /\ state'[u] = state[u] /\ events'[u] = events[u]
  BY <1>2 DEF SessionInv, TypeOK
<1>5. Copies' \subseteq Copies
  BY <1>2, <1>4 DEF Copies
<1>6. \A u \in Tab \ open' : state'[u] = Blank /\ events'[u] = <<>>
  BY <1>2 DEF SessionInv, TypeOK
<1>7. QED BY <1>2, <1>3, <1>5, <1>6, FewerCopiesInv

LEMMA ClearOrTickInv == ASSUME SessionInv, ClearStorage \/ Tick PROVE SessionInv'
<1>1. /\ UNCHANGED <<open, wasOpen, visible, state, own, leaked, events, nextValue>>
      /\ stored' \in {stored, None} /\ lastWriter' \in {lastWriter, None}
      /\ now' \in {now, now + 1} /\ now' \in 1..MaxTime
  BY DEF ClearStorage, Tick, SessionInv, TypeOK
<1>2. TypeOK'
  BY <1>1 DEF SessionInv, TypeOK
<1>3. Copies' \subseteq Copies
  BY <1>1 DEF Copies
<1>4. \A u \in Tab \ open' : state'[u] = Blank /\ events'[u] = <<>>
  BY <1>1 DEF SessionInv
<1>5. QED BY <1>1, <1>2, <1>3, <1>4, FewerCopiesInv

\* Timers, activity, visibility, features and API calls of a tab
LEMMA TabInv ==
  ASSUME SessionInv, NEW t \in Tab,
         \/ ExpiresTimerEnds(t) \/ InactiveTimerEnds(t) \/ Interact(t)
         \/ Hide(t) \/ Show(t) \/ WriteMode(t) \/ ResetByApi(t)
         \/ \E accept \in BOOLEAN : Consent(t, accept)
  PROVE  SessionInv'
<1>1. t \in open /\ visible \in [Tab -> BOOLEAN] /\ wasOpen \in SUBSET Tab
      /\ open = open \cup {t}
  BY DEF ExpiresTimerEnds, InactiveTimerEnds, Interact, Hide, Show, WriteMode,
         ResetByApi, Consent, Run, SessionInv, TypeOK
<1>2. CASE ExpiresTimerEnds(t)
  BY <1>1, <1>2, CallbacksLive, RunInv DEF ExpiresTimerEnds
<1>3. CASE InactiveTimerEnds(t)
  BY <1>1, <1>3, CallbacksLive, RunInv DEF InactiveTimerEnds
<1>4. CASE Interact(t)
  BY <1>1, <1>4, CallbacksLive, RunInv DEF Interact
<1>5. CASE Hide(t)
  <2>1. Live(OnPause(World(t)), Others(t))
    BY <1>1, CallbacksLive
  <2>2. visible' \in [Tab -> BOOLEAN] /\ wasOpen' \in SUBSET Tab /\ open' = open \cup {t}
    BY <1>1, <1>5 DEF Hide
  <2>3. QED BY <1>5, <2>1, <2>2, ApplyInv DEF Hide
<1>6. CASE Show(t)
  <2>1. Live(OnResume(World(t)), Others(t))
    BY <1>1, CallbacksLive
  <2>2. visible' \in [Tab -> BOOLEAN] /\ wasOpen' \in SUBSET Tab /\ open' = open \cup {t}
    BY <1>1, <1>6 DEF Show
  <2>3. QED BY <1>6, <2>1, <2>2, ApplyInv DEF Show
<1>7. CASE WriteMode(t)
  BY <1>1, <1>7, FieldLive, RunInv DEF WriteMode
<1>8. CASE ResetByApi(t)
  BY <1>1, <1>8, CallbacksLive, RunInv DEF ResetByApi
<1>9. CASE \E accept \in BOOLEAN : Consent(t, accept)
  BY <1>1, <1>9, FieldLive, RunInv DEF Consent
<1>10. QED BY <1>2, <1>3, <1>4, <1>5, <1>6, <1>7, <1>8, <1>9

-----------------------------------------------------------------------------
LEMMA InitInv == ASSUME Init PROVE SessionInv
<1>1. /\ <<>> \in Seq(Record) /\ NoTimers \in Timers /\ 1 \in 1..MaxTime /\ 1 \in Value
  BY DEF NoTimers, Timers, Off, Instant, Value
<1>2. TypeOK
  BY <1>1 DEF Init, TypeOK
<1>3. Copies = {}
  BY DEF Init, Copies
<1>4. QED BY <1>2, <1>3 DEF Init, SessionInv, OneExpiry

LEMMA NextInv == SessionInv /\ [Next]_vars => SessionInv'
<1> SUFFICES ASSUME SessionInv, [Next]_vars PROVE SessionInv'
  OBVIOUS
<1>1. CASE UNCHANGED vars
  <2>1. TypeOK' /\ Copies' \subseteq Copies
    BY <1>1 DEF vars, SessionInv, TypeOK, Copies
  <2>2. QED BY <1>1, <2>1, FewerCopiesInv DEF vars, SessionInv
<1>2. CASE ClearStorage \/ Tick
  BY <1>2, ClearOrTickInv
<1>3. ASSUME NEW t \in Tab, \E vis \in LoadVisible : Load(t, vis) PROVE SessionInv'
  BY <1>3, LoadInv
<1>4. ASSUME NEW t \in Tab, Close(t) PROVE SessionInv'
  BY <1>4, CloseInv
<1>5. ASSUME NEW t \in Tab, StorageEvent(t) PROVE SessionInv'
  BY <1>5, StorageEventInv
<1>6. ASSUME NEW t \in Tab, \E present \in BOOLEAN : SyncCustomAttribute(t, present)
      PROVE  SessionInv'
  BY <1>6, AttributeInv
<1>7. ASSUME NEW t \in Tab,
             \/ ExpiresTimerEnds(t) \/ InactiveTimerEnds(t) \/ Interact(t)
             \/ Hide(t) \/ Show(t) \/ WriteMode(t) \/ ResetByApi(t)
             \/ \E accept \in BOOLEAN : Consent(t, accept)
      PROVE  SessionInv'
  BY <1>7, TabInv
<1>8. QED BY <1>1, <1>2, <1>3, <1>4, <1>5, <1>6, <1>7 DEF Next

\* Whatever storage events, timers and resets interleave, every copy is a sound
\* record of a session that was started, and timers are armed within bounds.
THEOREM SessionInvariant == Spec => []SessionInv
<1>1. Init => SessionInv
  BY InitInv
<1>2. QED BY <1>1, NextInv, PTL DEF Spec

\* The variables keep their types.
THEOREM SessionTypes == Spec => []TypeOK
<1>1. SessionInv => TypeOK
  BY DEF SessionInv
<1>2. QED BY <1>1, SessionInvariant, PTL

\* Tabs that write over each other never move the hard expiry of a session: write()
\* stores whole records, but expiresAt only changes together with value.
THEOREM TabsAgreeOnExpiry == Spec => []OneExpiryPerSession
<1>1. SessionInv => OneExpiryPerSession
  BY DEF SessionInv, OneExpiry, OneExpiryPerSession
<1>2. QED BY <1>1, SessionInvariant, PTL

\* No replay or trace mode outlives the session it was decided in, in any tab's copy,
\* in storage or in a storage event.
THEOREM ModesStayInSession == Spec => []ModeBelongsToSession
<1>1. SessionInv => ModeBelongsToSession
  BY DEF SessionInv, Sound, ModeBelongsToSession
<1>2. QED BY <1>1, SessionInvariant, PTL

-----------------------------------------------------------------------------
\* Convergence: behind the events on their way to a tab stands what is stored.
Wrote(w) == w.sent \in Seq(Rec) /\ w.sent # <<>> /\ w.sent[Len(w.sent)] = w.stored

ConvergeInv ==
  lastWriter # None =>
    \A t \in open \ {lastWriter} :
      IF events[t] = <<>> THEN state[t] = stored
      ELSE events[t][Len(events[t])] = stored

LEMMA WriteWrote ==
  ASSUME NEW w \in WorldType, NEW r \in Rec PROVE Wrote(Write(w, r))
<1>1. w.sent \in Seq(Rec)
  BY DEF WorldType
<1>2. Write(w, r).sent = Append(w.sent, r) /\ Write(w, r).stored = r
  BY DEF Write, WorldType
<1>3. QED BY <1>1, <1>2 DEF Wrote

LEMMA ResetWrote ==
  ASSUME now \in 1..MaxTime, NEW w, NEW C, Good(w, C)
  PROVE  Wrote(Reset(w)) /\ Reset(w).stored # None
<1> DEFINE u == [w EXCEPT !.stored = None]
           r == NewRecord(u)
           v == [u EXCEPT !.own = TimersFor(r), !.next = u.next + 1]
<1>1. w \in WorldType
  BY DEF Good
<1>2. u.sent \in Seq(Rec) /\ v.sent = u.sent
  BY <1>1 DEF WorldType
<1>3. Reset(w) = Write(v, r)
  BY DEF Reset, Setup, StartSession
<1> HIDE DEF r, u
<1>4. Live(Reset(w), C)
  BY ResetLive
<1>5. Write(v, r).state = r /\ Write(v, r).stored = r /\ Write(v, r).sent = Append(v.sent, r)
  BY <1>1 DEF Write, u, WorldType
<1> HIDE DEF v
<1>6. r \in Rec
  BY <1>3, <1>4, <1>5 DEF Live
<1>7. QED BY <1>2, <1>3, <1>5, <1>6, RecIsReal DEF Wrote

LEMMA RefreshWrote ==
  ASSUME now \in 1..MaxTime, NEW w, NEW C, Live(w, C) PROVE Wrote(Refresh(w))
<1> DEFINE v == Read(w)
           r == [Merged(v) EXCEPT !.inactiveAt = now + InactiveMs]
<1>1. v \in WorldType /\ Merged(v) \in Rec
  BY ReadLive, StateIsKnown DEF Live, Good
<1> HIDE DEF v
<1>2. now + InactiveMs \in Instant
  BY DEF Instant
<1>3. r \in Rec
  BY <1>1, <1>2 DEF Rec
<1>4. QED BY <1>1, <1>3, WriteWrote DEF Refresh, v

LEMMA InteractionWrote ==
  ASSUME now \in 1..MaxTime, NEW w, NEW C, Live(w, C) PROVE Wrote(OnInteraction(w))
<1>1. ASSUME NEW v, Live(v, C) PROVE Wrote(RefreshOwn(v)) /\ Wrote(RefreshLeaked(v))
  BY <1>1, RearmedInTime, TimerLive, RefreshWrote DEF RefreshOwn, RefreshLeaked
<1>2. QED BY <1>1, RefreshLeakedLive DEF OnInteraction

LEMMA ResumeWrote ==
  ASSUME now \in 1..MaxTime, NEW w, NEW C, Live(w, C) PROVE Wrote(OnResume(w))
<1>1. Off \in Instant
  BY DEF Off, Instant
<1>2. Good([w EXCEPT !.leaked.inactive = Off], C)
  BY <1>1, TimerLive DEF Live
<1>3. QED BY <1>2, ResetWrote, InteractionWrote DEF OnResume

LEMMA PauseWrote ==
  ASSUME now \in 1..MaxTime, NEW w, NEW C, Live(w, C) PROVE Wrote(OnPause(w))
<1> DEFINE v == [w EXCEPT !.own.inactive = Off, !.leaked.inactive = Off]
<1>1. Live(v, C)
  <2>1. Off \in Instant
    BY DEF Off, Instant
  <2>2. QED BY <2>1, TimerLive
<1>2. v.state = w.state /\ w.state \in Rec
  BY DEF Live, Good, WorldType
<1> HIDE DEF v
<1>3. v \in WorldType /\ Write(v, w.state) \in WorldType
  BY <1>1, <1>2, WriteStateLive DEF Live, Good
<1>4. Wrote(Write(v, w.state)) /\ Wrote(Write(Write(v, w.state), w.state))
  BY <1>2, <1>3, WriteWrote
<1>5. QED BY <1>4 DEF OnPause, v

\* A page joins what is stored, or starts a session and writes it.
LEMMA LoadedTold ==
  ASSUME now \in 1..MaxTime, NEW w, NEW C, Good(w, C), w.sent = <<>>
  PROVE  \/ Wrote(Loaded(w))
         \/ Loaded(w).sent = <<>> /\ Loaded(w).stored = w.stored /\ Loaded(w).state = w.stored
<1>1. CASE w.stored = None
  <2>1. [w EXCEPT !.stored = None] = w
    BY <1>1 DEF Good, WorldType
  <2>2. Reset(w) = Setup(w)
    BY <2>1 DEF Reset
  <2>3. QED BY <1>1, <2>2, ResetWrote DEF Loaded
<1>2. CASE w.stored # None /\ IsExpired(w.stored)
  <2> DEFINE inner == Reset(w)
             v == [inner EXCEPT !.leaked = inner.own]
  <2>1. inner \in WorldType /\ inner.state \in Rec
    BY ResetLive DEF Live, Good
  <2> HIDE DEF inner
  <2>2. inner.own \in Timers
    BY <2>1 DEF WorldType
  <2>3. v \in WorldType
    BY <2>1, <2>2, Zenon DEF WorldType
  <2> HIDE DEF v
  <2>4. Wrote(Write(v, inner.state))
    BY <2>1, <2>3, WriteWrote
  <2>5. QED BY <1>2, <2>4 DEF Loaded, inner, v
<1>3. CASE w.stored # None /\ ~IsExpired(w.stored)
  <2>1. Loaded(w) = [w EXCEPT !.state = w.stored, !.own = TimersFor(w.stored)]
    BY <1>3 DEF Loaded
  <2>2. QED BY <2>1 DEF Good, WorldType
<1>4. QED BY <1>1, <1>2, <1>3

LEMMA ApplyConverges ==
  ASSUME SessionInv, ConvergeInv, NEW t \in Tab, NEW w, Live(w, Others(t)), Apply(t, w),
         open' = open \cup {t},
         \/ Wrote(w)
         \/ /\ w.sent = <<>> /\ w.stored = stored
            /\ IF t \in open THEN w.state = state[t] ELSE w.state = stored
  PROVE  ConvergeInv'
<1>1. \A u \in Tab : events[u] \in Seq(Record)
  BY DEF SessionInv, TypeOK
<1>2. /\ stored' = w.stored /\ state' = [state EXCEPT ![t] = w.state]
      /\ events' = [u \in Tab |-> IF u \in open \ {t} THEN events[u] \o w.sent ELSE events[u]]
      /\ lastWriter' = IF w.sent = <<>> THEN lastWriter ELSE t
  BY DEF Apply
<1>3. w.sent \in Seq(Rec)
  BY DEF Live, Good, WorldType
<1>4. CASE Wrote(w)
  <2>1. lastWriter' = t
    BY <1>2, <1>4 DEF Wrote
  <2>2. \A u \in open \ {t} :
          events'[u] # <<>> /\ events'[u][Len(events'[u])] = stored'
    <3> TAKE u \in open \ {t}
    <3>1. u \in Tab /\ events[u] \in Seq(Rec)
      BY <1>1, RecordIsRec DEF SessionInv, TypeOK
    <3>2. events'[u] = events[u] \o w.sent
      BY <1>2, <3>1
    <3>3. \A p, q \in Seq(Rec) : q # <<>> =>
            p \o q # <<>> /\ (p \o q)[Len(p \o q)] = q[Len(q)]
      OBVIOUS
    <3>4. QED BY <1>2, <1>3, <1>4, <3>1, <3>2, <3>3 DEF Wrote
  <2>3. QED BY <2>1, <2>2 DEF ConvergeInv
<1>5. CASE /\ w.sent = <<>> /\ w.stored = stored
           /\ IF t \in open THEN w.state = state[t] ELSE w.state = stored
  <2>1. lastWriter' = lastWriter /\ stored' = stored
    BY <1>2, <1>5
  <2>2. \A u \in Tab : events'[u] = events[u]
    BY <1>1, <1>2, <1>5
  <2>3. \A u \in Tab : u # t => state'[u] = state[u]
    BY <1>2 DEF SessionInv, TypeOK
  <2>4. state'[t] = w.state
    BY <1>2 DEF SessionInv, TypeOK
  <2>5. t \notin open => events[t] = <<>>
    BY DEF SessionInv
  <2>6. \A u \in open' : u \in Tab /\ (u # t => u \in open)
    BY DEF SessionInv, TypeOK
  <2>7. QED BY <1>5, <2>1, <2>2, <2>3, <2>4, <2>5, <2>6 DEF ConvergeInv
<1>6. QED BY <1>4, <1>5

LEMMA RunConverges ==
  ASSUME SessionInv, ConvergeInv, NEW t \in Tab, NEW w, Live(w, Others(t)), Run(t, w),
         Wrote(w) \/ (w.sent = <<>> /\ w.stored = stored /\ w.state = state[t])
  PROVE  ConvergeInv'
<1>1. open' = open \cup {t} /\ t \in open /\ Apply(t, w)
  BY DEF Run
<1>2. QED BY <1>1, ApplyConverges

LEMMA LoadConverges ==
  ASSUME SessionInv, ConvergeInv, NEW t \in Tab, NEW vis \in LoadVisible, Load(t, vis)
  PROVE  ConvergeInv'
<1>1. now \in 1..MaxTime /\ Good(World(t), Others(t)) /\ World(t).stored = stored
  BY WorldGood DEF SessionInv, TypeOK
<1>2. Live(Loaded(World(t)), Others(t))
  BY <1>1, LoadedLive DEF Load
<1>3. World(t).sent = <<>>
  BY DEF World
<1>4. \/ Wrote(Loaded(World(t)))
      \/ /\ Loaded(World(t)).sent = <<>> /\ Loaded(World(t)).stored = stored
         /\ Loaded(World(t)).state = stored
  BY <1>1, <1>3, LoadedTold
<1>5. t \notin open /\ open' = open \cup {t} /\ Apply(t, Loaded(World(t)))
  BY DEF Load
<1>6. QED BY <1>2, <1>4, <1>5, ApplyConverges

\* These callbacks of an open tab end with a write.
LEMMA CallbacksWrote ==
  ASSUME SessionInv, NEW t \in open
  PROVE  LET w == World(t)
         IN /\ Wrote(Reset(w))
            /\ Wrote(Reset([w EXCEPT !.leaked.expires = Off]))
            /\ Wrote(Reset([w EXCEPT !.leaked.inactive = Off]))
            /\ Wrote(OnInteraction(w))
            /\ Wrote(OnPause(w))
            /\ Wrote(OnResume(w))
            /\ Wrote(Write(w, [state[t] EXCEPT !.mode = state[t].value]))
            /\ \A b \in BOOLEAN : Wrote(Write(w, [state[t] EXCEPT !.consent = b]))
<1> DEFINE w == World(t)
           C == Others(t)
<1>1. /\ now \in 1..MaxTime /\ Live(w, C) /\ Off \in Instant
      /\ state[t] \in Rec /\ w \in WorldType
  BY WorldGood DEF SessionInv, TypeOK, Off, Instant, Live, Good
<1> HIDE DEF w, C
<1>2. /\ Good(w, C) /\ Good([w EXCEPT !.leaked.expires = Off], C)
      /\ Good([w EXCEPT !.leaked.inactive = Off], C)
  BY <1>1, TimerLive DEF Live
<1>3. /\ Wrote(Reset(w)) /\ Wrote(Reset([w EXCEPT !.leaked.expires = Off]))
      /\ Wrote(Reset([w EXCEPT !.leaked.inactive = Off]))
  BY <1>1, <1>2, ResetWrote
<1>4. Wrote(OnInteraction(w)) /\ Wrote(OnPause(w)) /\ Wrote(OnResume(w))
  BY <1>1, InteractionWrote, PauseWrote, ResumeWrote
<1>5. /\ [state[t] EXCEPT !.mode = state[t].value] \in Rec
      /\ \A b \in BOOLEAN : [state[t] EXCEPT !.consent = b] \in Rec
  BY <1>1 DEF Rec
<1>6. /\ Wrote(Write(w, [state[t] EXCEPT !.mode = state[t].value]))
      /\ \A b \in BOOLEAN : Wrote(Write(w, [state[t] EXCEPT !.consent = b]))
  BY <1>1, <1>5, WriteWrote
<1>7. QED BY <1>3, <1>4, <1>6 DEF w

LEMMA TabConverges ==
  ASSUME SessionInv, ConvergeInv, NEW t \in Tab,
         \/ ExpiresTimerEnds(t) \/ InactiveTimerEnds(t) \/ Interact(t)
         \/ Hide(t) \/ Show(t) \/ WriteMode(t) \/ ResetByApi(t)
         \/ \E accept \in BOOLEAN : Consent(t, accept)
  PROVE  ConvergeInv'
<1>1. t \in open /\ open = open \cup {t}
  BY DEF ExpiresTimerEnds, InactiveTimerEnds, Interact, Hide, Show, WriteMode,
         ResetByApi, Consent, Run
<1>2. CASE ExpiresTimerEnds(t)
  BY <1>1, <1>2, CallbacksLive, CallbacksWrote, RunConverges DEF ExpiresTimerEnds
<1>3. CASE InactiveTimerEnds(t)
  BY <1>1, <1>3, CallbacksLive, CallbacksWrote, RunConverges DEF InactiveTimerEnds
<1>4. CASE Interact(t)
  BY <1>1, <1>4, CallbacksLive, CallbacksWrote, RunConverges DEF Interact
<1>5. CASE Hide(t)
  <2>1. Live(OnPause(World(t)), Others(t)) /\ Wrote(OnPause(World(t)))
    BY <1>1, CallbacksLive, CallbacksWrote
  <2>2. open' = open \cup {t} /\ Apply(t, OnPause(World(t)))
    BY <1>1, <1>5 DEF Hide
  <2>3. QED BY <2>1, <2>2, ApplyConverges
<1>6. CASE Show(t)
  <2>1. Live(OnResume(World(t)), Others(t)) /\ Wrote(OnResume(World(t)))
    BY <1>1, CallbacksLive, CallbacksWrote
  <2>2. open' = open \cup {t} /\ Apply(t, OnResume(World(t)))
    BY <1>1, <1>6 DEF Show
  <2>3. QED BY <2>1, <2>2, ApplyConverges
<1>7. CASE WriteMode(t)
  BY <1>1, <1>7, FieldLive, CallbacksWrote, RunConverges DEF WriteMode
<1>8. CASE ResetByApi(t)
  BY <1>1, <1>8, CallbacksLive, CallbacksWrote, RunConverges DEF ResetByApi
<1>9. CASE \E accept \in BOOLEAN : Consent(t, accept)
  BY <1>1, <1>9, FieldLive, CallbacksWrote, RunConverges DEF Consent
<1>10. QED BY <1>2, <1>3, <1>4, <1>5, <1>6, <1>7, <1>8, <1>9

LEMMA AttributeConverges ==
  ASSUME SessionInv, ConvergeInv, NEW t \in Tab, NEW present \in BOOLEAN,
         SyncCustomAttribute(t, present)
  PROVE  ConvergeInv'
<1> DEFINE w == World(t)
           C == Others(t)
           v == Read(w)
           r == [Merged(v) EXCEPT !.custom = present]
<1>1. t \in open /\ now \in 1..MaxTime
  BY DEF SyncCustomAttribute, Run, SessionInv, TypeOK
<1>2. /\ Live(w, C) /\ Live(v, C) /\ w.stored = stored /\ w.state = state[t]
      /\ w.sent = <<>>
  BY <1>1, WorldGood, ReadLive DEF World
<1> HIDE DEF w, C
<1>3. CASE ~present /\ v.stored = None
  <2>1. ~IsExpired(w.stored)
    BY <1>1, <1>2, <1>3, ResetWrote DEF Read, Live
  <2>2. v = w
    BY <2>1 DEF Read
  <2>3. Run(t, v)
    BY <1>3 DEF SyncCustomAttribute, v, w
  <2> HIDE DEF v
  <2>4. Live(v, Others(t)) /\ v.sent = <<>> /\ v.stored = stored /\ v.state = state[t]
    BY <1>2, <2>2 DEF C
  <2>5. QED BY <2>3, <2>4, RunConverges
<1>4. CASE ~(~present /\ v.stored = None)
  <2>1. Run(t, Write(v, r))
    BY <1>4 DEF SyncCustomAttribute, v, w, r
  <2> HIDE DEF v
  <2>2. v \in WorldType /\ Merged(v) \in Rec /\ Sound(Merged(v), v.next)
    BY <1>2, StateIsKnown DEF Live, Good
  <2>3. /\ r \in Rec /\ r.value = Merged(v).value /\ r.expiresAt = Merged(v).expiresAt
        /\ r.inactiveAt = Merged(v).inactiveAt /\ r.mode = Merged(v).mode
    BY <2>2 DEF Rec
  <2> HIDE DEF r
  <2>4. Live(Write(v, r), C)
    BY <1>1, <1>2, <2>2, <2>3, WriteLive DEF Sound
  <2>5. Wrote(Write(v, r))
    BY <2>2, <2>3, WriteWrote
  <2>6. QED BY <2>1, <2>4, <2>5, RunConverges DEF C
<1>5. QED BY <1>3, <1>4

LEMMA StorageEventConverges ==
  ASSUME SessionInv, ConvergeInv, NEW t \in Tab, StorageEvent(t) PROVE ConvergeInv'
<1>1. t \in open /\ events[t] # <<>> /\ events[t] \in Seq(Record)
  BY DEF StorageEvent, SessionInv, TypeOK
<1>2. /\ state' = [state EXCEPT ![t] = Head(events[t])]
      /\ events' = [events EXCEPT ![t] = Tail(events[t])]
      /\ UNCHANGED <<stored, open, lastWriter>>
  BY DEF StorageEvent
<1>3. /\ state'[t] = Head(events[t]) /\ events'[t] = Tail(events[t])
      /\ \A u \in open \ {t} : state'[u] = state[u] /\ events'[u] = events[u]
  BY <1>2 DEF SessionInv, TypeOK
<1>4. \A p \in Seq(Record) : p # <<>> =>
        IF Tail(p) = <<>> THEN p[Len(p)] = Head(p) ELSE Tail(p)[Len(Tail(p))] = p[Len(p)]
  <2> TAKE p \in Seq(Record)
  <2> HAVE p # <<>>
  <2>1. Len(Tail(p)) = Len(p) - 1 /\ Tail(p) \in Seq(Record)
    OBVIOUS
  <2> DEFINE q == Tail(p)
  <2>2. \A k \in 1..Len(q) : q[k] = p[k + 1]
    OBVIOUS
  <2>3. Len(q) = Len(p) - 1 /\ q \in Seq(Record)
    BY <2>1
  <2>4. Len(p) \in Nat /\ Head(p) = p[1]
    OBVIOUS
  <2> HIDE DEF q
  <2>5. CASE q = <<>>
    <3>1. Len(q) = 0
      BY <2>5, EmptySeq
    <3>2. Len(p) = 1
      BY <2>3, <2>4, <3>1
    <3>3. QED BY <2>4, <2>5, <3>2 DEF q
  <2>6. CASE q # <<>>
    <3>1. Len(q) \in 1..Len(q) /\ Len(q) + 1 = Len(p)
      BY <2>3, <2>4, <2>6, EmptySeq
    <3>2. q[Len(q)] = p[Len(p)]
      BY <2>2, <3>1
    <3>3. QED BY <2>6, <3>2 DEF q
  <2>7. QED BY <2>5, <2>6
<1>5. IF events'[t] = <<>> THEN state'[t] = events[t][Len(events[t])]
      ELSE events'[t][Len(events'[t])] = events[t][Len(events[t])]
  BY <1>1, <1>3, <1>4
<1>6. QED BY <1>1, <1>2, <1>3, <1>5 DEF ConvergeInv

LEMMA NextConverges == SessionInv /\ ConvergeInv /\ [Next]_vars => ConvergeInv'
<1> SUFFICES ASSUME SessionInv, ConvergeInv, [Next]_vars PROVE ConvergeInv'
  OBVIOUS
<1>1. CASE UNCHANGED vars
  BY <1>1 DEF vars, ConvergeInv
<1>2. CASE ClearStorage \/ Tick
  BY <1>2 DEF ClearStorage, Tick, ConvergeInv
<1>3. ASSUME NEW t \in Tab, \E vis \in LoadVisible : Load(t, vis) PROVE ConvergeInv'
  BY <1>3, LoadConverges
<1>4. ASSUME NEW t \in Tab, Close(t) PROVE ConvergeInv'
  <2>1. \A u \in open' : u \in open /\ state'[u] = state[u] /\ events'[u] = events[u]
    BY <1>4 DEF Close, SessionInv, TypeOK
  <2>2. QED BY <1>4, <2>1 DEF Close, ConvergeInv
<1>5. ASSUME NEW t \in Tab, StorageEvent(t) PROVE ConvergeInv'
  BY <1>5, StorageEventConverges
<1>6. ASSUME NEW t \in Tab, \E present \in BOOLEAN : SyncCustomAttribute(t, present)
      PROVE  ConvergeInv'
  BY <1>6, AttributeConverges
<1>7. ASSUME NEW t \in Tab,
             \/ ExpiresTimerEnds(t) \/ InactiveTimerEnds(t) \/ Interact(t)
             \/ Hide(t) \/ Show(t) \/ WriteMode(t) \/ ResetByApi(t)
             \/ \E accept \in BOOLEAN : Consent(t, accept)
      PROVE  ConvergeInv'
  BY <1>7, TabConverges
<1>8. QED BY <1>1, <1>2, <1>3, <1>4, <1>5, <1>6, <1>7 DEF Next

\* Once its storage events are delivered, every tab but the last writer holds what is
\* stored, with any number of tabs and any interleaving of their writes.
THEOREM TabsHoldWhatIsStored == Spec => []TabsConverge
<1>1. Init => ConvergeInv
  BY DEF Init, ConvergeInv
<1>2. ConvergeInv => TabsConverge
  BY DEF ConvergeInv, TabsConverge
<1>3. QED BY <1>1, <1>2, NextConverges, SessionInvariant, PTL DEF Spec
-----------------------------------------------------------------------------
(***************************************************************************)
(* A tab alone: nobody else writes to storage.  With another tab a timer   *)
(* may end a session it was not armed for, and consent may be overwritten. *)
(***************************************************************************)
Alone == \A t, u \in Tab : t = u

\* Storage holds the tab's copy or nothing, and the expiry timer is that copy's;
\* so is the inactivity timer, if it has been armed for a whole session.
Linked(w) == w.stored \in {None, w.state} /\ w.own.expires = w.state.expiresAt
Held(w) ==
  /\ Linked(w)
  /\ w.own.initialMs = InactiveMs => w.own.inactive \in {Off, w.state.inactiveAt}

\* A callback takes a held world to one whose consent is the same and still stored
Follows(w, v) ==
  /\ Held(v) /\ v.state.consent = w.state.consent
  /\ w.stored # None => v.stored # None

AloneInv == \A t \in Tab : events[t] = <<>> /\ (t \in open => Held(World(t)))

LEMMA WriteIs ==
  ASSUME NEW w \in WorldType, NEW r \in Rec
  PROVE  /\ Write(w, r).state = r /\ Write(w, r).stored = r
         /\ Write(w, r).own = w.own /\ Write(w, r).stored # None
BY RecIsReal DEF Write, WorldType

\* A new session arms both timers and inherits the consent
Renews(w, v) ==
  /\ Held(v) /\ v.state.consent = w.state.consent /\ v.stored = v.state /\ v.stored # None
  /\ v.own.inactive = now + InactiveMs

LEMMA SetupRenews ==
  ASSUME now \in 1..MaxTime, NEW w, NEW C, Good(w, C) PROVE Renews(w, Setup(w))
<1> DEFINE r == NewRecord(w)
           o == TimersFor(r)
           u == [w EXCEPT !.own = o, !.next = w.next + 1]
<1>1. w \in WorldType
  BY DEF Good
<1>2. r.expiresAt = now + ExpiresMs /\ r.inactiveAt = now + InactiveMs
      /\ r.consent = w.state.consent
  BY DEF NewRecord
<1>3. o.expires = r.expiresAt /\ o.inactive = r.inactiveAt
  BY DEF TimersFor
<1>4. u.own = o
  BY <1>1 DEF WorldType
<1>5. Setup(w) = Write(u, r)
  BY DEF Setup, StartSession
<1> HIDE DEF o, r
<1>6. u.sent = w.sent /\ DOMAIN u = DOMAIN w
  BY <1>1 DEF WorldType
<1>7. /\ Write(u, r).state = r /\ Write(u, r).stored = r /\ Write(u, r).own = o
  BY <1>1, <1>4 DEF Write, WorldType
<1> HIDE DEF u
<1>8. Setup(w).stored = Setup(w).state /\ Setup(w).state \in Rec
  BY SetupGood
<1>9. r # None
  BY <1>5, <1>7, <1>8, RecIsReal
<1>10. QED BY <1>2, <1>3, <1>5, <1>7, <1>9 DEF Renews, Held, Linked

LEMMA ResetRenews ==
  ASSUME now \in 1..MaxTime, NEW w, NEW C, Good(w, C) PROVE Renews(w, Reset(w))
<1> DEFINE u == [w EXCEPT !.stored = None]
<1>1. w \in WorldType
  BY DEF Good
<1>2. u \in WorldType
  <2>1. None \in Rec \cup {None}
    OBVIOUS
  <2>2. QED BY <1>1, <2>1, Zenon DEF WorldType
<1>3. u.stored = None /\ u.state = w.state /\ u.sent = w.sent /\ u.next = w.next
  BY <1>1 DEF WorldType
<1>4. Reset(w) = Setup(u)
  BY DEF Reset
<1> HIDE DEF u
<1>5. Good(u, C)
  BY <1>2, <1>3, FewerCopies
<1>6. Renews(u, Setup(u))
  BY <1>5, SetupRenews
<1>7. QED BY <1>3, <1>4, <1>6 DEF Renews

LEMMA RenewsFollows == ASSUME NEW w, NEW v, Renews(w, v) PROVE Follows(w, v)
BY DEF Renews, Follows

\* Activity stores the copy with a later inactiveAt
Extends(w, v) ==
  /\ Linked(v) /\ v.state.consent = w.state.consent /\ v.stored # None
  /\ v.state.inactiveAt = now + InactiveMs
  /\ IF IsExpired(w.stored) THEN v.own.inactive = now + InactiveMs ELSE v.own = w.own

LEMMA RefreshExtendsIt ==
  ASSUME now \in 1..MaxTime, NEW w, NEW C, Live(w, C), Linked(w)
  PROVE  Extends(w, Refresh(w))
<1> DEFINE v == Read(w)
           m == Merged(v)
           r == [m EXCEPT !.inactiveAt = now + InactiveMs]
<1>1. Live(v, C)
  BY ReadLive
<1>2. /\ Linked(v) /\ v.state.consent = w.state.consent
      /\ IF IsExpired(w.stored) THEN v.own.inactive = now + InactiveMs ELSE v.own = w.own
  <2>1. CASE IsExpired(w.stored)
    <3>1. v = Reset(w)
      BY <2>1 DEF Read
    <3>2. Renews(w, v)
      BY <3>1, ResetRenews DEF Live
    <3>3. QED BY <2>1, <3>2 DEF Renews, Held
  <2>2. CASE ~IsExpired(w.stored)
    <3>1. v = w
      BY <2>2 DEF Read
    <3>2. QED BY <2>2, <3>1
  <2>3. QED BY <2>1, <2>2
<1>3. Refresh(w) = Write(v, r)
  BY DEF Refresh
<1> HIDE DEF v
<1>4. m = v.state /\ m \in Rec
  BY <1>1, <1>2 DEF Merged, Linked, Live
<1>5. now + InactiveMs \in Instant
  BY DEF Instant
<1>6. r \in Rec /\ r.expiresAt = m.expiresAt /\ r.consent = m.consent
      /\ r.inactiveAt = now + InactiveMs
  BY <1>4, <1>5 DEF Rec
<1> HIDE DEF r, m
<1>7. /\ Write(v, r).state = r /\ Write(v, r).stored = r
      /\ Write(v, r).own = v.own /\ Write(v, r).stored # None
  BY <1>1, <1>6, WriteIs DEF Live, Good
<1>8. QED BY <1>2, <1>3, <1>4, <1>6, <1>7 DEF Extends, Linked

\* Only the inactivity timers are armed again or switched off
LEMMA Rearmed ==
  ASSUME NEW w \in WorldType, NEW x
  PROVE  LET a == [w EXCEPT !.own.inactive = x]
             b == [w EXCEPT !.leaked.inactive = x]
             c == [w EXCEPT !.own.inactive = x, !.leaked.inactive = x]
             d == [w EXCEPT !.leaked.expires = x]
         IN /\ \A y \in {a, b, c, d} : y.stored = w.stored /\ y.state = w.state
            /\ \A y \in {a, c} : y.own.inactive = x /\ y.own.expires = w.own.expires
                                 /\ y.own.initialMs = w.own.initialMs
            /\ b.own = w.own /\ d.own = w.own
BY DEF WorldType, Timers

LEMMA RefreshOwnFollows ==
  ASSUME now \in 1..MaxTime, NEW w, NEW C, Live(w, C), Linked(w)
  PROVE  Follows(w, RefreshOwn(w))
<1> DEFINE x == now + w.own.initialMs
           u == [w EXCEPT !.own.inactive = x]
<1>1. w \in WorldType
  BY DEF Live, Good
<1>2. Live(u, C)
  BY RearmedInTime, TimerLive
<1>3. /\ u.stored = w.stored /\ u.state = w.state /\ u.own.inactive = x
      /\ u.own.expires = w.own.expires /\ u.own.initialMs = w.own.initialMs
  BY <1>1, Rearmed
<1>4. RefreshOwn(w) = Refresh(u)
  BY DEF RefreshOwn
<1> HIDE DEF u
<1>5. Extends(u, Refresh(u))
  BY <1>2, <1>3, RefreshExtendsIt DEF Linked
<1>6. QED BY <1>3, <1>4, <1>5 DEF Extends, Follows, Held

LEMMA RefreshLeakedExtends ==
  ASSUME now \in 1..MaxTime, NEW w, NEW C, Live(w, C), Linked(w)
  PROVE  Extends(w, RefreshLeaked(w))
<1> DEFINE x == now + w.leaked.initialMs
           u == [w EXCEPT !.leaked.inactive = x]
<1>1. w \in WorldType
  BY DEF Live, Good
<1>2. Live(u, C)
  BY RearmedInTime, TimerLive
<1>3. u.stored = w.stored /\ u.state = w.state /\ u.own = w.own
  BY <1>1, Rearmed
<1>4. RefreshLeaked(w) = Refresh(u)
  BY DEF RefreshLeaked
<1> HIDE DEF u
<1>5. Extends(u, Refresh(u))
  BY <1>2, <1>3, RefreshExtendsIt DEF Linked
<1>6. QED BY <1>3, <1>4, <1>5 DEF Extends

LEMMA InteractionFollows ==
  ASSUME now \in 1..MaxTime, NEW w, NEW C, Live(w, C), Linked(w)
  PROVE  Follows(w, OnInteraction(w))
<1> DEFINE v == RefreshLeaked(w)
<1>1. CASE ~HasLeaked(w)
  BY <1>1, RefreshOwnFollows DEF OnInteraction
<1>2. Extends(w, v) /\ Live(v, C)
  BY RefreshLeakedExtends, RefreshLeakedLive
<1>3. CASE HasLeaked(w) /\ IsExpired(w.stored)
  <2>1. OnInteraction(w) = v
    BY <1>3 DEF OnInteraction
  <2>2. QED BY <1>2, <1>3, <2>1 DEF Extends, Follows, Held
<1>4. CASE HasLeaked(w) /\ ~IsExpired(w.stored)
  <2>1. OnInteraction(w) = RefreshOwn(v)
    BY <1>4 DEF OnInteraction
  <2> HIDE DEF v
  <2>2. Follows(v, RefreshOwn(v))
    BY <1>2, RefreshOwnFollows DEF Extends
  <2>3. QED BY <1>2, <2>1, <2>2 DEF Extends, Follows
<1>5. QED BY <1>1, <1>3, <1>4

LEMMA ResumeFollows ==
  ASSUME now \in 1..MaxTime, NEW w, NEW C, Live(w, C), Linked(w)
  PROVE  Follows(w, OnResume(w))
<1> DEFINE u == [w EXCEPT !.leaked.inactive = Off]
<1>1. Live(u, C) /\ u.state = w.state
  <2>1. Off \in Instant
    BY DEF Off, Instant
  <2>2. w \in WorldType
    BY DEF Live, Good
  <2>3. QED BY <2>1, <2>2, TimerLive, Rearmed
<1>2. CASE w.stored = None \/ IsExpired(w.stored)
  <2>1. OnResume(w) = Reset(u)
    BY <1>2 DEF OnResume
  <2> HIDE DEF u
  <2>2. Renews(u, Reset(u))
    BY <1>1, ResetRenews DEF Live
  <2>3. QED BY <1>1, <2>1, <2>2 DEF Renews, Follows
<1>3. CASE ~(w.stored = None \/ IsExpired(w.stored))
  BY <1>3, InteractionFollows DEF OnResume
<1>4. QED BY <1>2, <1>3

LEMMA PauseFollows ==
  ASSUME now \in 1..MaxTime, NEW w, NEW C, Live(w, C), Linked(w)
  PROVE  Follows(w, OnPause(w))
<1> DEFINE u == [w EXCEPT !.own.inactive = Off, !.leaked.inactive = Off]
           v == Write(u, w.state)
<1>1. w \in WorldType /\ w.state \in Rec
  BY DEF Live, Good
<1>2. Live(u, C)
  <2>1. Off \in Instant
    BY DEF Off, Instant
  <2>2. QED BY <2>1, TimerLive
<1>3. u.own.inactive = Off /\ u.own.expires = w.own.expires /\ u.state = w.state
  BY <1>1, Rearmed
<1>4. OnPause(w) \in {v, Write(v, w.state)}
  BY DEF OnPause
<1> HIDE DEF u
<1>5. /\ v.state = w.state /\ v.stored = w.state /\ v.own = u.own /\ v.stored # None
      /\ Live(v, C)
  BY <1>1, <1>2, <1>3, WriteIs, WriteStateLive DEF Live, Good
<1> HIDE DEF v
<1>6. /\ Write(v, w.state).state = w.state /\ Write(v, w.state).stored = w.state
      /\ Write(v, w.state).own = u.own /\ Write(v, w.state).stored # None
  BY <1>1, <1>5, WriteIs DEF Live, Good
<1>7. QED BY <1>3, <1>4, <1>5, <1>6 DEF Follows, Held, Linked

LEMMA LoadedHeld ==
  ASSUME now \in 1..MaxTime, NEW w, NEW C, Good(w, C) PROVE Held(Loaded(w))
<1>1. w \in WorldType
  BY DEF Good
<1>2. CASE w.stored = None
  BY <1>2, SetupRenews DEF Loaded, Renews
<1>3. CASE w.stored # None /\ ~IsExpired(w.stored)
  <2> DEFINE o == TimersFor(w.stored)
  <2>1. Loaded(w) = [w EXCEPT !.state = w.stored, !.own = o]
    BY <1>3 DEF Loaded
  <2>2. o.expires = w.stored.expiresAt /\ o.inactive = w.stored.inactiveAt
    BY DEF TimersFor
  <2> HIDE DEF o
  <2>3. Loaded(w).state = w.stored /\ Loaded(w).own = o /\ Loaded(w).stored = w.stored
    BY <1>1, <2>1 DEF WorldType
  <2>4. QED BY <2>2, <2>3 DEF Held, Linked
<1>4. CASE w.stored # None /\ IsExpired(w.stored)
  <2> DEFINE v == Reset(w)
             u == [v EXCEPT !.leaked = v.own]
  <2>1. Renews(w, v) /\ Live(v, C)
    BY ResetRenews, ResetLive
  <2>2. Loaded(w) = Write(u, v.state)
    BY <1>4 DEF Loaded
  <2> HIDE DEF v
  <2>3. v \in WorldType /\ v.state \in Rec /\ v.own \in Timers
    BY <2>1 DEF Live, Good, WorldType
  <2>4. u \in WorldType
    BY <2>3, Zenon DEF WorldType
  <2>5. u.own = v.own
    BY <2>3 DEF WorldType
  <2> HIDE DEF u
  <2>6. Loaded(w).state = v.state /\ Loaded(w).stored = v.state /\ Loaded(w).own = v.own
    BY <2>2, <2>3, <2>4, <2>5, WriteIs
  <2>7. QED BY <2>1, <2>6 DEF Renews, Held, Linked
<1>5. QED BY <1>2, <1>3, <1>4

\* Features and API calls leave the timestamps alone
LEMMA FieldHeld ==
  ASSUME NEW w, NEW C, Live(w, C), Held(w), NEW r \in Rec,
         r.expiresAt = w.state.expiresAt, r.inactiveAt = w.state.inactiveAt
  PROVE  Held(Write(w, r)) /\ Write(w, r).state = r /\ Write(w, r).stored # None
<1>1. /\ Write(w, r).state = r /\ Write(w, r).stored = r
      /\ Write(w, r).own = w.own /\ Write(w, r).stored # None
  BY WriteIs DEF Live, Good
<1>2. QED BY <1>1 DEF Held, Linked

LEMMA AttributeFollows ==
  ASSUME now \in 1..MaxTime, NEW w, NEW C, Live(w, C), Held(w), NEW present \in BOOLEAN
  PROVE  LET v == Read(w)
         IN /\ Follows(w, v)
            /\ Follows(w, Write(v, [Merged(v) EXCEPT !.custom = present]))
<1> DEFINE v == Read(w)
           m == Merged(v)
           r == [m EXCEPT !.custom = present]
<1>1. Follows(w, v)
  <2>1. CASE IsExpired(w.stored)
    <3>1. v = Reset(w)
      BY <2>1 DEF Read
    <3>2. QED BY <3>1, ResetRenews, RenewsFollows DEF Live
  <2>2. CASE ~IsExpired(w.stored)
    BY <2>2 DEF Read, Follows
  <2>3. QED BY <2>1, <2>2
<1>2. Live(v, C)
  BY ReadLive
<1> HIDE DEF v
<1>3. m = v.state /\ m \in Rec
  BY <1>1, <1>2 DEF Merged, Linked, Held, Follows, Live
<1>4. r \in Rec /\ r.expiresAt = m.expiresAt /\ r.inactiveAt = m.inactiveAt
      /\ r.consent = m.consent
  BY <1>3 DEF Rec
<1> HIDE DEF r, m
<1>5. Held(Write(v, r)) /\ Write(v, r).state = r /\ Write(v, r).stored # None
  BY <1>1, <1>2, <1>3, <1>4, FieldHeld DEF Follows
<1>6. Follows(w, Write(v, r))
  BY <1>1, <1>3, <1>4, <1>5 DEF Follows
<1>7. QED BY <1>1, <1>6 DEF v, m, r

-----------------------------------------------------------------------------
\* What a step does to the consent of the tab that is open
Consents == \E t \in open : state[t].consent
Kept ==
  Consents => (\E t \in open : state'[t].consent) /\ (stored # None => stored'.consent)

AloneStep == AloneInv' /\ Kept

LEMMA ApplyAlone ==
  ASSUME Alone, SessionInv, AloneInv, NEW t \in Tab, NEW w, Held(w), Apply(t, w),
         open' = open \cup {t}
  PROVE  AloneInv' /\ state'[t] = w.state /\ stored' = w.stored
<1>1. open \ {t} = {} /\ \A u \in Tab : u = t
  BY DEF Alone, SessionInv, TypeOK
<1>2. state'[t] = w.state /\ own'[t] = w.own /\ leaked'[t] = w.leaked /\ stored' = w.stored
  BY DEF Apply, SessionInv, TypeOK
<1>3. events'[t] = events[t]
  BY <1>1 DEF Apply
<1>4. World(t)'.stored = w.stored /\ World(t)'.state = w.state /\ World(t)'.own = w.own
  BY <1>2 DEF World
<1>5. Held(World(t))'
  BY <1>4 DEF Held, Linked
<1>6. QED BY <1>1, <1>2, <1>3, <1>5 DEF AloneInv

LEMMA FollowsAlone ==
  ASSUME Alone, SessionInv, AloneInv, NEW t \in open, NEW w, Follows(World(t), w),
         Apply(t, w), open' = open
  PROVE  AloneStep
<1>1. t \in Tab /\ open' = open \cup {t} /\ \A u \in Tab : u = t
  BY DEF Alone, SessionInv, TypeOK
<1>2. AloneInv' /\ state'[t] = w.state /\ stored' = w.stored
  BY <1>1, ApplyAlone DEF Follows
<1>3. World(t).stored = stored /\ World(t).state = state[t]
  BY DEF World
<1>4. w.state.consent = state[t].consent /\ (stored # None => w.stored = w.state)
  BY <1>3 DEF Follows, Held, Linked
<1>5. open \subseteq {t}
  BY <1>1 DEF SessionInv, TypeOK
<1>6. QED BY <1>2, <1>4, <1>5 DEF AloneStep, Kept, Consents

LEMMA AloneCallbacks ==
  ASSUME SessionInv, AloneInv, NEW t \in open
  PROVE  LET w == World(t)
         IN /\ Follows(w, Reset(w))
            /\ Follows(w, Reset([w EXCEPT !.leaked.expires = Off]))
            /\ Follows(w, Reset([w EXCEPT !.leaked.inactive = Off]))
            /\ Follows(w, OnInteraction(w))
            /\ Follows(w, OnPause(w))
            /\ Follows(w, OnResume(w))
<1> DEFINE w == World(t)
           C == Others(t)
           x == [w EXCEPT !.leaked.expires = Off]
           y == [w EXCEPT !.leaked.inactive = Off]
<1>1. now \in 1..MaxTime /\ Live(w, C) /\ Off \in Instant /\ Linked(w)
  BY WorldGood DEF SessionInv, TypeOK, Off, Instant, AloneInv, Held
<1> HIDE DEF w, C
<1>2. Live(x, C) /\ Live(y, C)
  BY <1>1, TimerLive
<1>3. x.state = w.state /\ y.state = w.state
  BY <1>1, Rearmed DEF Live, Good
<1> HIDE DEF x, y
<1>4. Renews(w, Reset(w)) /\ Renews(x, Reset(x)) /\ Renews(y, Reset(y))
  BY <1>1, <1>2, ResetRenews DEF Live
<1>5. Renews(w, Reset(x)) /\ Renews(w, Reset(y))
  BY <1>3, <1>4 DEF Renews
<1>6. Follows(w, OnInteraction(w)) /\ Follows(w, OnPause(w)) /\ Follows(w, OnResume(w))
  BY <1>1, InteractionFollows, PauseFollows, ResumeFollows
<1>7. QED BY <1>4, <1>5, <1>6, RenewsFollows DEF w, x, y

\* One case per kind of step; taking the consent back is the exception
LEMMA TabAlone ==
  ASSUME Alone, SessionInv, AloneInv, NEW t \in Tab,
         \/ ExpiresTimerEnds(t) \/ InactiveTimerEnds(t) \/ Interact(t)
         \/ Hide(t) \/ Show(t) \/ ResetByApi(t)
  PROVE  AloneStep
<1>1. t \in open
  BY DEF ExpiresTimerEnds, InactiveTimerEnds, Interact, Hide, Show, ResetByApi, Run,
         SessionInv, TypeOK
<1>2. CASE ExpiresTimerEnds(t)
  BY <1>1, <1>2, AloneCallbacks, FollowsAlone DEF ExpiresTimerEnds, Run
<1>3. CASE InactiveTimerEnds(t)
  BY <1>1, <1>3, AloneCallbacks, FollowsAlone DEF InactiveTimerEnds, Run
<1>4. CASE Interact(t)
  BY <1>1, <1>4, AloneCallbacks, FollowsAlone DEF Interact, Run
<1>5. CASE Hide(t)
  BY <1>1, <1>5, AloneCallbacks, FollowsAlone DEF Hide
<1>6. CASE Show(t)
  BY <1>1, <1>6, AloneCallbacks, FollowsAlone DEF Show
<1>7. CASE ResetByApi(t)
  BY <1>1, <1>7, AloneCallbacks, FollowsAlone DEF ResetByApi, Run
<1>8. QED BY <1>2, <1>3, <1>4, <1>5, <1>6, <1>7

LEMMA WriteAlone ==
  ASSUME Alone, SessionInv, AloneInv, NEW t \in open, NEW r \in Rec,
         r.expiresAt = state[t].expiresAt, r.inactiveAt = state[t].inactiveAt,
         Run(t, Write(World(t), r))
  PROVE  AloneInv' /\ state'[t] = r /\ stored' = r
<1>1. /\ Live(World(t), Others(t)) /\ World(t).state = state[t] /\ Held(World(t)) /\ t \in Tab
      /\ open' = open \cup {t}
  BY WorldGood DEF SessionInv, TypeOK, AloneInv, Run
<1>2. Held(Write(World(t), r)) /\ Write(World(t), r).state = r
      /\ Write(World(t), r).stored # None
  BY <1>1, FieldHeld
<1>3. AloneInv' /\ state'[t] = Write(World(t), r).state /\ stored' = Write(World(t), r).stored
  BY <1>1, <1>2, ApplyAlone DEF Run
<1>4. QED BY <1>2, <1>3 DEF Held, Linked

LEMMA FieldsAlone ==
  ASSUME Alone, SessionInv, AloneInv, NEW t \in Tab
  PROVE  /\ WriteMode(t) => AloneStep
         /\ \A accept \in BOOLEAN :
              Consent(t, accept) => AloneInv' /\ (accept => AloneStep)
         /\ \A present \in BOOLEAN : SyncCustomAttribute(t, present) => AloneStep
<1>1. \A u \in Tab : u = t
  BY DEF Alone
<1>2. ASSUME t \in open PROVE state[t] \in Rec
  BY <1>2, WorldGood
<1>3. ASSUME NEW r \in Rec, t \in open, AloneInv', state'[t] = r, stored' = r, open' = open,
             state[t].consent => r.consent
      PROVE  AloneStep
  BY <1>1, <1>3 DEF AloneStep, Kept, Consents, SessionInv, TypeOK
<1>4. ASSUME WriteMode(t) PROVE AloneStep
  <2> DEFINE r == [state[t] EXCEPT !.mode = state[t].value]
  <2>1. t \in open /\ open' = open /\ Run(t, Write(World(t), r))
    BY <1>4 DEF WriteMode, Run
  <2>2. /\ r \in Rec /\ r.expiresAt = state[t].expiresAt /\ r.inactiveAt = state[t].inactiveAt
        /\ r.consent = state[t].consent
    BY <1>2, <2>1 DEF Rec
  <2> HIDE DEF r
  <2>3. QED BY <1>3, <2>1, <2>2, WriteAlone
<1>5. ASSUME NEW accept \in BOOLEAN, Consent(t, accept)
      PROVE  AloneInv' /\ (accept => AloneStep)
  <2> DEFINE r == [state[t] EXCEPT !.consent = accept]
  <2>1. t \in open /\ open' = open /\ Run(t, Write(World(t), r))
    BY <1>5 DEF Consent, Run
  <2>2. /\ r \in Rec /\ r.expiresAt = state[t].expiresAt /\ r.inactiveAt = state[t].inactiveAt
        /\ r.consent = accept
    BY <1>2, <2>1 DEF Rec
  <2> HIDE DEF r
  <2>3. QED BY <1>3, <2>1, <2>2, WriteAlone
<1>6. ASSUME NEW present \in BOOLEAN, SyncCustomAttribute(t, present) PROVE AloneStep
  <2> DEFINE v == Read(World(t))
             u == Write(v, [Merged(v) EXCEPT !.custom = present])
  <2>1. t \in open /\ open' = open /\ (Apply(t, v) \/ Apply(t, u))
    BY <1>6 DEF SyncCustomAttribute, Run
  <2>2. now \in 1..MaxTime /\ Live(World(t), Others(t)) /\ Held(World(t))
    BY <2>1, WorldGood DEF SessionInv, TypeOK, AloneInv
  <2>3. Follows(World(t), v) /\ Follows(World(t), u)
    BY <2>2, AttributeFollows
  <2> HIDE DEF u, v
  <2>4. QED BY <2>1, <2>3, FollowsAlone
<1>7. QED BY <1>4, <1>5, <1>6

LEMMA LoadAlone ==
  ASSUME Alone, SessionInv, AloneInv, NEW t \in Tab, NEW vis \in LoadVisible, Load(t, vis)
  PROVE  AloneStep
<1>1. now \in 1..MaxTime /\ Good(World(t), Others(t))
  BY WorldGood DEF SessionInv, TypeOK
<1>2. Apply(t, Loaded(World(t))) /\ open' = open \cup {t} /\ t \notin open
  BY DEF Load
<1>3. AloneInv'
  BY <1>1, <1>2, LoadedHeld, ApplyAlone
<1>4. open = {}
  BY <1>2 DEF Alone, SessionInv, TypeOK
<1>5. QED BY <1>3, <1>4 DEF AloneStep, Kept, Consents

\* The premises of ConsentStands about the step
KeepsPage ==
  ~(\E t \in Tab : Consent(t, FALSE) \/ Close(t)) /\ ~ClearStorage

LEMMA NextAlone ==
  Alone /\ SessionInv /\ AloneInv /\ [Next]_vars => AloneInv' /\ (KeepsPage => Kept)
<1> SUFFICES ASSUME Alone, SessionInv, AloneInv, [Next]_vars
             PROVE  AloneInv' /\ (KeepsPage => Kept)
  OBVIOUS
<1>1. ASSUME AloneStep PROVE AloneInv' /\ (KeepsPage => Kept)
  BY <1>1 DEF AloneStep
<1>2. CASE UNCHANGED vars \/ Tick \/ ClearStorage
  <2>1. /\ UNCHANGED <<open, state, own, leaked, events, nextValue>>
        /\ stored' = stored \/ (stored' = None /\ ClearStorage)
    BY <1>2 DEF vars, Tick, ClearStorage
  <2>2. \A t \in Tab : /\ World(t)'.stored = stored' /\ World(t)'.state = state[t]
                       /\ World(t)'.own = own[t] /\ World(t).stored = stored
                       /\ World(t).state = state[t] /\ World(t).own = own[t]
    BY <2>1 DEF World
  <2>3. \A t \in open : Held(World(t))'
    BY <2>1, <2>2 DEF AloneInv, Held, Linked, SessionInv, TypeOK
  <2>4. AloneInv'
    BY <2>1, <2>3 DEF AloneInv
  <2>5. ASSUME KeepsPage, Consents
        PROVE  (\E t \in open : state'[t].consent) /\ (stored # None => stored'.consent)
    <3>1. stored' = stored
      BY <2>1, <2>5 DEF KeepsPage
    <3>2. PICK t \in open : state[t].consent
      BY <2>5 DEF Consents
    <3>3. stored \in {None, state[t]}
      BY <2>2 DEF AloneInv, Held, Linked, SessionInv, TypeOK
    <3>4. QED BY <2>1, <3>1, <3>2, <3>3 DEF Consents
  <2>6. QED BY <2>4, <2>5 DEF Kept
<1>3. ASSUME NEW t \in Tab, \E vis \in LoadVisible : Load(t, vis) PROVE AloneStep
  BY <1>3, LoadAlone
<1>4. ASSUME NEW t \in Tab, Close(t) PROVE AloneInv' /\ (KeepsPage => Kept)
  <2>1. open' = {} /\ events' = [events EXCEPT ![t] = <<>>]
    BY <1>4 DEF Close, Alone, SessionInv, TypeOK
  <2>2. AloneInv'
    BY <2>1 DEF AloneInv, SessionInv, TypeOK
  <2>3. QED BY <1>4, <2>2 DEF KeepsPage
<1>5. ASSUME NEW t \in Tab, StorageEvent(t) PROVE FALSE
  BY <1>5 DEF StorageEvent, AloneInv
<1>6. ASSUME NEW t \in Tab,
             \/ ExpiresTimerEnds(t) \/ InactiveTimerEnds(t) \/ Interact(t)
             \/ Hide(t) \/ Show(t) \/ ResetByApi(t)
      PROVE  AloneStep
  BY <1>6, TabAlone
<1>7. ASSUME NEW t \in Tab, WriteMode(t) \/ \E p \in BOOLEAN : SyncCustomAttribute(t, p)
      PROVE  AloneStep
  BY <1>7, FieldsAlone
<1>8. ASSUME NEW t \in Tab, NEW accept \in BOOLEAN, Consent(t, accept)
      PROVE  AloneInv' /\ (KeepsPage => Kept)
  <2>1. AloneInv' /\ (accept => AloneStep)
    BY <1>8, FieldsAlone
  <2>2. ~accept => ~KeepsPage
    BY <1>8 DEF KeepsPage
  <2>3. QED BY <2>1, <2>2 DEF AloneStep
<1>9. QED BY <1>1, <1>2, <1>3, <1>4, <1>5, <1>6, <1>7, <1>8 DEF Next

\* A single tab holds what is stored, with its timers, in every reachable state.
LEMMA AloneInvariant == Alone => (Spec => []AloneInv)
<1> SUFFICES ASSUME Alone PROVE Spec => []AloneInv
  OBVIOUS
<1>1. Init => AloneInv
  BY DEF Init, AloneInv
<1>2. SessionInv /\ AloneInv /\ [Next]_vars => AloneInv'
  BY NextAlone
<1>3. QED BY <1>1, <1>2, SessionInvariant, PTL DEF Spec

\* A timer of the only tab ends no session before its time: refresh() arms the timer and
\* stores the timestamp together, and every new session arms both timers anew.
THEOREM TimersOfOneTab == Alone => (Spec => TimersEndOnlyWhenDue)
<1> SUFFICES ASSUME Alone PROVE Spec => TimersEndOnlyWhenDue
  OBVIOUS
<1> DEFINE A == \A t \in Tab : stored # None =>
                  /\ StartedItsSession(t) /\ InactiveTimerEnds(t) => now >= stored.inactiveAt
                  /\ leaked[t] = NoTimers /\ ExpiresTimerEnds(t) => now >= stored.expiresAt
<1>1. SessionInv /\ AloneInv /\ [Next]_vars => A
  <2> SUFFICES ASSUME SessionInv, AloneInv, NEW t \in Tab, stored # None
               PROVE  /\ StartedItsSession(t) /\ InactiveTimerEnds(t) => now >= stored.inactiveAt
                      /\ leaked[t] = NoTimers /\ ExpiresTimerEnds(t) => now >= stored.expiresAt
    OBVIOUS
  <2>1. t \in open => /\ stored = state[t] /\ own[t].expires = stored.expiresAt
                      /\ own[t].initialMs = InactiveMs =>
                           own[t].inactive \in {Off, stored.inactiveAt}
    BY DEF AloneInv, Held, Linked, World
  <2>2. ~Due(NoTimers.expires) /\ ~Due(NoTimers.inactive)
    BY DEF NoTimers, Due
  <2>3. ASSUME leaked[t] = NoTimers, ExpiresTimerEnds(t) PROVE now >= stored.expiresAt
    BY <2>1, <2>2, <2>3 DEF ExpiresTimerEnds, Run, Due
  <2>4. ASSUME StartedItsSession(t), InactiveTimerEnds(t) PROVE now >= stored.inactiveAt
    BY <2>1, <2>2, <2>4 DEF InactiveTimerEnds, StartedItsSession, Run, Due
  <2>5. QED BY <2>3, <2>4
<1>2. QED BY <1>1, SessionInvariant, AloneInvariant, PTL DEF Spec, TimersEndOnlyWhenDue

\* Consent given on the only tab is stored with every write and inherited by every new
\* session, until it is withdrawn, the page closes or the storage is cleared.
THEOREM ConsentOfOneTab == Alone => (Spec => ConsentStands)
<1> SUFFICES ASSUME Alone PROVE Spec => ConsentStands
  OBVIOUS
<1> DEFINE A == (\E t \in open : state[t].consent)
                /\ ~(\E t \in Tab : Consent(t, FALSE) \/ Close(t)) /\ ~ClearStorage
                => /\ \E t \in open : state'[t].consent
                   /\ stored # None => stored'.consent
<1>1. SessionInv /\ AloneInv /\ [Next]_vars => A
  <2> SUFFICES ASSUME SessionInv, AloneInv, [Next]_vars, Consents, KeepsPage
               PROVE  /\ \E t \in open : state'[t].consent
                      /\ stored # None => stored'.consent
    BY DEF Consents, KeepsPage
  <2>1. QED BY NextAlone DEF Kept
<1>2. QED BY <1>1, SessionInvariant, AloneInvariant, PTL DEF Spec, ConsentStands
=============================================================================
