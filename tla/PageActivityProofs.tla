--------------------------- MODULE PageActivityProofs ---------------------------
(***************************************************************************)
(* What a page's user actions, its aggregated errors, the vitals of its    *)
(* micro frontends, the calls of fetch() and the requests of an            *)
(* XMLHttpRequest are, for every element, value, node, instance, script    *)
(* and callback, and whatever happens on the page.  The parts do not share *)
(* their variables, but one step may take several of them along: the first *)
(* five sections say what the methods of each keep, the last what a step   *)
(* does to all.                                                            *)
(***************************************************************************)
EXTENDS PageActivity, SequenceTheorems, FiniteSetTheorems, TLAPS

USE UserActionsAssumption

(***************************************************************************)
(* The user actions: what each action and the timers are.  The types are   *)
(* stated field by field.                                                  *)
(***************************************************************************)
IsAction(a) ==
  /\ DOMAIN a = {"count", "dead", "error", "state", "open", "lasted", "touched", "erred"}
  /\ a.dead \in BOOLEAN /\ a.error \in BOOLEAN /\ a.open \in BOOLEAN
  /\ a.lasted \in BOOLEAN /\ a.touched \in BOOLEAN /\ a.erred \in BOOLEAN
UserActionsTypes(u) ==
  /\ DOMAIN u = {"action", "cur", "last", "key", "deadTimer", "errTimer"}
  /\ DOMAIN u.action = Actions /\ \A k \in Actions : IsAction(u.action[k])
  /\ u.cur \in Nat /\ u.last \in 0..MaxActions /\ u.cur <= u.last
  /\ u.deadTimer \in Nat /\ u.errTimer \in Nat

\* What is known of action n: who is watched has the timers that nothing has stopped.
Clear(a) == /\ a.error <=> a.erred
            /\ a.dead <=> (a.lasted /\ ~a.touched)
ActionGood(u, n) ==
  LET a == u.action[n]
  IN /\ Clear(a)
     /\ a.open => ~a.lasted /\ n <= u.last
     /\ a.state = "current" <=> n = u.cur
     /\ n = u.cur /\ a.open => /\ u.deadTimer = n <=> ~a.touched
                               /\ u.errTimer = n <=> ~a.erred
ErrTimerGood(u) ==
  u.cur # NoAction /\ u.errTimer # NoAction => u.errTimer = u.cur /\ u.action[u.cur].open
UserActionsGood(u) ==
  /\ UserActionsTypes(u)
  /\ u.cur = NoAction <=> u.key = NoElement
  /\ ErrTimerGood(u)
  /\ \A n \in Actions : ActionGood(u, n)

LEMMA NewActionIs ==
  ASSUME NEW el
  PROVE  LET a == NewAction(el)
         IN /\ IsAction(a) /\ ~a.dead /\ ~a.error /\ ~a.lasted /\ ~a.touched /\ ~a.erred
            /\ a.open <=> el \in Buttons
            /\ a.state = "current"
<1> DEFINE a == NewAction(el)
<1>1. a.dead = FALSE /\ a.error = FALSE /\ a.lasted = FALSE /\ a.touched = FALSE /\ a.erred = FALSE
      /\ a.open = (el \in Buttons) /\ a.state = "current"
      /\ DOMAIN a = {"count", "dead", "error", "state", "open", "lasted", "touched", "erred"}
  BY DEF NewAction
<1>2. (el \in Buttons) \in BOOLEAN
  OBVIOUS
<1>3. a.open \in BOOLEAN /\ (a.open <=> el \in Buttons)
  BY <1>1, <1>2
<1> HIDE DEF a
<1>4. IsAction(a) /\ ~a.dead /\ ~a.error /\ ~a.lasted /\ ~a.touched /\ ~a.erred
  BY <1>1, <1>3 DEF IsAction
<1>5. QED BY <1>1, <1>3, <1>4 DEF a

LEMMA UaInitGood == UaInit => UserActionsGood(ua)
<1> SUFFICES ASSUME UaInit PROVE UserActionsGood(ua)
  OBVIOUS
<1> DEFINE a == NewAction(NoElement)
<1>1. IsAction(a) /\ ~a.dead /\ ~a.error /\ ~a.lasted /\ ~a.touched /\ ~a.erred /\ ~a.open
  BY NewActionIs
<1>2. Unused = [a EXCEPT !.count = 0, !.state = "none"]
  BY DEF Unused
<1> HIDE DEF a
<1>3. IsAction(Unused) /\ ~Unused.dead /\ ~Unused.error /\ ~Unused.lasted /\ ~Unused.touched
      /\ ~Unused.erred /\ ~Unused.open /\ Unused.state = "none"
  BY <1>1, <1>2 DEF IsAction
<1>4. /\ ua.cur = NoAction /\ ua.last = NoAction /\ ua.key = NoElement /\ ua.deadTimer = NoAction
      /\ ua.errTimer = NoAction /\ DOMAIN ua.action = Actions
      /\ DOMAIN ua = {"action", "cur", "last", "key", "deadTimer", "errTimer"}
      /\ \A n \in Actions : ua.action[n] = Unused
  BY DEF UaInit
<1>5. UserActionsTypes(ua)
  BY <1>3, <1>4 DEF UserActionsTypes, NoAction
<1>6. \A n \in Actions : ActionGood(ua, n)
  BY <1>3, <1>4 DEF ActionGood, Clear, Actions, NoAction
<1>7. QED BY <1>4, <1>5, <1>6 DEF UserActionsGood, ErrTimerGood

LEMMA ProcessGood ==
  ASSUME NEW u, UserActionsGood(u), NEW el \in Elements, el # u.key => u.last < MaxActions
  PROVE  LET v == Process(u, el)
         IN UserActionsGood(v) /\ v.last <= u.last + 1
<1> DEFINE n == u.last + 1
           c == u.cur
           v == AddUserAction(u, c)
           t == IF el \in Buttons THEN n ELSE NoAction
           p == [v EXCEPT !.action[n] = NewAction(el), !.cur = n, !.last = n, !.key = el,
                          !.deadTimer = t, !.errTimer = t]
<1>t. UserActionsTypes(u) /\ \A k \in Actions : ActionGood(u, k) /\ IsAction(u.action[k])
  BY DEF UserActionsGood, UserActionsTypes
<1>1. CASE el = u.key
  <2> DEFINE w == [u EXCEPT !.action[c].count = @ + 1]
  <2>1. Process(u, el) = w
    BY <1>1 DEF Process
  <2>2. c \in Actions
    BY <1>1, <1>t DEF UserActionsGood, UserActionsTypes, Actions, NoAction
  <2>3. /\ UserActionsTypes(w)
        /\ \A k \in Actions : /\ w.action[k].dead = u.action[k].dead
                              /\ w.action[k].error = u.action[k].error
                              /\ w.action[k].state = u.action[k].state
                              /\ w.action[k].open = u.action[k].open
                              /\ w.action[k].lasted = u.action[k].lasted
                              /\ w.action[k].touched = u.action[k].touched
                              /\ w.action[k].erred = u.action[k].erred
        /\ w.last = u.last /\ w.cur = u.cur /\ w.key = u.key
        /\ w.deadTimer = u.deadTimer /\ w.errTimer = u.errTimer
    BY <1>t, <2>2 DEF UserActionsTypes, IsAction
  <2> HIDE DEF w
  <2>4. \A k \in Actions : ActionGood(w, k)
    BY <1>t, <2>3 DEF ActionGood, Clear
  <2>5. UserActionsGood(w)
    BY <2>2, <2>3, <2>4 DEF UserActionsGood, ErrTimerGood
  <2>6. QED BY <1>t, <2>1, <2>3, <2>5 DEF UserActionsTypes
<1>2. CASE el # u.key
  <2>1. Process(u, el) = p
    BY <1>2 DEF Process
  <2>2. n \in Actions /\ u.last \in Nat
    BY <1>2, <1>t DEF UserActionsTypes, Actions
  <2>3. /\ v.last = u.last /\ UserActionsTypes(v)
        /\ \A k \in Actions : v.action[k] = IF k = c THEN [u.action[k] EXCEPT !.state = "buffered"]
                                            ELSE u.action[k]
    BY <1>t DEF UserActionsTypes, IsAction, AddUserAction, Actions, NoAction
  <2> HIDE DEF v
  <2>4. t \in Nat /\ IsAction(NewAction(el))
    BY <2>2, NewActionIs DEF Actions, NoAction
  <2> HIDE DEF t
  <2>5. /\ p.last = n /\ p.cur = n /\ p.key = el /\ p.deadTimer = t /\ p.errTimer = t
        /\ DOMAIN p = DOMAIN v /\ p.action = [v.action EXCEPT ![n] = NewAction(el)]
    BY <2>3 DEF UserActionsTypes
  <2> HIDE DEF p
  <2>6. /\ DOMAIN p.action = Actions
        /\ \A k \in Actions : p.action[k] = IF k = n THEN NewAction(el) ELSE v.action[k]
    BY <2>2, <2>3, <2>5 DEF UserActionsTypes
  <2>7. UserActionsTypes(p)
    BY <2>2, <2>3, <2>4, <2>5, <2>6 DEF UserActionsTypes, Actions
  <2>8. ASSUME NEW k \in Actions PROVE ActionGood(p, k)
    <3>1. CASE k = n
      <4>1. p.action[n] = NewAction(el)
        BY <2>2, <2>6
      <4>2. n \in Nat /\ (el \in Buttons => t = n)
        BY <2>2 DEF t, Actions
      <4>3. QED BY <2>5, <3>1, <4>1, <4>2, NewActionIs DEF ActionGood, Clear
    <3>2. CASE k # n
      <4>1. ActionGood(u, k) /\ IsAction(u.action[k])
        BY <1>t
      <4>2. k \in Nat /\ p.action[k] = v.action[k] /\ p.cur # k /\ u.last <= p.last
        BY <2>2, <2>5, <2>6, <3>2 DEF Actions
      <4>3. CASE k = c
        <5>1. p.action[k] = [u.action[k] EXCEPT !.state = "buffered"]
          BY <2>3, <4>2, <4>3
        <5>2. QED BY <2>2, <2>5, <4>1, <4>2, <5>1 DEF ActionGood, Clear, IsAction
      <4>4. CASE k # c
        <5>1. p.action[k] = u.action[k]
          BY <2>3, <4>2, <4>4
        <5>2. QED BY <2>2, <2>5, <4>1, <4>2, <4>4, <5>1 DEF ActionGood, Clear
      <4>5. QED BY <4>3, <4>4
    <3>3. QED BY <3>1, <3>2
  <2>9. ErrTimerGood(p)
    <3>1. p.action[n] = NewAction(el)
      BY <2>2, <2>6
    <3>2. QED BY <2>5, <3>1, NewActionIs DEF ErrTimerGood, t
  <2>10. UserActionsGood(p)
    BY <2>2, <2>5, <2>7, <2>8, <2>9 DEF UserActionsGood, Actions, NoAction
  <2>11. QED BY <2>1, <2>2, <2>5, <2>10
<1>3. QED BY <1>1, <1>2

LEMMA AggregationEventGood ==
  ASSUME NEW u, UserActionsGood(u)
  PROVE  LET v == AggregationEvent(u)
         IN UserActionsGood(v) /\ v.last = u.last /\ v.key = NoElement
<1> DEFINE c == u.cur
           b == AddUserAction(u, c)
           v == [b EXCEPT !.cur = NoAction, !.key = NoElement]
<1>t. UserActionsTypes(u) /\ \A k \in Actions : ActionGood(u, k) /\ IsAction(u.action[k])
  BY DEF UserActionsGood, UserActionsTypes
<1>1. AggregationEvent(u) = v
  BY DEF AggregationEvent
<1>2. /\ b.last = u.last /\ UserActionsTypes(b)
      /\ \A k \in Actions : b.action[k] = IF k = c THEN [u.action[k] EXCEPT !.state = "buffered"]
                                          ELSE u.action[k]
  BY <1>t DEF UserActionsTypes, IsAction, AddUserAction, Actions, NoAction
<1> HIDE DEF b
<1>3. /\ UserActionsTypes(v) /\ v.cur = NoAction /\ v.key = NoElement /\ v.last = u.last
      /\ v.action = b.action
  BY <1>2 DEF UserActionsTypes, NoAction
<1> HIDE DEF v
<1>4. ASSUME NEW k \in Actions PROVE ActionGood(v, k)
  <2>1. ActionGood(u, k) /\ IsAction(u.action[k]) /\ k # NoAction
    BY <1>t DEF Actions, NoAction
  <2>2. CASE k = c
    <3>1. v.action[k] = [u.action[k] EXCEPT !.state = "buffered"]
      BY <1>2, <1>3, <2>2
    <3>2. QED BY <1>3, <2>1, <3>1 DEF ActionGood, Clear, IsAction
  <2>3. CASE k # c
    <3>1. v.action[k] = u.action[k]
      BY <1>2, <1>3, <2>3
    <3>2. QED BY <1>3, <2>1, <2>3, <3>1 DEF ActionGood, Clear
  <2>4. QED BY <2>2, <2>3
<1>5. UserActionsGood(v)
  BY <1>3, <1>4 DEF UserActionsGood, ErrTimerGood
<1>6. QED BY <1>1, <1>3, <1>5

LEMMA IsLiveClickGood ==
  ASSUME NEW u, UserActionsGood(u)
  PROVE  LET v == IsLiveClick(u)
         IN UserActionsGood(v) /\ v.last = u.last /\ v.key = u.key
<1> DEFINE v == IsLiveClick(u)
           c == u.cur
<1>t. UserActionsTypes(u) /\ \A k \in Actions : ActionGood(u, k) /\ IsAction(u.action[k])
  BY DEF UserActionsGood, UserActionsTypes
<1>1. /\ UserActionsTypes(v) /\ v.cur = c /\ v.key = u.key /\ v.last = u.last
      /\ v.deadTimer = NoAction /\ v.errTimer = u.errTimer
      /\ \A k \in Actions : v.action[k] = IF k = c /\ u.action[k].open
                                          THEN [u.action[k] EXCEPT !.touched = TRUE]
                                              ELSE u.action[k]
  <2> DEFINE w == [u EXCEPT !.deadTimer = NoAction]
  <2>1. /\ UserActionsTypes(w) /\ w.cur = c /\ w.key = u.key /\ w.last = u.last
        /\ w.deadTimer = NoAction /\ w.errTimer = u.errTimer /\ w.action = u.action
    BY <1>t DEF UserActionsTypes, NoAction
  <2> HIDE DEF w
  <2>2. CASE ~Watched(u)
    <3>1. v = w /\ \A k \in Actions : ~(k = c /\ u.action[k].open)
      BY <2>2 DEF w, IsLiveClick, Watched, Actions, NoAction
    <3>2. QED BY <2>1, <3>1
  <2>3. CASE Watched(u)
    <3>1. c \in Actions /\ u.action[c].open
      BY <1>t, <2>3 DEF UserActionsTypes, Watched, Actions, NoAction
    <3>2. v = [w EXCEPT !.action[c].touched = TRUE]
      BY <2>3 DEF w, IsLiveClick
    <3>3. v.action = [u.action EXCEPT ![c] = [u.action[c] EXCEPT !.touched = TRUE]]
      BY <2>1, <3>1, <3>2 DEF UserActionsTypes
    <3>4. DOMAIN v = DOMAIN w /\ v.cur = w.cur /\ v.key = w.key /\ v.last = w.last
          /\ v.deadTimer = w.deadTimer /\ v.errTimer = w.errTimer
      BY <2>1, <3>2 DEF UserActionsTypes
    <3> HIDE DEF v
    <3>5. /\ DOMAIN v.action = Actions
          /\ \A k \in Actions : v.action[k] = IF k = c THEN [u.action[k] EXCEPT !.touched = TRUE]
                                              ELSE u.action[k]
      BY <1>t, <3>3 DEF UserActionsTypes
    <3>6. IsAction([u.action[c] EXCEPT !.touched = TRUE])
      BY <1>t, <3>1 DEF IsAction
    <3>7. UserActionsTypes(v)
      <4>1. \A k \in Actions : IsAction(v.action[k])
        BY <1>t, <3>5, <3>6
      <4>2. QED BY <2>1, <3>4, <3>5, <4>1 DEF UserActionsTypes
    <3>8. QED BY <2>1, <3>1, <3>4, <3>5, <3>7
  <2>4. QED BY <2>2, <2>3
<1> HIDE DEF v
<1>2. ASSUME NEW k \in Actions PROVE ActionGood(v, k) /\ (v.action[k].open <=> u.action[k].open)
  <2>1. ActionGood(u, k) /\ IsAction(u.action[k]) /\ k # NoAction
    BY <1>t DEF Actions, NoAction
  <2>2. CASE k = c /\ u.action[k].open
    <3>1. v.action[k] = [u.action[k] EXCEPT !.touched = TRUE]
      BY <1>1, <2>2
    <3>2. QED BY <1>1, <2>1, <2>2, <3>1 DEF ActionGood, Clear, IsAction
  <2>3. CASE ~(k = c /\ u.action[k].open)
    <3>1. v.action[k] = u.action[k]
      BY <1>1, <2>3
    <3>2. QED BY <1>1, <2>1, <2>3, <3>1 DEF ActionGood, Clear
  <2>4. QED BY <2>2, <2>3
<1>3. ErrTimerGood(v)
  BY <1>1, <1>2, <1>t DEF UserActionsGood, ErrTimerGood, UserActionsTypes, Actions, NoAction
<1>4. UserActionsGood(v)
  BY <1>1, <1>2, <1>3 DEF UserActionsGood
<1>5. QED BY <1>1, <1>4 DEF v

LEMMA MarkAsErrorClickGood ==
  ASSUME NEW u, UserActionsGood(u)
  PROVE  LET v == MarkAsErrorClick(u)
         IN UserActionsGood(v) /\ v.last = u.last /\ v.key = u.key
<1> DEFINE v == MarkAsErrorClick(u)
           c == u.cur
<1>t. UserActionsTypes(u) /\ \A k \in Actions : ActionGood(u, k) /\ IsAction(u.action[k])
  BY DEF UserActionsGood, UserActionsTypes
<1>1. CASE c # NoAction /\ u.errTimer # NoAction
  <2>1. c \in Actions /\ u.errTimer = c /\ u.action[c].open
    BY <1>1, <1>t DEF UserActionsGood, ErrTimerGood, UserActionsTypes, Actions, NoAction
  <2>2. /\ UserActionsTypes(v) /\ v.cur = c /\ v.key = u.key /\ v.last = u.last
        /\ v.deadTimer = u.deadTimer /\ v.errTimer = NoAction
        /\ \A k \in Actions : IF k = c
             THEN /\ v.action[k].error /\ v.action[k].erred
                  /\ v.action[k].dead = u.action[k].dead /\ v.action[k].open = u.action[k].open
                  /\ v.action[k].lasted = u.action[k].lasted
                  /\ v.action[k].touched = u.action[k].touched
                  /\ v.action[k].state = u.action[k].state
             ELSE v.action[k] = u.action[k]
    <3> DEFINE a == [[u.action[c] EXCEPT !.erred = TRUE] EXCEPT !.error = TRUE]
    <3>1. v = [[u EXCEPT !.action[c].erred = TRUE] EXCEPT !.action[c].error = TRUE,
                                                          !.errTimer = NoAction]
      BY <1>1, <2>1 DEF MarkAsErrorClick, Watched
    <3>2. DOMAIN v = DOMAIN u /\ v.cur = c /\ v.key = u.key /\ v.last = u.last
          /\ v.deadTimer = u.deadTimer /\ v.errTimer = NoAction
          /\ DOMAIN v.action = Actions /\ v.action[c] = a
          /\ \A k \in Actions : k # c => v.action[k] = u.action[k]
      <4> DEFINE w == [u EXCEPT !.action[c].erred = TRUE]
      <4>1. /\ DOMAIN w = DOMAIN u /\ w.cur = c /\ w.key = u.key /\ w.last = u.last
            /\ w.deadTimer = u.deadTimer /\ w.errTimer = u.errTimer
            /\ DOMAIN w.action = Actions /\ w.action[c] = [u.action[c] EXCEPT !.erred = TRUE]
            /\ \A k \in Actions : k # c => w.action[k] = u.action[k]
        BY <1>t, <2>1 DEF UserActionsTypes
      <4>2. v = [w EXCEPT !.action[c].error = TRUE, !.errTimer = NoAction]
        BY <3>1
      <4> HIDE DEF w, v
      <4>3. QED BY <1>t, <2>1, <4>1, <4>2 DEF UserActionsTypes
    <3> HIDE DEF v
    <3>3. /\ IsAction(a) /\ a.error = TRUE /\ a.erred = TRUE /\ a.dead = u.action[c].dead
          /\ a.open = u.action[c].open /\ a.lasted = u.action[c].lasted
          /\ a.touched = u.action[c].touched /\ a.state = u.action[c].state
      BY <1>t, <2>1 DEF IsAction
    <3> HIDE DEF a
    <3>4. UserActionsTypes(v)
      BY <1>t, <3>2, <3>3 DEF UserActionsTypes, NoAction
    <3>5. QED BY <3>2, <3>3, <3>4
  <2> HIDE DEF v
  <2>3. ASSUME NEW k \in Actions PROVE ActionGood(v, k)
    BY <1>t, <2>1, <2>2 DEF ActionGood, Clear, IsAction, Actions, NoAction
  <2>4. QED BY <2>2, <2>3 DEF UserActionsGood, ErrTimerGood, v
<1>2. CASE ~(c # NoAction /\ u.errTimer # NoAction)
  <2>1. CASE c # NoAction /\ u.action[c].open
    <3>1. c \in Actions /\ u.action[c].erred /\ u.errTimer = NoAction
      BY <1>2, <1>t, <2>1 DEF UserActionsTypes, ActionGood, IsAction, Actions, NoAction
    <3>2. /\ UserActionsTypes(v) /\ v.cur = c /\ v.key = u.key /\ v.last = u.last
          /\ v.deadTimer = u.deadTimer /\ v.errTimer = u.errTimer
          /\ \A k \in Actions :
               /\ v.action[k].erred <=> u.action[k].erred
               /\ v.action[k].error = u.action[k].error
               /\ v.action[k].dead = u.action[k].dead /\ v.action[k].open = u.action[k].open
               /\ v.action[k].lasted = u.action[k].lasted
               /\ v.action[k].touched = u.action[k].touched
               /\ v.action[k].state = u.action[k].state
      <4> DEFINE a == [u.action[c] EXCEPT !.erred = TRUE]
      <4>1. v = [u EXCEPT !.action[c].erred = TRUE]
        BY <2>1, <3>1 DEF MarkAsErrorClick, Watched
      <4>2. DOMAIN v = DOMAIN u /\ v.cur = c /\ v.key = u.key /\ v.last = u.last
            /\ v.deadTimer = u.deadTimer /\ v.errTimer = u.errTimer
            /\ DOMAIN v.action = Actions /\ v.action[c] = a
            /\ \A k \in Actions : k # c => v.action[k] = u.action[k]
        BY <1>t, <3>1, <4>1 DEF UserActionsTypes
      <4> HIDE DEF v
      <4>3. /\ IsAction(a) /\ a.error = u.action[c].error /\ a.erred = TRUE
            /\ a.dead = u.action[c].dead
            /\ a.open = u.action[c].open /\ a.lasted = u.action[c].lasted
            /\ a.touched = u.action[c].touched /\ a.state = u.action[c].state
        BY <1>t, <3>1 DEF IsAction
      <4> HIDE DEF a
      <4>4. UserActionsTypes(v)
        BY <1>t, <4>2, <4>3 DEF UserActionsTypes
      <4>5. QED BY <3>1, <4>2, <4>3, <4>4
    <3> HIDE DEF v
    <3>3. ASSUME NEW k \in Actions PROVE ActionGood(v, k)
      BY <1>t, <3>2 DEF ActionGood, Clear, IsAction
    <3>4. QED BY <3>1, <3>2, <3>3 DEF UserActionsGood, ErrTimerGood, v
  <2>2. CASE ~(c # NoAction /\ u.action[c].open)
    BY <1>2, <2>2 DEF MarkAsErrorClick, Watched
  <2>3. QED BY <2>1, <2>2
<1>3. QED BY <1>1, <1>2

LEMMA FrustrationTimeoutGood ==
  ASSUME NEW u, UserActionsGood(u), NEW n \in Actions, u.action[n].open
  PROVE  LET v == FrustrationTimeout(u, n)
         IN UserActionsGood(v) /\ v.last = u.last /\ v.key = u.key
<1> DEFINE v == FrustrationTimeout(u, n)
           d == u.deadTimer = n /\ u.action[n].state = "current"
<1>t. UserActionsTypes(u) /\ \A k \in Actions : ActionGood(u, k) /\ IsAction(u.action[k])
  BY DEF UserActionsGood, UserActionsTypes
<1>1. /\ UserActionsTypes(v) /\ v.cur = u.cur /\ v.key = u.key /\ v.last = u.last
      /\ v.deadTimer = (IF u.deadTimer = n THEN NoAction ELSE u.deadTimer)
      /\ v.errTimer = (IF u.errTimer = n THEN NoAction ELSE u.errTimer)
      /\ \A k \in Actions : k # n => v.action[k] = u.action[k]
      /\ ~v.action[n].open /\ (v.action[n].lasted <=> n = u.cur) /\ (v.action[n].dead <=> d)
      /\ v.action[n].error = u.action[n].error /\ v.action[n].erred = u.action[n].erred
      /\ v.action[n].touched = u.action[n].touched /\ v.action[n].state = u.action[n].state
  <2>1. DOMAIN v = DOMAIN u /\ v.cur = u.cur /\ v.key = u.key /\ v.last = u.last
        /\ v.deadTimer = (IF u.deadTimer = n THEN NoAction ELSE u.deadTimer)
        /\ v.errTimer = (IF u.errTimer = n THEN NoAction ELSE u.errTimer)
        /\ DOMAIN v.action = Actions /\ \A k \in Actions : k # n => v.action[k] = u.action[k]
    BY <1>t DEF UserActionsTypes, FrustrationTimeout
  <2>2. /\ v.action[n].open = FALSE /\ v.action[n].lasted = (n = u.cur) /\ v.action[n].dead = d
        /\ v.action[n].error = u.action[n].error /\ v.action[n].erred = u.action[n].erred
        /\ v.action[n].touched = u.action[n].touched /\ v.action[n].state = u.action[n].state
        /\ DOMAIN v.action[n] = DOMAIN u.action[n]
    BY <1>t DEF UserActionsTypes, IsAction, FrustrationTimeout
  <2> HIDE DEF v, d
  <2>3. IsAction(v.action[n])
    <3>1. d \in BOOLEAN /\ (n = u.cur) \in BOOLEAN
      BY DEF d
    <3>2. QED BY <1>t, <2>2, <3>1 DEF IsAction
  <2>4. UserActionsTypes(v)
    BY <1>t, <2>1, <2>3 DEF UserActionsTypes, NoAction
  <2>5. QED BY <2>1, <2>2, <2>4
<1> HIDE DEF v
<1>2. ASSUME NEW k \in Actions PROVE ActionGood(v, k)
  <2>1. ActionGood(u, k) /\ IsAction(u.action[k]) /\ k # NoAction
    BY <1>t DEF Actions, NoAction
  <2>2. CASE k = n
    BY <1>1, <2>1, <2>2 DEF ActionGood, Clear, IsAction
  <2>3. CASE k # n
    BY <1>1, <2>1, <2>3 DEF ActionGood, Clear
  <2>4. QED BY <2>2, <2>3
<1>3. ErrTimerGood(v)
  BY <1>1, <1>t DEF UserActionsGood, ErrTimerGood, UserActionsTypes, Actions, NoAction
<1>4. QED BY <1>1, <1>2, <1>3 DEF UserActionsGood, v

LEMMA SendActionsGood ==
  ASSUME NEW u, UserActionsGood(u)
  PROVE  LET v == SendActions(u)
         IN UserActionsGood(v) /\ v.last = u.last /\ v.key = u.key
<1> DEFINE v == SendActions(u)
<1>t. UserActionsTypes(u) /\ \A k \in Actions : ActionGood(u, k) /\ IsAction(u.action[k])
  BY DEF UserActionsGood, UserActionsTypes
<1>1. /\ UserActionsTypes(v) /\ v.cur = u.cur /\ v.key = u.key /\ v.last = u.last
      /\ v.deadTimer = u.deadTimer /\ v.errTimer = u.errTimer
      /\ \A k \in Actions :
           v.action[k] = IF u.action[k].state = "buffered"
               THEN [u.action[k] EXCEPT !.state = "sent"]
                         ELSE u.action[k]
  BY <1>t DEF UserActionsTypes, IsAction, SendActions
<1> HIDE DEF v
<1>2. ASSUME NEW k \in Actions PROVE ActionGood(v, k) /\ (v.action[k].open <=> u.action[k].open)
  <2>1. ActionGood(u, k) /\ IsAction(u.action[k])
    BY <1>t
  <2>2. CASE u.action[k].state = "buffered"
    BY <1>1, <2>1, <2>2, ZenonT(60) DEF ActionGood, Clear, IsAction
  <2>3. CASE u.action[k].state # "buffered"
    BY <1>1, <2>1, <2>3 DEF ActionGood, Clear
  <2>4. QED BY <2>2, <2>3
<1>3. ErrTimerGood(v)
  BY <1>1, <1>2, <1>t DEF UserActionsGood, ErrTimerGood, UserActionsTypes, Actions, NoAction
<1>4. QED BY <1>1, <1>2, <1>3 DEF UserActionsGood, v

HIDE UserActionsAssumption
-----------------------------------------------------------------------------
USE AggregatorAssumption

(***************************************************************************)
(* The buckets of the aggregator.                                          *)
(***************************************************************************)
Plus(a, b) == a + b
Add == INSTANCE Folding WITH Op <- Plus
Sum(f) == FoldLeft(Plus, 0, f)

Occurrences == 1..Len(Value)
Values(s) == [i \in DOMAIN s |-> Value[s[i]]]
Squares(s) == [i \in DOMAIN s |-> Value[s[i]] * Value[s[i]]]

LEMMA SameSum == \A v, q : FoldLeft(Plus, v, q) = Add!FoldLeft(Plus, v, q)
BY DEF FoldLeft, Add!FoldLeft, MapThenFoldSet, Add!MapThenFoldSet, Max, Add!Max

LEMMA PlusClosed == \A w \in Nat, e \in Nat : Plus(w, e) \in Nat
BY DEF Plus

LEMMA SumAppend ==
  ASSUME NEW f \in Seq(Nat), NEW n \in Nat
  PROVE  Sum(Append(f, n)) = Sum(f) + n /\ Sum(f) \in Nat
<1>1. 0 \in Nat
  OBVIOUS
<1>2. Add!AppliesOnce(0, f, n)
  BY <1>1, PlusClosed, Add!FoldAppend, Zenon
<1>3. Add!FoldLeft(Plus, 0, f) \in Nat
  BY <1>1, PlusClosed, Add!FoldStays, Zenon
<1>4. QED BY <1>2, <1>3, SameSum DEF Add!AppliesOnce, Sum, Plus

LEMMA SumOfNone == Sum(<<>>) = 0
<1>1. Add!Passes(0, <<>>)
  <2>1. <<>> \in Seq(Nat)
    OBVIOUS
  <2>2. QED BY <2>1, Add!FoldPasses, Zenon
<1>2. Len(<<>>) = 0
  OBVIOUS
<1>3. QED BY <1>1, <1>2, SameSum DEF Add!Passes, Add!Chain, Sum

\* A sequence that is not empty ends with an element.
LEMMA EndsWithOne ==
  ASSUME NEW S, NEW g \in Seq(S), NEW n \in Nat, Len(g) = n + 1
  PROVE  \E h \in Seq(S), e \in S : g = Append(h, e) /\ Len(h) = n
<1> DEFINE h == SubSeq(g, 1, n)
<1>1. h \in Seq(S) /\ Len(h) = n /\ g[n + 1] \in S
  OBVIOUS
<1>2. g = Append(h, g[n + 1])
  OBVIOUS
<1>3. QED BY <1>1, <1>2

LEMMA SumOfTwo ==
  ASSUME NEW f \in Seq(Nat)
  PROVE  \A g \in Seq(Nat) : Sum(f \o g) = Sum(f) + Sum(g)
<1> DEFINE S == {n \in Nat : \A g \in Seq(Nat) : Len(g) = n => Sum(f \o g) = Sum(f) + Sum(g)}
<1>1. 0 \in S
  <2>1. ASSUME NEW g \in Seq(Nat), Len(g) = 0 PROVE Sum(f \o g) = Sum(f) + Sum(g)
    <3>1. g = <<>> /\ f \o g = f
      BY <2>1
    <3>2. Sum(f) \in Nat
      BY SumAppend
    <3>3. QED BY <3>1, <3>2, SumOfNone
  <2>2. QED BY <2>1
<1>2. ASSUME NEW n \in S \cap Nat PROVE n + 1 \in S
  <2>1. ASSUME NEW g \in Seq(Nat), Len(g) = n + 1 PROVE Sum(f \o g) = Sum(f) + Sum(g)
    <3>1. PICK h \in Seq(Nat), e \in Nat : g = Append(h, e) /\ Len(h) = n
      BY <2>1, EndsWithOne, ZenonT(60)
    <3>2. f \o g = Append(f \o h, e) /\ f \o h \in Seq(Nat)
      BY <3>1
    <3>3. Sum(f \o h) = Sum(f) + Sum(h)
      BY <3>1
    <3>4. Sum(f \o g) = Sum(f \o h) + e /\ Sum(g) = Sum(h) + e
      BY <3>1, <3>2, SumAppend
    <3>5. Sum(f) \in Nat /\ Sum(h) \in Nat
      BY SumAppend
    <3>6. QED BY <3>3, <3>4, <3>5
  <2>2. QED BY <2>1
<1> HIDE DEF S
<1>3. \A n \in Nat : n \in S
  BY <1>1, <1>2, Add!Induct
<1>4. QED BY <1>3 DEF S

\* The largest and the smallest of some numbers
LEMMA MaxIs ==
  ASSUME NEW T, T \subseteq Nat, NEW x \in T, \A y \in T : x >= y
  PROVE  Max(T) = x
<1>1. \A z \in T : (\A y \in T : z >= y) => z = x
  OBVIOUS
<1>2. QED BY <1>1 DEF Max

LEMMA MinIs ==
  ASSUME NEW T, T \subseteq Nat, NEW x \in T, \A y \in T : x <= y
  PROVE  Min(T) = x
<1>1. \A z \in T : (\A y \in T : z <= y) => z = x
  OBVIOUS
<1>2. QED BY <1>1 DEF Min

LEMMA HasMax ==
  ASSUME NEW v \in Seq(Nat), v # <<>>
  PROVE  /\ Max(ToSet(v)) \in ToSet(v) /\ \A y \in ToSet(v) : Max(ToSet(v)) >= y
<1> DEFINE S == {n \in Nat : \A u \in Seq(Nat) : Len(u) = n + 1 =>
                               \E x \in ToSet(u) : \A y \in ToSet(u) : x >= y}
<1>1. 0 \in S
  <2>1. ASSUME NEW u \in Seq(Nat), Len(u) = 1 PROVE \E x \in ToSet(u) : \A y \in ToSet(u) : x >= y
    <3>1. 1 \in DOMAIN u /\ u[1] \in Nat /\ \A i \in DOMAIN u : i = 1
      <4>1. DOMAIN u = 1..1
        BY <2>1
      <4>2. 1 \in 1..1 /\ \A i \in 1..1 : i = 1
        OBVIOUS
      <4>3. u[1] \in Nat
        BY <2>1, <4>2, ElementOfSeq
      <4>4. QED BY <4>1, <4>2, <4>3
    <3>2. u[1] \in ToSet(u) /\ \A y \in ToSet(u) : y = u[1]
      BY <3>1 DEF ToSet
    <3>3. QED BY <3>1, <3>2
  <2>2. QED BY <2>1
<1>2. ASSUME NEW n \in S \cap Nat PROVE n + 1 \in S
  <2>1. ASSUME NEW u \in Seq(Nat), Len(u) = (n + 1) + 1
        PROVE  \E x \in ToSet(u) : \A y \in ToSet(u) : x >= y
    <3> DEFINE m == n + 1
    <3>0. m \in Nat /\ Len(u) = m + 1
      BY <2>1
    <3> HIDE DEF m
    <3>p. \E h \in Seq(Nat), e \in Nat : u = Append(h, e) /\ Len(h) = m
      BY <3>0, EndsWithOne, ZenonT(60)
    <3>1. PICK h \in Seq(Nat), e \in Nat : u = Append(h, e) /\ Len(h) = n + 1
      BY <3>p DEF m
    <3>2. PICK x \in ToSet(h) : \A y \in ToSet(h) : x >= y
      BY <3>1
    <3>3. ToSet(u) = ToSet(h) \cup {e} /\ ToSet(h) \subseteq Nat
      <4>1. /\ DOMAIN h = 1..(n + 1) /\ DOMAIN u = 1..(n + 2) /\ u[n + 2] = e
            /\ \A i \in 1..(n + 1) : u[i] = h[i] /\ h[i] \in Nat
        BY <3>1
      <4>2. \A i : i \in 1..(n + 2) <=> i \in 1..(n + 1) \/ i = n + 2
        OBVIOUS
      <4>3. \A y : y \in ToSet(u) <=> y \in ToSet(h) \/ y = e
        BY <4>1, <4>2 DEF ToSet
      <4>4. ToSet(h) \subseteq Nat
        BY <4>1 DEF ToSet
      <4>5. QED BY <4>3, <4>4
    <3>4. CASE x >= e
      BY <3>2, <3>3, <3>4
    <3>5. CASE ~(x >= e)
      <4>0. x \in Nat /\ e \in Nat
        BY <3>3
      <4>1. ASSUME NEW y \in ToSet(h) PROVE y \in Nat /\ e >= y
        <5>1. y \in Nat /\ x >= y
          BY <3>2, <3>3
        <5>2. QED BY <3>5, <4>0, <5>1
      <4>2. e \in ToSet(u) /\ e >= e
        BY <3>3, <4>0
      <4>3. \A y \in ToSet(u) : e >= y
        BY <3>3, <4>1, <4>2
      <4>4. QED BY <4>2, <4>3
    <3>6. QED BY <3>4, <3>5
  <2>2. QED BY <2>1
<1> HIDE DEF S
<1>3. \A n \in Nat : n \in S
  BY <1>1, <1>2, Add!Induct
<1>4. PICK n \in Nat : Len(v) = n + 1
  <2>1. Len(v) \in Nat /\ Len(v) # 0
    OBVIOUS
  <2>2. Len(v) - 1 \in Nat /\ Len(v) = (Len(v) - 1) + 1
    BY <2>1
  <2>3. QED BY <2>2
<1>5. PICK x \in ToSet(v) : \A y \in ToSet(v) : x >= y
  BY <1>3, <1>4 DEF S
<1>6. ToSet(v) \subseteq Nat
  BY DEF ToSet
<1>7. QED BY <1>5, <1>6, MaxIs

LEMMA HasMin ==
  ASSUME NEW v \in Seq(Nat), v # <<>>
  PROVE  /\ Min(ToSet(v)) \in ToSet(v) /\ \A y \in ToSet(v) : Min(ToSet(v)) <= y
<1>1. ToSet(v) \subseteq Nat /\ ToSet(v) # {}
  <2>1. 1 \in DOMAIN v
    OBVIOUS
  <2>2. QED BY <2>1 DEF ToSet
<1>2. PICK x \in ToSet(v) : \A y \in ToSet(v) : ~(y < x)
  BY <1>1, Add!LeastOf
<1>3. \A y \in ToSet(v) : x <= y
  BY <1>1, <1>2
<1>4. QED BY <1>1, <1>2, <1>3, MinIs

(***************************************************************************)
(* What a bucket has to say of occurrences, with all fields: that of two   *)
(* sequences in a row is made of that of each.                             *)
(***************************************************************************)
Metric(s) == [t |-> Sum(Values(s)), sos |-> Sum(Squares(s)), c |-> Len(s),
              min |-> Min(ToSet(Values(s))), max |-> Max(ToSet(Values(s)))]
Full(m) == IF Condensed(m) THEN CreateMetricObject(m.t) ELSE m
Both(m, n) == [t |-> m.t + n.t, sos |-> m.sos + n.sos, c |-> m.c + n.c,
               min |-> IF n.min < m.min THEN n.min ELSE m.min,
               max |-> IF n.max > m.max THEN n.max ELSE m.max]
IsMetric(m) ==
  /\ m = [t |-> m.t, sos |-> m.sos, c |-> m.c, min |-> m.min, max |-> m.max]
  /\ m.t \in Nat /\ m.sos \in Nat /\ m.c \in Nat /\ m.min \in Nat /\ m.max \in Nat

LEMMA ValueTypes ==
  ASSUME NEW s \in Seq(Occurrences)
  PROVE  /\ Values(s) \in Seq(Nat) /\ Squares(s) \in Seq(Nat)
         /\ Len(Values(s)) = Len(s) /\ Len(Squares(s)) = Len(s)
         /\ \A i \in 1..Len(s) : Values(s)[i] = Value[s[i]]
                /\ Squares(s)[i] = Value[s[i]] * Value[s[i]]
<1>1. \A i \in DOMAIN s : Value[s[i]] \in Nat /\ Value[s[i]] * Value[s[i]] \in Nat
  BY DEF Occurrences
<1>2. DOMAIN s = 1..Len(s) /\ Len(s) \in Nat
  OBVIOUS
<1>3. QED BY <1>1, <1>2, IsASeq DEF Values, Squares

LEMMA SumIsSum == \A f : FoldLeft(+, 0, f) = Sum(f)
BY DEF Sum, FoldLeft, MapThenFoldSet, Plus

LEMMA SummaryIs ==
  ASSUME NEW s \in Seq(Occurrences), s # <<>>
  PROVE  /\ Summary(s) = [params |-> s[1], count |-> Len(s),
                          time |-> IF Len(s) = 1 THEN [t |-> Values(s)[1]] ELSE Metric(s)]
         /\ Summary(s) # NoBucket /\ Len(s) \in Nat \ {0} /\ s[1] \in Occurrences
<1>1. DOMAIN s = 1..Len(s) /\ Len(s) \in Nat \ {0} /\ s[1] \in Occurrences
  OBVIOUS
<1>2. \A i \in DOMAIN s : Values(s)[i] * Values(s)[i] = Squares(s)[i]
  BY DEF Values, Squares
<1>3. [i \in DOMAIN s |-> Values(s)[i] * Values(s)[i]] = Squares(s)
  BY DEF Values, Squares
<1>4. Summary(s) = [params |-> s[1], count |-> Len(s),
                    time |-> IF Len(s) = 1 THEN [t |-> Values(s)[1]] ELSE Metric(s)]
  BY <1>3, SumIsSum DEF Summary, Metric, Values
<1>5. Summary(s).params # NoBucket.params
  BY <1>1, <1>4 DEF NoBucket, Occurrences
<1>6. QED BY <1>1, <1>4, <1>5

\* One occurrence has a value, with which all fields are made
LEMMA MetricOfOne ==
  ASSUME NEW s \in Seq(Occurrences), Len(s) = 1
  PROVE  CreateMetricObject(Values(s)[1]) = Metric(s)
<1> DEFINE v == Value[s[1]]
<1>1. 1 \in 1..Len(s) /\ s[1] \in Occurrences
  <2>1. 1 \in 1..Len(s)
    OBVIOUS
  <2>2. QED BY <2>1, ElementOfSeq
<1>2. v \in Nat /\ v * v \in Nat
  BY <1>1 DEF Occurrences
<1> HIDE DEF v
<1>3. /\ Values(s) \in Seq(Nat) /\ Len(Values(s)) = 1 /\ Values(s)[1] = v
      /\ Squares(s) \in Seq(Nat) /\ Len(Squares(s)) = 1 /\ Squares(s)[1] = v * v
  BY <1>1, ValueTypes DEF v
<1>4. ASSUME NEW f \in Seq(Nat), Len(f) = 1 PROVE Sum(f) = f[1]
  <2>1. f = Append(<<>>, f[1]) /\ <<>> \in Seq(Nat) /\ f[1] \in Nat
    <3>1. 1 \in 1..Len(f) /\ <<>> \in Seq(Nat) /\ Len(<<>>) = 0
      BY <1>4
    <3>2. f[1] \in Nat
      BY <3>1, ElementOfSeq
    <3> DEFINE g == Append(<<>>, f[1])
    <3>3. g \in Seq(Nat) /\ Len(g) = 1 /\ g[1] = f[1]
      BY <3>1, <3>2, AppendProperties
    <3> HIDE DEF g
    <3>4. \A i \in 1..Len(f) : i = 1
      BY <1>4
    <3>5. f = g
      BY <1>4, <3>3, <3>4, SeqEqual
    <3>6. QED BY <3>1, <3>2, <3>5 DEF g
  <2>2. Sum(f) = Sum(<<>>) + f[1]
    BY <2>1, SumAppend
  <2>3. QED BY <2>1, <2>2, SumOfNone
<1>5. Sum(Values(s)) = v /\ Sum(Squares(s)) = v * v
  BY <1>3, <1>4
<1>6. ToSet(Values(s)) = {v}
  <2>1. DOMAIN Values(s) = 1..1
    BY <1>3
  <2>2. \A i : i \in 1..1 <=> i = 1
    OBVIOUS
  <2>3. QED BY <1>3, <2>1, <2>2 DEF ToSet
<1>7. Min({v}) = v /\ Max({v}) = v
  <2>1. {v} \subseteq Nat /\ v \in {v} /\ \A y \in {v} : v >= y /\ v <= y
    BY <1>2
  <2>2. Min({v}) = v
    BY <2>1, MinIs
  <2>3. Max({v}) = v
    BY <2>1, MaxIs
  <2>4. QED BY <2>2, <2>3
<1>8. QED BY <1>3, <1>5, <1>6, <1>7 DEF Metric, CreateMetricObject

LEMMA MetricTypes ==
  ASSUME NEW s \in Seq(Occurrences), s # <<>>
  PROVE  IsMetric(Metric(s)) /\ ~Condensed(Metric(s))
<1>1. Values(s) \in Seq(Nat) /\ Squares(s) \in Seq(Nat) /\ Values(s) # <<>> /\ Len(s) \in Nat
  BY ValueTypes
<1>2. Sum(Values(s)) \in Nat /\ Sum(Squares(s)) \in Nat
  BY <1>1, SumAppend
<1>3. Min(ToSet(Values(s))) \in Nat /\ Max(ToSet(Values(s))) \in Nat
  <2>1. ToSet(Values(s)) \subseteq Nat
    BY <1>1 DEF ToSet
  <2>2. QED BY <1>1, <2>1, HasMax, HasMin
<1>4. IsMetric(Metric(s))
  BY <1>1, <1>2, <1>3 DEF IsMetric, Metric
<1>5. "c" \in DOMAIN Metric(s)
  BY DEF Metric
<1>6. QED BY <1>4, <1>5 DEF Condensed

LEMMA FullIsMetric ==
  ASSUME NEW s \in Seq(Occurrences), s # <<>>
  PROVE  Full(Summary(s).time) = Metric(s)
<1>1. Summary(s).time = IF Len(s) = 1 THEN [t |-> Values(s)[1]] ELSE Metric(s)
  BY SummaryIs
<1>2. CASE Len(s) = 1
  <2> DEFINE m == [t |-> Values(s)[1]]
  <2>1. "c" \notin DOMAIN m /\ m.t = Values(s)[1]
    OBVIOUS
  <2>2. Summary(s).time = m
    BY <1>1, <1>2
  <2> HIDE DEF m
  <2>3. QED BY <1>2, <2>1, <2>2, MetricOfOne DEF Full, Condensed
<1>3. CASE Len(s) # 1
  BY <1>1, <1>3, MetricTypes DEF Full
<1>4. QED BY <1>2, <1>3

LEMMA ConcatIs ==
  ASSUME NEW x \in Seq(Nat), NEW y \in Seq(Nat), NEW z, z = x \o y
  PROVE  /\ z \in Seq(Nat) /\ Len(z) = Len(x) + Len(y) /\ Len(x) \in Nat /\ Len(y) \in Nat
         /\ \A i \in 1..Len(x) : i \in 1..Len(z) /\ z[i] = x[i]
         /\ \A i \in 1..Len(y) : Len(x) + i \in 1..Len(z) /\ z[Len(x) + i] = y[i]
OBVIOUS

\* A sequence is two others in a row if it has their elements
Row(u, x, y) ==
  /\ u \in Seq(Nat) /\ Len(u) = Len(x) + Len(y) /\ Len(x) \in Nat /\ Len(y) \in Nat
  /\ \A i \in 1..Len(x) : u[i] = x[i]
  /\ \A i \in 1..Len(y) : u[Len(x) + i] = y[i]
LEMMA ConcatIsRow ==
  ASSUME NEW x \in Seq(Nat), NEW y \in Seq(Nat)
  PROVE  Row(x \o y, x, y)
BY ConcatIs DEF Row

LEMMA InSecond ==
  ASSUME NEW m \in Nat, NEW n \in Nat, NEW i \in 1..(m + n), ~(i <= m)
  PROVE  i - m \in 1..n /\ m + (i - m) = i
OBVIOUS

LEMMA IsConcat ==
  ASSUME NEW x \in Seq(Nat), NEW y \in Seq(Nat), NEW z \in Seq(Nat),
         Len(z) = Len(x) + Len(y), \A i \in 1..Len(x) : z[i] = x[i],
         \A i \in 1..Len(y) : z[Len(x) + i] = y[i]
  PROVE  z = x \o y
<1>0. Row(x \o y, x, y)
  BY ConcatIsRow, Zenon
<1> PICK u : u = x \o y /\ Row(u, x, y)
  BY <1>0, Zenon
<1>1. /\ u \in Seq(Nat) /\ Len(u) = Len(x) + Len(y) /\ Len(x) \in Nat /\ Len(y) \in Nat
      /\ \A i \in 1..Len(x) : u[i] = x[i]
      /\ \A i \in 1..Len(y) : u[Len(x) + i] = y[i]
  BY Zenon DEF Row
<1>2. ASSUME NEW i \in 1..Len(z) PROVE z[i] = u[i]
  <2>1. CASE i <= Len(x)
    <3>1. i \in 1..Len(x)
      BY <1>1, <2>1
    <3>2. QED BY <1>1, <3>1
  <2>2. CASE ~(i <= Len(x))
    <3>1. Len(x) \in Nat /\ Len(y) \in Nat /\ i \in 1..(Len(x) + Len(y))
      BY <1>1, Zenon
    <3>2. i - Len(x) \in 1..Len(y) /\ Len(x) + (i - Len(x)) = i
      BY <2>2, <3>1, InSecond, Zenon
    <3>3. QED BY <1>1, <3>2
  <2>3. QED BY <2>1, <2>2
<1>3. z = u
  BY <1>1, <1>2, SeqEqual
<1>4. QED BY <1>3

LEMMA SetOfTwo ==
  ASSUME NEW x \in Seq(Nat), NEW y \in Seq(Nat)
  PROVE  ToSet(x \o y) = ToSet(x) \cup ToSet(y) /\ ToSet(x) \subseteq Nat
<1> DEFINE z == x \o y
<1>1. /\ z \in Seq(Nat) /\ Len(z) = Len(x) + Len(y) /\ Len(x) \in Nat /\ Len(y) \in Nat
      /\ \A i \in 1..Len(x) : i \in 1..Len(z) /\ z[i] = x[i]
      /\ \A i \in 1..Len(y) : Len(x) + i \in 1..Len(z) /\ z[Len(x) + i] = y[i]
  BY ConcatIs
<1> HIDE DEF z
<1>2. DOMAIN z = 1..Len(z) /\ DOMAIN x = 1..Len(x) /\ DOMAIN y = 1..Len(y)
  BY <1>1
<1>3. ASSUME NEW e \in ToSet(z) PROVE e \in ToSet(x) \cup ToSet(y)
  <2>1. PICK i \in 1..Len(z) : e = z[i]
    BY <1>2 DEF ToSet
  <2>2. CASE i <= Len(x)
    <3>1. i \in 1..Len(x)
      BY <1>1, <2>2
    <3>2. QED BY <1>1, <1>2, <2>1, <3>1 DEF ToSet
  <2>3. CASE ~(i <= Len(x))
    <3>1. i - Len(x) \in 1..Len(y) /\ Len(x) + (i - Len(x)) = i
      BY <1>1, <2>3
    <3>2. e = y[i - Len(x)]
      BY <1>1, <2>1, <3>1
    <3>3. QED BY <1>2, <3>1, <3>2 DEF ToSet
  <2>4. QED BY <2>2, <2>3
<1>4. \A e \in ToSet(x) : e \in ToSet(z)
  BY <1>1, <1>2 DEF ToSet
<1>5. \A e \in ToSet(y) : e \in ToSet(z)
  BY <1>1, <1>2 DEF ToSet
<1>6. ToSet(x) \subseteq Nat
  BY DEF ToSet
<1>7. ToSet(z) = ToSet(x) \cup ToSet(y)
  BY <1>3, <1>4, <1>5
<1>8. QED BY <1>6, <1>7 DEF z

LEMMA MaxOfTwo ==
  ASSUME NEW X, X \subseteq Nat, NEW Y, Y \subseteq Nat,
         NEW m \in X, \A e \in X : m >= e, NEW k \in Y, \A e \in Y : k >= e
  PROVE  Max(X \cup Y) = IF k > m THEN k ELSE m
<1> DEFINE T == X \cup Y
           z == IF k > m THEN k ELSE m
<1>1. m \in Nat /\ k \in Nat /\ \A e \in T : e \in Nat
  OBVIOUS
<1>2. z \in T /\ T \subseteq Nat /\ \A e \in T : z >= e
  BY <1>1
<1> HIDE DEF T, z
<1>3. Max(T) = z
  BY <1>2, MaxIs
<1>4. QED BY <1>3 DEF T, z

LEMMA MinOfTwo ==
  ASSUME NEW X, X \subseteq Nat, NEW Y, Y \subseteq Nat,
         NEW m \in X, \A e \in X : m <= e, NEW k \in Y, \A e \in Y : k <= e
  PROVE  Min(X \cup Y) = IF k < m THEN k ELSE m
<1> DEFINE T == X \cup Y
           z == IF k < m THEN k ELSE m
<1>1. m \in Nat /\ k \in Nat /\ \A e \in T : e \in Nat
  OBVIOUS
<1>2. z \in T /\ T \subseteq Nat /\ \A e \in T : z <= e
  BY <1>1
<1> HIDE DEF T, z
<1>3. Min(T) = z
  BY <1>2, MinIs
<1>4. QED BY <1>3 DEF T, z

LEMMA MetricOfTwo ==
  ASSUME NEW a \in Seq(Occurrences), NEW b \in Seq(Occurrences), a # <<>>, b # <<>>
  PROVE  Metric(a \o b) = Both(Metric(a), Metric(b))
<1> DEFINE s == a \o b
<1>0. /\ s \in Seq(Occurrences) /\ Len(s) = Len(a) + Len(b)
      /\ Len(a) \in Nat /\ Len(b) \in Nat
      /\ \A i \in 1..Len(a) : s[i] = a[i] /\ i \in 1..Len(s)
      /\ \A i \in 1..Len(b) : s[Len(a) + i] = b[i] /\ Len(a) + i \in 1..Len(s)
  OBVIOUS
<1> HIDE DEF s
<1>x. /\ Values(a) \in Seq(Nat) /\ Squares(a) \in Seq(Nat)
      /\ Len(Values(a)) = Len(a) /\ Len(Squares(a)) = Len(a)
      /\ \A i \in 1..Len(a) : Values(a)[i] = Value[a[i]]
             /\ Squares(a)[i] = Value[a[i]] * Value[a[i]]
  BY ValueTypes
<1>y. /\ Values(b) \in Seq(Nat) /\ Squares(b) \in Seq(Nat)
      /\ Len(Values(b)) = Len(b) /\ Len(Squares(b)) = Len(b)
      /\ \A i \in 1..Len(b) : Values(b)[i] = Value[b[i]]
             /\ Squares(b)[i] = Value[b[i]] * Value[b[i]]
  BY ValueTypes
<1>z. /\ Values(s) \in Seq(Nat) /\ Squares(s) \in Seq(Nat)
      /\ Len(Values(s)) = Len(s) /\ Len(Squares(s)) = Len(s)
      /\ \A i \in 1..Len(s) : Values(s)[i] = Value[s[i]]
             /\ Squares(s)[i] = Value[s[i]] * Value[s[i]]
  BY <1>0, ValueTypes
<1>1. Values(s) = Values(a) \o Values(b)
  <2>1. ASSUME NEW i \in 1..Len(Values(a)) PROVE Values(s)[i] = Values(a)[i]
    <3>1. i \in 1..Len(a) /\ i \in 1..Len(s) /\ s[i] = a[i]
      BY <1>0, <1>x
    <3>2. QED BY <1>x, <1>z, <3>1
  <2>2. ASSUME NEW i \in 1..Len(Values(b)) PROVE Values(s)[Len(Values(a)) + i] = Values(b)[i]
    <3>1. i \in 1..Len(b)
      BY <1>y
    <3>2. Len(a) + i \in 1..Len(s) /\ s[Len(a) + i] = b[i]
      BY <1>0, <3>1
    <3>3. Values(s)[Len(a) + i] = Values(b)[i]
      BY <1>y, <1>z, <3>1, <3>2
    <3>4. QED BY <1>x, <3>3
  <2>3. Len(Values(s)) = Len(Values(a)) + Len(Values(b))
    BY <1>0, <1>x, <1>y, <1>z
  <2>4. QED BY <1>x, <1>y, <1>z, <2>1, <2>2, <2>3, IsConcat
<1>2. Squares(s) = Squares(a) \o Squares(b)
  <2>1. ASSUME NEW i \in 1..Len(Squares(a)) PROVE Squares(s)[i] = Squares(a)[i]
    <3>1. i \in 1..Len(a) /\ i \in 1..Len(s) /\ s[i] = a[i]
      BY <1>0, <1>x
    <3>2. QED BY <1>x, <1>z, <3>1
  <2>2. ASSUME NEW i \in 1..Len(Squares(b)) PROVE Squares(s)[Len(Squares(a)) + i] = Squares(b)[i]
    <3>1. i \in 1..Len(b)
      BY <1>y
    <3>2. Len(a) + i \in 1..Len(s) /\ s[Len(a) + i] = b[i]
      BY <1>0, <3>1
    <3>3. Squares(s)[Len(a) + i] = Squares(b)[i]
      BY <1>y, <1>z, <3>1, <3>2
    <3>4. QED BY <1>x, <3>3
  <2>3. Len(Squares(s)) = Len(Squares(a)) + Len(Squares(b))
    BY <1>0, <1>x, <1>y, <1>z
  <2>4. QED BY <1>x, <1>y, <1>z, <2>1, <2>2, <2>3, IsConcat
<1>3. /\ Sum(Values(s)) = Sum(Values(a)) + Sum(Values(b))
      /\ Sum(Squares(s)) = Sum(Squares(a)) + Sum(Squares(b))
  BY <1>1, <1>2, <1>x, <1>y, SumOfTwo
<1>4. /\ ToSet(Values(s)) = ToSet(Values(a)) \cup ToSet(Values(b))
      /\ ToSet(Values(a)) \subseteq Nat /\ ToSet(Values(b)) \subseteq Nat
  BY <1>1, <1>x, <1>y, SetOfTwo
<1>5. Values(a) # <<>> /\ Values(b) # <<>>
  BY <1>x, <1>y
<1> DEFINE X == ToSet(Values(a))
           Y == ToSet(Values(b))
<1>6. /\ Max(X) \in X /\ Max(Y) \in Y /\ Min(X) \in X /\ Min(Y) \in Y
      /\ \A e \in X : Max(X) >= e /\ Min(X) <= e
      /\ \A e \in Y : Max(Y) >= e /\ Min(Y) <= e
  BY <1>x, <1>y, <1>5, HasMax, HasMin
<1> HIDE DEF X, Y
<1>7. Max(X \cup Y) = IF Max(Y) > Max(X) THEN Max(Y) ELSE Max(X)
  BY <1>4, <1>6, MaxOfTwo DEF X, Y
<1>8. Min(X \cup Y) = IF Min(Y) < Min(X) THEN Min(Y) ELSE Min(X)
  BY <1>4, <1>6, MinOfTwo DEF X, Y
<1>9. Metric(s) = Both(Metric(a), Metric(b))
  BY <1>0, <1>3, <1>4, <1>7, <1>8 DEF Metric, Both, X, Y
<1>10. QED BY <1>9 DEF s
(***************************************************************************)
(* The operations on a bucket: they make the summary of what they are for. *)
(***************************************************************************)
LEMMA BothTurned ==
  ASSUME NEW m, IsMetric(m), NEW n, IsMetric(n)
  PROVE  Both(m, n) = Both(n, m)
<1>1. /\ m.t + n.t = n.t + m.t /\ m.sos + n.sos = n.sos + m.sos /\ m.c + n.c = n.c + m.c
      /\ (IF n.min < m.min THEN n.min ELSE m.min) = (IF m.min < n.min THEN m.min ELSE n.min)
      /\ (IF n.max > m.max THEN n.max ELSE m.max) = (IF m.max > n.max THEN m.max ELSE n.max)
  BY DEF IsMetric
<1>2. QED BY <1>1 DEF Both

LEMMA UpdateIs ==
  ASSUME NEW v, NEW m
  PROVE  UpdateMetric(v, m) = Both(Full(m), CreateMetricObject(v))
<1> DEFINE f == Full(m)
           n == CreateMetricObject(v)
<1>1. n.t = v /\ n.sos = v * v /\ n.c = 1 /\ n.min = v /\ n.max = v
  BY DEF CreateMetricObject
<1>2. UpdateMetric(v, m) = [t |-> f.t + v, sos |-> f.sos + v * v, c |-> f.c + 1,
                            max |-> IF v > f.max THEN v ELSE f.max,
                            min |-> IF v < f.min THEN v ELSE f.min]
  BY DEF UpdateMetric, Full
<1> HIDE DEF n, f
<1>3. Both(f, n) = [t |-> f.t + v, sos |-> f.sos + v * v, c |-> f.c + 1,
                    max |-> IF v > f.max THEN v ELSE f.max,
                    min |-> IF v < f.min THEN v ELSE f.min]
  BY <1>1 DEF Both
<1>4. QED BY <1>2, <1>3 DEF n, f

LEMMA MergeIs ==
  ASSUME NEW new, IsMetric(new), NEW m, IsMetric(Full(m))
  PROVE  MergeMetric(new, m) = Both(Full(m), new)
<1> DEFINE f == Full(m)
<1>1. MergeMetric(new, m) = [t |-> f.t + new.t, sos |-> f.sos + new.sos, c |-> f.c + new.c,
                             max |-> Max({f.max, new.max}), min |-> Min({f.min, new.min})]
  BY DEF MergeMetric, Full
<1>2. f.max \in Nat /\ f.min \in Nat /\ new.max \in Nat /\ new.min \in Nat
  BY DEF IsMetric
<1> HIDE DEF f
<1>3. ASSUME NEW x \in Nat, NEW y \in Nat
      PROVE  /\ Max({x, y}) = IF y > x THEN y ELSE x
             /\ Min({x, y}) = IF y < x THEN y ELSE x
  <2> DEFINE X == {x}
             Y == {y}
  <2>1. X \cup Y = {x, y} /\ X \subseteq Nat /\ Y \subseteq Nat /\ x \in X /\ y \in Y
        /\ (\A e \in X : x >= e /\ x <= e) /\ (\A e \in Y : y >= e /\ y <= e)
    OBVIOUS
  <2> HIDE DEF X, Y
  <2>2. Max(X \cup Y) = IF y > x THEN y ELSE x
    BY <2>1, MaxOfTwo
  <2>3. Min(X \cup Y) = IF y < x THEN y ELSE x
    BY <2>1, MinOfTwo
  <2>4. QED BY <2>1, <2>2, <2>3
<1>4. /\ Max({f.max, new.max}) = IF new.max > f.max THEN new.max ELSE f.max
      /\ Min({f.min, new.min}) = IF new.min < f.min THEN new.min ELSE f.min
  BY <1>2, <1>3
<1>5. MergeMetric(new, m) = Both(f, new)
  BY <1>1, <1>4 DEF Both
<1>6. QED BY <1>5 DEF f

\* Another occurrence makes the summary of one more.
LEMMA StoreIsSummary ==
  ASSUME NEW s \in Seq(Occurrences), NEW n \in Occurrences
  PROVE  StoreIn(Summary(s), n) = Summary(Append(s, n)) /\ Append(s, n) \in Seq(Occurrences)
<1> DEFINE o == <<n>>
           r == Append(s, n)
<1>o. o \in Seq(Occurrences) /\ o # <<>> /\ Len(o) = 1 /\ o[1] = n
  OBVIOUS
<1>r. r \in Seq(Occurrences) /\ r = s \o o /\ r # <<>> /\ Len(r) = Len(s) + 1 /\ Len(s) \in Nat
  <2>1. r = s \o o
    BY AppendIsConcat
  <2>2. QED BY <2>1
<1> HIDE DEF o
<1>v. Values(o)[1] = Value[n]
  <2>1. 1 \in 1..Len(o)
    BY <1>o
  <2>2. QED BY <1>o, <2>1, ValueTypes
<1>1. CASE s = <<>>
  <2>1. Summary(s) = NoBucket
    BY <1>1 DEF Summary
  <2>2. StoreIn(Summary(s), n) = [params |-> n, count |-> 1, time |-> [t |-> Value[n]]]
    BY <2>1 DEF StoreIn
  <2>3. r = o
    BY <1>1 DEF o
  <2>4. Summary(o) = [params |-> n, count |-> 1, time |-> [t |-> Value[n]]]
    BY <1>o, <1>v, SummaryIs
  <2>5. QED BY <1>r, <2>2, <2>3, <2>4
<1>2. CASE s # <<>>
  <2> DEFINE b == Summary(s)
  <2>1. b # NoBucket /\ Full(b.time) = Metric(s)
    BY <1>2, SummaryIs, FullIsMetric
  <2>2. UpdateMetric(Value[n], b.time) = Metric(r)
    <3>1. UpdateMetric(Value[n], b.time) = Both(Metric(s), CreateMetricObject(Value[n]))
      BY <2>1, UpdateIs
    <3>2. CreateMetricObject(Value[n]) = Metric(o)
      BY <1>o, <1>v, MetricOfOne
    <3>3. Metric(s \o o) = Both(Metric(s), Metric(o))
      BY <1>2, <1>o, MetricOfTwo
    <3>4. QED BY <1>r, <3>1, <3>2, <3>3
  <2>3. StoreIn(b, n) = [b EXCEPT !.count = b.count + 1, !.time = UpdateMetric(Value[n], b.time)]
    BY <2>1 DEF StoreIn
  <2>4. b = [params |-> s[1], count |-> Len(s), time |-> b.time]
    BY <1>2, SummaryIs
  <2>5. StoreIn(b, n) = [params |-> s[1], count |-> Len(s) + 1, time |-> Metric(r)]
    <3> DEFINE x == b.time
    <3>1. b = [params |-> s[1], count |-> Len(s), time |-> x]
      BY <2>4
    <3> HIDE DEF x, b
    <3>2. QED BY <2>2, <2>3, <3>1
  <2>6. r[1] = s[1] /\ Len(r) # 1
    BY <1>2
  <2>7. Summary(r) = [params |-> r[1], count |-> Len(r), time |-> Metric(r)]
    BY <1>r, <2>6, SummaryIs
  <2>8. QED BY <1>r, <2>5, <2>6, <2>7
<1>3. QED BY <1>1, <1>2

\* The bucket merged with a saved one is the summary of the occurrences of the
\* saved one and its own.
LEMMA MergeIsSummary ==
  ASSUME NEW a \in Seq(Occurrences), NEW b \in Seq(Occurrences), a # <<>>
  PROVE  Merge(Summary(b), Summary(a)) = Summary(a \o b) /\ a \o b \in Seq(Occurrences)
<1> DEFINE r == a \o b
           x == Summary(a)
           y == Summary(b)
<1>r. r \in Seq(Occurrences) /\ r # <<>> /\ Len(r) = Len(a) + Len(b) /\ Len(a) \in Nat
          /\ Len(b) \in Nat
      /\ Len(a) # 0 /\ r[1] = a[1] /\ (b # <<>> => Len(b) # 0)
  OBVIOUS
<1> HIDE DEF r
<1>1. CASE b = <<>>
  <2>1. r = a
    BY <1>1 DEF r
  <2>2. y = NoBucket
    BY <1>1 DEF Summary
  <2> HIDE DEF x, y
  <2>3. Merge(y, x) = x
    BY <2>2 DEF Merge
  <2>4. QED BY <1>r, <2>1, <2>3 DEF x, y, r
<1>2. CASE b # <<>>
  <2>1. y # NoBucket /\ y.count = Len(b) /\ Full(y.time) = Metric(b)
    BY <1>2, SummaryIs, FullIsMetric
  <2>2. x.params = a[1] /\ x.count = Len(a)
        /\ x.time = IF Len(a) = 1 THEN [t |-> Values(a)[1]] ELSE Metric(a)
    BY SummaryIs
  <2>m. IsMetric(Metric(a)) /\ IsMetric(Metric(b)) /\ ~Condensed(Metric(a))
    BY <1>2, MetricTypes
  <2>b. Both(Metric(b), Metric(a)) = Metric(r)
    BY <1>2, <2>m, BothTurned, MetricOfTwo DEF r
  <2>3. (IF Condensed(x.time) THEN UpdateMetric(x.time.t, y.time) ELSE MergeMetric(x.time, y.time))
          = Metric(r)
    <3>1. CASE Len(a) = 1
      <4> DEFINE e == [t |-> Values(a)[1]]
      <4>1. "c" \notin DOMAIN e /\ e.t = Values(a)[1]
        OBVIOUS
      <4>2. x.time = e
        BY <2>2, <3>1
      <4> HIDE DEF e, x, y
      <4>3. Condensed(x.time) /\ x.time.t = Values(a)[1]
        BY <4>1, <4>2 DEF Condensed
      <4>4. UpdateMetric(x.time.t, y.time) = Both(Metric(b), CreateMetricObject(Values(a)[1]))
        BY <2>1, <4>3, UpdateIs
      <4>5. CreateMetricObject(Values(a)[1]) = Metric(a)
        BY <3>1, MetricOfOne
      <4>6. QED BY <2>b, <4>3, <4>4, <4>5
    <3>2. CASE Len(a) # 1
      <4>1. x.time = Metric(a)
        BY <2>2, <3>2
      <4> HIDE DEF x, y
      <4>2. MergeMetric(x.time, y.time) = Both(Metric(b), Metric(a))
        BY <2>1, <2>m, <4>1, MergeIs
      <4>3. QED BY <2>b, <2>m, <4>1, <4>2
    <3>3. QED BY <3>1, <3>2
  <2> HIDE DEF x, y
  <2>4. Merge(y, x) = [params |-> a[1], count |-> Len(b) + Len(a), time |-> Metric(r)]
    BY <2>1, <2>2, <2>3 DEF Merge
  <2>5. Len(r) = Len(b) + Len(a) /\ Len(r) # 1
    BY <1>2, <1>r
  <2>6. Summary(r) = [params |-> a[1], count |-> Len(b) + Len(a), time |-> Metric(r)]
    BY <1>r, <2>5, SummaryIs
  <2>7. QED BY <1>r, <2>4, <2>6 DEF x, y, r
<1>3. QED BY <1>1, <1>2

(***************************************************************************)
(* Each step of the feature keeps the buckets exact.                       *)
(***************************************************************************)
AggGood(a) ==
  /\ DOMAIN a = {"bucket", "saved", "requests", "last", "here", "there"}
  /\ a.here \in Seq(Occurrences) /\ a.there \in Seq(Occurrences)
  /\ a.last \in 0..Len(Value) /\ a.requests \in Nat
  /\ a.bucket = Summary(a.here) /\ a.saved = Summary(a.there)

LEMMA NoSummary ==
  /\ Summary(<<>>) = NoBucket /\ <<>> \in Seq(Occurrences)
  /\ \A s \in Seq(Occurrences) : Summary(s) = NoBucket => s = <<>>
<1>1. Summary(<<>>) = NoBucket
  BY DEF Summary
<1>2. \A s \in Seq(Occurrences) : Summary(s) = NoBucket => s = <<>>
  BY SummaryIs
<1>3. QED BY <1>1, <1>2

LEMMA AggInitGood == AggInit => AggGood(agg)
BY NoSummary DEF AggInit, AggGood

LEMMA TakeGood ==
  ASSUME NEW a, AggGood(a), NEW retry \in BOOLEAN
  PROVE  AggGood(TakeErrors(a, retry))
<1> DEFINE v == TakeErrors(a, retry)
<1>1. CASE a.bucket = NoBucket
  BY <1>1 DEF TakeErrors
<1>2. CASE a.bucket # NoBucket
  <2>1. /\ DOMAIN v = DOMAIN a /\ v.bucket = NoBucket /\ v.here = <<>> /\ v.last = a.last
        /\ v.saved = (IF retry THEN a.bucket ELSE a.saved)
        /\ v.there = (IF retry THEN a.here ELSE a.there)
        /\ v.requests = (IF retry THEN a.requests + 1 ELSE a.requests)
    BY <1>2 DEF TakeErrors, AggGood
  <2> HIDE DEF v
  <2>2. QED BY <2>1, NoSummary DEF AggGood, v
<1>3. QED BY <1>1, <1>2

\* Every step of the errors' aggregate leaves its buckets exact: a request takes them, and
\* one that failed brings them back.
LEMMA AggStepGood ==
  ASSUME AggGood(agg), AggStep
  PROVE  AggGood(agg')
<1>1. CASE agg.last < Len(Value) /\ agg' = StoreError(agg, agg.last + 1)
  <2> DEFINE n == agg.last + 1
             v == StoreError(agg, n)
  <2>1. n \in Occurrences /\ n \in 0..Len(Value)
    BY <1>1 DEF AggGood, Occurrences
  <2> HIDE DEF n
  <2>2. /\ DOMAIN v = DOMAIN agg /\ v.last = n /\ v.bucket = StoreIn(agg.bucket, n)
        /\ v.here = Append(agg.here, n) /\ v.saved = agg.saved /\ v.there = agg.there
        /\ v.requests = agg.requests
    BY DEF StoreError, AggGood
  <2> HIDE DEF v
  <2>3. AggGood(v)
    BY <2>1, <2>2, StoreIsSummary DEF AggGood
  <2>4. QED BY <1>1, <2>3 DEF v, n
<1>2. CASE agg' = TakeErrors(agg, TRUE)
  BY <1>2, TakeGood
<1>3. CASE agg.requests > 0 /\ \E retry \in BOOLEAN : agg' = ErrorsAnswered(agg, retry)
  <2>1. PICK retry \in BOOLEAN : agg' = ErrorsAnswered(agg, retry)
    BY <1>3
  <2> DEFINE b == [agg EXCEPT !.requests = @ - 1]
  <2>2. /\ DOMAIN b = DOMAIN agg /\ b.requests = agg.requests - 1 /\ b.last = agg.last
        /\ b.bucket = agg.bucket /\ b.here = agg.here /\ b.saved = agg.saved /\ b.there = agg.there
    BY DEF AggGood
  <2>c. agg' = ClearSave(IF retry THEN ReloadSave(b) ELSE b)
    BY <2>1 DEF ErrorsAnswered
  <2> HIDE DEF b
  <2>3. AggGood(b)
    <3>1. agg.requests - 1 \in Nat
      BY <1>3 DEF AggGood
    <3>2. QED BY <2>2, <3>1 DEF AggGood
  <2>4. AggGood(ReloadSave(b))
    <3> DEFINE v == ReloadSave(b)
    <3>1. CASE b.saved = NoBucket
      BY <2>3, <3>1 DEF ReloadSave
    <3>2. CASE b.saved # NoBucket
      <4>1. /\ DOMAIN v = DOMAIN b /\ v.bucket = Merge(b.bucket, b.saved)
                   /\ v.here = b.there \o b.here
            /\ v.saved = b.saved /\ v.there = b.there /\ v.last = b.last /\ v.requests = b.requests
        BY <2>3, <3>2 DEF ReloadSave, AggGood
      <4>2. b.there # <<>>
        BY <2>3, <3>2, NoSummary DEF AggGood
      <4> HIDE DEF v
      <4>3. v.bucket = Summary(v.here) /\ v.here \in Seq(Occurrences)
        BY <2>3, <4>1, <4>2, MergeIsSummary DEF AggGood
      <4>4. QED BY <2>3, <4>1, <4>3 DEF AggGood, v
    <3>3. QED BY <3>1, <3>2
  <2>5. ASSUME NEW a, AggGood(a) PROVE AggGood(ClearSave(a))
    <3> DEFINE v == ClearSave(a)
    <3>1. /\ DOMAIN v = DOMAIN a /\ v.bucket = a.bucket /\ v.here = a.here /\ v.saved = NoBucket
          /\ v.there = <<>> /\ v.last = a.last /\ v.requests = a.requests
      BY <2>5 DEF ClearSave, AggGood
    <3> HIDE DEF v
    <3>2. QED BY <2>5, <3>1, NoSummary DEF AggGood, v
  <2>6. QED BY <2>c, <2>3, <2>4, <2>5
<1>4. QED BY <1>1, <1>2, <1>3 DEF AggStep

HIDE AggregatorAssumption
-----------------------------------------------------------------------------
USE MfeAssumption

InstanceFields ==
  {"own", "fcpOn", "lcpOn", "entriesOn", "listening", "timer", "registered", "seen", "waiting",
   "resizing", "fcp", "largest", "counted", "swept", "frozen", "final", "late"}
InstanceGood(m, claim, i) ==
  /\ DOMAIN m = InstanceFields /\ m.late \in BOOLEAN /\ m.counted \subseteq Nodes
  /\ m.own # Outside => m.own \in Roots /\ claim[m.own] = i
  /\ \A n \in m.counted \ m.swept : RootOf[n] # Outside /\ claim[RootOf[n]] = i
  /\ m.fcpOn \/ m.lcpOn \/ m.entriesOn \/ m.listening \/ m.timer \/ m.frozen => m.registered
  /\ m.frozen => ~m.lcpOn
  /\ m.frozen /\ ~m.late => m.resizing = {} /\ m.largest = m.final
MfeTypes(v) ==
  /\ DOMAIN v = {"dom", "loaded", "claim", "inst"} /\ v.dom \subseteq Nodes
  /\ DOMAIN v.claim = Roots /\ DOMAIN v.inst = InstanceSet
MfeGood(v) ==
  /\ MfeTypes(v)
  /\ \A i \in InstanceSet : InstanceGood(v.inst[i], v.claim, i)

LEMMA VitalsOfGood == MfeGood(mfe) => VitalsAreTheirOwn
BY DEF MfeGood, InstanceGood, VitalsAreTheirOwn

LEMMA MfeInitGood == MfeInit => MfeGood(mfe)
<1> SUFFICES ASSUME MfeInit PROVE MfeGood(mfe)
  OBVIOUS
<1>1. /\ DOMAIN NewInstance = InstanceFields /\ NewInstance.late = FALSE
             /\ NewInstance.own = Outside
      /\ NewInstance.counted = {} /\ NewInstance.fcpOn = FALSE /\ NewInstance.lcpOn = FALSE
      /\ NewInstance.entriesOn = FALSE /\ NewInstance.listening = FALSE /\ NewInstance.timer = FALSE
      /\ NewInstance.frozen = FALSE
  BY DEF NewInstance, InstanceFields
<1>2. /\ DOMAIN mfe = {"dom", "loaded", "claim", "inst"} /\ mfe.dom = {} /\ DOMAIN mfe.claim = Roots
      /\ DOMAIN mfe.inst = InstanceSet /\ \A i \in InstanceSet : mfe.inst[i] = NewInstance
  BY DEF MfeInit
<1>3. \A c, i : InstanceGood(NewInstance, c, i)
  BY <1>1 DEF InstanceGood
<1>4. QED BY <1>2, <1>3 DEF MfeGood, MfeTypes

\* Only instance i has changed
LEMMA OneInstance ==
  ASSUME NEW v, MfeGood(v), NEW i \in InstanceSet, NEW w,
         DOMAIN w = DOMAIN v, w.dom = v.dom, w.claim = v.claim,
         DOMAIN w.inst = InstanceSet, \A j \in InstanceSet : j # i => w.inst[j] = v.inst[j],
         InstanceGood(w.inst[i], v.claim, i)
  PROVE  MfeGood(w)
<1>1. MfeTypes(w)
  BY DEF MfeGood, MfeTypes
<1>2. \A j \in InstanceSet : InstanceGood(w.inst[j], w.claim, j)
  BY DEF MfeGood
<1>3. QED BY <1>1, <1>2 DEF MfeGood

\* Who claims a root does not take it from another.
LEMMA MarkGood ==
  ASSUME NEW v, MfeGood(v), NEW i \in InstanceSet, NEW r \in Roots, IsMatch(v, i, r)
  PROVE  LET w == Mark(v, i, r)
         IN /\ MfeGood(w) /\ w.claim[r] = i /\ w.dom = v.dom /\ w.loaded = v.loaded
            /\ w.inst = v.inst
<1> DEFINE w == Mark(v, i, r)
<1>1. /\ DOMAIN w = DOMAIN v /\ w.dom = v.dom /\ w.loaded = v.loaded /\ w.inst = v.inst
      /\ DOMAIN w.claim = Roots /\ w.claim[r] = i
      /\ \A x \in Roots : x # r => w.claim[x] = v.claim[x]
  BY DEF Mark, MfeGood, MfeTypes
<1> HIDE DEF w
<1>2. v.claim[r] \in {Unclaimed, i} /\ Unclaimed \notin InstanceSet
  BY DEF IsMatch
<1>3. \A j \in InstanceSet : \A x : x \in Roots /\ v.claim[x] = j => w.claim[x] = j
  BY <1>1, <1>2
<1>4. ASSUME NEW j \in InstanceSet PROVE InstanceGood(w.inst[j], w.claim, j)
  <2> DEFINE m == v.inst[j]
  <2>1. InstanceGood(m, v.claim, j) /\ w.inst[j] = m
    BY <1>1 DEF MfeGood
  <2> HIDE DEF m
  <2>2. m.own # Outside => m.own \in Roots /\ w.claim[m.own] = j
    BY <1>3, <2>1 DEF InstanceGood
  <2>3. ASSUME NEW n \in m.counted \ m.swept PROVE RootOf[n] # Outside /\ w.claim[RootOf[n]] = j
    <3>1. RootOf[n] # Outside /\ v.claim[RootOf[n]] = j /\ n \in Nodes
      BY <2>1 DEF InstanceGood
    <3>2. QED BY <1>3, <3>1
  <2>4. QED BY <2>1, <2>2, <2>3 DEF InstanceGood
<1>5. MfeTypes(w)
  BY <1>1 DEF MfeGood, MfeTypes
<1>6. QED BY <1>1, <1>4, <1>5 DEF MfeGood, w

\* What is counted is in the root that the instance has, or swept in.
LEMMA CountGood ==
  ASSUME NEW v, MfeGood(v), NEW i \in InstanceSet, NEW n \in Nodes,
         RootOf[n] # Outside /\ v.claim[RootOf[n]] = i
  PROVE  LET w == PopulateVitalMinimums(v, i, n)
         IN /\ MfeGood(w) /\ w.claim = v.claim /\ w.dom = v.dom /\ w.loaded = v.loaded
<1> DEFINE w == PopulateVitalMinimums(v, i, n)
           m == v.inst[i]
           o == w.inst[i]
<1>1. /\ DOMAIN w = DOMAIN v /\ w.dom = v.dom /\ w.loaded = v.loaded /\ w.claim = v.claim
      /\ DOMAIN w.inst = InstanceSet /\ \A j \in InstanceSet : j # i => w.inst[j] = v.inst[j]
      /\ DOMAIN o = DOMAIN m /\ o.counted = m.counted \cup {n} /\ o.own = m.own
      /\ o.late = m.late /\ o.swept = m.swept /\ o.fcpOn = m.fcpOn /\ o.lcpOn = m.lcpOn
      /\ o.entriesOn = m.entriesOn /\ o.listening = m.listening /\ o.timer = m.timer
      /\ o.frozen = m.frozen /\ o.registered = m.registered /\ o.resizing = m.resizing
      /\ o.largest = m.largest /\ o.final = m.final
  BY DEF PopulateVitalMinimums, MfeGood, MfeTypes, InstanceGood, InstanceFields
<1> HIDE DEF w
<1>2. InstanceGood(m, v.claim, i)
  BY DEF MfeGood
<1> HIDE DEF m, o
<1>3. InstanceGood(o, v.claim, i)
  BY <1>1, <1>2 DEF InstanceGood
<1>4. MfeGood(w)
  BY <1>1, <1>3, OneInstance, SMTT(20), ZenonT(60) DEF o
<1>5. QED BY <1>1, <1>4 DEF w

Matched(v, w, i, n) ==
         LET m == v.inst[i]
             o == w.inst[i]
         IN /\ DOMAIN w = DOMAIN v /\ w.dom = v.dom /\ w.loaded = v.loaded /\ w.claim = v.claim
            /\ DOMAIN w.inst = InstanceSet /\ \A j \in InstanceSet : j # i => w.inst[j] = v.inst[j]
            /\ DOMAIN o = DOMAIN m /\ o.counted = m.counted \cup {n} /\ o.own = m.own
            /\ o.late = m.late /\ o.swept = m.swept /\ o.fcpOn = FALSE /\ o.lcpOn = m.lcpOn
            /\ o.entriesOn = m.entriesOn /\ o.listening = m.listening /\ o.timer = m.timer
            /\ o.frozen = m.frozen /\ o.registered = m.registered
            /\ o.largest = m.largest /\ o.final = m.final
            /\ ~m.lcpOn => o.resizing = m.resizing
LEMMA OnMatchIs ==
  ASSUME NEW v, MfeGood(v), NEW i \in InstanceSet, NEW n \in Nodes
  PROVE  Matched(v, OnMatch(v, i, n), i, n)
<1> DEFINE m == v.inst[i]
           c == PopulateVitalMinimums(v, i, n)
           p == [c EXCEPT !.inst[i].fcpOn = FALSE]
           waits == n \in Images \ v.loaded
           s == [p EXCEPT !.inst[i].seen = @ \cup {n},
                          !.inst[i].waiting = IF waits THEN @ \cup {n} ELSE @,
                          !.inst[i].resizing = IF waits THEN @ ELSE @ \cup {n}]
           Like(w) == LET o == w.inst[i] IN
            /\ DOMAIN w = DOMAIN v /\ w.dom = v.dom /\ w.loaded = v.loaded /\ w.claim = v.claim
            /\ DOMAIN w.inst = InstanceSet /\ \A j \in InstanceSet : j # i => w.inst[j] = v.inst[j]
            /\ DOMAIN o = DOMAIN m /\ o.counted = m.counted \cup {n} /\ o.own = m.own
            /\ o.late = m.late /\ o.swept = m.swept /\ o.fcpOn = FALSE /\ o.lcpOn = m.lcpOn
            /\ o.entriesOn = m.entriesOn /\ o.listening = m.listening /\ o.timer = m.timer
            /\ o.frozen = m.frozen /\ o.registered = m.registered
            /\ o.largest = m.largest /\ o.final = m.final
<1>t. /\ DOMAIN v = {"dom", "loaded", "claim", "inst"} /\ DOMAIN v.inst = InstanceSet
      /\ DOMAIN m = InstanceFields
  BY DEF MfeGood, MfeTypes, InstanceGood
<1>1. Like(p) /\ p.inst[i].resizing = m.resizing
  BY <1>t DEF PopulateVitalMinimums, InstanceFields
<1>2. OnMatch(v, i, n) = IF ~m.lcpOn \/ n \in m.seen THEN p ELSE s
  BY DEF OnMatch
<1> HIDE DEF p
<1>3. Like(s)
  <2>1. /\ DOMAIN p = {"dom", "loaded", "claim", "inst"} /\ DOMAIN p.inst = InstanceSet
        /\ DOMAIN p.inst[i] = InstanceFields
    BY <1>t, <1>1
  <2> DEFINE o == s.inst[i]
             q == p.inst[i]
  <2>2. /\ DOMAIN s = DOMAIN p /\ s.dom = p.dom /\ s.loaded = p.loaded /\ s.claim = p.claim
        /\ DOMAIN s.inst = InstanceSet /\ \A j \in InstanceSet : j # i => s.inst[j] = p.inst[j]
        /\ DOMAIN o = DOMAIN q /\ o.counted = q.counted /\ o.own = q.own
        /\ o.late = q.late /\ o.swept = q.swept /\ o.fcpOn = q.fcpOn /\ o.lcpOn = q.lcpOn
        /\ o.entriesOn = q.entriesOn /\ o.listening = q.listening /\ o.timer = q.timer
        /\ o.frozen = q.frozen /\ o.registered = q.registered
        /\ o.largest = q.largest /\ o.final = q.final
    BY <2>1, ZenonT(60) DEF InstanceFields
  <2> HIDE DEF s
  <2>3. QED BY <1>1, <2>2
<1> HIDE DEF s
<1>4. QED BY <1>1, <1>2, <1>3 DEF Matched

\* An observer that sees a node claims its root, or has claimed the one that the
\* batch brought.
LEMMA SeeNodeGood ==
  ASSUME NEW v, MfeGood(v), NEW i \in InstanceSet, NEW n \in Nodes, NEW from
  PROVE  MfeGood(SeeNode(v, i, n, from))
<1> DEFINE found == v.inst[i].own = Outside /\ n \in Roots /\ IsMatch(v, i, n)
           a == IF found THEN [Mark(v, i, n) EXCEPT !.inst[i].own = n] ELSE v
           own == a.inst[i].own
           b == IF own # Outside \/ ~IsInMFE(a, i, n) THEN a ELSE Mark(a, i, RootOf[n])
           c == OnMatch(b, i, n)
           w == [c EXCEPT !.inst[i].swept = IF own \in {Outside, RootOf[n]} THEN @ ELSE @ \cup {n}]
<1>1. MfeGood(a)
  <2>1. CASE found
    <3> DEFINE k == Mark(v, i, n)
    <3>1. MfeGood(k) /\ k.claim[n] = i /\ n \in Roots
      BY <2>1, MarkGood
    <3> HIDE DEF k
    <3>2. a = [k EXCEPT !.inst[i].own = n]
      BY <2>1 DEF k
    <3> HIDE DEF a
    <3> DEFINE m == k.inst[i]
               o == a.inst[i]
    <3>3. /\ DOMAIN a = DOMAIN k /\ a.dom = k.dom /\ a.claim = k.claim
          /\ DOMAIN a.inst = InstanceSet /\ \A j \in InstanceSet : j # i => a.inst[j] = k.inst[j]
          /\ DOMAIN o = DOMAIN m /\ o.counted = m.counted /\ o.own = n
          /\ o.late = m.late /\ o.swept = m.swept /\ o.fcpOn = m.fcpOn /\ o.lcpOn = m.lcpOn
          /\ o.entriesOn = m.entriesOn /\ o.listening = m.listening /\ o.timer = m.timer
          /\ o.frozen = m.frozen /\ o.registered = m.registered /\ o.resizing = m.resizing
          /\ o.largest = m.largest /\ o.final = m.final
      BY <3>1, <3>2 DEF MfeGood, MfeTypes, InstanceGood, InstanceFields
    <3>4. InstanceGood(m, k.claim, i)
      BY <3>1 DEF MfeGood
    <3> HIDE DEF m, o
    <3>5. InstanceGood(o, k.claim, i)
      BY <3>1, <3>3, <3>4 DEF InstanceGood
    <3>6. QED BY <3>1, <3>3, <3>5, OneInstance DEF o
  <2>2. CASE ~found
    BY <2>2
  <2>3. QED BY <2>1, <2>2
<1>s. SeeNode(v, i, n, from)
        = IF from \notin {Outside, RootOf[n]} \/ (own = Outside /\ ~IsInMFE(a, i, n)) THEN v ELSE w
  BY DEF SeeNode
<1> HIDE DEF a
<1>r. RootOf[n] \in Roots \cup {Outside}
  OBVIOUS
<1>2. ASSUME ~(own = Outside /\ ~IsInMFE(a, i, n)) PROVE MfeGood(w)
  <2>1. /\ MfeGood(b) /\ b.inst[i].own = own
        /\ own = Outside => RootOf[n] # Outside /\ b.claim[RootOf[n]] = i
    <3>1. CASE own # Outside
      BY <1>1, <3>1
    <3>2. CASE own = Outside
      <4>1. IsMatch(a, i, RootOf[n]) /\ RootOf[n] \in Roots /\ RootOf[n] # Outside
        BY <1>2, <1>r, <3>2 DEF IsInMFE, IsMatch
      <4>2. b = Mark(a, i, RootOf[n])
        BY <1>2, <3>2
      <4> HIDE DEF b
      <4>3. QED BY <1>1, <4>1, <4>2, MarkGood
    <3>3. QED BY <3>1, <3>2
  <2> HIDE DEF b, own
  <2> DEFINE m == b.inst[i]
             o == w.inst[i]
  <2>2. /\ DOMAIN w = DOMAIN b /\ w.dom = b.dom /\ w.claim = b.claim
        /\ DOMAIN w.inst = InstanceSet /\ \A j \in InstanceSet : j # i => w.inst[j] = b.inst[j]
        /\ DOMAIN o = DOMAIN m /\ o.counted = m.counted \cup {n} /\ o.own = own
        /\ o.late = m.late /\ o.fcpOn = FALSE /\ o.lcpOn = m.lcpOn
        /\ o.entriesOn = m.entriesOn /\ o.listening = m.listening /\ o.timer = m.timer
        /\ o.frozen = m.frozen /\ o.registered = m.registered
        /\ o.largest = m.largest /\ o.final = m.final
        /\ ~m.lcpOn => o.resizing = m.resizing
        /\ o.swept = IF own \in {Outside, RootOf[n]} THEN m.swept ELSE m.swept \cup {n}
    <3> DEFINE q == c.inst[i]
    <3>1. /\ DOMAIN c = DOMAIN b /\ c.dom = b.dom /\ c.claim = b.claim
          /\ DOMAIN c.inst = InstanceSet /\ \A j \in InstanceSet : j # i => c.inst[j] = b.inst[j]
          /\ DOMAIN q = DOMAIN m /\ q.counted = m.counted \cup {n} /\ q.own = m.own
          /\ q.late = m.late /\ q.swept = m.swept /\ q.fcpOn = FALSE /\ q.lcpOn = m.lcpOn
          /\ q.entriesOn = m.entriesOn /\ q.listening = m.listening /\ q.timer = m.timer
          /\ q.frozen = m.frozen /\ q.registered = m.registered
          /\ q.largest = m.largest /\ q.final = m.final
          /\ ~m.lcpOn => q.resizing = m.resizing
      <4>1. Matched(b, c, i, n)
        BY <2>1, OnMatchIs
      <4> HIDE DEF c
      <4>2. QED BY <4>1 DEF Matched
    <3>2. DOMAIN b = {"dom", "loaded", "claim", "inst"} /\ DOMAIN m = InstanceFields
      BY <2>1 DEF MfeGood, MfeTypes, InstanceGood
    <3> HIDE DEF c, m
    <3>3. /\ DOMAIN w = DOMAIN c /\ w.dom = c.dom /\ w.claim = c.claim
          /\ DOMAIN w.inst = InstanceSet /\ \A j \in InstanceSet : j # i => w.inst[j] = c.inst[j]
          /\ DOMAIN o = DOMAIN q /\ o.counted = q.counted /\ o.own = q.own
          /\ o.late = q.late /\ o.fcpOn = q.fcpOn /\ o.lcpOn = q.lcpOn
          /\ o.entriesOn = q.entriesOn /\ o.listening = q.listening /\ o.timer = q.timer
          /\ o.frozen = q.frozen /\ o.registered = q.registered /\ o.resizing = q.resizing
          /\ o.largest = q.largest /\ o.final = q.final
          /\ o.swept = IF own \in {Outside, RootOf[n]} THEN q.swept ELSE q.swept \cup {n}
      BY <3>1, <3>2 DEF InstanceFields
    <3> HIDE DEF w
    <3>4. QED BY <2>1, <3>1, <3>3 DEF m
  <2>3. InstanceGood(m, b.claim, i)
    BY <2>1 DEF MfeGood
  <2> HIDE DEF m, o, w
  <2>4. InstanceGood(o, b.claim, i)
    <3>1. own # Outside => own \in Roots /\ b.claim[own] = i
      BY <2>1, <2>3 DEF InstanceGood, m
    <3>2. ASSUME NEW x \in o.counted \ o.swept PROVE RootOf[x] # Outside /\ b.claim[RootOf[x]] = i
      <4>1. CASE x \in m.counted \ m.swept
        BY <2>3, <4>1 DEF InstanceGood
      <4>2. CASE x \notin m.counted \ m.swept
        <5>1. x = n /\ own \in {Outside, RootOf[n]}
          BY <2>2, <4>2
        <5>2. CASE own = Outside
          BY <2>1, <5>1, <5>2
        <5>3. CASE own # Outside
          BY <3>1, <5>1, <5>3
        <5>4. QED BY <5>2, <5>3
      <4>3. QED BY <4>1, <4>2
    <3>3. QED BY <2>2, <2>3, <3>1, <3>2 DEF InstanceGood
  <2>5. QED BY <2>1, <2>2, <2>4, OneInstance DEF o
<1>3. QED BY <1>s, <1>2

(***************************************************************************)
(* What ends an instance's watch for the largest paint makes it final.     *)
(***************************************************************************)
LEMMA DisconnectGood ==
  ASSUME NEW v, MfeGood(v), NEW i \in InstanceSet, v.inst[i].registered
  PROVE  /\ MfeGood(Disconnect(v, i))
         /\ \A j \in InstanceSet : v.inst[j].registered => Disconnect(v, i).inst[j].registered
<1> DEFINE w == Disconnect(v, i)
           m == v.inst[i]
           o == w.inst[i]
           f == Freeze(v, i)
           p == f.inst[i]
<1>t. /\ DOMAIN v = {"dom", "loaded", "claim", "inst"} /\ DOMAIN v.inst = InstanceSet
      /\ DOMAIN m = InstanceFields
  BY DEF MfeGood, MfeTypes, InstanceGood
<1>1. /\ DOMAIN f = DOMAIN v /\ f.dom = v.dom /\ f.claim = v.claim
      /\ DOMAIN f.inst = InstanceSet /\ \A j \in InstanceSet : j # i => f.inst[j] = v.inst[j]
      /\ DOMAIN p = DOMAIN m /\ p.frozen = TRUE
      /\ p.final = (IF m.frozen THEN m.final ELSE m.largest)
      /\ p.own = m.own /\ p.counted = m.counted /\ p.swept = m.swept /\ p.late = m.late
      /\ p.registered = m.registered /\ p.timer = m.timer /\ p.largest = m.largest
  BY <1>t DEF Freeze, InstanceFields
<1>2. w = [f EXCEPT !.inst[i].fcpOn = FALSE, !.inst[i].lcpOn = FALSE, !.inst[i].entriesOn = FALSE,
                    !.inst[i].listening = FALSE, !.inst[i].resizing = {}]
  BY DEF Disconnect
<1> HIDE DEF f, w, m
<1>3. /\ DOMAIN w = DOMAIN f /\ w.dom = f.dom /\ w.claim = f.claim
      /\ DOMAIN w.inst = InstanceSet /\ \A j \in InstanceSet : j # i => w.inst[j] = f.inst[j]
      /\ DOMAIN o = DOMAIN p /\ o.fcpOn = FALSE /\ o.lcpOn = FALSE /\ o.entriesOn = FALSE
      /\ o.listening = FALSE /\ o.resizing = {}
      /\ o.frozen = p.frozen /\ o.final = p.final
      /\ o.own = p.own /\ o.counted = p.counted /\ o.swept = p.swept /\ o.late = p.late
      /\ o.registered = p.registered /\ o.timer = p.timer /\ o.largest = p.largest
  <2> DEFINE e == [p EXCEPT !.fcpOn = FALSE, !.lcpOn = FALSE, !.entriesOn = FALSE,
                            !.listening = FALSE, !.resizing = {}]
  <2>1. /\ DOMAIN f = {"dom", "loaded", "claim", "inst"} /\ DOMAIN f.inst = InstanceSet
        /\ DOMAIN p = InstanceFields
    BY <1>t, <1>1
  <2>2. w.inst = [f.inst EXCEPT ![i] = e] /\ DOMAIN w = DOMAIN f /\ w.dom = f.dom
            /\ w.claim = f.claim
    BY <1>2, <2>1
  <2> HIDE DEF p, e
  <2>3. DOMAIN w.inst = InstanceSet /\ o = e
            /\ \A j \in InstanceSet : j # i => w.inst[j] = f.inst[j]
    BY <2>1, <2>2
  <2>4. /\ DOMAIN e = DOMAIN p /\ e.fcpOn = FALSE /\ e.lcpOn = FALSE /\ e.entriesOn = FALSE
        /\ e.listening = FALSE /\ e.resizing = {}
        /\ e.frozen = p.frozen /\ e.final = p.final
        /\ e.own = p.own /\ e.counted = p.counted /\ e.swept = p.swept /\ e.late = p.late
        /\ e.registered = p.registered /\ e.timer = p.timer /\ e.largest = p.largest
    BY <2>1 DEF e, InstanceFields
  <2>5. QED BY <2>2, <2>3, <2>4
<1>4. InstanceGood(m, v.claim, i) /\ m.registered
  BY DEF MfeGood, m
<1> HIDE DEF o, p
<1>5. InstanceGood(o, v.claim, i)
  BY <1>1, <1>3, <1>4 DEF InstanceGood
<1>6. MfeGood(w)
  BY <1>1, <1>3, <1>5, OneInstance DEF o
<1>7. QED BY <1>1, <1>3, <1>4, <1>6 DEF o, p, m, w

Interacted(v, i) ==
  [Freeze(v, i) EXCEPT !.inst[i].lcpOn = FALSE, !.inst[i].resizing = {},
                       !.inst[i].listening = FALSE]
LEMMA InteractionGood ==
  ASSUME NEW v, MfeGood(v), NEW i \in InstanceSet, v.inst[i].listening
  PROVE  MfeGood(Interacted(v, i))
<1> DEFINE f == Freeze(v, i)
           w == [f EXCEPT !.inst[i].lcpOn = FALSE, !.inst[i].resizing = {},
               !.inst[i].listening = FALSE]
           m == v.inst[i]
           o == w.inst[i]
           p == f.inst[i]
<1>t. /\ DOMAIN v = {"dom", "loaded", "claim", "inst"} /\ DOMAIN v.inst = InstanceSet
      /\ DOMAIN m = InstanceFields
  BY DEF MfeGood, MfeTypes, InstanceGood
<1>1. /\ DOMAIN f = DOMAIN v /\ f.dom = v.dom /\ f.claim = v.claim
      /\ DOMAIN f.inst = InstanceSet /\ \A j \in InstanceSet : j # i => f.inst[j] = v.inst[j]
      /\ DOMAIN p = DOMAIN m /\ p.frozen = TRUE
      /\ p.final = (IF m.frozen THEN m.final ELSE m.largest)
      /\ p.own = m.own /\ p.counted = m.counted /\ p.swept = m.swept /\ p.late = m.late
      /\ p.registered = m.registered /\ p.timer = m.timer /\ p.largest = m.largest
      /\ p.fcpOn = m.fcpOn /\ p.entriesOn = m.entriesOn
  BY <1>t DEF Freeze, InstanceFields
<1> HIDE DEF f, m
<1>3. /\ DOMAIN w = DOMAIN f /\ w.dom = f.dom /\ w.claim = f.claim
      /\ DOMAIN w.inst = InstanceSet /\ \A j \in InstanceSet : j # i => w.inst[j] = f.inst[j]
      /\ DOMAIN o = DOMAIN p /\ o.fcpOn = p.fcpOn /\ o.lcpOn = FALSE /\ o.entriesOn = p.entriesOn
      /\ o.listening = FALSE /\ o.resizing = {}
      /\ o.frozen = p.frozen /\ o.final = p.final
      /\ o.own = p.own /\ o.counted = p.counted /\ o.swept = p.swept /\ o.late = p.late
      /\ o.registered = p.registered /\ o.timer = p.timer /\ o.largest = p.largest
  BY <1>t, <1>1 DEF InstanceFields
<1>4. InstanceGood(m, v.claim, i) /\ m.listening
  BY DEF MfeGood, m
<1> HIDE DEF o, p, w
<1>5. InstanceGood(o, v.claim, i)
  BY <1>1, <1>3, <1>4 DEF InstanceGood
<1>6. /\ DOMAIN w = DOMAIN v /\ w.dom = v.dom /\ w.claim = v.claim /\ DOMAIN w.inst = InstanceSet
      /\ \A j \in InstanceSet : j # i => w.inst[j] = v.inst[j]
  BY <1>1, <1>3
<1>7. MfeGood(w)
  BY <1>5, <1>6, OneInstance DEF o
<1>8. QED BY <1>7 DEF w, f, Interacted

LEMMA GiveUpGood ==
  ASSUME NEW v, MfeGood(v), NEW i \in InstanceSet, v.inst[i].timer
  PROVE  MfeGood(GiveUp(v, i))
<1> DEFINE w == [v EXCEPT !.inst[i].timer = FALSE]
           m == v.inst[i]
           o == w.inst[i]
<1>1. /\ DOMAIN w = DOMAIN v /\ w.dom = v.dom /\ w.claim = v.claim
      /\ DOMAIN w.inst = InstanceSet /\ \A j \in InstanceSet : j # i => w.inst[j] = v.inst[j]
      /\ DOMAIN o = DOMAIN m /\ o.counted = m.counted /\ o.own = m.own
      /\ o.late = m.late /\ o.swept = m.swept /\ o.fcpOn = m.fcpOn /\ o.lcpOn = m.lcpOn
      /\ o.entriesOn = m.entriesOn /\ o.listening = m.listening /\ o.timer = FALSE
      /\ o.frozen = m.frozen /\ o.registered = m.registered /\ o.resizing = m.resizing
      /\ o.largest = m.largest /\ o.final = m.final
  BY DEF MfeGood, MfeTypes, InstanceGood, InstanceFields
<1>g. GiveUp(v, i) = IF v.inst[i].fcp THEN w ELSE Disconnect(w, i)
  BY DEF GiveUp
<1>2. InstanceGood(m, v.claim, i) /\ m.timer
  BY DEF MfeGood
<1> HIDE DEF m, o, w
<1>3. InstanceGood(o, v.claim, i) /\ o.registered
  BY <1>1, <1>2 DEF InstanceGood
<1>4. MfeGood(w)
  BY <1>1, <1>3, OneInstance, SMTT(60) DEF o
<1>5. QED BY <1>g, <1>3, <1>4, DisconnectGood DEF o

LEMMA ResizedGood ==
  ASSUME NEW v, MfeGood(v), NEW i \in InstanceSet, NEW n \in v.inst[i].resizing
  PROVE  MfeGood(Resized(v, i, n))
<1> DEFINE w == Resized(v, i, n)
           m == v.inst[i]
           o == w.inst[i]
<1>1. /\ DOMAIN w = DOMAIN v /\ w.dom = v.dom /\ w.claim = v.claim
      /\ DOMAIN w.inst = InstanceSet /\ \A j \in InstanceSet : j # i => w.inst[j] = v.inst[j]
      /\ DOMAIN o = DOMAIN m /\ o.counted = m.counted /\ o.own = m.own
      /\ o.late = m.late /\ o.swept = m.swept /\ o.fcpOn = m.fcpOn /\ o.lcpOn = m.lcpOn
      /\ o.entriesOn = m.entriesOn /\ o.listening = m.listening /\ o.timer = m.timer
      /\ o.frozen = m.frozen /\ o.registered = m.registered
  BY DEF Resized, MfeGood, MfeTypes, InstanceGood, InstanceFields
<1>2. InstanceGood(m, v.claim, i) /\ m.resizing # {}
  BY DEF MfeGood
<1> HIDE DEF m, o, w
<1>3. InstanceGood(o, v.claim, i)
  BY <1>1, <1>2 DEF InstanceGood
<1>4. QED BY <1>1, <1>3, OneInstance, SMTT(60) DEF o, w

LEMMA ImageLoadsGood ==
  ASSUME NEW v, MfeGood(v), NEW n
  PROVE  MfeGood(ImageLoads(v, n))
<1> DEFINE w == ImageLoads(v, n)
<1>1. /\ DOMAIN w = DOMAIN v /\ w.dom = v.dom /\ w.claim = v.claim /\ DOMAIN w.inst = InstanceSet
      /\ \A i \in InstanceSet : w.inst[i] =
           IF n \notin v.inst[i].waiting THEN v.inst[i]
           ELSE [v.inst[i] EXCEPT !.waiting = @ \ {n}, !.resizing = @ \cup {n},
                                  !.late = @ \/ v.inst[i].frozen]
  <2>1. DOMAIN v = {"dom", "loaded", "claim", "inst"} /\ DOMAIN v.inst = InstanceSet
        /\ DOMAIN v.claim = Roots
    BY DEF MfeGood, MfeTypes
  <2> DEFINE e == [i \in InstanceSet |->
                     IF n \notin v.inst[i].waiting THEN v.inst[i]
                     ELSE [v.inst[i] EXCEPT !.waiting = @ \ {n}, !.resizing = @ \cup {n},
                                            !.late = @ \/ v.inst[i].frozen]]
  <2>2. w = [v EXCEPT !.loaded = @ \cup {n}, !.inst = e]
    BY <2>1 DEF ImageLoads
  <2> HIDE DEF e, w
  <2>3. DOMAIN w = DOMAIN v /\ w.dom = v.dom /\ w.claim = v.claim /\ w.inst = e
    BY <2>1, <2>2
  <2>4. QED BY <2>1, <2>3 DEF e
<1> HIDE DEF w
<1>2. ASSUME NEW i \in InstanceSet PROVE InstanceGood(w.inst[i], w.claim, i)
  <2> DEFINE m == v.inst[i]
             o == [m EXCEPT !.waiting = @ \ {n}, !.resizing = @ \cup {n}, !.late = @ \/ m.frozen]
  <2>1. InstanceGood(m, v.claim, i)
    BY DEF MfeGood
  <2>2. w.inst[i] = m \/ w.inst[i] = o
    BY <1>1
  <2> HIDE DEF m
  <2>3. /\ DOMAIN o = DOMAIN m /\ o.counted = m.counted /\ o.own = m.own
        /\ o.late = (m.late \/ m.frozen) /\ o.swept = m.swept /\ o.fcpOn = m.fcpOn
        /\ o.lcpOn = m.lcpOn
        /\ o.entriesOn = m.entriesOn /\ o.listening = m.listening /\ o.timer = m.timer
        /\ o.frozen = m.frozen /\ o.registered = m.registered
    BY <2>1 DEF InstanceGood, InstanceFields
  <2>4. (m.late \/ m.frozen) \in BOOLEAN
    OBVIOUS
  <2> HIDE DEF o
  <2>5. o.late \in BOOLEAN /\ (o.late <=> m.late \/ m.frozen)
    BY <2>3, <2>4
  <2>6. InstanceGood(o, v.claim, i)
    BY <2>1, <2>3, <2>5 DEF InstanceGood
  <2>7. QED BY <1>1, <2>1, <2>2, <2>6
<1>3. QED BY <1>1, <1>2 DEF MfeGood, MfeTypes, w

LEMMA TrackGood ==
  ASSUME NEW v, MfeGood(v), NEW i \in InstanceSet, ~v.inst[i].registered,
         NEW root, root # Outside => root \in Roots /\ IsMatch(v, i, root)
  PROVE  MfeGood(Track(v, i, root))
<1> DEFINE t == [v EXCEPT !.inst[i].registered = TRUE, !.inst[i].timer = TRUE,
                          !.inst[i].fcpOn = TRUE, !.inst[i].lcpOn = TRUE,
                          !.inst[i].entriesOn = TRUE, !.inst[i].listening = TRUE]
           m == v.inst[i]
           o == t.inst[i]
<1>1. /\ DOMAIN t = DOMAIN v /\ t.dom = v.dom /\ t.claim = v.claim
      /\ DOMAIN t.inst = InstanceSet /\ \A j \in InstanceSet : j # i => t.inst[j] = v.inst[j]
      /\ DOMAIN o = DOMAIN m /\ o.counted = m.counted /\ o.own = m.own
      /\ o.late = m.late /\ o.swept = m.swept /\ o.registered = TRUE
      /\ o.frozen = m.frozen
  <2> DEFINE e == [m EXCEPT !.registered = TRUE, !.timer = TRUE, !.fcpOn = TRUE, !.lcpOn = TRUE,
                            !.entriesOn = TRUE, !.listening = TRUE]
  <2>1. /\ DOMAIN v = {"dom", "loaded", "claim", "inst"} /\ DOMAIN v.inst = InstanceSet
        /\ DOMAIN m = InstanceFields
    BY DEF MfeGood, MfeTypes, InstanceGood
  <2>2. t.inst = [v.inst EXCEPT ![i] = e] /\ DOMAIN t = DOMAIN v /\ t.dom = v.dom
            /\ t.claim = v.claim
    BY <2>1, ZenonT(60)
  <2> HIDE DEF m, e, t
  <2>3. DOMAIN t.inst = InstanceSet /\ o = e
            /\ \A j \in InstanceSet : j # i => t.inst[j] = v.inst[j]
    BY <2>1, <2>2
  <2>4. /\ DOMAIN e = DOMAIN m /\ e.counted = m.counted /\ e.own = m.own
        /\ e.late = m.late /\ e.swept = m.swept /\ e.registered = TRUE
        /\ e.frozen = m.frozen
    BY <2>1 DEF e, InstanceFields
  <2>5. QED BY <2>2, <2>3, <2>4
<1>t. Track(v, i, root) = IF root = Outside THEN t
        ELSE [PopulateVitalMinimums(Mark(t, i, root), i, root) EXCEPT !.inst[i].own = root]
  BY DEF Track
<1>2. InstanceGood(m, v.claim, i) /\ ~m.registered
  BY DEF MfeGood
<1> HIDE DEF m, o, t
<1>3. InstanceGood(o, v.claim, i)
  BY <1>1, <1>2 DEF InstanceGood
<1>4. MfeGood(t)
  BY <1>1, <1>3, OneInstance DEF o
<1>5. CASE root # Outside
  <2> DEFINE k == Mark(t, i, root)
             c == PopulateVitalMinimums(k, i, root)
             w == [c EXCEPT !.inst[i].own = root]
             p == c.inst[i]
             q == w.inst[i]
  <2>1. root \in Roots /\ IsMatch(t, i, root) /\ RootOf[root] = root /\ root \in Nodes
    BY <1>1, <1>5 DEF IsMatch, Roots
  <2>2. MfeGood(k) /\ k.claim[root] = i
    BY <1>4, <2>1, MarkGood
  <2> HIDE DEF k
  <2>3. MfeGood(c) /\ c.claim = k.claim
    BY <1>5, <2>1, <2>2, CountGood
  <2> HIDE DEF c
  <2>4. /\ DOMAIN w = DOMAIN c /\ w.dom = c.dom /\ w.claim = c.claim
        /\ DOMAIN w.inst = InstanceSet /\ \A j \in InstanceSet : j # i => w.inst[j] = c.inst[j]
        /\ DOMAIN q = DOMAIN p /\ q.counted = p.counted /\ q.own = root
        /\ q.late = p.late /\ q.swept = p.swept /\ q.fcpOn = p.fcpOn /\ q.lcpOn = p.lcpOn
        /\ q.entriesOn = p.entriesOn /\ q.listening = p.listening /\ q.timer = p.timer
        /\ q.frozen = p.frozen /\ q.registered = p.registered /\ q.resizing = p.resizing
        /\ q.largest = p.largest /\ q.final = p.final
    BY <2>3 DEF MfeGood, MfeTypes, InstanceGood, InstanceFields
  <2>5. InstanceGood(p, c.claim, i)
    BY <2>3 DEF MfeGood
  <2> HIDE DEF w, p, q
  <2>6. InstanceGood(q, c.claim, i)
    BY <2>1, <2>2, <2>3, <2>4, <2>5 DEF InstanceGood
  <2>7. MfeGood(w)
    BY <2>3, <2>4, <2>6, OneInstance DEF q
  <2>8. QED BY <1>t, <1>5, <2>7 DEF w, c, k
<1>6. QED BY <1>t, <1>4, <1>5

(***************************************************************************)
(* The folds over the instances, and over the nodes of a batch.  What they *)
(* apply depends on more than the element, so each element comes with the  *)
(* rest, and they are folds of one operator.                               *)
(***************************************************************************)
Along(q, kind, by) == [k \in DOMAIN q |-> [of |-> q[k], kind |-> kind, by |-> by]]
Interacts(u, i, n) ==
  IF u.inst[i].listening /\ IsInMFE(u, i, n)
  THEN [Freeze(Mark(u, i, RootOf[n]), i) EXCEPT !.inst[i].lcpOn = FALSE, !.inst[i].resizing = {},
                                                !.inst[i].listening = FALSE]
  ELSE u
Enters(u, i, n) ==
  IF u.inst[i].entriesOn /\ IsInMFE(u, i, n)
  THEN PopulateVitalMinimums(Mark(u, i, RootOf[n]), i, n)
  ELSE u
SeesNodes(v, i, from, batch) == FoldLeft(LAMBDA x, n : SeeNode(x, i, n, from), v, batch)
Sees(u, i, batch) ==
  IF ~Observing(u, i) THEN u ELSE SeesNodes(u, i, u.inst[i].own, batch)
Each(u, e) ==
  CASE e.kind = "interaction" -> Interacts(u, e.of, e.by)
    [] e.kind = "entry"       -> Enters(u, e.of, e.by)
    [] e.kind = "batch"       -> Sees(u, e.of, e.by)
    [] e.kind = "node"        -> SeeNode(u, e.by.i, e.of, e.by.own)
    [] e.kind = "disconnect"  -> IF e.by.inst[e.of].registered THEN Disconnect(u, e.of) ELSE u
Mfe == INSTANCE Folding WITH Op <- Each

LEMMA SameEach == \A v, q : FoldLeft(Each, v, q) = Mfe!FoldLeft(Each, v, q)
BY DEF FoldLeft, Mfe!FoldLeft, MapThenFoldSet, Mfe!MapThenFoldSet, Max, Mfe!Max

LEMMA AlongIs ==
  ASSUME NEW S, NEW q \in Seq(S), NEW kind, NEW by
  PROVE  /\ Along(q, kind, by) \in Seq({[of |-> x, kind |-> kind, by |-> by] : x \in S})
         /\ Len(Along(q, kind, by)) = Len(q)
         /\ \A k \in 1..Len(q) : /\ Along(q, kind, by)[k].of = q[k]
                                 /\ Along(q, kind, by)[k].kind = kind
                                 /\ Along(q, kind, by)[k].by = by
<1>1. DOMAIN q = 1..Len(q) /\ Len(q) \in Nat /\ \A k \in 1..Len(q) : q[k] \in S
  OBVIOUS
<1>2. QED BY <1>1 DEF Along

\* Two such folds are equal if the operators are on the elements.
IterOf(v, q, kind, by) ==
  CHOOSE iter : iter =
    [s \in SUBSET (DOMAIN q) |->
       IF s = {} THEN v
       ELSE Each(iter[s \ {Max(s)}], [of |-> q[Max(s)], kind |-> kind, by |-> by])]
LEMMA AlongFold ==
  ASSUME NEW S, NEW q \in Seq(S), NEW v, NEW kind, NEW by
  PROVE  FoldLeft(Each, v, Along(q, kind, by)) = IterOf(v, q, kind, by)[DOMAIN q]
<1> DEFINE p == Along(q, kind, by)
           F(it) == [s \in SUBSET (DOMAIN q) |->
                      IF s = {} THEN v ELSE Each(it[s \ {Max(s)}], p[Max(s)])]
           G(it) == [s \in SUBSET (DOMAIN q) |->
                      IF s = {} THEN v
                      ELSE Each(it[s \ {Max(s)}], [of |-> q[Max(s)], kind |-> kind, by |-> by])]
<1>1. DOMAIN p = DOMAIN q
  BY DEF Along
<1>2. FoldLeft(Each, v, p) = (CHOOSE it : it = F(it))[DOMAIN q]
  <2> HIDE DEF p
  <2>1. QED BY <1>1 DEF FoldLeft, MapThenFoldSet
<1>3. \A s \in SUBSET (DOMAIN q) : s # {} =>
        p[Max(s)] = [of |-> q[Max(s)], kind |-> kind, by |-> by]
  <2>1. \A s \in SUBSET (DOMAIN q) : s # {} => Max(s) \in DOMAIN q
    <3>1. \A s \in SUBSET (DOMAIN q) : s # {} => Mfe!Max(s) \in s
      BY Mfe!MaxOfIndexes, Zenon
    <3>2. \A s : Max(s) = Mfe!Max(s)
      BY DEF Max, Mfe!Max
    <3>3. QED BY <3>1, <3>2
  <2> DEFINE M(s) == Max(s)
  <2> HIDE DEF M
  <2>2. \A m \in DOMAIN q : p[m] = [of |-> q[m], kind |-> kind, by |-> by]
    BY DEF Along
  <2> HIDE DEF p
  <2>3. QED BY <2>1, <2>2
<1> HIDE DEF p
<1>4. \A it : F(it) = G(it)
  <2> TAKE it
  <2>1. \A s \in SUBSET (DOMAIN q) :
          (IF s = {} THEN v ELSE Each(it[s \ {Max(s)}], p[Max(s)]))
            = (IF s = {} THEN v
               ELSE Each(it[s \ {Max(s)}], [of |-> q[Max(s)], kind |-> kind, by |-> by]))
    BY <1>3
  <2>2. QED BY <2>1
<1> DEFINE A(it) == it = F(it)
           B(it) == it = G(it)
<1>5. \A it : A(it) <=> B(it)
  BY <1>4
<1>6. IterOf(v, q, kind, by) = (CHOOSE it : B(it))
  BY DEF IterOf
<1> HIDE DEF A, B
<1>7. (CHOOSE it : A(it)) = (CHOOSE it : B(it))
  BY <1>5
<1>8. FoldLeft(Each, v, p) = (CHOOSE it : A(it))[DOMAIN q]
  BY <1>2 DEF A
<1>9. QED BY <1>6, <1>7, <1>8 DEF p

LEMMA InteractionFold ==
  ASSUME NEW v, NEW n
  PROVE  HandleInteraction(v, n) = FoldLeft(Each, v, Along(Instances, "interaction", n))
<1> DEFINE F(it) == [s \in SUBSET (DOMAIN Instances) |->
                      IF s = {} THEN v ELSE Interacts(it[s \ {Max(s)}], Instances[Max(s)], n)]
           G(it) == [s \in SUBSET (DOMAIN Instances) |->
                      IF s = {} THEN v
                      ELSE Each(it[s \ {Max(s)}],
                          [of |-> Instances[Max(s)], kind |-> "interaction", by |-> n])]
           A(it) == it = F(it)
           B(it) == it = G(it)
<1>1. HandleInteraction(v, n) = (CHOOSE it : A(it))[DOMAIN Instances]
  BY DEF HandleInteraction, ForOwner, Interacts, FoldLeft, MapThenFoldSet
<1>2. \A u, x : Interacts(u, x, n) = Each(u, [of |-> x, kind |-> "interaction", by |-> n])
  BY DEF Each
<1>3. \A it : F(it) = G(it)
  BY <1>2
<1>4. \A it : A(it) <=> B(it)
  BY <1>3
<1>5. FoldLeft(Each, v, Along(Instances, "interaction", n)) = (CHOOSE it : B(it))[DOMAIN Instances]
  <2>1. FoldLeft(Each, v, Along(Instances, "interaction", n))
            = IterOf(v, Instances, "interaction", n)[DOMAIN Instances]
    <3> HIDE DEF A, B
    <3>1. QED BY AlongFold, Zenon
  <2>2. IterOf(v, Instances, "interaction", n) = (CHOOSE it : B(it))
    BY DEF IterOf
  <2>3. QED BY <2>1, <2>2, Zenon
<1> HIDE DEF A, B
<1>6. (CHOOSE it : A(it)) = (CHOOSE it : B(it))
  BY <1>4
<1>7. QED BY <1>1, <1>5, <1>6

LEMMA EntryFold ==
  ASSUME NEW v, NEW n
  PROVE  PerformanceEntry(v, n) = FoldLeft(Each, v, Along(Instances, "entry", n))
<1> DEFINE F(it) == [s \in SUBSET (DOMAIN Instances) |->
                      IF s = {} THEN v ELSE Enters(it[s \ {Max(s)}], Instances[Max(s)], n)]
           G(it) == [s \in SUBSET (DOMAIN Instances) |->
                      IF s = {} THEN v
                      ELSE Each(it[s \ {Max(s)}],
                          [of |-> Instances[Max(s)], kind |-> "entry", by |-> n])]
           A(it) == it = F(it)
           B(it) == it = G(it)
<1>1. PerformanceEntry(v, n) = (CHOOSE it : A(it))[DOMAIN Instances]
  BY DEF PerformanceEntry, ForOwner, Enters, FoldLeft, MapThenFoldSet
<1>2. \A u, x : Enters(u, x, n) = Each(u, [of |-> x, kind |-> "entry", by |-> n])
  BY DEF Each
<1>3. \A it : F(it) = G(it)
  BY <1>2
<1>4. \A it : A(it) <=> B(it)
  BY <1>3
<1>5. FoldLeft(Each, v, Along(Instances, "entry", n)) = (CHOOSE it : B(it))[DOMAIN Instances]
  <2>1. FoldLeft(Each, v, Along(Instances, "entry", n))
            = IterOf(v, Instances, "entry", n)[DOMAIN Instances]
    <3> HIDE DEF A, B
    <3>1. QED BY AlongFold, Zenon
  <2>2. IterOf(v, Instances, "entry", n) = (CHOOSE it : B(it))
    BY DEF IterOf
  <2>3. QED BY <2>1, <2>2, Zenon
<1> HIDE DEF A, B
<1>6. (CHOOSE it : A(it)) = (CHOOSE it : B(it))
  BY <1>4
<1>7. QED BY <1>1, <1>5, <1>6

LEMMA NodeFold ==
  ASSUME NEW batch \in Seq(Nodes), NEW v, NEW i, NEW from
  PROVE  SeesNodes(v, i, from, batch)
             = FoldLeft(Each, v, Along(batch, "node", [i |-> i, own |-> from]))
<1> DEFINE F(it) == [s \in SUBSET (DOMAIN batch) |->
                      IF s = {} THEN v ELSE SeeNode(it[s \ {Max(s)}], i, batch[Max(s)], from)]
           G(it) == [s \in SUBSET (DOMAIN batch) |->
                      IF s = {} THEN v
                      ELSE Each(it[s \ {Max(s)}],
                          [of |-> batch[Max(s)], kind |-> "node", by |-> [i |-> i, own |-> from]])]
           A(it) == it = F(it)
           B(it) == it = G(it)
<1>1. SeesNodes(v, i, from, batch) = (CHOOSE it : A(it))[DOMAIN batch]
  BY DEF SeesNodes, SeeNode, FoldLeft, MapThenFoldSet
<1>2. \A u, x : SeeNode(u, i, x, from)
          = Each(u, [of |-> x, kind |-> "node", by |-> [i |-> i, own |-> from]])
  BY DEF Each
<1>3. \A it : F(it) = G(it)
  BY <1>2
<1>4. \A it : A(it) <=> B(it)
  BY <1>3
<1>5. FoldLeft(Each, v, Along(batch, "node", [i |-> i, own |-> from]))
          = (CHOOSE it : B(it))[DOMAIN batch]
  <2>1. FoldLeft(Each, v, Along(batch, "node", [i |-> i, own |-> from]))
            = IterOf(v, batch, "node", [i |-> i, own |-> from])[DOMAIN batch]
    <3> HIDE DEF A, B
    <3>1. QED BY AlongFold, Zenon
  <2>2. IterOf(v, batch, "node", [i |-> i, own |-> from]) = (CHOOSE it : B(it))
    BY DEF IterOf
  <2>3. QED BY <2>1, <2>2, Zenon
<1> HIDE DEF A, B
<1>6. (CHOOSE it : A(it)) = (CHOOSE it : B(it))
  BY <1>4
<1>7. QED BY <1>1, <1>5, <1>6

LEMMA BatchFold ==
  ASSUME NEW batch, NEW v
  PROVE  FoldLeft(LAMBDA u, i : Sees(u, i, batch), v, Instances)
             = FoldLeft(Each, v, Along(Instances, "batch", batch))
<1> DEFINE F(it) == [s \in SUBSET (DOMAIN Instances) |->
                      IF s = {} THEN v ELSE Sees(it[s \ {Max(s)}], Instances[Max(s)], batch)]
           G(it) == [s \in SUBSET (DOMAIN Instances) |->
                      IF s = {} THEN v
                      ELSE Each(it[s \ {Max(s)}],
                          [of |-> Instances[Max(s)], kind |-> "batch", by |-> batch])]
           A(it) == it = F(it)
           B(it) == it = G(it)
<1>1. FoldLeft(LAMBDA u, i : Sees(u, i, batch), v, Instances)
          = (CHOOSE it : A(it))[DOMAIN Instances]
  BY DEF Sees, FoldLeft, MapThenFoldSet
<1>2. \A u, x : Sees(u, x, batch) = Each(u, [of |-> x, kind |-> "batch", by |-> batch])
  BY DEF Each
<1>3. \A it : F(it) = G(it)
  BY <1>2
<1>4. \A it : A(it) <=> B(it)
  BY <1>3
<1>5. FoldLeft(Each, v, Along(Instances, "batch", batch)) = (CHOOSE it : B(it))[DOMAIN Instances]
  <2>1. FoldLeft(Each, v, Along(Instances, "batch", batch))
            = IterOf(v, Instances, "batch", batch)[DOMAIN Instances]
    <3> HIDE DEF A, B
    <3>1. QED BY AlongFold, Zenon
  <2>2. IterOf(v, Instances, "batch", batch) = (CHOOSE it : B(it))
    BY DEF IterOf
  <2>3. QED BY <2>1, <2>2, Zenon
<1> HIDE DEF A, B
<1>6. (CHOOSE it : A(it)) = (CHOOSE it : B(it))
  BY <1>4
<1>7. QED BY <1>1, <1>5, <1>6

LEMMA DisconnectFold ==
  ASSUME NEW v
  PROVE  DisconnectAll(v) = FoldLeft(Each, v, Along(Instances, "disconnect", v))
<1> DEFINE F(it) == [s \in SUBSET (DOMAIN Instances) |->
                      IF s = {} THEN v ELSE IF v.inst[Instances[Max(s)]].registered
                          THEN Disconnect(it[s \ {Max(s)}], Instances[Max(s)])
                              ELSE it[s \ {Max(s)}]]
           G(it) == [s \in SUBSET (DOMAIN Instances) |->
                      IF s = {} THEN v
                      ELSE Each(it[s \ {Max(s)}],
                          [of |-> Instances[Max(s)], kind |-> "disconnect", by |-> v])]
           A(it) == it = F(it)
           B(it) == it = G(it)
<1>1. DisconnectAll(v) = (CHOOSE it : A(it))[DOMAIN Instances]
  BY DEF DisconnectAll, FoldLeft, MapThenFoldSet
<1>2. \A u, x : (IF v.inst[x].registered THEN Disconnect(u, x) ELSE u)
          = Each(u, [of |-> x, kind |-> "disconnect", by |-> v])
  BY DEF Each
<1>3. \A it : F(it) = G(it)
  BY <1>2
<1>4. \A it : A(it) <=> B(it)
  BY <1>3
<1>5. FoldLeft(Each, v, Along(Instances, "disconnect", v)) = (CHOOSE it : B(it))[DOMAIN Instances]
  <2>1. FoldLeft(Each, v, Along(Instances, "disconnect", v))
            = IterOf(v, Instances, "disconnect", v)[DOMAIN Instances]
    <3> HIDE DEF A, B
    <3>1. QED BY AlongFold, Zenon
  <2>2. IterOf(v, Instances, "disconnect", v) = (CHOOSE it : B(it))
    BY DEF IterOf
  <2>3. QED BY <2>1, <2>2, Zenon
<1> HIDE DEF A, B
<1>6. (CHOOSE it : A(it)) = (CHOOSE it : B(it))
  BY <1>4
<1>7. QED BY <1>1, <1>5, <1>6

\* Such a fold passes through values that each are made of the one before.
Threads(g, v, q, kind, by) ==
  /\ g[0] = v /\ FoldLeft(Each, v, Along(q, kind, by)) = g[Len(q)]
  /\ \A m \in 0..(Len(q) - 1) :
       g[m + 1] = Each(g[m], [of |-> q[m + 1], kind |-> kind, by |-> by])
LEMMA AlongPasses ==
  ASSUME NEW v, NEW S, NEW q \in Seq(S), NEW kind, NEW by
  PROVE  \E g : Threads(g, v, q, kind, by)
<1> DEFINE p == Along(q, kind, by)
           E == {[of |-> x, kind |-> kind, by |-> by] : x \in S}
<1>1. p \in Seq(E) /\ Len(p) = Len(q)
  <2>1. DOMAIN q = 1..Len(q) /\ Len(q) \in Nat /\ \A k \in 1..Len(q) : q[k] \in S
    OBVIOUS
  <2>2. \A k \in 1..Len(q) : [of |-> q[k], kind |-> kind, by |-> by] \in E
    BY <2>1
  <2> DEFINE f == [k \in 1..Len(q) |-> [of |-> q[k], kind |-> kind, by |-> by]]
  <2>3. p = f
    BY <2>1 DEF Along
  <2> HIDE DEF E, p
  <2>4. f \in [1..Len(q) -> E]
    BY <2>2
  <2> HIDE DEF f
  <2>5. f \in Seq(E) /\ Len(f) = Len(q)
    BY <2>1, <2>4, SMTT(60)
  <2>6. QED BY <2>3, <2>5
<1>2. \A k \in 1..Len(q) : p[k] = [of |-> q[k], kind |-> kind, by |-> by]
  <2>1. DOMAIN q = 1..Len(q)
    OBVIOUS
  <2>2. QED BY <2>1 DEF Along
<1>3. \A m \in 0..(Len(q) - 1) : m + 1 \in 1..Len(q)
  OBVIOUS
<1> HIDE DEF p, E
<1>4. Mfe!Passes(v, p)
  BY <1>1, Mfe!FoldPasses, Zenon
<1>5. PICK g : g[0] = v /\ (\A m \in 0..(Len(p) - 1) : g[m + 1] = Each(g[m], p[m + 1]))
               /\ FoldLeft(Each, v, p) = g[Len(p)]
  BY <1>4, SameEach DEF Mfe!Passes, Mfe!Chain
<1>6. \A m \in 0..(Len(q) - 1) : g[m + 1] = Each(g[m], [of |-> q[m + 1], kind |-> kind, by |-> by])
  BY <1>1, <1>2, <1>3, <1>5
<1>7. Threads(g, v, q, kind, by)
  BY <1>1, <1>5, <1>6 DEF p, Threads
<1>8. QED BY <1>7

LEMMA AlongKeeps ==
  ASSUME NEW v, MfeGood(v), NEW S, NEW q \in Seq(S), NEW kind, NEW by,
         \A u : MfeGood(u) => \A x \in S : MfeGood(Each(u, [of |-> x, kind |-> kind, by |-> by]))
  PROVE  MfeGood(FoldLeft(Each, v, Along(q, kind, by)))
<1>0. PICK g : Threads(g, v, q, kind, by)
  BY AlongPasses, Zenon
<1>1. /\ g[0] = v /\ FoldLeft(Each, v, Along(q, kind, by)) = g[Len(q)]
      /\ \A m \in 0..(Len(q) - 1) :
           g[m + 1] = Each(g[m], [of |-> q[m + 1], kind |-> kind, by |-> by])
  BY <1>0 DEF Threads
<1> DEFINE T == {n \in Nat : n <= Len(q) => MfeGood(g[n])}
<1>2. Len(q) \in Nat /\ \A k \in 1..Len(q) : q[k] \in S
  OBVIOUS
<1>3. 0 \in T
  BY <1>1
<1>4. ASSUME NEW n \in T \cap Nat PROVE n + 1 \in T
  <2> SUFFICES ASSUME n + 1 <= Len(q) PROVE MfeGood(g[n + 1])
    OBVIOUS
  <2>1. n \in 0..(Len(q) - 1) /\ n + 1 \in 1..Len(q) /\ MfeGood(g[n])
    BY <1>2
  <2>2. QED BY <1>1, <1>2, <2>1
<1> HIDE DEF T
<1>5. \A n \in Nat : n \in T
  BY <1>3, <1>4, Mfe!Induct
<1>6. QED BY <1>1, <1>2, <1>5, SMTT(60) DEF T

LEMMA InteractsGood ==
  ASSUME NEW u, MfeGood(u), NEW i \in InstanceSet, NEW n \in Nodes
  PROVE  MfeGood(Interacts(u, i, n))
<1>1. CASE u.inst[i].listening /\ IsInMFE(u, i, n)
  <2> DEFINE k == Mark(u, i, RootOf[n])
  <2>1. RootOf[n] \in Roots /\ IsMatch(u, i, RootOf[n])
    BY <1>1 DEF IsInMFE, IsMatch
  <2>2. MfeGood(k) /\ k.inst = u.inst
    BY <2>1, MarkGood
  <2>3. Interacts(u, i, n) = Interacted(k, i)
    BY <1>1 DEF Interacts, Interacted
  <2> HIDE DEF k
  <2>4. k.inst[i].listening
    BY <1>1, <2>2
  <2>5. QED BY <2>2, <2>3, <2>4, InteractionGood
<1>2. CASE ~(u.inst[i].listening /\ IsInMFE(u, i, n))
  BY <1>2 DEF Interacts
<1>3. QED BY <1>1, <1>2

LEMMA EntersGood ==
  ASSUME NEW u, MfeGood(u), NEW i \in InstanceSet, NEW n \in Nodes
  PROVE  MfeGood(Enters(u, i, n))
<1>1. CASE u.inst[i].entriesOn /\ IsInMFE(u, i, n)
  <2> DEFINE k == Mark(u, i, RootOf[n])
  <2>1. RootOf[n] \in Roots /\ IsMatch(u, i, RootOf[n]) /\ RootOf[n] # Outside
    BY <1>1 DEF IsInMFE, IsMatch
  <2>2. MfeGood(k) /\ k.claim[RootOf[n]] = i
    BY <2>1, MarkGood
  <2>3. Enters(u, i, n) = PopulateVitalMinimums(k, i, n)
    BY <1>1 DEF Enters
  <2> HIDE DEF k
  <2>4. QED BY <2>1, <2>2, <2>3, CountGood
<1>2. CASE ~(u.inst[i].entriesOn /\ IsInMFE(u, i, n))
  BY <1>2 DEF Enters
<1>3. QED BY <1>1, <1>2

LEMMA SeesGood ==
  ASSUME NEW u, MfeGood(u), NEW i \in InstanceSet, NEW batch \in Seq(Nodes)
  PROVE  MfeGood(Sees(u, i, batch))
<1> DEFINE by == [i |-> i, own |-> u.inst[i].own]
<1>1. \A x : MfeGood(x) => \A n \in Nodes : MfeGood(Each(x, [of |-> n, kind |-> "node", by |-> by]))
  <2> SUFFICES ASSUME NEW x, MfeGood(x), NEW n \in Nodes
               PROVE  MfeGood(Each(x, [of |-> n, kind |-> "node", by |-> by]))
    OBVIOUS
  <2>1. Each(x, [of |-> n, kind |-> "node", by |-> by]) = SeeNode(x, i, n, u.inst[i].own)
    BY DEF Each
  <2>2. QED BY <2>1, SeeNodeGood
<1> DEFINE own == u.inst[i].own
<1>2. SeesNodes(u, i, u.inst[i].own, batch) = FoldLeft(Each, u, Along(batch, "node", by))
  <2>1. SeesNodes(u, i, own, batch)
            = FoldLeft(Each, u, Along(batch, "node", [i |-> i, own |-> own]))
    <3> HIDE DEF own
    <3>1. QED BY NodeFold
  <2>2. QED BY <2>1
<1>3. Sees(u, i, batch) = IF ~Observing(u, i) THEN u
          ELSE FoldLeft(Each, u, Along(batch, "node", by))
  BY <1>2 DEF Sees
<1> HIDE DEF by
<1>4. MfeGood(FoldLeft(Each, u, Along(batch, "node", by)))
  BY <1>1, AlongKeeps
<1>5. QED BY <1>3, <1>4

LEMMA HandleInteractionGood ==
  ASSUME NEW v, MfeGood(v), NEW n \in Nodes
  PROVE  MfeGood(HandleInteraction(v, n))
<1>1. \A x : MfeGood(x) => \A i \in InstanceSet :
               MfeGood(Each(x, [of |-> i, kind |-> "interaction", by |-> n]))
  BY InteractsGood DEF Each
<1>2. HandleInteraction(v, n) = FoldLeft(Each, v, Along(Instances, "interaction", n))
  BY InteractionFold
<1>3. Instances \in Seq(InstanceSet)
  OBVIOUS
<1>4. MfeGood(FoldLeft(Each, v, Along(Instances, "interaction", n)))
  BY <1>1, <1>3, AlongKeeps, Zenon
<1>5. QED BY <1>2, <1>4

LEMMA PerformanceEntryGood ==
  ASSUME NEW v, MfeGood(v), NEW n \in Nodes
  PROVE  MfeGood(PerformanceEntry(v, n))
<1>1. \A x : MfeGood(x) => \A i \in InstanceSet :
               MfeGood(Each(x, [of |-> i, kind |-> "entry", by |-> n]))
  BY EntersGood DEF Each
<1>2. PerformanceEntry(v, n) = FoldLeft(Each, v, Along(Instances, "entry", n))
  BY EntryFold
<1>3. Instances \in Seq(InstanceSet)
  OBVIOUS
<1>4. MfeGood(FoldLeft(Each, v, Along(Instances, "entry", n)))
  BY <1>1, <1>3, AlongKeeps, Zenon
<1>5. QED BY <1>2, <1>4

LEMMA AddNodesGood ==
  ASSUME NEW v, MfeGood(v), NEW batch \in Batches
  PROVE  MfeGood(AddNodes(v, batch))
<1> DEFINE added == [v EXCEPT !.dom = @ \cup ToSet(batch)
               \cup UNION {Brings[n] : n \in ToSet(batch)}]
<1>1. batch \in Seq(Nodes)
  OBVIOUS
<1>2. MfeGood(added)
  <2>1. ToSet(batch) \subseteq Nodes
    BY <1>1 DEF ToSet
  <2>2. \A n \in ToSet(batch) : Brings[n] \subseteq Nodes
    BY <2>1 DEF Roots
  <2>3. DOMAIN added = DOMAIN v /\ added.inst = v.inst /\ added.claim = v.claim
        /\ added.dom \subseteq Nodes
    BY <2>1, <2>2 DEF MfeGood, MfeTypes
  <2> HIDE DEF added
  <2>4. QED BY <2>3 DEF MfeGood, MfeTypes
<1>3. AddNodes(v, batch) = FoldLeft(LAMBDA u, i : Sees(u, i, batch), added, Instances)
  BY DEF AddNodes, Sees, SeesNodes
<1> HIDE DEF added
<1>4. FoldLeft(LAMBDA u, i : Sees(u, i, batch), added, Instances)
        = FoldLeft(Each, added, Along(Instances, "batch", batch))
  BY BatchFold
<1>5. \A x : MfeGood(x) => \A i \in InstanceSet :
               MfeGood(Each(x, [of |-> i, kind |-> "batch", by |-> batch]))
  BY <1>1, SeesGood DEF Each
<1>6. MfeGood(FoldLeft(Each, added, Along(Instances, "batch", batch)))
  BY <1>2, <1>5, AlongKeeps
<1>7. QED BY <1>3, <1>4, <1>6

LEMMA DisconnectAllGood ==
  ASSUME NEW v, MfeGood(v)
  PROVE  MfeGood(DisconnectAll(v))
<1> DEFINE q == Instances
           P(u) == MfeGood(u) /\ \A j \in InstanceSet : v.inst[j].registered => u.inst[j].registered
<1>0. q \in Seq(InstanceSet)
  OBVIOUS
<1>1. DisconnectAll(v) = FoldLeft(Each, v, Along(q, "disconnect", v))
  BY DisconnectFold
<1>a. \E g : Threads(g, v, q, "disconnect", v)
  <2> HIDE DEF q
  <2>1. QED BY <1>0, AlongPasses, Zenon
<1>b. PICK g : Threads(g, v, q, "disconnect", v)
  BY <1>a
<1>2. /\ g[0] = v /\ FoldLeft(Each, v, Along(q, "disconnect", v)) = g[Len(q)]
      /\ \A m \in 0..(Len(q) - 1) :
           g[m + 1] = Each(g[m], [of |-> q[m + 1], kind |-> "disconnect", by |-> v])
  BY <1>b DEF Threads
<1>3. ASSUME NEW u, P(u), NEW i \in InstanceSet
      PROVE  P(Each(u, [of |-> i, kind |-> "disconnect", by |-> v]))
  <2>1. Each(u, [of |-> i, kind |-> "disconnect", by |-> v])
          = IF v.inst[i].registered THEN Disconnect(u, i) ELSE u
    BY DEF Each
  <2>2. CASE v.inst[i].registered
    <3>1. P(Disconnect(u, i))
      BY <1>3, <2>2, DisconnectGood
    <3> HIDE DEF P
    <3>2. QED BY <2>1, <2>2, <3>1
  <2>3. CASE ~v.inst[i].registered
    BY <1>3, <2>1, <2>3
  <2>4. QED BY <2>2, <2>3
<1>4. P(v)
  OBVIOUS
<1> HIDE DEF P, q
<1> DEFINE T == {n \in Nat : n <= Len(q) => P(g[n])}
<1>5. Len(q) \in Nat /\ \A k \in 1..Len(q) : q[k] \in InstanceSet
  BY <1>0
<1>6. 0 \in T
  BY <1>2, <1>4
<1>7. ASSUME NEW n \in T \cap Nat PROVE n + 1 \in T
  <2> SUFFICES ASSUME n + 1 <= Len(q) PROVE P(g[n + 1])
    OBVIOUS
  <2>1. n \in 0..(Len(q) - 1) /\ n + 1 \in 1..Len(q) /\ P(g[n])
    BY <1>5
  <2>2. QED BY <1>2, <1>3, <1>5, <2>1, ZenonT(60)
<1> HIDE DEF T
<1>8. \A n \in Nat : n \in T
  BY <1>6, <1>7, Mfe!Induct
<1>9. P(g[Len(q)])
  BY <1>5, <1>8 DEF T
<1>10. QED BY <1>1, <1>2, <1>9 DEF P

\* Every step of the frontends' observers: a batch of mutations, of entries or of nodes
\* taken out is a fold of the methods above.
LEMMA MfeStepGood ==
  ASSUME MfeGood(mfe), MfeStep
  PROVE  MfeGood(mfe')
<1>0. mfe.dom \subseteq Nodes
  BY DEF MfeGood, MfeTypes
<1>1. ASSUME NEW i \in InstanceSet, CanTrack(mfe, i), NEW root \in FirstMatches(mfe, i),
             mfe' = Track(mfe, i, root)
      PROVE  MfeGood(mfe')
  <2>1. root # Outside => root \in Roots /\ IsMatch(mfe, i, root)
    BY <1>1 DEF FirstMatches
  <2>2. QED BY <1>1, <2>1, TrackGood DEF CanTrack
<1>2. ASSUME NEW i \in InstanceSet, mfe.inst[i].entriesOn, mfe' = Disconnect(mfe, i)
      PROVE  MfeGood(mfe')
  <2>1. mfe.inst[i].registered
    BY <1>2 DEF MfeGood, InstanceGood
  <2>2. QED BY <1>2, <2>1, DisconnectGood
<1>3. ASSUME NEW i \in InstanceSet, mfe.inst[i].timer, mfe' = GiveUp(mfe, i)
      PROVE  MfeGood(mfe')
  BY <1>3, GiveUpGood
<1>4. ASSUME NEW i \in InstanceSet, NEW n \in mfe.inst[i].resizing, mfe' = Resized(mfe, i, n)
      PROVE  MfeGood(mfe')
  BY <1>4, ResizedGood
<1>5. ASSUME NEW batch \in Batches, mfe' = AddNodes(mfe, batch)
      PROVE  MfeGood(mfe')
  BY <1>5, AddNodesGood
<1>6. ASSUME NEW n \in mfe.dom, mfe' = HandleInteraction(mfe, n)
      PROVE  MfeGood(mfe')
  BY <1>0, <1>6, HandleInteractionGood
<1>7. ASSUME NEW n \in mfe.dom, mfe' = PerformanceEntry(mfe, n)
      PROVE  MfeGood(mfe')
  BY <1>0, <1>7, PerformanceEntryGood
<1>8. ASSUME NEW n \in mfe.dom, mfe' = ImageLoads(mfe, n)
      PROVE  MfeGood(mfe')
  BY <1>8, ImageLoadsGood
<1>9. QED BY <1>1, <1>2, <1>3, <1>4, <1>5, <1>6, <1>7, <1>8 DEF MfeStep

HIDE MfeAssumption
-----------------------------------------------------------------------------
USE FetchesAssumption

(***************************************************************************)
(* The calls of fetch(): who knows its script by now is found by its URL,  *)
(* and of each file and id one is a target.                                *)
(***************************************************************************)
EntityFields == {"file", "id", "blocked", "reported", "entry"}
CallFields == {"state", "files", "targets", "reports", "owners"}
Entries == {"known", "subscribed", "late", "expired"}
EntityGood(scripts, e) ==
  /\ DOMAIN e = EntityFields /\ e.file \in Files /\ e.entry \in Entries
  /\ scripts[e.file] = "observed" /\ e.entry # "expired" => e.entry = "known"

\* Of each of the owners' groups one is a target, and there is no other
Owned(ts, owners) ==
  /\ \A own \in owners :
       own \subseteq Targets /\ \E t \in own : t \in ts /\ \A u \in own \ {t} : u \notin ts
  /\ ts \subseteq UNION owners
CallGood(c) ==
  /\ DOMAIN c = CallFields
  /\ c.state # "none" => Owned(c.targets, c.owners)
  /\ c.state \in {"buffered", "sent"} =>
       c.reports = [t \in Targets |-> IF t \in c.targets THEN 1 ELSE 0]
  /\ c.state \notin {"buffered", "sent"} => c.reports = [t \in Targets |-> 0]

IsList(s) == \E T : s \in Seq(T)
EntitiesGood(scripts, s) ==
  IsList(s) /\ Len(s) <= MaxEntities /\ \A i \in DOMAIN s : EntityGood(scripts, s[i])
FetchesGood(m) ==
  /\ DOMAIN m = {"scripts", "entities", "calls"}
  /\ DOMAIN m.scripts = Files /\ DOMAIN m.calls = FetchIds
  /\ EntitiesGood(m.scripts, m.entities)
  /\ \A n \in FetchIds : CallGood(m.calls[n])

\* A call that is over waits to be stored until its message is received
CallsStay(m, k) ==
  \A n \in FetchIds : m.calls[n].state = "reported" => k.calls[n].state = "reported"

LEMMA ListIs == ASSUME NEW s, IsList(s) PROVE DOMAIN s = 1..Len(s) /\ Len(s) \in Nat
BY DEF IsList

\* A function with the domain of a list is a list.
LEMMA ListChanges ==
  ASSUME NEW s, IsList(s), NEW f, DOMAIN f = DOMAIN s, f = [i \in DOMAIN f |-> f[i]]
  PROVE  IsList(f) /\ Len(f) = Len(s)
<1>1. DOMAIN s = 1..Len(s) /\ Len(s) \in Nat
  BY ListIs
<1> DEFINE R == {f[i] : i \in 1..Len(s)}
<1>2. f \in [1..Len(s) -> R]
  BY <1>1
<1> HIDE DEF R
<1>3. f \in Seq(R)
  BY <1>1, <1>2
<1>4. Len(f) = Len(s)
  BY <1>1, <1>2, <1>3
<1>5. QED BY <1>3, <1>4 DEF IsList

\* A list that grows
LEMMA ListGrows ==
  ASSUME NEW s, IsList(s), NEW y
  PROVE  LET f == Append(s, y)
         IN /\ IsList(f) /\ Len(f) = Len(s) + 1 /\ DOMAIN f = 1..(Len(s) + 1)
            /\ f[Len(s) + 1] = y /\ \A i \in DOMAIN s : f[i] = s[i]
<1>1. PICK T : s \in Seq(T)
  BY DEF IsList
<1>2. s \in Seq(T \cup {y}) /\ y \in T \cup {y}
  BY <1>1
<1>3. QED BY <1>2 DEF IsList

\* Some positions of the list have a least.
LEMMA LeastPosition ==
  ASSUME NEW T, T \subseteq Nat, T # {}
  PROVE  Min(T) \in T
<1>1. PICK x \in T : \A y \in T : ~(y < x)
  BY Mfe!LeastOf
<1>2. \A y \in T : x <= y
  BY <1>1
<1>3. QED BY <1>2 DEF Min

\* Who is due for a call are those whose asset is the URL of a script on its stack.
LEMMA DueIsFound ==
  ASSUME NEW scripts, NEW e, EntityGood(scripts, e), NEW files
  PROVE  (/\ e.file \in files
          /\ \/ e.file \notin Versioned /\ e.entry = "known"
             \/ e.file \notin Versioned /\ e.entry # "expired" /\ scripts[e.file] = "observed"
             \/ e.file \in Preloaded /\ (e.file \in Versioned => e.entry # "known"))
         <=> (e.file \in files /\ AssetIsUrl(e))
BY DEF EntityGood, AssetIsUrl

\* Of each group of duplicates the first that is not deregistered, else the first, is the
\* target of a call.
LEMMA TargetsAreOwned ==
  ASSUME NEW m, FetchesGood(m), NEW files
  PROVE  Owned(FindTargets(m, files), Owners(m, files))
<1> DEFINE E == m.entities
           A(i) == AssetIsUrl(E[i])
           due == {i \in Entities(m) : E[i].file \in files /\ A(i)}
           Group(i) == {j \in due : E[j].file = E[i].file /\ E[j].id = E[i].id}
           Best(g) == LET live == {j \in g : ~E[j].blocked} IN IF live # {} THEN live ELSE g
           first == {i \in due : i = Min(Best(Group(i)))}
<1>1. /\ Entities(m) = 1..Len(E) /\ Len(E) \in Nat /\ Len(E) <= MaxEntities
      /\ \A i \in Entities(m) : EntityGood(m.scripts, E[i])
  BY ListIs DEF FetchesGood, EntitiesGood, Entities
<1>2. Entities(m) \subseteq Targets /\ Entities(m) \subseteq Nat /\ 0 \in Targets
  BY <1>1 DEF Targets, Container
<1>3. Owners(m, files) = IF due = {} THEN {{Container}} ELSE {Best(Group(i)) : i \in due}
  <2> DEFINE Due(e) ==
        /\ e.file \in files
        /\ \/ e.file \notin Versioned /\ e.entry = "known"
           \/ e.file \notin Versioned /\ e.entry # "expired" /\ m.scripts[e.file] = "observed"
           \/ e.file \in Preloaded /\ (e.file \in Versioned => e.entry # "known")
             d == {i \in Entities(m) : Due(E[i])}
             G(i) == {j \in d : E[j].file = E[i].file /\ E[j].id = E[i].id}
  <2>1. \A i \in Entities(m) : Due(E[i]) <=> (E[i].file \in files /\ A(i))
    BY <1>1, DueIsFound
  <2> HIDE DEF Due, A
  <2>2. d = due
    BY <2>1
  <2>3. Owners(m, files) = IF d = {} THEN {{Container}} ELSE {Best(G(i)) : i \in d}
    BY DEF Owners, Due
  <2> HIDE DEF d, due
  <2>4. QED BY <2>2, <2>3
<1>4. UNION {TargetsOf(m, f) : f \in files} = first
  <2> DEFINE is(f) == {i \in Entities(m) : E[i].file = f /\ A(i)}
             same(f, i) == {j \in is(f) : E[j].id = E[i].id}
  <2>1. \A f : TargetsOf(m, f) = {i \in is(f) : i = Min(Best(same(f, i)))}
    BY DEF TargetsOf, Canonical
  <2>2. \A f \in files : \A i \in is(f) : same(f, i) = Group(i) /\ i \in due
    OBVIOUS
  <2>3. \A i \in due : E[i].file \in files /\ i \in is(E[i].file)
    OBVIOUS
  <2> HIDE DEF is, same, Group, Best, due
  <2>4. \A f \in files : \A i :
          i \in TargetsOf(m, f) <=> i \in is(f) /\ i \in due /\ i = Min(Best(Group(i)))
    BY <2>1, <2>2
  <2>5. QED BY <2>3, <2>4
<1>5. FindTargets(m, files) = IF first = {} THEN {Container} ELSE first
  BY <1>4 DEF FindTargets
<1>6. ASSUME NEW i \in due
      PROVE  /\ Best(Group(i)) \subseteq Group(i) /\ Min(Best(Group(i))) \in Best(Group(i))
             /\ \A j \in Group(i) : Group(j) = Group(i) /\ j \in due /\ j \in Targets
  <2>1. i \in Group(i) /\ Group(i) \subseteq Nat
    BY <1>1
  <2>2. Best(Group(i)) \subseteq Group(i) /\ Best(Group(i)) # {}
    <3> HIDE DEF Group
    <3>1. QED BY <2>1
  <2>3. \A j \in Group(i) : Group(j) = Group(i) /\ j \in due /\ j \in Targets
    BY <1>2
  <2> HIDE DEF Best, Group, due
  <2>4. Min(Best(Group(i))) \in Best(Group(i))
    BY <2>1, <2>2, LeastPosition
  <2>5. QED BY <2>2, <2>3, <2>4
<1> HIDE DEF Best, Group
<1>7. CASE due = {}
  <2>1. FindTargets(m, files) = {0} /\ Owners(m, files) = {{0}}
    BY <1>3, <1>5, <1>7 DEF Container
  <2>2. QED BY <1>2, <2>1 DEF Owned
<1>8. CASE due # {}
  <2> HIDE DEF due
  <2>1. \A i \in due : Min(Best(Group(i))) \in first
    BY <1>6
  <2>2. FindTargets(m, files) = first /\ Owners(m, files) = {Best(Group(i)) : i \in due}
    BY <1>3, <1>5, <1>8, <2>1
  <2>3. ASSUME NEW i \in due
        PROVE  Best(Group(i)) \subseteq Targets /\ \E t \in Best(Group(i)) :
                 t \in first /\ \A u \in Best(Group(i)) \ {t} : u \notin first
    BY <1>6, <2>1
  <2>4. \A t \in first : t \in Best(Group(t)) /\ t \in due
    BY <1>6
  <2> HIDE DEF first
  <2>5. QED BY <2>2, <2>3, <2>4 DEF Owned
<1>9. QED BY <1>7, <1>8

\* A call that is over is reported once for each of its owners' groups.
LEMMA OwnedOnce ==
  ASSUME FetchesGood(mf)
  PROVE  FetchHasItsOwners
<1> SUFFICES ASSUME NEW n \in FetchIds, mf.calls[n].state \in {"buffered", "sent"}
             PROVE  /\ \A own \in mf.calls[n].owners : \E t \in own :
                         /\ mf.calls[n].reports[t] = 1
                         /\ \A u \in own \ {t} : mf.calls[n].reports[u] = 0
                    /\ \A t \in Targets \ UNION mf.calls[n].owners : mf.calls[n].reports[t] = 0
  BY DEF FetchHasItsOwners
<1>1. CallGood(mf.calls[n])
  BY DEF FetchesGood
<1>2. QED BY <1>1 DEF CallGood, Owned

\* The scripts and the registry: who waited for its script's entry has it, or gave up.
LEMMA ObservedGood ==
  ASSUME NEW m, FetchesGood(m), NEW f \in Files
  PROVE  FetchesGood(Observed(m, f)) /\ CallsStay(m, Observed(m, f))
<1> DEFINE k == Observed(m, f)
           E == m.entities
           d == k.entities
<1>0. /\ DOMAIN m = {"scripts", "entities", "calls"} /\ IsList(E) /\ Len(E) <= MaxEntities
      /\ DOMAIN m.scripts = Files /\ \A i \in DOMAIN E : EntityGood(m.scripts, E[i])
  BY DEF FetchesGood, EntitiesGood
<1>1. /\ DOMAIN k = DOMAIN m /\ k.calls = m.calls
      /\ k.scripts = [m.scripts EXCEPT ![f] = "observed"]
      /\ DOMAIN d = DOMAIN E /\ d = [i \in DOMAIN d |-> d[i]]
  BY <1>0 DEF Observed, Entities
<1>2. \A i \in DOMAIN E : d[i] = LET e == E[i]
                                  IN IF e.entry \notin {"subscribed", "late"} THEN e
                                     ELSE IF e.file = f THEN [e EXCEPT !.entry = "known"]
                                     ELSE IF e.entry = "late" THEN [e EXCEPT !.entry = "expired"]
                                     ELSE e
  BY <1>0 DEF Observed, Entities
<1> HIDE DEF k
<1>3. ASSUME NEW i \in DOMAIN E PROVE EntityGood(k.scripts, d[i])
  <2> DEFINE e == E[i]
  <2>1. EntityGood(m.scripts, e) /\ DOMAIN m.scripts = Files
    BY <1>0
  <2>2. /\ DOMAIN e = EntityFields /\ e.file \in Files /\ e.entry \in Entries
        /\ (m.scripts[e.file] = "observed" /\ e.entry # "expired" => e.entry = "known")
    BY <2>1 DEF EntityGood
  <2>3. d[i] = IF e.entry \notin {"subscribed", "late"} THEN e
               ELSE IF e.file = f THEN [e EXCEPT !.entry = "known"]
               ELSE IF e.entry = "late" THEN [e EXCEPT !.entry = "expired"]
               ELSE e
    BY <1>2
  <2> HIDE DEF e, d
  <2>4. DOMAIN d[i] = EntityFields /\ d[i].file = e.file
    BY <2>2, <2>3 DEF EntityFields
  <2>5. d[i].entry = IF e.entry \notin {"subscribed", "late"} THEN e.entry
               ELSE IF e.file = f THEN "known" ELSE IF e.entry = "late" THEN "expired" ELSE e.entry
    BY <2>2, <2>3 DEF EntityFields
  <2>6. k.scripts[e.file] = IF e.file = f THEN "observed" ELSE m.scripts[e.file]
    BY <1>1, <2>1, <2>2
  <2>7. QED BY <2>2, <2>4, <2>5, <2>6 DEF EntityGood, Entries
<1>4. IsList(d) /\ Len(d) = Len(E)
  BY <1>0, <1>1, ListChanges
<1>5. EntitiesGood(k.scripts, d)
  BY <1>0, <1>1, <1>3, <1>4 DEF EntitiesGood
<1>6. QED BY <1>1, <1>0, <1>5 DEF FetchesGood, CallsStay, k

LEMMA TenSecondsGood ==
  ASSUME NEW m, FetchesGood(m)
  PROVE  FetchesGood(TenSecondsLater(m)) /\ CallsStay(m, TenSecondsLater(m))
<1> DEFINE k == TenSecondsLater(m)
           E == m.entities
           d == k.entities
<1>0. /\ DOMAIN m = {"scripts", "entities", "calls"} /\ IsList(E) /\ Len(E) <= MaxEntities
      /\ DOMAIN m.scripts = Files /\ \A i \in DOMAIN E : EntityGood(m.scripts, E[i])
  BY DEF FetchesGood, EntitiesGood
<1>1. /\ DOMAIN k = DOMAIN m /\ k.calls = m.calls /\ k.scripts = m.scripts
      /\ DOMAIN d = DOMAIN E /\ d = [i \in DOMAIN d |-> d[i]]
  BY <1>0 DEF TenSecondsLater, Entities
<1>2. \A i \in DOMAIN E :
        d[i] = IF E[i].entry = "subscribed" THEN [E[i] EXCEPT !.entry = "late"] ELSE E[i]
  BY <1>0 DEF TenSecondsLater, Entities
<1> HIDE DEF k
<1>3. ASSUME NEW i \in DOMAIN E PROVE EntityGood(k.scripts, d[i])
  <2> DEFINE e == E[i]
  <2>2. /\ DOMAIN e = EntityFields /\ e.file \in Files /\ e.entry \in Entries
        /\ (m.scripts[e.file] = "observed" /\ e.entry # "expired" => e.entry = "known")
    BY <1>0 DEF EntityGood
  <2>3. d[i] = IF e.entry = "subscribed" THEN [e EXCEPT !.entry = "late"] ELSE e
    BY <1>2
  <2> HIDE DEF e, d
  <2>4. DOMAIN d[i] = EntityFields /\ d[i].file = e.file
        /\ d[i].entry = IF e.entry = "subscribed" THEN "late" ELSE e.entry
    BY <2>2, <2>3 DEF EntityFields
  <2>5. QED BY <1>1, <2>2, <2>4 DEF EntityGood, Entries
<1>4. IsList(d) /\ Len(d) = Len(E)
  BY <1>0, <1>1, ListChanges
<1>5. EntitiesGood(k.scripts, d)
  BY <1>0, <1>1, <1>3, <1>4 DEF EntitiesGood
<1>6. QED BY <1>1, <1>0, <1>5 DEF FetchesGood, CallsStay, k

LEMMA RegisteredGood ==
  ASSUME NEW m, FetchesGood(m), NEW f \in Files, NEW id, Len(m.entities) < MaxEntities
  PROVE  FetchesGood(Registered(m, f, id)) /\ CallsStay(m, Registered(m, f, id))
<1> DEFINE E == m.entities
           y == [file |-> f, id |-> id, blocked |-> FALSE, reported |-> FALSE,
                 entry |-> IF m.scripts[f] \in {"listed", "observed"} THEN "known"
                           ELSE "subscribed"]
           d == Append(E, y)
           k == Registered(m, f, id)
<1>0. /\ DOMAIN m = {"scripts", "entities", "calls"} /\ IsList(E)
      /\ \A i \in DOMAIN E : EntityGood(m.scripts, E[i])
  BY DEF FetchesGood, EntitiesGood
<1>1. EntityGood(m.scripts, y)
  BY DEF EntityGood, EntityFields, Entries
<1>2. k = [m EXCEPT !.entities = d]
  BY DEF Registered
<1> HIDE DEF y
<1>3. /\ IsList(d) /\ Len(d) = Len(E) + 1 /\ DOMAIN d = 1..(Len(E) + 1)
      /\ d[Len(E) + 1] = y /\ \A i \in DOMAIN E : d[i] = E[i]
  BY <1>0, ListGrows
<1>4. DOMAIN E = 1..Len(E) /\ Len(E) \in Nat
  BY <1>0, ListIs
<1> HIDE DEF d, k
<1>5. \A i \in DOMAIN d : i = Len(E) + 1 \/ i \in DOMAIN E
  BY <1>3, <1>4
<1>6. Len(d) <= MaxEntities
  BY <1>3, <1>4
<1>7. EntitiesGood(m.scripts, d)
  BY <1>0, <1>1, <1>3, <1>5, <1>6 DEF EntitiesGood
<1>8. /\ DOMAIN k = DOMAIN m /\ k.calls = m.calls /\ k.scripts = m.scripts /\ k.entities = d
  BY <1>0, <1>2
<1>9. QED BY <1>0, <1>7, <1>8 DEF FetchesGood, CallsStay, k

\* What registration i has become matters to its file and its entry only.
LEMMA EntityChanges ==
  ASSUME NEW m, FetchesGood(m), NEW i, NEW v,
         i \in DOMAIN m.entities => EntityGood(m.scripts, v)
  PROVE  LET k == [m EXCEPT !.entities = [@ EXCEPT ![i] = v]]
         IN FetchesGood(k) /\ CallsStay(m, k)
<1> DEFINE E == m.entities
           d == [E EXCEPT ![i] = v]
           k == [m EXCEPT !.entities = d]
<1>0. /\ DOMAIN m = {"scripts", "entities", "calls"} /\ IsList(E) /\ Len(E) <= MaxEntities
      /\ \A j \in DOMAIN E : EntityGood(m.scripts, E[j])
  BY DEF FetchesGood, EntitiesGood
<1>1. /\ DOMAIN d = DOMAIN E /\ d = [j \in DOMAIN d |-> d[j]]
      /\ \A j \in DOMAIN E : EntityGood(m.scripts, d[j])
  BY <1>0
<1> HIDE DEF d
<1>2. IsList(d) /\ Len(d) = Len(E)
  BY <1>0, <1>1, ListChanges
<1>3. EntitiesGood(m.scripts, d)
  BY <1>0, <1>1, <1>2 DEF EntitiesGood
<1>4. /\ DOMAIN k = DOMAIN m /\ k.calls = m.calls /\ k.scripts = m.scripts /\ k.entities = d
  BY <1>0
<1> HIDE DEF k
<1>5. FetchesGood(k) /\ CallsStay(m, k)
  BY <1>0, <1>3, <1>4 DEF FetchesGood, CallsStay
<1>6. QED BY <1>5 DEF k, d

LEMMA EntityMarks ==
  ASSUME NEW m, FetchesGood(m), NEW i
  PROVE  /\ FetchesGood([m EXCEPT !.entities[i].blocked = TRUE])
         /\ FetchesGood([m EXCEPT !.entities[i].reported = TRUE])
         /\ CallsStay(m, [m EXCEPT !.entities[i].blocked = TRUE])
         /\ CallsStay(m, [m EXCEPT !.entities[i].reported = TRUE])
<1> DEFINE b == [m.entities[i] EXCEPT !.blocked = TRUE]
           r == [m.entities[i] EXCEPT !.reported = TRUE]
<1>1. ASSUME i \in DOMAIN m.entities PROVE EntityGood(m.scripts, b) /\ EntityGood(m.scripts, r)
  <2>1. EntityGood(m.scripts, m.entities[i])
    BY <1>1 DEF FetchesGood, EntitiesGood
  <2>2. QED BY <2>1 DEF EntityGood, EntityFields
<1>2. /\ [m EXCEPT !.entities[i].blocked = TRUE] = [m EXCEPT !.entities = [@ EXCEPT ![i] = b]]
      /\ [m EXCEPT !.entities[i].reported = TRUE] = [m EXCEPT !.entities = [@ EXCEPT ![i] = r]]
  OBVIOUS
<1> HIDE DEF b, r
<1>3. QED BY <1>1, <1>2, EntityChanges

LEMMA ScriptsChange ==
  ASSUME NEW m, FetchesGood(m), NEW f, NEW entry, entry # "observed"
  PROVE  LET k == [m EXCEPT !.scripts[f] = entry] IN FetchesGood(k) /\ CallsStay(m, k)
<1> DEFINE s == [m.scripts EXCEPT ![f] = entry]
           k == [m EXCEPT !.scripts[f] = entry]
<1>0. DOMAIN m = {"scripts", "entities", "calls"} /\ DOMAIN m.scripts = Files
  BY DEF FetchesGood
<1>1. DOMAIN k = DOMAIN m /\ k.calls = m.calls /\ k.scripts = s /\ k.entities = m.entities
  BY <1>0
<1>2. DOMAIN s = Files /\ \A x \in Files : s[x] = "observed" => m.scripts[x] = "observed"
  BY <1>0
<1> HIDE DEF k, s
<1>3. \A e : EntityGood(m.scripts, e) => EntityGood(s, e)
  BY <1>2 DEF EntityGood
<1>4. EntitiesGood(s, m.entities)
  BY <1>3 DEF FetchesGood, EntitiesGood
<1>5. FetchesGood(k) /\ CallsStay(m, k)
  BY <1>0, <1>1, <1>2, <1>4 DEF FetchesGood, CallsStay
<1>6. QED BY <1>5 DEF k

(***************************************************************************)
(* The calls.                                                              *)
(***************************************************************************)
LEMMA CallChanges ==
  ASSUME NEW m, FetchesGood(m), NEW n \in FetchIds, NEW c, CallGood(c)
  PROVE  LET k == [m EXCEPT !.calls = [@ EXCEPT ![n] = c]]
         IN /\ FetchesGood(k) /\ DOMAIN k = DOMAIN m /\ k.calls[n] = c
            /\ \A x \in FetchIds \ {n} : k.calls[x] = m.calls[x]
<1> DEFINE d == [m.calls EXCEPT ![n] = c]
           k == [m EXCEPT !.calls = d]
<1>0. /\ DOMAIN m = {"scripts", "entities", "calls"} /\ DOMAIN m.calls = FetchIds
      /\ \A x \in FetchIds : CallGood(m.calls[x])
  BY DEF FetchesGood
<1>1. DOMAIN d = FetchIds /\ d[n] = c /\ \A x \in FetchIds \ {n} : d[x] = m.calls[x]
  BY <1>0
<1> HIDE DEF d
<1>2. DOMAIN k = DOMAIN m /\ k.calls = d /\ k.scripts = m.scripts /\ k.entities = m.entities
  BY <1>0
<1>3. \A x \in FetchIds : CallGood(d[x])
  BY <1>0, <1>1
<1> HIDE DEF k
<1>4. FetchesGood(k)
  BY <1>0, <1>1, <1>2, <1>3 DEF FetchesGood
<1>5. QED BY <1>1, <1>2, <1>4 DEF k, d

\* A call that is made knows its targets from then on.
LEMMA CalledGood ==
  ASSUME NEW m, FetchesGood(m), NEW n \in FetchIds, m.calls[n].state = "none", NEW files
  PROVE  FetchesGood(Called(m, n, files)) /\ CallsStay(m, Called(m, n, files))
<1> DEFINE c == [m.calls[n] EXCEPT !.state = "pending", !.files = files,
                                   !.targets = FindTargets(m, files), !.owners = Owners(m, files)]
           k == [m EXCEPT !.calls = [@ EXCEPT ![n] = c]]
<1>1. Called(m, n, files) = k
  BY DEF Called
<1>2. Owned(FindTargets(m, files), Owners(m, files)) /\ CallGood(m.calls[n])
  BY TargetsAreOwned DEF FetchesGood
<1>3. CallGood(c)
  BY <1>2 DEF CallGood, CallFields
<1> HIDE DEF c
<1>4. /\ FetchesGood(k) /\ \A x \in FetchIds \ {n} : k.calls[x] = m.calls[x]
  BY <1>3, CallChanges
<1> HIDE DEF k
<1>5. QED BY <1>1, <1>4 DEF CallsStay

\* The call is over, or its answer is read.
LEMMA CallGoesOn ==
  ASSUME NEW m, FetchesGood(m), NEW n \in FetchIds, m.calls[n].state \in {"pending", "reading"},
         NEW to \in {"reading", "reported"}
  PROVE  LET k == [m EXCEPT !.calls[n].state = to]
         IN FetchesGood(k) /\ CallsStay(m, k) /\ k.calls[n].state = to
<1> DEFINE c == [m.calls[n] EXCEPT !.state = to]
           k == [m EXCEPT !.calls = [@ EXCEPT ![n] = c]]
<1>1. [m EXCEPT !.calls[n].state = to] = k
  OBVIOUS
<1>2. CallGood(m.calls[n])
  BY DEF FetchesGood
<1>3. CallGood(c) /\ c.state = to
  BY <1>2 DEF CallGood, CallFields
<1> HIDE DEF c
<1>4. FetchesGood(k) /\ k.calls[n] = c /\ \A x \in FetchIds \ {n} : k.calls[x] = m.calls[x]
  BY <1>3, CallChanges
<1> HIDE DEF k
<1>5. FetchesGood(k) /\ CallsStay(m, k) /\ k.calls[n].state = to
  BY <1>3, <1>4 DEF CallsStay
<1>6. QED BY <1>1, <1>5

\* It is stored once for each target.
LEMMA StoreFetchGood ==
  ASSUME NEW m, FetchesGood(m), NEW n \in FetchIds, m.calls[n].state = "reported"
  PROVE  /\ FetchesGood(StoreFetch(m, n))
         /\ \A x \in FetchIds \ {n} : StoreFetch(m, n).calls[x] = m.calls[x]
<1> DEFINE t == m.calls[n].targets
           r == [x \in Targets |-> m.calls[n].reports[x] + (IF x \in t THEN 1 ELSE 0)]
           c == [m.calls[n] EXCEPT !.state = "buffered", !.reports = r]
           k == [m EXCEPT !.calls = [@ EXCEPT ![n] = c]]
<1>1. StoreFetch(m, n) = k
  BY DEF StoreFetch
<1>2. CallGood(m.calls[n])
  BY DEF FetchesGood
<1>3. r = [x \in Targets |-> IF x \in t THEN 1 ELSE 0]
  BY <1>2 DEF CallGood
<1> HIDE DEF r
<1>4. CallGood(c)
  BY <1>2, <1>3 DEF CallGood, CallFields
<1> HIDE DEF c
<1>5. FetchesGood(k) /\ \A x \in FetchIds \ {n} : k.calls[x] = m.calls[x]
  BY <1>4, CallChanges
<1> HIDE DEF k
<1>6. QED BY <1>1, <1>5

LEMMA SendFetchesGood ==
  ASSUME NEW m, FetchesGood(m)
  PROVE  FetchesGood(SendFetches(m)) /\ CallsStay(m, SendFetches(m))
<1> DEFINE d == [n \in FetchIds |-> IF m.calls[n].state = "buffered"
                                    THEN [m.calls[n] EXCEPT !.state = "sent"] ELSE m.calls[n]]
           k == SendFetches(m)
<1>0. /\ DOMAIN m = {"scripts", "entities", "calls"} /\ DOMAIN m.calls = FetchIds
      /\ \A x \in FetchIds : CallGood(m.calls[x])
  BY DEF FetchesGood
<1>1. k = [m EXCEPT !.calls = d]
  BY DEF SendFetches
<1>2. ASSUME NEW x \in FetchIds
      PROVE  CallGood(d[x]) /\ (m.calls[x].state = "reported" => d[x].state = "reported")
  <2> DEFINE c == m.calls[x]
             y == d[x]
  <2>1. CallGood(c) /\ y = IF c.state = "buffered" THEN [c EXCEPT !.state = "sent"] ELSE c
    BY <1>0
  <2> HIDE DEF c, y
  <2>2. /\ DOMAIN y = DOMAIN c /\ y.targets = c.targets /\ y.owners = c.owners
        /\ y.reports = c.reports /\ y.state = IF c.state = "buffered" THEN "sent" ELSE c.state
    BY <2>1 DEF CallGood, CallFields
  <2>3. CallGood(y) /\ (c.state = "reported" => y.state = "reported")
    BY <2>1, <2>2 DEF CallGood
  <2>4. QED BY <2>3 DEF y, c
<1>3. DOMAIN d = FetchIds
  OBVIOUS
<1> HIDE DEF d, k
<1>4. DOMAIN k = DOMAIN m /\ k.calls = d /\ k.scripts = m.scripts /\ k.entities = m.entities
  BY <1>0, <1>1
<1>5. QED BY <1>0, <1>2, <1>3, <1>4 DEF FetchesGood, CallsStay, k

LEMMA MfInitGood == MfInit => FetchesGood(mf)
<1> SUFFICES ASSUME MfInit PROVE FetchesGood(mf)
  OBVIOUS
<1>1. <<>> \in Seq({}) /\ Len(<<>>) = 0 /\ DOMAIN <<>> = {}
  OBVIOUS
<1>2. CallGood(NoCall)
  BY DEF NoCall, CallGood, CallFields
<1>3. QED BY <1>1, <1>2 DEF MfInit, FetchesGood, EntitiesGood, IsList

HIDE FetchesAssumption
-----------------------------------------------------------------------------
USE XhrAssumption

(***************************************************************************)
(* The requests: how the calls of a load are counted.  Left are the        *)
(* listeners of a load that have not returned; there are as many as the    *)
(* counts differ, and with the last of them the request is over.           *)
(***************************************************************************)
XhrFields ==
  {"script", "state", "req", "failed", "listeners", "onloadWrapped", "dispatch", "type", "running",
   "called", "totalCbs", "calls", "guids", "onloadCalled", "ended", "loadCaptureCalled", "resolved",
   "aborted", "params", "start", "end", "status", "listener", "reports", "disturbed", "settled"}

Heard == {Capture, OnLoad, EndOf(1)} \cup {Of(c) : c \in Callbacks}
IsOrder(s) == s \in Seq(Heard) /\ \A i, j \in 1..Len(s) : s[i] = s[j] => i = j
Among(s) == {s[i] : i \in 1..Len(s)}
Left(x) == (Among(x.dispatch) \cup {x.running}) \ {OnLoad, Nobody}

Expected(s) ==
  IF s = "abort" THEN <<>>
  ELSE <<[params |-> 1, start |-> 1, end |-> 1, status |-> IF s = "load" THEN 1 ELSE None]>>

\* Before the first request is loaded or fails the counted listeners are those that are there
Made(x) ==
  \/ x.state = "unsent" /\ x.req = 0
  \/ x.state = "opened" /\ x.req = 1 /\ x.params = 1
  \/ /\ x.state \in {"sent", "headers"} /\ x.req = 1 /\ x.params = 1 /\ x.start = 1
     /\ x.listener = 1 /\ EndOf(1) \in Among(x.listeners)
Listed(x) ==
  /\ IsOrder(x.listeners) /\ Len(x.listeners) > 0 /\ x.listeners[1] = Capture
  /\ x.guids = Among(x.listeners) \ {OnLoad} /\ IsFiniteSet(x.guids)
  /\ x.totalCbs = Cardinality(x.guids)
Before(x) ==
  /\ x.settled = "no" /\ x.type = "none" /\ x.running = Nobody /\ x.dispatch = <<>> /\ x.called = {}
  /\ ~x.ended /\ x.reports = <<>> /\ ~x.loadCaptureCalled /\ ~x.aborted
  /\ x.resolved = FALSE /\ ~x.onloadCalled /\ x.status = None /\ ~x.failed /\ x.calls = 0
         /\ Made(x) /\ Listed(x)

\* The data of the first request, while its last event is handled
OfFirst(x) == x.settled = "no" /\ x.req = 1 /\ x.params = 1 /\ x.start = 1 /\ x.end = 1

\* While the load listeners are called
Captured(x) ==
  \/ /\ x.called = {} /\ x.running = Nobody /\ x.state = "done" /\ ~x.failed
     /\ Len(x.dispatch) > 0 /\ x.dispatch[1] = Capture
  \/ Capture \in x.called /\ x.loadCaptureCalled /\ x.status = 1
Counted(x) ==
  /\ IsFiniteSet(Left(x)) /\ x.calls \in Nat /\ x.totalCbs = x.calls + Cardinality(Left(x))
  /\ Left(x) \subseteq x.guids
Loading(x) ==
  /\ OfFirst(x) /\ x.type = "load" /\ x.state \in {"done", "unsent"} /\ ~x.ended
  /\ x.reports = <<>> /\ ~x.aborted
  /\ IsOrder(x.listeners) /\ IsOrder(x.dispatch)
  /\ Among(x.listeners) \subseteq x.called \cup Among(x.dispatch)
  /\ x.called \cap Among(x.dispatch) = {} /\ x.called \subseteq Heard
  /\ x.running # Nobody => x.running \in x.called
  /\ OnLoad \in x.called \cup Among(x.dispatch) => x.onloadWrapped
  /\ OnLoad \in x.called /\ x.running # OnLoad => x.onloadCalled
  /\ Captured(x) /\ Counted(x)
\* It is reported, and other listeners may follow
Loaded(x) ==
  /\ x.settled = "no" /\ x.req = 1 /\ x.type = "load" /\ x.ended /\ x.reports = Expected("load")

\* While onerror, and then the listener of the send, is called
Failing(x) ==
  /\ OfFirst(x) /\ x.type \in {"error", "abort"} /\ x.state \in {"done", "unsent"} /\ ~x.ended
  /\ x.reports = <<>> /\ ~x.aborted /\ ~x.loadCaptureCalled /\ x.failed /\ x.status = None
  /\ x.listener = 1
  /\ \/ x.dispatch = <<OnError, EndOf(1)>> /\ x.running = Nobody
     \/ x.dispatch = <<EndOf(1)>> /\ x.running \in {OnError, Nobody}

\* It is settled, or the object was opened again before
Over(x) ==
  \/ x.disturbed
  \/ x.settled # "no" /\ x.ended /\ x.reports = Expected(x.settled)
  \/ x.settled = "no" /\ x.req >= 2

XhrGood(x) ==
  /\ DOMAIN x = XhrFields /\ x.req \in Nat /\ x.disturbed \in BOOLEAN
  /\ Over(x) \/ Before(x) \/ Loading(x) \/ Loaded(x) \/ Failing(x)

(***************************************************************************)
(* What no step takes back.                                                *)
(***************************************************************************)
\* One method to the next: x has become y
Kept(x, y) ==
  /\ DOMAIN y = DOMAIN x /\ y.req = x.req /\ y.settled = x.settled /\ y.type = x.type
  /\ y.disturbed = x.disturbed
  /\ x.ended => y.ended /\ y.reports = x.reports
\* One state to the next
Keeps(x, y) ==
  /\ DOMAIN y = XhrFields /\ y.req \in Nat /\ y.req >= x.req /\ y.disturbed \in BOOLEAN
  /\ x.disturbed => y.disturbed
  /\ x.ended => y.ended /\ y.reports = x.reports
  /\ x.settled # "no" \/ x.req >= 2 => y.settled = x.settled
  /\ x.type = "load" /\ x.settled = "no" /\ x.req = 1 =>
       \/ y.disturbed
       \/ y.settled = "load"
       \/ y.settled = "no" /\ y.type = "load" /\ y.req = 1

LEMMA OverStays ==
  ASSUME NEW x, NEW y, XhrGood(x), Keeps(x, y), Over(x) \/ Loaded(x)
  PROVE  XhrGood(y)
<1>1. CASE Over(x)
  BY <1>1 DEF XhrGood, Keeps, Over
<1>2. CASE Loaded(x)
  BY <1>2 DEF XhrGood, Keeps, Over, Loaded
<1>3. QED BY <1>1, <1>2

LEMMA KeptByMethods ==
  ASSUME NEW x, DOMAIN x = XhrFields, NEW l
  PROVE  /\ Kept(x, LoadAdded(x, l)) /\ Kept(x, Without(x, l)) /\ Kept(x, LoadRemoved(x, l))
         /\ Kept(x, CaptureXhrData(x)) /\ Kept(x, ReadyStateChange(x))
<1>1. Kept(x, LoadAdded(x, l))
  BY DEF LoadAdded, Kept, XhrFields
<1>2. Kept(x, Without(x, l))
  BY DEF Without, Kept, XhrFields
<1>3. Kept(x, LoadRemoved(x, l))
  <2>1. DOMAIN Without(x, l) = XhrFields
    BY DEF Without
  <2> DEFINE y == Without(x, l)
  <2>2. Kept(y, LoadRemoved(x, l))
    <3>1. LoadRemoved(x, l) = [y EXCEPT !.guids = y.guids \ {l},
                              !.totalCbs = IF l \in x.guids THEN y.totalCbs - 1 ELSE y.totalCbs]
      BY DEF LoadRemoved
    <3> HIDE DEF y
    <3>2. QED BY <2>1, <3>1 DEF Kept, XhrFields, y
  <2> HIDE DEF y
  <2>3. QED BY <1>2, <2>2 DEF Kept, y
<1>4. Kept(x, CaptureXhrData(x))
  BY DEF CaptureXhrData, Kept, XhrFields
<1>5. Kept(x, ReadyStateChange(x))
  BY DEF ReadyStateChange, Kept, XhrFields
<1>6. QED BY <1>1, <1>2, <1>3, <1>4, <1>5

\* A chain of methods
LEMMA KeptTwice == ASSUME NEW x, NEW y, NEW z, Kept(x, y), Kept(y, z) PROVE Kept(x, z)
BY DEF Kept

LEMMA KeptByEnd ==
  ASSUME NEW x, DOMAIN x = XhrFields
  PROVE  Kept(x, End(x))
<1>1. CASE x.ended
  BY <1>1 DEF End, Kept
<1>2. CASE ~x.ended
  <2> DEFINE o == [x EXCEPT !.ended = TRUE]
             v == LoadRemoved(o, EndOf(x.listener))
             u == IF ~v.loadCaptureCalled /\ v.state = "done" THEN CaptureXhrData(v) ELSE v
             e == End(x)
  <2>1. e = IF x.aborted THEN v
            ELSE [u EXCEPT !.reports = Append(u.reports,
                   [params |-> u.params, start |-> u.start, end |-> u.end, status |-> u.status])]
    BY <1>2 DEF End
  <2>2. DOMAIN o = XhrFields /\ Kept(x, o)
    BY <1>2 DEF Kept, XhrFields
  <2> HIDE DEF o
  <2>3. Kept(o, v) /\ DOMAIN v = XhrFields
    BY <2>2, KeptByMethods DEF Kept
  <2> HIDE DEF v
  <2>4. Kept(v, u) /\ DOMAIN u = XhrFields
    BY <2>3, KeptByMethods DEF Kept
  <2> HIDE DEF u, e
  <2>5. /\ DOMAIN e = XhrFields /\ e.req = x.req /\ e.settled = x.settled /\ e.type = x.type
        /\ e.disturbed = x.disturbed
    <3>1. Kept(x, v) /\ Kept(x, u)
      BY <2>2, <2>3, <2>4, KeptTwice
    <3>2. QED BY <2>1, <2>3, <2>4, <3>1 DEF Kept, XhrFields
  <2>6. QED BY <1>2, <2>5 DEF Kept, e
<1>3. QED BY <1>1, <1>2

LEMMA KeptByCalls ==
  ASSUME NEW x, DOMAIN x = XhrFields, NEW l
  PROVE  Kept(x, CbTime(x, l)) /\ Kept(x, OnEvent(x))
<1>1. Kept(x, CbTime(x, l))
  <2> DEFINE v == IF l = OnLoad THEN [x EXCEPT !.onloadCalled = TRUE]
                 ELSE [x EXCEPT !.calls = @ + 1]
  <2>1. CbTime(x, l) = IF AllCalled(v) THEN End(v) ELSE v
    BY DEF CbTime
  <2>2. Kept(x, v) /\ DOMAIN v = XhrFields
    BY DEF Kept, XhrFields
  <2> HIDE DEF v
  <2>3. Kept(v, End(v))
    BY <2>2, KeptByEnd
  <2>4. QED BY <2>1, <2>2, <2>3, KeptTwice
<1>2. Kept(x, OnEvent(x))
  <2> DEFINE v == IF x.type = "abort" /\ ~x.loadCaptureCalled THEN [x EXCEPT !.aborted = TRUE]
                 ELSE x
  <2>1. OnEvent(x) = IF x.type # "load" \/ AllCalled(x) THEN End(v) ELSE x
    BY DEF OnEvent
  <2>2. Kept(x, v) /\ DOMAIN v = XhrFields /\ Kept(x, x)
    BY DEF Kept, XhrFields
  <2> HIDE DEF v
  <2>3. Kept(v, End(v))
    BY <2>2, KeptByEnd
  <2>4. QED BY <2>1, <2>2, <2>3, KeptTwice
<1>3. QED BY <1>1, <1>2

\* A listener was called: the event may be over.
LEMMA SettleKeeps ==
  ASSUME NEW x, DOMAIN x = XhrFields, x.req \in Nat, x.disturbed \in BOOLEAN, NEW v, Kept(x, v)
  PROVE  Keeps(x, Settle(v)) /\ Keeps(x, v)
<1>1. Keeps(x, v)
  BY DEF Keeps, Kept
<1>2. CASE v.dispatch # <<>>
  <2>1. Settle(v) = v
    BY <1>2 DEF Settle
  <2>2. QED BY <1>1, <2>1
<1>3. CASE v.dispatch = <<>>
  <2>1. Settle(v) = [v EXCEPT !.type = "none", !.called = {},
                       !.settled = IF v.req = 1 /\ v.settled = "no" THEN v.type ELSE v.settled]
    BY <1>3 DEF Settle
  <2> DEFINE y == Settle(v)
  <2> HIDE DEF y
  <2>2. /\ DOMAIN y = XhrFields /\ y.req = v.req /\ y.disturbed = v.disturbed /\ y.ended = v.ended
        /\ y.reports = v.reports
        /\ y.settled = IF v.req = 1 /\ v.settled = "no" THEN v.type ELSE v.settled
    BY <2>1 DEF Kept, XhrFields, y
  <2>3. Keeps(x, y)
    BY <2>2 DEF Kept, Keeps
  <2>4. QED BY <1>1, <2>3 DEF y
<1>4. QED BY <1>2, <1>3

LEMMA StepKeeps ==
  ASSUME DOMAIN xhr = XhrFields, xhr.req \in Nat, xhr.disturbed \in BOOLEAN,
             XhrNext \/ HeadersReceived
  PROVE  Keeps(xhr, xhr')
<1> DEFINE x == xhr
<1>0. DOMAIN x = XhrFields /\ x.req \in Nat /\ x.disturbed \in BOOLEAN
  OBVIOUS
<1>1. CASE Open
  <2> DEFINE o == [x EXCEPT !.req = @ + 1, !.params = x.req + 1, !.status = None, !.aborted = FALSE,
                            !.state = "opened", !.failed = FALSE, !.disturbed = @ \/ InLoad(x)]
  <2>1. xhr' = ReadyStateChange(o)
    BY <1>1 DEF Open
  <2> HIDE DEF x
  <2>2. /\ DOMAIN o = XhrFields /\ o.req = x.req + 1 /\ o.settled = x.settled /\ o.type = x.type
        /\ o.ended = x.ended /\ o.reports = x.reports
    BY <1>0 DEF XhrFields
  <2>d. o.disturbed \in BOOLEAN /\ (x.disturbed \/ InLoad(x) => o.disturbed)
    <3>1. o.disturbed = (x.disturbed \/ InLoad(x))
      BY <1>0 DEF XhrFields
    <3> HIDE DEF o
    <3>2. QED BY <3>1
  <2> HIDE DEF o
  <2>3. Kept(o, xhr')
    BY <2>1, <2>2, KeptByMethods
  <2>4. Keeps(x, xhr')
    BY <1>0, <2>2, <2>d, <2>3 DEF Kept, Keeps, InLoad
  <2>5. QED BY <2>4 DEF x
<1>2. CASE SendXhr
  <2> DEFINE o == [x EXCEPT !.state = "sent", !.start = x.req, !.listener = x.req]
  <2>1. xhr' = LoadAdded(o, EndOf(x.req))
    BY <1>2 DEF SendXhr
  <2>2. Kept(x, o) /\ DOMAIN o = XhrFields
    BY DEF Kept, XhrFields
  <2> HIDE DEF o
  <2>3. Kept(o, xhr')
    BY <2>1, <2>2, KeptByMethods
  <2>4. QED BY <2>2, <2>3, KeptTwice, SettleKeeps
<1>3. ASSUME NEW c \in Callbacks, AddListener(c) PROVE Keeps(xhr, xhr')
  <2> DEFINE v == LoadAdded(x, Of(c))
  <2>1. xhr' = [v EXCEPT !.disturbed = v.disturbed \/ InLoad(x)]
    BY <1>3 DEF AddListener
  <2>2. Kept(x, v)
    BY KeptByMethods
  <2> HIDE DEF v
  <2>3. QED BY <2>1, <2>2 DEF Kept, Keeps, XhrFields
<1>4. ASSUME NEW c \in Callbacks, RemoveListener(c) PROVE Keeps(xhr, xhr')
  <2> DEFINE v == LoadRemoved(x, Of(c))
  <2>1. xhr' = [v EXCEPT !.disturbed = v.disturbed \/ Of(c) \in x.called]
    BY <1>4 DEF RemoveListener
  <2>2. Kept(x, v)
    BY KeptByMethods
  <2> HIDE DEF v
  <2>3. QED BY <2>1, <2>2 DEF Kept, Keeps, XhrFields
<1>5. ASSUME NEW c \in Callbacks, SignalRemoves(c) PROVE Keeps(xhr, xhr')
  <2> DEFINE v == Without(x, Of(c))
  <2>1. xhr' = [v EXCEPT !.disturbed = v.disturbed \/ Of(c) \notin x.called]
    BY <1>5 DEF SignalRemoves
  <2>2. Kept(x, v)
    BY KeptByMethods
  <2> HIDE DEF v
  <2>3. QED BY <2>1, <2>2 DEF Kept, Keeps, XhrFields
<1>6. CASE SetOnload
  BY <1>6 DEF SetOnload, Keeps, XhrFields
<1>7. CASE ClearOnload
  <2>1. Kept(xhr, xhr')
    BY <1>7, KeptByMethods DEF ClearOnload
  <2>2. QED BY <2>1, SettleKeeps
<1>8. CASE Loads \/ Fails
         \/ \E o, type : /\ xhr' = Fire(ReadyStateChange(o), type) /\ Kept(x, o) /\ x.type = "none"
  <2>1. PICK o, type : xhr' = Fire(ReadyStateChange(o), type) /\ Kept(x, o) /\ x.type = "none"
    <3>1. CASE Loads
      <4> DEFINE o == [x EXCEPT !.state = "done"]
      <4>1. Kept(x, o)
        BY DEF Kept, XhrFields
      <4>2. QED BY <3>1, <4>1 DEF Loads, Idle
    <3>2. CASE Fails
      <4> DEFINE o == [x EXCEPT !.state = "done", !.failed = TRUE]
      <4>1. Kept(x, o)
        BY DEF Kept, XhrFields
      <4>2. QED BY <3>2, <4>1 DEF Fails, Idle
    <3>3. QED BY <1>8, <3>1, <3>2
  <2> DEFINE v == ReadyStateChange(o)
  <2>2. Kept(x, v)
    <3>1. Kept(o, v)
      BY <2>1, KeptByMethods DEF Kept
    <3>2. QED BY <2>1, <3>1, KeptTwice
  <2>3. xhr' = Fire(v, type)
    BY <2>1
  <2> HIDE DEF v
  <2>4. /\ DOMAIN xhr' = DOMAIN v /\ xhr'.req = v.req /\ xhr'.settled = v.settled
        /\ xhr'.disturbed = v.disturbed /\ xhr'.ended = v.ended /\ xhr'.reports = v.reports
    BY <2>2, <2>3 DEF Fire, Kept, XhrFields
  <2>5. QED BY <2>1, <2>2, <2>4 DEF Kept, Keeps
<1>9. CASE Abort
  <2>1. CASE xhr' = [xhr EXCEPT !.state = "unsent"]
    BY <2>1 DEF Keeps, XhrFields
  <2>2. CASE /\ xhr' = Fire(ReadyStateChange([x EXCEPT !.state = "done", !.failed = TRUE]), "abort")
             /\ Idle(xhr)
    <3> DEFINE o == [x EXCEPT !.state = "done", !.failed = TRUE]
    <3>1. Kept(x, o)
      BY DEF Kept, XhrFields
    <3>2. QED BY <1>8, <2>2, <3>1 DEF Idle
  <2>3. QED BY <1>9, <2>1, <2>2 DEF Abort
<1>10. CASE CallListener
  <2> DEFINE l == Head(x.dispatch)
             v == [x EXCEPT !.dispatch = Tail(@), !.called = @ \cup {l}]
             c == CaptureXhrData(v)
             e == OnEvent(v)
  <2>1. xhr' = IF IsOfPage(l) THEN [v EXCEPT !.running = l]
               ELSE IF l = Capture THEN Settle(CbTime(c, l))
               ELSE IF InLoad(v) THEN Settle(CbTime(e, l))
               ELSE Settle(e)
    BY <1>10 DEF CallListener
  <2>2. Kept(x, v) /\ DOMAIN v = XhrFields
    BY DEF Kept, XhrFields
  <2> HIDE DEF v
  <2>3. Kept(v, c) /\ Kept(v, e)
    BY <2>2, KeptByMethods, KeptByCalls
  <2> HIDE DEF c, e
  <2>4. Kept(c, CbTime(c, l)) /\ Kept(e, CbTime(e, l))
    BY <2>2, <2>3, KeptByCalls DEF Kept
  <2> HIDE DEF l
  <2>5. Kept(v, [v EXCEPT !.running = l])
    BY <2>2 DEF Kept, XhrFields
  <2>6. /\ Kept(x, CbTime(c, l)) /\ Kept(x, CbTime(e, l)) /\ Kept(x, e)
        /\ Kept(x, [v EXCEPT !.running = l])
    BY <2>2, <2>3, <2>4, <2>5, KeptTwice
  <2>7. QED BY <2>1, <2>6, SettleKeeps
<1>11. CASE Returns
  <2> DEFINE l == xhr.running
             v == [xhr EXCEPT !.running = Nobody]
  <2>1. xhr' = Settle(IF InLoad(xhr) /\ (l = OnLoad => xhr.onloadWrapped) THEN CbTime(v, l) ELSE v)
    BY <1>11 DEF Returns
  <2>2. Kept(xhr, v) /\ DOMAIN v = XhrFields
    BY DEF Kept, XhrFields
  <2> HIDE DEF v, l
  <2>3. Kept(v, CbTime(v, l))
    BY <2>2, KeptByCalls
  <2>4. Kept(xhr, CbTime(v, l))
    BY <2>2, <2>3, KeptTwice
  <2>5. QED BY <2>1, <2>2, <2>4, SettleKeeps
<1>12. CASE HeadersReceived
  <2> DEFINE o == [x EXCEPT !.state = "headers"]
  <2>1. xhr' = ReadyStateChange(o)
    BY <1>12 DEF HeadersReceived
  <2>2. Kept(x, o) /\ DOMAIN o = XhrFields
    BY DEF Kept, XhrFields
  <2> HIDE DEF o
  <2>3. Kept(o, xhr')
    BY <2>1, <2>2, KeptByMethods
  <2>4. QED BY <2>2, <2>3, KeptTwice, SettleKeeps
<1>13. QED
  BY <1>1, <1>2, <1>3, <1>4, <1>5, <1>6, <1>7, <1>8, <1>9, <1>10, <1>11, <1>12 DEF XhrNext

(***************************************************************************)
(* The lists of listeners: none is in them twice.                          *)
(***************************************************************************)
LEMMA TakenOut ==
  ASSUME NEW s, IsOrder(s), NEW l
  PROVE  LET t == RemoveFirst(s, l)
         IN /\ IsOrder(t) /\ Among(t) = Among(s) \ {l}
            /\ Len(s) > 0 /\ s[1] # l => Len(t) > 0 /\ t[1] = s[1]
<1> DEFINE t == RemoveFirst(s, l)
<1>0. s \in Seq(Heard) /\ Len(s) \in Nat /\ \A i, j \in 1..Len(s) : s[i] = s[j] => i = j
  BY DEF IsOrder
<1>1. CASE l \notin Among(s)
  <2>1. t = s
    BY <1>1 DEF RemoveFirst, Among
  <2>2. QED BY <1>1, <2>1
<1>2. CASE l \in Among(s)
  <2>1. PICK i \in 1..Len(s) : s[i] = l
    BY <1>2 DEF Among
  <2>2. {j \in 1..Len(s) : s[j] = l} = {i}
    BY <1>0, <2>1
  <2>3. Min({i}) = i
    BY <1>0 DEF Min
  <2> DEFINE n == Len(s)
             a == SubSeq(s, 1, i - 1)
             b == SubSeq(s, i + 1, n)
  <2>4. t = a \o b
    BY <2>1, <2>2, <2>3 DEF RemoveFirst, RemoveAt, SelectInSeq
  <2>a. a \in Seq(Heard) /\ Len(a) = i - 1 /\ \A k \in 1..(i - 1) : a[k] = s[k]
    BY <1>0
  <2>b. b \in Seq(Heard) /\ Len(b) = n - i /\ \A k \in 1..(n - i) : b[k] = s[i + k]
    BY <1>0
  <2> HIDE DEF t, a, b
  <2>5. t \in Seq(Heard) /\ Len(t) = n - 1
    <3>1. t \in Seq(Heard) /\ Len(t) = Len(a) + Len(b)
      <4>1. a \in Seq(Heard) /\ b \in Seq(Heard)
        BY <2>a, <2>b
      <4>2. a \o b \in Seq(Heard) /\ Len(a \o b) = Len(a) + Len(b)
        BY <4>1
      <4>3. QED BY <2>4, <4>2
    <3>2. Len(a) + Len(b) = n - 1
      BY <1>0, <2>a, <2>b
    <3>3. QED BY <3>1, <3>2
  <2>6. \A k \in 1..(n - 1) : t[k] = IF k < i THEN s[k] ELSE s[k + 1]
    <3> SUFFICES ASSUME NEW k \in 1..(n - 1) PROVE t[k] = IF k < i THEN s[k] ELSE s[k + 1]
      OBVIOUS
    <3>1. CASE k < i
      <4>1. k \in 1..(i - 1)
        BY <3>1
      <4>2. QED BY <1>0, <2>4, <2>a, <2>b, <3>1, <4>1
    <3>2. CASE k >= i
      <4>1. k - (i - 1) \in 1..(n - i) /\ i + (k - (i - 1)) = k + 1
        BY <1>0, <3>2
      <4>2. t[k] = b[k - (i - 1)]
        BY <1>0, <2>4, <2>a, <2>b, <3>2, <4>1
      <4>3. QED BY <2>b, <3>2, <4>1, <4>2
    <3>3. QED BY <1>0, <3>1, <3>2
  <2>7. \A j, k \in 1..Len(t) : t[j] = t[k] => j = k
    BY <1>0, <2>5, <2>6
  <2>8. Among(t) = Among(s) \ {l}
    <3>1. \A k \in 1..(n - 1) : t[k] \in Among(s) /\ t[k] # l
      BY <1>0, <2>1, <2>6 DEF Among
    <3>2. ASSUME NEW k \in 1..n, s[k] # l PROVE \E j \in 1..(n - 1) : t[j] = s[k]
      <4>1. CASE k < i
        BY <1>0, <2>6, <4>1
      <4>2. CASE k > i
        <5>1. k - 1 \in 1..(n - 1) /\ t[k - 1] = s[k]
          BY <1>0, <2>6, <4>2
        <5>2. QED BY <5>1
      <4>3. QED BY <2>1, <3>2, <4>1, <4>2
    <3>3. Among(t) \subseteq Among(s) \ {l}
      BY <2>5, <3>1 DEF Among
    <3>4. Among(s) \ {l} \subseteq Among(t)
      BY <2>5, <3>2 DEF Among
    <3>5. QED BY <3>3, <3>4
  <2>9. n > 0 /\ s[1] # l => Len(t) > 0 /\ t[1] = s[1]
    BY <1>0, <2>1, <2>5, <2>6
  <2>10. QED BY <2>5, <2>7, <2>8, <2>9 DEF IsOrder, t
<1>3. QED BY <1>1, <1>2

LEMMA PutIn ==
  ASSUME NEW s, IsOrder(s), NEW l \in Heard, l \notin Among(s)
  PROVE  LET t == Append(s, l)
         IN /\ IsOrder(t) /\ Among(t) = Among(s) \cup {l}
            /\ Len(s) > 0 => Len(t) > 0 /\ t[1] = s[1]
<1> DEFINE t == Append(s, l)
<1>0. s \in Seq(Heard) /\ Len(s) \in Nat /\ \A i, j \in 1..Len(s) : s[i] = s[j] => i = j
  BY DEF IsOrder
<1>1. /\ t \in Seq(Heard) /\ Len(t) = Len(s) + 1 /\ t[Len(s) + 1] = l
      /\ \A i \in 1..Len(s) : t[i] = s[i]
  BY <1>0
<1> HIDE DEF t
<1>2. \A i \in 1..Len(t) : i \in 1..Len(s) \/ i = Len(s) + 1
  BY <1>0, <1>1
<1>3. \A i, j \in 1..Len(t) : t[i] = t[j] => i = j
  BY <1>0, <1>1, <1>2 DEF Among
<1>4. Among(t) = Among(s) \cup {l}
  BY <1>0, <1>1, <1>2 DEF Among
<1>5. QED BY <1>0, <1>1, <1>3, <1>4 DEF IsOrder, t

LEMMA TakeHead ==
  ASSUME NEW s, IsOrder(s), s # <<>>
  PROVE  /\ IsOrder(Tail(s)) /\ Head(s) \in Heard /\ Head(s) = s[1] /\ Head(s) \notin Among(Tail(s))
         /\ Among(s) = {Head(s)} \cup Among(Tail(s))
<1> DEFINE t == Tail(s)
<1>0. s \in Seq(Heard) /\ Len(s) \in Nat /\ Len(s) > 0
          /\ \A i, j \in 1..Len(s) : s[i] = s[j] => i = j
  BY DEF IsOrder
<1>1. /\ t \in Seq(Heard) /\ Len(t) = Len(s) - 1 /\ Head(s) = s[1] /\ s[1] \in Heard
      /\ \A i \in 1..Len(t) : t[i] = s[i + 1] /\ i + 1 \in 1..Len(s)
  BY <1>0
<1> HIDE DEF t
<1>2. \A i, j \in 1..Len(t) : t[i] = t[j] => i = j
  BY <1>0, <1>1
<1>3. s[1] \notin Among(t)
  BY <1>0, <1>1 DEF Among
<1>4. \A i \in 1..Len(s) : i = 1 \/ (i - 1 \in 1..Len(t) /\ t[i - 1] = s[i])
  BY <1>0, <1>1
<1>5. Among(s) = {s[1]} \cup Among(t)
  <2>1. Among(s) \subseteq {s[1]} \cup Among(t)
    BY <1>4 DEF Among
  <2>2. {s[1]} \cup Among(t) \subseteq Among(s)
    BY <1>0, <1>1 DEF Among
  <2>3. QED BY <2>1, <2>2
<1>6. QED BY <1>1, <1>2, <1>3, <1>5 DEF IsOrder, t

(***************************************************************************)
(* Before the first request has loaded.                                    *)
(***************************************************************************)
SameBut(x, y, F) == DOMAIN y = DOMAIN x /\ \A f \in XhrFields \ F : y[f] = x[f]
OfLists == {"listeners", "guids", "totalCbs", "dispatch"}
Marks == {"onloadWrapped", "disturbed"}

LEMMA HeardIs ==
  /\ Capture # OnLoad /\ Capture # OnError /\ OnLoad # OnError /\ Nobody \notin Heard
  /\ EndOf(1) \notin {Capture, OnLoad, OnError, Nobody} /\ OnError # Nobody
  /\ \A c \in Callbacks : Of(c) \in Heard
         /\ Of(c) \notin {Capture, OnLoad, OnError, EndOf(1), Nobody}
  /\ \A l \in Heard : ~IsOfPage(l) <=> l \in {Capture, EndOf(1)}
  /\ IsOfPage(OnError) /\ ~IsOfPage(EndOf(1))
<1>1. /\ Capture # OnLoad /\ Capture # OnError /\ OnLoad # OnError /\ OnError # Nobody
      /\ Capture # Nobody /\ OnLoad # Nobody
  BY DEF Capture, OnLoad, OnError, Nobody
<1>2. EndOf(1) \notin {Capture, OnLoad, OnError, Nobody}
  BY DEF Capture, OnLoad, OnError, EndOf, Nobody
<1>3. \A c \in Callbacks : Of(c) \notin {Capture, OnLoad, OnError, EndOf(1), Nobody}
  <2> TAKE c \in Callbacks
  <2>1. Of(c).what = c /\ c \notin {"capture", "onload", "onerror", "end", "none"}
    BY DEF Of
  <2>2. /\ Capture.what = "capture" /\ OnLoad.what = "onload" /\ OnError.what = "onerror"
        /\ EndOf(1).what = "end" /\ Nobody.what = "none"
    BY DEF Capture, OnLoad, OnError, EndOf, Nobody
  <2>3. QED BY <2>1, <2>2
<1>4. \A c \in Callbacks : Of(c) \in Heard
  BY DEF Heard
<1>5. Nobody \notin Heard
  BY <1>1, <1>2, <1>3 DEF Heard
<1>6. \A l \in Heard : ~IsOfPage(l) <=> l \in {Capture, EndOf(1)}
  <2>1. ~IsOfPage(Capture) /\ IsOfPage(OnLoad) /\ ~IsOfPage(EndOf(1))
    BY DEF IsOfPage, Capture, OnLoad, EndOf
  <2>2. \A c \in Callbacks : IsOfPage(Of(c))
    BY DEF IsOfPage, Of
  <2>3. QED BY <1>1, <1>2, <1>3, <2>1, <2>2 DEF Heard
<1>7. IsOfPage(OnError) /\ ~IsOfPage(EndOf(1))
  BY DEF IsOfPage, OnError, EndOf
<1>8. QED BY <1>1, <1>2, <1>3, <1>4, <1>5, <1>6, <1>7

LEMMA AddedIs ==
  ASSUME NEW x, DOMAIN x = XhrFields, Listed(x), NEW l \in Heard \ {OnLoad}
  PROVE  LET y == LoadAdded(x, l)
         IN /\ Listed(y) /\ Among(y.listeners) = Among(x.listeners) \cup {l}
            /\ SameBut(x, y, OfLists) /\ y.dispatch = x.dispatch
<1> DEFINE y == LoadAdded(x, l)
           s == x.listeners
<1>1. /\ y.listeners = IF l \in Among(s) THEN s ELSE Append(s, l)
      /\ y.guids = x.guids \cup {l}
      /\ y.totalCbs = IF l \in x.guids THEN x.totalCbs ELSE x.totalCbs + 1
      /\ SameBut(x, y, OfLists) /\ y.dispatch = x.dispatch
  BY DEF LoadAdded, Contains, Among, SameBut, OfLists, XhrFields
<1> HIDE DEF y
<1>2. IsOrder(s) /\ Len(s) > 0 /\ s[1] = Capture /\ x.guids = Among(s) \ {OnLoad}
      /\ IsFiniteSet(x.guids) /\ x.totalCbs = Cardinality(x.guids)
  BY DEF Listed
<1>3. IsOrder(y.listeners) /\ Among(y.listeners) = Among(s) \cup {l}
      /\ Len(y.listeners) > 0 /\ y.listeners[1] = Capture
  <2>1. CASE l \in Among(s)
    BY <1>1, <1>2, <2>1
  <2>2. CASE l \notin Among(s)
    BY <1>1, <1>2, <2>2, PutIn
  <2>3. QED BY <2>1, <2>2
<1>4. y.guids = Among(y.listeners) \ {OnLoad}
  BY <1>1, <1>2, <1>3
<1>5. IsFiniteSet(y.guids) /\ y.totalCbs = Cardinality(y.guids)
  <2>1. /\ IsFiniteSet(x.guids \cup {l})
        /\ Cardinality(x.guids \cup {l}) =
             IF l \in x.guids THEN Cardinality(x.guids) ELSE Cardinality(x.guids) + 1
    BY <1>2, FS_AddElement, Zenon
  <2>2. QED BY <1>1, <1>2, <2>1
<1>6. QED BY <1>1, <1>3, <1>4, <1>5 DEF Listed, y

LEMMA WithoutIs ==
  ASSUME NEW x, DOMAIN x = XhrFields, NEW l
  PROVE  LET y == Without(x, l)
         IN /\ SameBut(x, y, {"listeners", "dispatch"}) /\ y.listeners = RemoveFirst(x.listeners, l)
            /\ y.dispatch = RemoveFirst(x.dispatch, l)
BY DEF Without, SameBut, XhrFields

LEMMA RemovedFields ==
  ASSUME NEW x, DOMAIN x = XhrFields, NEW l
  PROVE  LET y == LoadRemoved(x, l)
         IN /\ SameBut(x, y, OfLists) /\ y.listeners = RemoveFirst(x.listeners, l)
            /\ y.dispatch = RemoveFirst(x.dispatch, l) /\ y.guids = x.guids \ {l}
            /\ y.totalCbs = IF l \in x.guids THEN x.totalCbs - 1 ELSE x.totalCbs
<1> DEFINE v == Without(x, l)
           y == LoadRemoved(x, l)
<1>1. /\ SameBut(x, v, {"listeners", "dispatch"}) /\ v.listeners = RemoveFirst(x.listeners, l)
      /\ v.dispatch = RemoveFirst(x.dispatch, l)
  BY WithoutIs
<1>2. y = [v EXCEPT !.guids = v.guids \ {l},
                    !.totalCbs = IF l \in x.guids THEN v.totalCbs - 1 ELSE v.totalCbs]
  BY DEF LoadRemoved
<1> HIDE DEF v, y
<1>3. /\ SameBut(x, y, OfLists) /\ y.listeners = RemoveFirst(x.listeners, l)
      /\ y.dispatch = RemoveFirst(x.dispatch, l) /\ y.guids = x.guids \ {l}
      /\ y.totalCbs = IF l \in x.guids THEN x.totalCbs - 1 ELSE x.totalCbs
  BY <1>1, <1>2 DEF SameBut, OfLists, XhrFields
<1>4. QED BY <1>3 DEF y

LEMMA RemovedIs ==
  ASSUME NEW x, DOMAIN x = XhrFields, Listed(x), NEW l, l \notin {OnLoad, Capture}
  PROVE  LET y == LoadRemoved(x, l)
         IN Listed(y) /\ Among(y.listeners) = Among(x.listeners) \ {l}
<1> DEFINE y == LoadRemoved(x, l)
           s == x.listeners
<1>1. /\ y.listeners = RemoveFirst(s, l) /\ y.guids = x.guids \ {l}
      /\ y.totalCbs = IF l \in x.guids THEN x.totalCbs - 1 ELSE x.totalCbs
  BY RemovedFields
<1> HIDE DEF y
<1>2. IsOrder(s) /\ Len(s) > 0 /\ s[1] = Capture /\ x.guids = Among(s) \ {OnLoad}
      /\ IsFiniteSet(x.guids) /\ x.totalCbs = Cardinality(x.guids)
  BY DEF Listed
<1>3. IsOrder(y.listeners) /\ Among(y.listeners) = Among(s) \ {l}
      /\ Len(y.listeners) > 0 /\ y.listeners[1] = Capture
  BY <1>1, <1>2, TakenOut
<1>4. y.guids = Among(y.listeners) \ {OnLoad}
  BY <1>1, <1>2, <1>3
<1>5. IsFiniteSet(y.guids) /\ y.totalCbs = Cardinality(y.guids)
  <2>1. /\ IsFiniteSet(x.guids \ {l})
        /\ Cardinality(x.guids \ {l}) =
             IF l \in x.guids THEN Cardinality(x.guids) - 1 ELSE Cardinality(x.guids)
    BY <1>2, FS_RemoveElement, Zenon
  <2>2. QED BY <1>1, <1>2, <2>1
<1>6. QED BY <1>3, <1>4, <1>5 DEF Listed, y

LEMMA ChangeIs ==
  ASSUME NEW x, DOMAIN x = XhrFields, x.resolved = FALSE
  PROVE  LET y == ReadyStateChange(x)
         IN /\ y.onloadWrapped = HasOnload(x)
            /\ x.state # "done" => SameBut(x, y, {"onloadWrapped"})
            /\ x.state = "done" => y.end = x.req
                   /\ SameBut(x, y, {"onloadWrapped", "end", "resolved"})
<1> DEFINE y == ReadyStateChange(x)
           w == HasOnload(x)
<1>1. y = [x EXCEPT !.onloadWrapped = w,
                    !.end = IF x.state = "done" THEN x.req ELSE x.end,
                    !.resolved = (x.state = "done")]
  <2>1. (x.resolved \/ x.state = "done") = (x.state = "done")
    OBVIOUS
  <2>2. QED BY <2>1 DEF ReadyStateChange
<1> HIDE DEF y, w
<1>2. y.onloadWrapped = w
  BY <1>1 DEF XhrFields
<1>3. x.state # "done" => SameBut(x, y, {"onloadWrapped"})
  BY <1>1 DEF SameBut, XhrFields
<1>4. x.state = "done" => y.end = x.req /\ SameBut(x, y, {"onloadWrapped", "end", "resolved"})
  BY <1>1 DEF SameBut, XhrFields
<1>5. QED BY <1>2, <1>3, <1>4 DEF y, w

LEMMA NothingRemoved == \A l : RemoveFirst(<<>>, l) = <<>>
BY DEF RemoveFirst

\* The lists change, and nothing else that matters.
Relists(x, y) ==
  /\ SameBut(x, y, OfLists \cup Marks) /\ y.disturbed \in BOOLEAN /\ Listed(y) /\ y.dispatch = <<>>
  /\ EndOf(1) \in Among(x.listeners) => EndOf(1) \in Among(y.listeners)

LEMMA StillBefore ==
  ASSUME NEW x, DOMAIN x = XhrFields, x.req \in Nat, Before(x), NEW y, Relists(x, y)
  PROVE  XhrGood(y)
<1>1. /\ DOMAIN y = XhrFields /\ y.req = x.req /\ y.settled = x.settled /\ y.type = x.type
      /\ y.running = x.running /\ y.called = x.called /\ y.ended = x.ended /\ y.reports = x.reports
      /\ y.loadCaptureCalled = x.loadCaptureCalled /\ y.resolved = x.resolved
      /\ y.aborted = x.aborted /\ y.onloadCalled = x.onloadCalled /\ y.status = x.status
      /\ y.failed = x.failed /\ y.calls = x.calls /\ y.state = x.state /\ y.params = x.params
      /\ y.start = x.start /\ y.listener = x.listener
  BY DEF Relists, SameBut, OfLists, Marks, XhrFields
<1>2. Made(y)
  BY <1>1 DEF Before, Made, Relists
<1>3. Before(y)
  BY <1>1, <1>2 DEF Before, Relists
<1>4. QED BY <1>1, <1>3 DEF XhrGood, Relists

LEMMA BeforeChanges ==
  ASSUME XhrGood(xhr), Before(xhr),
         \/ Open \/ SendXhr \/ SetOnload \/ ClearOnload \/ HeadersReceived
         \/ \E c \in Callbacks : AddListener(c) \/ RemoveListener(c) \/ SignalRemoves(c)
  PROVE  XhrGood(xhr')
<1> DEFINE x == xhr
           y == xhr'
<1>0. /\ DOMAIN x = XhrFields /\ x.req \in Nat /\ x.disturbed \in BOOLEAN /\ Listed(x) /\ Made(x)
      /\ x.type = "none" /\ x.dispatch = <<>> /\ x.called = {} /\ x.settled = "no"
      /\ IsOrder(x.listeners) /\ 1 \in Nat
  BY DEF XhrGood, Before, Listed
<1>1. CASE Open
  <2> DEFINE o == [x EXCEPT !.req = @ + 1, !.params = x.req + 1, !.status = None, !.aborted = FALSE,
                            !.state = "opened", !.failed = FALSE, !.disturbed = @ \/ InLoad(x)]
  <2>1. xhr' = ReadyStateChange(o)
    BY <1>1 DEF Open
  <2> HIDE DEF x
  <2>2. /\ DOMAIN o = XhrFields /\ o.state = "opened" /\ o.req = x.req + 1 /\ o.params = x.req + 1
        /\ o.status = None /\ ~o.aborted /\ ~o.failed
        /\ SameBut(x, o, {"req", "params", "status", "aborted", "state", "failed", "disturbed"})
    BY <1>0 DEF XhrFields, SameBut
  <2>3. o.disturbed \in BOOLEAN
    BY <1>0 DEF XhrFields
  <2> HIDE DEF o, y
  <2>r. o.resolved = FALSE
    <3>1. x.resolved = FALSE
      BY DEF Before, x
    <3>2. QED BY <2>2, <3>1 DEF SameBut, XhrFields
  <2>4. SameBut(o, y, {"onloadWrapped"})
    BY <2>1, <2>2, <2>r, ChangeIs DEF y
  <2>5. CASE x.req = 0
    <3>1. /\ y.req = 1 /\ y.params = 1 /\ y.state = "opened" /\ y.status = None /\ ~y.aborted
                 /\ ~y.failed
          /\ y.disturbed \in BOOLEAN /\ DOMAIN y = XhrFields
      BY <2>2, <2>3, <2>4, <2>5 DEF SameBut, XhrFields
    <3>2. /\ y.settled = x.settled /\ y.type = x.type
          /\ y.running = x.running /\ y.called = x.called /\ y.ended = x.ended
                 /\ y.reports = x.reports
          /\ y.loadCaptureCalled = x.loadCaptureCalled /\ y.resolved = x.resolved
          /\ y.onloadCalled = x.onloadCalled /\ y.calls = x.calls /\ y.dispatch = x.dispatch
          /\ y.listeners = x.listeners /\ y.guids = x.guids /\ y.totalCbs = x.totalCbs
      BY <2>2, <2>4 DEF SameBut, XhrFields
    <3>3. Listed(y) /\ Made(y)
      BY <1>0, <3>1, <3>2 DEF Listed, Made
    <3>4. Before(x)
      BY DEF x
    <3>5. Before(y)
      BY <3>1, <3>2, <3>3, <3>4 DEF Before
    <3>6. QED BY <3>1, <3>5 DEF XhrGood, y
  <2>6. CASE x.req # 0
    <3>1. /\ y.req = x.req + 1 /\ y.settled = "no" /\ DOMAIN y = XhrFields
                 /\ y.disturbed \in BOOLEAN
      BY <1>0, <2>2, <2>3, <2>4 DEF SameBut, XhrFields
    <3>2. y.req \in Nat /\ y.req >= 2
      BY <1>0, <2>6, <3>1
    <3>3. QED BY <3>1, <3>2 DEF XhrGood, Over, y
  <2>7. QED BY <2>5, <2>6
<1>2. CASE SendXhr
  <2> DEFINE o == [x EXCEPT !.state = "sent", !.start = x.req, !.listener = x.req]
  <2>1. y = LoadAdded(o, EndOf(x.req)) /\ x.state = "opened"
    BY <1>2 DEF SendXhr
  <2>2. x.req = 1 /\ x.params = 1
    BY <1>0, <2>1 DEF Made
  <2>3. DOMAIN o = XhrFields /\ o.state = "sent" /\ o.start = 1 /\ o.listener = 1
        /\ SameBut(x, o, {"state", "start", "listener"})
    BY <1>0, <2>2 DEF XhrFields, SameBut
  <2> HIDE DEF o, x, y
  <2>4. Listed(o)
    <3>1. o.listeners = x.listeners /\ o.guids = x.guids /\ o.totalCbs = x.totalCbs
      BY <2>3 DEF SameBut, XhrFields
    <3>2. QED BY <1>0, <3>1 DEF Listed
  <2>5. /\ Listed(y) /\ Among(y.listeners) = Among(o.listeners) \cup {EndOf(1)}
        /\ SameBut(o, y, OfLists) /\ y.dispatch = o.dispatch
    <3>1. EndOf(1) \in Heard \ {OnLoad}
      BY HeardIs DEF Heard
    <3>2. QED BY <2>1, <2>2, <2>3, <2>4, <3>1, AddedIs
  <2>6. /\ DOMAIN y = XhrFields /\ y.state = "sent" /\ y.start = 1 /\ y.listener = 1
        /\ y.req = x.req /\ y.params = x.params /\ y.settled = x.settled /\ y.type = x.type
        /\ y.running = x.running /\ y.called = x.called /\ y.ended = x.ended
               /\ y.reports = x.reports
        /\ y.loadCaptureCalled = x.loadCaptureCalled /\ y.resolved = x.resolved
        /\ y.aborted = x.aborted /\ y.onloadCalled = x.onloadCalled /\ y.status = x.status
        /\ y.failed = x.failed /\ y.calls = x.calls /\ y.dispatch = x.dispatch
        /\ y.disturbed = x.disturbed
    BY <2>3, <2>5 DEF SameBut, OfLists, XhrFields
  <2>7. Made(y)
    BY <2>2, <2>5, <2>6 DEF Made
  <2>8. Before(x)
    BY DEF x
  <2>9. Before(y)
    BY <2>5, <2>6, <2>7, <2>8 DEF Before
  <2>10. QED BY <1>0, <2>6, <2>9 DEF XhrGood, y
<1>3. ASSUME NEW c \in Callbacks, AddListener(c) PROVE XhrGood(xhr')
  <2> DEFINE v == LoadAdded(x, Of(c))
  <2>1. y = [v EXCEPT !.disturbed = v.disturbed \/ InLoad(x)]
    BY <1>3 DEF AddListener
  <2>2. /\ Listed(v) /\ Among(v.listeners) = Among(x.listeners) \cup {Of(c)}
        /\ SameBut(x, v, OfLists) /\ v.dispatch = x.dispatch
    <3>1. Of(c) \in Heard \ {OnLoad}
      BY HeardIs
    <3>2. QED BY <1>0, <3>1, AddedIs
  <2> HIDE DEF v, y, x
  <2>3. SameBut(v, y, {"disturbed"}) /\ y.disturbed \in BOOLEAN
    BY <1>0, <2>1, <2>2 DEF SameBut, XhrFields
  <2>4. /\ y.listeners = v.listeners /\ y.guids = v.guids /\ y.totalCbs = v.totalCbs
        /\ y.dispatch = v.dispatch
    BY <2>3 DEF SameBut, XhrFields
  <2>5. Listed(y) /\ y.dispatch = <<>> /\ SameBut(x, y, OfLists \cup Marks)
    BY <1>0, <2>2, <2>3, <2>4 DEF Listed, SameBut, Marks
  <2>6. Before(x) /\ (EndOf(1) \in Among(x.listeners) => EndOf(1) \in Among(y.listeners))
    BY <2>2, <2>4 DEF x
  <2>7. Relists(x, y)
    BY <1>0, <2>3, <2>5, <2>6 DEF Relists
  <2>8. XhrGood(y)
    BY <1>0, <2>6, <2>7, StillBefore
  <2>9. QED BY <2>8 DEF y
<1>4. ASSUME NEW c \in Callbacks, RemoveListener(c) PROVE XhrGood(xhr')
  <2> DEFINE v == LoadRemoved(x, Of(c))
  <2>1. y = [v EXCEPT !.disturbed = v.disturbed \/ Of(c) \in x.called]
    BY <1>4 DEF RemoveListener
  <2>2. /\ Listed(v) /\ Among(v.listeners) = Among(x.listeners) \ {Of(c)}
        /\ SameBut(x, v, OfLists) /\ v.dispatch = <<>>
    <3>1. Of(c) \notin {OnLoad, Capture}
      BY HeardIs
    <3>2. Listed(v) /\ Among(v.listeners) = Among(x.listeners) \ {Of(c)}
      BY <1>0, <3>1, RemovedIs
    <3>3. SameBut(x, v, OfLists) /\ v.dispatch = RemoveFirst(x.dispatch, Of(c))
      BY <1>0, RemovedFields
    <3> HIDE DEF v
    <3>4. QED BY <1>0, <3>2, <3>3, NothingRemoved
  <2> HIDE DEF v, y, x
  <2>3. SameBut(v, y, {"disturbed"}) /\ y.disturbed \in BOOLEAN
    BY <1>0, <2>1, <2>2 DEF SameBut, XhrFields
  <2>4. /\ y.listeners = v.listeners /\ y.guids = v.guids /\ y.totalCbs = v.totalCbs
        /\ y.dispatch = v.dispatch
    BY <2>3 DEF SameBut, XhrFields
  <2>5. Listed(y) /\ y.dispatch = <<>> /\ SameBut(x, y, OfLists \cup Marks)
    BY <1>0, <2>2, <2>3, <2>4 DEF Listed, SameBut, Marks
  <2>6. Before(x) /\ (EndOf(1) \in Among(x.listeners) => EndOf(1) \in Among(y.listeners))
    BY <2>2, <2>4, HeardIs DEF x
  <2>7. Relists(x, y)
    BY <1>0, <2>3, <2>5, <2>6 DEF Relists
  <2>8. XhrGood(y)
    BY <1>0, <2>6, <2>7, StillBefore
  <2>9. QED BY <2>8 DEF y
<1>5. ASSUME NEW c \in Callbacks, SignalRemoves(c) PROVE XhrGood(xhr')
  <2>1. xhr' = [Without(x, Of(c)) EXCEPT !.disturbed = @ \/ Of(c) \notin x.called]
    BY <1>5 DEF SignalRemoves
  <2>2. /\ DOMAIN xhr' = XhrFields /\ xhr'.disturbed = (x.disturbed \/ Of(c) \notin x.called)
        /\ xhr'.req = x.req
    BY <1>0, <2>1 DEF Without, XhrFields
  <2>3. xhr'.disturbed
    BY <1>0, <2>2
  <2>4. xhr'.disturbed \in BOOLEAN
    BY <2>2
  <2>5. QED BY <1>0, <2>2, <2>3, <2>4 DEF XhrGood, Over
<1>6. CASE SetOnload
  <2>1. y = [x EXCEPT !.listeners = Append(x.listeners, OnLoad), !.onloadWrapped = FALSE,
                      !.disturbed = x.disturbed \/ InLoad(x)] /\ ~HasOnload(x)
    BY <1>6 DEF SetOnload
  <2> HIDE DEF y, x
  <2>2. OnLoad \notin Among(x.listeners) /\ OnLoad \in Heard
    BY <2>1 DEF HasOnload, Contains, Among, Heard
  <2>3. /\ SameBut(x, y, {"listeners", "onloadWrapped", "disturbed"})
        /\ y.listeners = Append(x.listeners, OnLoad) /\ y.disturbed \in BOOLEAN
        /\ y.guids = x.guids /\ y.totalCbs = x.totalCbs /\ y.dispatch = x.dispatch
    BY <1>0, <2>1 DEF SameBut, XhrFields
  <2>4. Listed(y) /\ Among(y.listeners) = Among(x.listeners) \cup {OnLoad}
    <3>1. /\ IsOrder(y.listeners) /\ Among(y.listeners) = Among(x.listeners) \cup {OnLoad}
          /\ Len(y.listeners) > 0 /\ y.listeners[1] = Capture
      BY <1>0, <2>2, <2>3, PutIn DEF Listed
    <3>2. QED BY <1>0, <2>3, <3>1 DEF Listed
  <2>5. SameBut(x, y, OfLists \cup Marks)
    BY <2>3 DEF SameBut, OfLists, Marks
  <2>6. Before(x)
    BY DEF x
  <2>7. Relists(x, y)
    BY <1>0, <2>3, <2>4, <2>5, <2>6 DEF Relists
  <2>8. XhrGood(y)
    BY <1>0, <2>6, <2>7, StillBefore
  <2>9. QED BY <2>8 DEF y
<1>7. CASE ClearOnload
  <2>1. y = Without(x, OnLoad)
    BY <1>7 DEF ClearOnload
  <2>2. /\ SameBut(x, y, {"listeners", "dispatch"})
               /\ y.listeners = RemoveFirst(x.listeners, OnLoad)
        /\ y.dispatch = <<>>
    BY <1>0, <2>1, WithoutIs, NothingRemoved
  <2> HIDE DEF y, x
  <2>3. y.guids = x.guids /\ y.totalCbs = x.totalCbs /\ y.disturbed \in BOOLEAN
    BY <1>0, <2>2 DEF SameBut, XhrFields
  <2>4. Listed(y) /\ Among(y.listeners) = Among(x.listeners) \ {OnLoad}
    <3>1. /\ IsOrder(y.listeners) /\ Among(y.listeners) = Among(x.listeners) \ {OnLoad}
          /\ Len(y.listeners) > 0 /\ y.listeners[1] = Capture
      BY <1>0, <2>2, TakenOut, HeardIs DEF Listed
    <3>2. QED BY <1>0, <2>3, <3>1 DEF Listed
  <2>5. SameBut(x, y, OfLists \cup Marks)
    BY <2>2 DEF SameBut, OfLists, Marks
  <2>6. Before(x)
    BY DEF x
  <2>7. Relists(x, y)
    BY <1>0, <2>2, <2>3, <2>4, <2>5, <2>6, HeardIs DEF Relists
  <2>8. XhrGood(y)
    BY <1>0, <2>6, <2>7, StillBefore
  <2>9. QED BY <2>8 DEF y
<1>8. CASE HeadersReceived
  <2> DEFINE o == [x EXCEPT !.state = "headers"]
  <2>1. y = ReadyStateChange(o) /\ x.state = "sent"
    BY <1>8 DEF HeadersReceived
  <2> HIDE DEF y, x
  <2>2. SameBut(x, o, {"state"}) /\ o.state = "headers" /\ DOMAIN o = XhrFields
    BY <1>0 DEF SameBut, XhrFields
  <2> HIDE DEF o
  <2>r. o.resolved = FALSE
    <3>1. x.resolved = FALSE
      BY DEF Before, x
    <3>2. QED BY <2>2, <3>1 DEF SameBut, XhrFields
  <2>3. SameBut(o, y, {"onloadWrapped"}) /\ DOMAIN y = XhrFields
    BY <2>1, <2>2, <2>r, ChangeIs DEF SameBut
  <2>4. /\ y.state = "headers" /\ y.start = x.start /\ y.listener = x.listener
        /\ y.req = x.req /\ y.params = x.params /\ y.settled = x.settled /\ y.type = x.type
        /\ y.running = x.running /\ y.called = x.called /\ y.ended = x.ended
               /\ y.reports = x.reports
        /\ y.loadCaptureCalled = x.loadCaptureCalled /\ y.resolved = x.resolved
        /\ y.aborted = x.aborted /\ y.onloadCalled = x.onloadCalled /\ y.status = x.status
        /\ y.failed = x.failed /\ y.calls = x.calls /\ y.dispatch = x.dispatch
        /\ y.disturbed = x.disturbed
        /\ y.listeners = x.listeners /\ y.guids = x.guids /\ y.totalCbs = x.totalCbs
    BY <2>2, <2>3 DEF SameBut, XhrFields
  <2>5. Made(y) /\ Listed(y)
    BY <1>0, <2>1, <2>4 DEF Made, Listed
  <2>6. Before(x)
    BY DEF x
  <2>7. Before(y)
    BY <2>4, <2>5, <2>6 DEF Before
  <2>8. QED BY <1>0, <2>3, <2>4, <2>7 DEF XhrGood, y
<1>9. QED BY <1>1, <1>2, <1>3, <1>4, <1>5, <1>6, <1>7, <1>8

(***************************************************************************)
(* The first request is over: its listeners are about to be called.        *)
(***************************************************************************)
Ends == INSTANCE Folding WITH Op <- AndEnd
LEMMA SameEnds == \A v, q : FoldLeft(AndEnd, v, q) = Ends!FoldLeft(AndEnd, v, q)
BY DEF FoldLeft, Ends!FoldLeft, MapThenFoldSet, Ends!MapThenFoldSet, Max, Ends!Max

\* onerror and the listener of the send are called when a request fails, and no other.
LEMMA EndsAre ==
  ASSUME NEW s, IsOrder(s), EndOf(1) \in Among(s)
  PROVE  FoldLeft(AndEnd, <<OnError>>, s) = <<OnError, EndOf(1)>>
<1>0. s \in Seq(Heard) /\ Len(s) \in Nat /\ \A i, j \in 1..Len(s) : s[i] = s[j] => i = j
  BY DEF IsOrder
<1>1. PICK k \in 1..Len(s) : s[k] = EndOf(1)
  BY DEF Among
<1>2. PICK g : /\ g[0] = <<OnError>> /\ FoldLeft(AndEnd, <<OnError>>, s) = g[Len(s)]
               /\ \A m \in 0..(Len(s) - 1) : g[m + 1] = AndEnd(g[m], s[m + 1])
  <2>1. Ends!Passes(<<OnError>>, s)
    BY <1>0, Ends!FoldPasses, Zenon
  <2>2. QED BY <2>1, SameEnds DEF Ends!Passes, Ends!Chain
<1>3. \A l \in Heard : l.what = "end" <=> l = EndOf(1)
  <2>1. \A c \in Callbacks : Of(c).what # "end"
    BY DEF Of
  <2>2. Capture.what # "end" /\ OnLoad.what # "end" /\ EndOf(1).what = "end"
    BY DEF Capture, OnLoad, EndOf
  <2>3. QED BY <2>1, <2>2 DEF Heard
<1> DEFINE P(n) == g[n] = IF n < k THEN <<OnError>> ELSE <<OnError, EndOf(1)>>
           T == {n \in Nat : n <= Len(s) => P(n)}
<1>4. 0 \in T
  BY <1>0, <1>1, <1>2
<1>5. ASSUME NEW n \in T \cap Nat PROVE n + 1 \in T
  <2> SUFFICES ASSUME n + 1 <= Len(s) PROVE P(n + 1)
    OBVIOUS
  <2>1. n \in 0..(Len(s) - 1) /\ n + 1 \in 1..Len(s) /\ P(n)
    BY <1>0
  <2>2. g[n + 1] = AndEnd(g[n], s[n + 1]) /\ s[n + 1] \in Heard
    BY <1>0, <1>2, <2>1
  <2>3. CASE n + 1 = k
    <3>1. g[n] = <<OnError>> /\ s[n + 1] = EndOf(1) /\ s[n + 1].what = "end"
      BY <1>1, <1>3, <2>1, <2>2, <2>3
    <3>2. g[n + 1] = Append(<<OnError>>, EndOf(1))
      BY <2>2, <3>1 DEF AndEnd
    <3>3. QED BY <2>3, <3>2
  <2>4. CASE n + 1 # k
    <3>1. s[n + 1] # EndOf(1)
      BY <1>0, <1>1, <2>1, <2>4
    <3>2. g[n + 1] = g[n]
      BY <1>3, <2>2, <3>1 DEF AndEnd
    <3>3. QED BY <1>1, <2>1, <2>4, <3>2
  <2>5. QED BY <2>3, <2>4
<1> HIDE DEF T
<1>6. \A n \in Nat : n \in T
  BY <1>4, <1>5, Ends!Induct
<1>7. QED BY <1>0, <1>1, <1>2, <1>6 DEF T

LEMMA DoneIs ==
  ASSUME NEW x, DOMAIN x = XhrFields, Before(x), x.state \in {"sent", "headers"},
         NEW o, SameBut(x, o, {"state", "failed"}), o.state = "done", NEW type
  PROVE  LET y == Fire(ReadyStateChange(o), type)
         IN /\ DOMAIN y = XhrFields /\ OfFirst(y) /\ y.req = 1 /\ y.state = "done"
            /\ y.failed = o.failed /\ y.type = type /\ y.called = {} /\ y.running = Nobody
            /\ ~y.ended /\ y.reports = <<>> /\ ~y.loadCaptureCalled /\ ~y.aborted
            /\ y.status = None /\ y.calls = 0 /\ y.listener = 1 /\ y.disturbed = x.disturbed
            /\ y.listeners = x.listeners /\ y.guids = x.guids /\ y.totalCbs = x.totalCbs
            /\ y.onloadWrapped = HasOnload(x)
            /\ y.dispatch = IF type = "load" THEN x.listeners
                            ELSE FoldLeft(AndEnd, <<OnError>>, x.listeners)
<1> DEFINE v == ReadyStateChange(o)
           y == Fire(v, type)
<1>1. DOMAIN o = XhrFields /\ o.resolved = FALSE
  BY DEF SameBut, XhrFields, Before
<1>2. v.end = o.req /\ SameBut(o, v, {"onloadWrapped", "end", "resolved"})
          /\ v.onloadWrapped = HasOnload(o)
  BY <1>1, ChangeIs
<1> HIDE DEF v
<1>3. /\ y.type = type /\ y.called = {} /\ SameBut(v, y, {"type", "called", "dispatch"})
      /\ y.dispatch = IF type = "load" THEN v.listeners
                      ELSE FoldLeft(AndEnd, <<OnError>>, v.listeners)
  BY <1>1, <1>2 DEF Fire, SameBut, XhrFields
<1> HIDE DEF y
<1>4. /\ v.listeners = x.listeners /\ HasOnload(o) = HasOnload(x) /\ v.end = x.req
  BY <1>1, <1>2 DEF SameBut, XhrFields, HasOnload
<1>5. /\ DOMAIN y = XhrFields /\ y.req = x.req /\ y.settled = x.settled /\ y.params = x.params
      /\ y.start = x.start /\ y.end = v.end
      /\ y.state = "done" /\ y.failed = o.failed /\ y.running = x.running /\ y.ended = x.ended
      /\ y.reports = x.reports /\ y.loadCaptureCalled = x.loadCaptureCalled
      /\ y.aborted = x.aborted /\ y.status = x.status /\ y.calls = x.calls
      /\ y.listener = x.listener /\ y.disturbed = x.disturbed /\ y.listeners = x.listeners
      /\ y.guids = x.guids /\ y.totalCbs = x.totalCbs /\ y.onloadWrapped = v.onloadWrapped
  BY <1>1, <1>2, <1>3 DEF SameBut, XhrFields
<1>6. /\ x.req = 1 /\ x.settled = "no" /\ x.params = 1 /\ x.start = 1 /\ x.listener = 1
      /\ x.running = Nobody /\ ~x.ended /\ x.reports = <<>> /\ ~x.loadCaptureCalled /\ ~x.aborted
      /\ x.status = None /\ x.calls = 0
  BY DEF Before, Made
<1>7. OfFirst(y)
  BY <1>4, <1>5, <1>6 DEF OfFirst
<1>8. /\ y.onloadWrapped = HasOnload(x)
      /\ y.dispatch = IF type = "load" THEN x.listeners
                      ELSE FoldLeft(AndEnd, <<OnError>>, x.listeners)
  BY <1>2, <1>3, <1>4, <1>5
<1>9. QED BY <1>3, <1>5, <1>6, <1>7, <1>8 DEF y, v

LEMMA LoadStarts ==
  ASSUME XhrGood(xhr), Before(xhr), Loads
  PROVE  XhrGood(xhr')
<1> DEFINE x == xhr
           y == xhr'
           o == [x EXCEPT !.state = "done"]
<1>1. /\ DOMAIN x = XhrFields /\ x.disturbed \in BOOLEAN /\ x.state \in {"sent", "headers"}
             /\ Before(x)
      /\ y = Fire(ReadyStateChange(o), "load")
  BY DEF Loads, XhrGood
<1> HIDE DEF x
<1>2. SameBut(x, o, {"state", "failed"}) /\ o.state = "done" /\ o.failed = x.failed
  BY <1>1 DEF SameBut, XhrFields
<1> HIDE DEF o, y
<1>3. /\ DOMAIN y = XhrFields /\ OfFirst(y) /\ y.req = 1 /\ y.state = "done"
      /\ y.failed = o.failed /\ y.type = "load" /\ y.called = {} /\ y.running = Nobody
      /\ ~y.ended /\ y.reports = <<>> /\ ~y.aborted
      /\ y.calls = 0 /\ y.disturbed = x.disturbed
      /\ y.listeners = x.listeners /\ y.guids = x.guids /\ y.totalCbs = x.totalCbs
      /\ y.onloadWrapped = HasOnload(x) /\ y.dispatch = x.listeners
  BY <1>1, <1>2, DoneIs
<1>4. Listed(x) /\ ~x.failed
  BY <1>1 DEF Before
<1>5. Captured(y)
  BY <1>2, <1>3, <1>4 DEF Captured, Listed
<1>6. Counted(y)
  <2>1. Nobody \notin Among(x.listeners)
    BY <1>4, HeardIs DEF Listed, IsOrder, Among
  <2>2. Left(y) = x.guids
    BY <1>3, <1>4, <2>1 DEF Left, Listed
  <2>3. Cardinality(x.guids) \in Nat
    BY <1>4, FS_CardinalityType DEF Listed
  <2>4. QED BY <1>3, <1>4, <2>2, <2>3 DEF Counted, Listed
<1>7. OnLoad \in Among(x.listeners) => HasOnload(x)
  BY DEF Among, HasOnload, Contains
<1>8. Loading(y)
  BY <1>3, <1>4, <1>5, <1>6, <1>7 DEF Loading, Listed
<1>9. QED BY <1>1, <1>3, <1>8 DEF XhrGood, y

LEMMA FailStarts ==
  ASSUME XhrGood(xhr), Before(xhr), Fails \/ Abort
  PROVE  XhrGood(xhr')
<1> DEFINE x == xhr
           y == xhr'
           o == [x EXCEPT !.state = "done", !.failed = TRUE]
<1>1. /\ DOMAIN x = XhrFields /\ x.disturbed \in BOOLEAN /\ Before(x)
  BY DEF XhrGood
<1>2. PICK type \in {"error", "abort"} : y = Fire(ReadyStateChange(o), type)
                                         /\ x.state \in {"sent", "headers"}
  <2>1. x.state # "done"
    BY <1>1 DEF Before, Made
  <2>2. QED BY <2>1 DEF Fails, Abort
<1> HIDE DEF x
<1>3. SameBut(x, o, {"state", "failed"}) /\ o.state = "done" /\ o.failed = TRUE
  BY <1>1 DEF SameBut, XhrFields
<1> HIDE DEF o, y
<1>4. /\ DOMAIN y = XhrFields /\ OfFirst(y) /\ y.req = 1 /\ y.state = "done"
      /\ y.failed /\ y.type = type /\ y.running = Nobody
      /\ ~y.ended /\ y.reports = <<>> /\ ~y.loadCaptureCalled /\ ~y.aborted
      /\ y.status = None /\ y.listener = 1 /\ y.disturbed = x.disturbed
      /\ y.dispatch = FoldLeft(AndEnd, <<OnError>>, x.listeners)
  BY <1>1, <1>2, <1>3, DoneIs
<1>5. IsOrder(x.listeners) /\ EndOf(1) \in Among(x.listeners)
  BY <1>1, <1>2 DEF Before, Listed, Made
<1>6. y.dispatch = <<OnError, EndOf(1)>>
  BY <1>4, <1>5, EndsAre
<1>7. Failing(y)
  BY <1>2, <1>4, <1>6 DEF Failing
<1>8. QED BY <1>1, <1>4, <1>7 DEF XhrGood, y

(***************************************************************************)
(* The listeners of the load are called and counted.                       *)
(***************************************************************************)
LEMMA EndIs ==
  ASSUME NEW x, DOMAIN x = XhrFields, ~x.ended
  PROVE  LET e == End(x)
         IN /\ DOMAIN e = XhrFields /\ e.req = x.req /\ e.settled = x.settled /\ e.type = x.type
            /\ e.disturbed = x.disturbed /\ e.ended
            /\ e.dispatch = RemoveFirst(x.dispatch, EndOf(x.listener))
            /\ x.aborted => e.reports = x.reports
            /\ ~x.aborted => e.reports = Append(x.reports,
                 [params |-> x.params, start |-> x.start, end |-> x.end,
                  status |-> IF ~x.loadCaptureCalled /\ x.state = "done"
                             THEN IF ~x.failed THEN x.req ELSE None ELSE x.status])
<1> DEFINE o == [x EXCEPT !.ended = TRUE]
           v == LoadRemoved(o, EndOf(x.listener))
           u == IF ~v.loadCaptureCalled /\ v.state = "done" THEN CaptureXhrData(v) ELSE v
           e == End(x)
<1>1. e = IF x.aborted THEN v
          ELSE [u EXCEPT !.reports = Append(u.reports,
                 [params |-> u.params, start |-> u.start, end |-> u.end, status |-> u.status])]
  BY DEF End
<1>2. SameBut(x, o, {"ended"}) /\ o.ended = TRUE /\ DOMAIN o = XhrFields
  BY DEF SameBut, XhrFields
<1> HIDE DEF o
<1>3. SameBut(o, v, OfLists) /\ v.dispatch = RemoveFirst(o.dispatch, EndOf(x.listener))
  BY <1>2, RemovedFields
<1> HIDE DEF v
<1>4. /\ DOMAIN v = XhrFields /\ v.dispatch = RemoveFirst(x.dispatch, EndOf(x.listener))
      /\ v.req = x.req /\ v.settled = x.settled /\ v.type = x.type /\ v.disturbed = x.disturbed
      /\ v.ended = TRUE /\ v.reports = x.reports /\ v.loadCaptureCalled = x.loadCaptureCalled
      /\ v.state = x.state /\ v.params = x.params /\ v.start = x.start /\ v.end = x.end
      /\ v.status = x.status /\ v.failed = x.failed
  BY <1>2, <1>3 DEF SameBut, OfLists, XhrFields
<1>5. /\ SameBut(v, u, {"status", "loadCaptureCalled"})
      /\ u.status = IF ~v.loadCaptureCalled /\ v.state = "done"
                    THEN IF ~v.failed THEN v.req ELSE None ELSE v.status
  BY <1>4 DEF CaptureXhrData, SameBut, XhrFields
<1> HIDE DEF u
<1>6. /\ DOMAIN u = XhrFields /\ u.dispatch = v.dispatch
      /\ u.req = x.req /\ u.settled = x.settled /\ u.type = x.type /\ u.disturbed = x.disturbed
      /\ u.ended = TRUE /\ u.reports = x.reports /\ u.params = x.params /\ u.start = x.start
      /\ u.end = x.end
  BY <1>4, <1>5 DEF SameBut, XhrFields
<1> HIDE DEF e
<1>7. /\ DOMAIN e = XhrFields /\ e.dispatch = v.dispatch
      /\ e.req = x.req /\ e.settled = x.settled /\ e.type = x.type /\ e.disturbed = x.disturbed
      /\ e.ended = TRUE
  BY <1>1, <1>4, <1>6 DEF XhrFields
<1>8. /\ x.aborted => e.reports = x.reports
      /\ ~x.aborted => e.reports = Append(u.reports,
           [params |-> u.params, start |-> u.start, end |-> u.end, status |-> u.status])
  BY <1>1, <1>4, <1>6 DEF XhrFields
<1>9. QED BY <1>4, <1>5, <1>6, <1>7, <1>8 DEF e

\* The event is over when no listener is left.
LEMMA SettleIs ==
  ASSUME NEW x, DOMAIN x = XhrFields
  PROVE  LET y == Settle(x)
         IN /\ x.dispatch # <<>> => y = x
            /\ x.dispatch = <<>> =>
                 /\ DOMAIN y = XhrFields /\ y.req = x.req /\ y.ended = x.ended
                 /\ y.reports = x.reports /\ y.disturbed = x.disturbed
                 /\ y.settled = IF x.req = 1 /\ x.settled = "no" THEN x.type ELSE x.settled
BY DEF Settle, XhrFields

\* With the last call that was counted the request is reported.
LEMMA Counts ==
  ASSUME NEW w, DOMAIN w = XhrFields, w.disturbed \in BOOLEAN, Loading(w), w.running = Nobody,
         Capture \in w.called
  PROVE  XhrGood(Settle(IF AllCalled(w) THEN End(w) ELSE w))
<1>0. w.settled = "no" /\ w.req = 1 /\ w.type = "load" /\ ~w.ended /\ w.reports = <<>> /\ ~w.aborted
      /\ w.params = 1 /\ w.start = 1 /\ w.end = 1 /\ w.loadCaptureCalled /\ w.status = 1
  BY DEF Loading, OfFirst, Captured
<1>1. CASE AllCalled(w)
  <2> DEFINE e == End(w)
             z == Settle(e)
  <2>1. /\ DOMAIN e = XhrFields /\ e.req = 1 /\ e.settled = "no" /\ e.type = "load" /\ e.ended
        /\ e.disturbed = w.disturbed
        /\ e.reports = Append(<<>>, [params |-> 1, start |-> 1, end |-> 1, status |-> 1])
    <3>1. /\ DOMAIN e = XhrFields /\ e.req = w.req /\ e.settled = w.settled /\ e.type = w.type
          /\ e.disturbed = w.disturbed /\ e.ended
          /\ ~w.aborted => e.reports = Append(w.reports,
               [params |-> w.params, start |-> w.start, end |-> w.end,
                status |-> IF ~w.loadCaptureCalled /\ w.state = "done"
                           THEN IF ~w.failed THEN w.req ELSE None ELSE w.status])
      BY <1>0, EndIs
    <3> HIDE DEF e
    <3>2. QED BY <1>0, <3>1
  <2> HIDE DEF e
  <2>2. e.reports = Expected("load")
    BY <2>1 DEF Expected
  <2>3. CASE e.dispatch # <<>>
    <3>1. z = e
      BY <2>1, <2>3, SettleIs
    <3>2. Loaded(e)
      BY <2>1, <2>2 DEF Loaded
    <3>3. QED BY <1>1, <2>1, <3>1, <3>2 DEF XhrGood, e
  <2>4. CASE e.dispatch = <<>>
    <3>1. /\ DOMAIN z = XhrFields /\ z.req = 1 /\ z.ended /\ z.disturbed = w.disturbed
          /\ z.reports = Expected("load") /\ z.settled = "load"
      BY <2>1, <2>2, <2>4, SettleIs
    <3> HIDE DEF z
    <3>2. Over(z)
      BY <3>1 DEF Over
    <3>3. XhrGood(z)
      BY <3>1, <3>2 DEF XhrGood
    <3>4. QED BY <1>1, <3>3 DEF z, e
  <2>5. QED BY <2>3, <2>4
<1>2. CASE ~AllCalled(w)
  <2>1. w.dispatch # <<>>
    <3> SUFFICES ASSUME w.dispatch = <<>> PROVE FALSE
      OBVIOUS
    <3>1. Among(w.dispatch) = {}
      BY DEF Among
    <3>2. Left(w) = {}
      BY <3>1 DEF Left
    <3>3. Cardinality({}) = 0
      BY FS_EmptySet
    <3>4. w.calls = w.totalCbs
      BY <3>2, <3>3 DEF Loading, Counted
    <3>5. HasOnload(w) => OnLoad \in Among(w.listeners)
      BY DEF HasOnload, Contains, Among, Loading, IsOrder
    <3>6. HasOnload(w) => w.onloadCalled
      BY <3>1, <3>5, HeardIs DEF Loading, OnLoad, Nobody
    <3>7. QED BY <1>2, <3>4, <3>6 DEF AllCalled
  <2>2. Settle(w) = w
    BY <2>1, SettleIs
  <2>3. QED BY <1>0, <1>2, <2>2 DEF XhrGood
<1>3. QED BY <1>1, <1>2

\* What has become of x when its listener l was taken out of the list and was called
CalledOf(x, l, v) ==
  /\ SameBut(x, v, {"dispatch", "called", "running", "loadCaptureCalled", "status"})
  /\ IsOrder(v.dispatch) /\ v.running = Nobody /\ Capture \in v.called /\ v.loadCaptureCalled
  /\ v.status = 1 /\ l \in v.called /\ v.called \cap Among(v.dispatch) = {}
  /\ v.called \cup Among(v.dispatch) = x.called \cup Among(x.dispatch)
  /\ v.called \subseteq Heard
  /\ Left(v) = Left(x) \ {l} /\ (l # OnLoad => l \in Left(x))
  /\ OnLoad \in v.called => l = OnLoad \/ x.onloadCalled

LEMMA CallCounts ==
  ASSUME NEW x, DOMAIN x = XhrFields, x.disturbed \in BOOLEAN, Loading(x), NEW l, NEW v,
             CalledOf(x, l, v)
  PROVE  XhrGood(Settle(CbTime(v, l)))
<1> DEFINE w == IF l = OnLoad THEN [v EXCEPT !.onloadCalled = TRUE]
                ELSE [v EXCEPT !.calls = v.calls + 1]
<1>1. CbTime(v, l) = IF AllCalled(w) THEN End(w) ELSE w
  BY DEF CbTime
<1>2. DOMAIN v = XhrFields
  BY DEF CalledOf, SameBut
<1>3. /\ SameBut(v, w, {"calls", "onloadCalled"})
      /\ w.calls = IF l = OnLoad THEN v.calls ELSE v.calls + 1
      /\ l = OnLoad => w.onloadCalled
      /\ l # OnLoad => w.onloadCalled = v.onloadCalled
  BY <1>2 DEF SameBut, XhrFields
<1> HIDE DEF w
<1>4. /\ DOMAIN w = XhrFields /\ w.disturbed = x.disturbed /\ w.settled = x.settled
      /\ w.req = x.req /\ w.params = x.params /\ w.start = x.start /\ w.end = x.end
      /\ w.type = x.type /\ w.state = x.state /\ w.ended = x.ended /\ w.reports = x.reports
      /\ w.aborted = x.aborted /\ w.listeners = x.listeners /\ w.onloadWrapped = x.onloadWrapped
      /\ w.totalCbs = x.totalCbs /\ w.guids = x.guids /\ v.calls = x.calls
      /\ v.onloadCalled = x.onloadCalled
      /\ w.dispatch = v.dispatch /\ w.called = v.called /\ w.running = v.running
      /\ w.loadCaptureCalled = v.loadCaptureCalled /\ w.status = v.status
  BY <1>2, <1>3, ZenonT(60) DEF CalledOf, SameBut, XhrFields
<1>5. Counted(w)
  <2>1. /\ IsFiniteSet(Left(x)) /\ x.calls \in Nat /\ x.totalCbs = x.calls + Cardinality(Left(x))
        /\ Left(x) \subseteq x.guids
    BY DEF Loading, Counted
  <2>2. Left(w) = Left(x) \ {l} /\ (l # OnLoad => l \in Left(x)) /\ OnLoad \notin Left(x)
    <3>1. Left(w) = Left(v)
      BY <1>4 DEF Left
    <3>2. OnLoad \notin Left(x)
      BY DEF Left
    <3>3. Left(v) = Left(x) \ {l} /\ (l # OnLoad => l \in Left(x))
      BY DEF CalledOf
    <3>4. QED BY <3>1, <3>2, <3>3
  <2>3. /\ IsFiniteSet(Left(x) \ {l})
        /\ Cardinality(Left(x) \ {l}) =
             IF l \in Left(x) THEN Cardinality(Left(x)) - 1 ELSE Cardinality(Left(x))
    BY <2>1, FS_RemoveElement, Zenon
  <2>4. Cardinality(Left(x)) \in Nat /\ Cardinality(Left(x) \ {l}) \in Nat
    BY <2>1, <2>3, FS_CardinalityType
  <2>5. w.calls = IF l = OnLoad THEN x.calls ELSE x.calls + 1
    BY <1>3, <1>4
  <2>6. w.calls \in Nat /\ w.totalCbs = w.calls + Cardinality(Left(w))
    <3>1. CASE l = OnLoad
      <4>1. Cardinality(Left(w)) = Cardinality(Left(x))
        BY <2>2, <2>3, <3>1
      <4>2. QED BY <1>4, <2>1, <2>5, <3>1, <4>1
    <3>2. CASE l # OnLoad
      <4>1. Cardinality(Left(w)) = Cardinality(Left(x)) - 1
        BY <2>2, <2>3, <3>2
      <4>2. QED BY <1>4, <2>1, <2>4, <2>5, <3>2, <4>1
    <3>3. QED BY <3>1, <3>2
  <2>7. QED BY <1>4, <2>1, <2>2, <2>3, <2>6 DEF Counted
<1>6. Captured(w)
  BY <1>4 DEF Captured, CalledOf
<1>7. Loading(w)
  <2>1. /\ OfFirst(w) /\ w.type = "load" /\ w.state \in {"done", "unsent"} /\ ~w.ended
        /\ w.reports = <<>> /\ ~w.aborted /\ IsOrder(w.listeners)
    BY <1>4 DEF Loading, OfFirst
  <2>2. /\ IsOrder(w.dispatch) /\ Among(w.listeners) \subseteq w.called \cup Among(w.dispatch)
        /\ w.called \cap Among(w.dispatch) = {} /\ w.called \subseteq Heard /\ w.running = Nobody
        /\ OnLoad \in w.called \cup Among(w.dispatch) => w.onloadWrapped
    BY <1>4 DEF Loading, CalledOf
  <2>3. OnLoad \in w.called => w.onloadCalled
    BY <1>3, <1>4 DEF CalledOf
  <2>4. QED BY <1>5, <1>6, <2>1, <2>2, <2>3 DEF Loading
<1>8. Capture \in w.called /\ w.running = Nobody
  BY <1>4 DEF CalledOf
<1>9. QED BY <1>1, <1>4, <1>7, <1>8, Counts

\* The next listener is called.
LEMMA LoadCalls ==
  ASSUME XhrGood(xhr), Loading(xhr), CallListener
  PROVE  XhrGood(xhr')
<1> DEFINE x == xhr
           y == xhr'
           l == Head(x.dispatch)
           v == [x EXCEPT !.dispatch = Tail(x.dispatch), !.called = x.called \cup {l}]
           c == CaptureXhrData(v)
<1>0. /\ DOMAIN x = XhrFields /\ x.disturbed \in BOOLEAN /\ Loading(x) /\ x.req \in Nat
      /\ x.dispatch # <<>> /\ x.running = Nobody /\ IsOrder(x.dispatch)
      /\ x.called \subseteq Heard /\ x.called \cap Among(x.dispatch) = {}
  BY DEF XhrGood, Loading, CallListener
<1>1. y = IF IsOfPage(l) THEN [v EXCEPT !.running = l]
          ELSE IF l = Capture THEN Settle(CbTime(c, l))
          ELSE IF InLoad(v) THEN Settle(CbTime(OnEvent(v), l))
          ELSE Settle(OnEvent(v))
  BY DEF CallListener
<1> HIDE DEF x, y
<1>2. /\ IsOrder(Tail(x.dispatch)) /\ l \in Heard /\ l = x.dispatch[1]
             /\ l \notin Among(Tail(x.dispatch))
      /\ Among(x.dispatch) = {l} \cup Among(Tail(x.dispatch))
  BY <1>0, TakeHead
<1>3. /\ SameBut(x, v, {"dispatch", "called"}) /\ v.dispatch = Tail(x.dispatch)
      /\ v.called = x.called \cup {l} /\ DOMAIN v = XhrFields
  BY <1>0 DEF SameBut, XhrFields
<1> HIDE DEF l, v
<1>4. /\ v.state = x.state /\ v.failed = x.failed /\ v.req = x.req /\ v.type = x.type
      /\ v.calls = x.calls /\ v.totalCbs = x.totalCbs /\ v.running = Nobody
      /\ v.loadCaptureCalled = x.loadCaptureCalled /\ v.status = x.status
  BY <1>0, <1>3 DEF SameBut, XhrFields
<1>5. IF l = Capture THEN x.called = {} /\ x.state = "done" /\ ~x.failed
      ELSE Capture \in x.called /\ x.loadCaptureCalled /\ x.status = 1
  BY <1>0, <1>2 DEF Loading, Captured
<1>6. /\ v.called \cup Among(v.dispatch) = x.called \cup Among(x.dispatch)
      /\ v.called \cap Among(v.dispatch) = {} /\ v.called \subseteq Heard /\ l \in v.called
  BY <1>0, <1>2, <1>3
<1>7. CASE IsOfPage(l)
  <2>1. SameBut(v, y, {"running"}) /\ y.running = l
    BY <1>1, <1>3, <1>7 DEF SameBut, XhrFields
  <2>2. /\ DOMAIN y = XhrFields /\ y.disturbed = x.disturbed /\ y.settled = x.settled
        /\ y.req = x.req /\ y.params = x.params /\ y.start = x.start /\ y.end = x.end
        /\ y.type = x.type /\ y.state = x.state /\ y.ended = x.ended /\ y.reports = x.reports
        /\ y.aborted = x.aborted /\ y.listeners = x.listeners /\ y.onloadWrapped = x.onloadWrapped
        /\ y.totalCbs = x.totalCbs /\ y.guids = x.guids /\ y.calls = x.calls
        /\ y.onloadCalled = x.onloadCalled
        /\ y.dispatch = v.dispatch /\ y.called = v.called
        /\ y.loadCaptureCalled = x.loadCaptureCalled /\ y.status = x.status
    BY <1>3, <2>1 DEF SameBut, XhrFields
  <2>3. l # Capture
    BY <1>7 DEF IsOfPage, Capture
  <2>4. Left(y) = Left(x)
    BY <1>0, <1>2, <1>3, <2>1, <2>2 DEF Left
  <2>5. Captured(y) /\ Counted(y)
    BY <1>0, <1>3, <1>5, <2>2, <2>3, <2>4 DEF Loading, Captured, Counted
  <2>6. OfFirst(y)
    BY <1>0, <2>2 DEF Loading, OfFirst
  <2>7. /\ y.type = "load" /\ y.state \in {"done", "unsent"} /\ ~y.ended
        /\ y.reports = <<>> /\ ~y.aborted /\ IsOrder(y.listeners) /\ IsOrder(y.dispatch)
        /\ Among(y.listeners) \subseteq y.called \cup Among(y.dispatch)
        /\ y.called \cap Among(y.dispatch) = {} /\ y.called \subseteq Heard
        /\ OnLoad \in y.called \cup Among(y.dispatch) => y.onloadWrapped
    BY <1>0, <1>2, <1>3, <1>6, <2>2 DEF Loading
  <2>8. /\ y.running # Nobody => y.running \in y.called
        /\ OnLoad \in y.called /\ y.running # OnLoad => y.onloadCalled
    <3>1. OnLoad \in x.called => x.onloadCalled
      BY <1>0, HeardIs DEF Loading, OnLoad, Nobody
    <3>2. QED BY <1>3, <1>6, <2>1, <2>2, <3>1
  <2>9. Loading(y)
    BY <2>5, <2>6, <2>7, <2>8 DEF Loading
  <2>10. QED BY <1>0, <2>2, <2>9 DEF XhrGood, y
<1>8. CASE ~IsOfPage(l)
  <2>1. l \in {Capture, EndOf(1)} /\ l # OnLoad
    BY <1>2, <1>8, HeardIs
  <2>2. /\ Left(v) = Left(x) \ {l} /\ l \in Left(x)
    BY <1>0, <1>2, <1>3, <1>4, <2>1, HeardIs DEF Left
  <2>3. OnLoad \in v.called => x.onloadCalled
    BY <1>0, <1>3, <2>1, HeardIs DEF Loading, OnLoad, Nobody
  <2>4. CASE l = Capture
    <3>1. y = Settle(CbTime(c, l))
      BY <1>1, <1>8, <2>4
    <3>2. SameBut(v, c, {"status", "loadCaptureCalled"}) /\ c.loadCaptureCalled
          /\ c.status = IF v.state = "done" /\ ~v.failed THEN v.req ELSE None
      BY <1>3 DEF CaptureXhrData, SameBut, XhrFields
    <3> HIDE DEF c
    <3>3. /\ c.dispatch = v.dispatch /\ c.called = v.called /\ c.running = Nobody
          /\ c.loadCaptureCalled /\ c.status = 1
      <4>1. v.state = "done" /\ ~v.failed /\ v.req = 1
        BY <1>0, <1>4, <1>5, <2>4 DEF Loading, OfFirst
      <4>2. QED BY <1>3, <1>4, <3>2, <4>1 DEF SameBut, XhrFields
    <3>4. SameBut(x, c, {"dispatch", "called", "running", "loadCaptureCalled", "status"})
      BY <1>3, <3>2 DEF SameBut
    <3>5. Left(c) = Left(v)
      BY <1>4, <3>3 DEF Left
    <3>6. CalledOf(x, l, c)
      BY <1>2, <1>3, <1>6, <2>2, <2>3, <2>4, <3>3, <3>4, <3>5 DEF CalledOf
    <3>7. XhrGood(y)
      BY <1>0, <3>1, <3>6, CallCounts
    <3>8. QED BY <3>7 DEF y
  <2>5. CASE l # Capture
    <3>1. v.type = "load"
      BY <1>0, <1>4 DEF Loading
    <3>2. v.calls # v.totalCbs
      <4>1. IsFiniteSet(Left(x)) /\ x.calls \in Nat /\ x.totalCbs = x.calls + Cardinality(Left(x))
        BY <1>0 DEF Loading, Counted
      <4>2. Cardinality(Left(x)) \in Nat /\ Cardinality(Left(x)) # 0
        BY <2>2, <4>1, FS_CardinalityType, FS_EmptySet
      <4>3. QED BY <1>4, <4>1, <4>2
    <3>3. OnEvent(v) = v
      BY <3>1, <3>2 DEF OnEvent, AllCalled
    <3>4. y = Settle(CbTime(v, l))
      BY <1>1, <1>8, <2>5, <3>1, <3>3 DEF InLoad
    <3>5. SameBut(x, v, {"dispatch", "called", "running", "loadCaptureCalled", "status"})
      BY <1>3 DEF SameBut
    <3>6. CalledOf(x, l, v)
      BY <1>2, <1>3, <1>4, <1>5, <1>6, <2>2, <2>3, <2>5, <3>5 DEF CalledOf
    <3>7. XhrGood(y)
      BY <1>0, <3>4, <3>6, CallCounts
    <3>8. QED BY <3>7 DEF y
  <2>6. QED BY <2>4, <2>5
<1>9. QED BY <1>7, <1>8

\* A callback returns.
LEMMA LoadReturns ==
  ASSUME XhrGood(xhr), Loading(xhr), Returns
  PROVE  XhrGood(xhr')
<1> DEFINE x == xhr
           y == xhr'
           l == x.running
           v == [x EXCEPT !.running = Nobody]
<1>0. /\ DOMAIN x = XhrFields /\ x.disturbed \in BOOLEAN /\ Loading(x)
      /\ x.running # Nobody /\ x.running \in x.called /\ IsOrder(x.dispatch)
      /\ x.called \subseteq Heard /\ x.called \cap Among(x.dispatch) = {}
  BY DEF XhrGood, Loading, Returns
<1>1. y = Settle(IF InLoad(x) /\ (l = OnLoad => x.onloadWrapped) THEN CbTime(v, l) ELSE v)
  BY DEF Returns
<1> HIDE DEF x, y
<1>2. InLoad(x) /\ (l = OnLoad => x.onloadWrapped)
  BY <1>0 DEF Loading, InLoad
<1>3. SameBut(x, v, {"running"}) /\ v.running = Nobody
  BY <1>0 DEF SameBut, XhrFields
<1> HIDE DEF v
<1>4. v.dispatch = x.dispatch /\ v.called = x.called /\ v.loadCaptureCalled = x.loadCaptureCalled
      /\ v.status = x.status
  BY <1>0, <1>3 DEF SameBut, XhrFields
<1>5. Capture \in x.called /\ x.loadCaptureCalled /\ x.status = 1
  BY <1>0 DEF Loading, Captured
<1>6. l \notin Among(x.dispatch)
  BY <1>0
<1>7. Left(v) = Left(x) \ {l} /\ (l # OnLoad => l \in Left(x))
  BY <1>0, <1>3, <1>4, <1>6 DEF Left
<1>8. OnLoad \in x.called => l = OnLoad \/ x.onloadCalled
  BY <1>0 DEF Loading
<1>9. SameBut(x, v, {"dispatch", "called", "running", "loadCaptureCalled", "status"})
  BY <1>3 DEF SameBut
<1>10. CalledOf(x, l, v)
  BY <1>0, <1>3, <1>4, <1>5, <1>7, <1>8, <1>9 DEF CalledOf
<1>11. XhrGood(y)
  BY <1>0, <1>1, <1>2, <1>10, CallCounts
<1>12. QED BY <1>11 DEF y

\* Listeners that are gone are not called, and nothing else that matters has changed.
Unlists(x, y) ==
  /\ SameBut(x, y, OfLists \cup {"disturbed", "state"}) /\ y.disturbed \in BOOLEAN
  /\ y.state \in {"done", "unsent"} /\ IsOrder(y.listeners) /\ IsOrder(y.dispatch)
  /\ Among(y.dispatch) \subseteq Among(x.dispatch)
  /\ Among(y.listeners) \subseteq x.called \cup Among(y.dispatch)
  /\ Counted(y)

LEMMA StillLoading ==
  ASSUME NEW x, DOMAIN x = XhrFields, x.req \in Nat, Loading(x), x.running # Nobody, NEW y,
             Unlists(x, y)
  PROVE  XhrGood(y)
<1>1. /\ DOMAIN y = XhrFields /\ y.settled = x.settled
      /\ y.req = x.req /\ y.params = x.params /\ y.start = x.start /\ y.end = x.end
      /\ y.type = x.type /\ y.ended = x.ended /\ y.reports = x.reports
      /\ y.aborted = x.aborted /\ y.onloadWrapped = x.onloadWrapped
      /\ y.onloadCalled = x.onloadCalled /\ y.called = x.called /\ y.running = x.running
      /\ y.loadCaptureCalled = x.loadCaptureCalled /\ y.status = x.status
  BY DEF Unlists, SameBut, OfLists, XhrFields
<1>2. Captured(y)
  BY <1>1, HeardIs DEF Loading, Captured
<1>3. OfFirst(y)
  BY <1>1 DEF Loading, OfFirst
<1>4. /\ y.type = "load" /\ y.state \in {"done", "unsent"} /\ ~y.ended /\ y.reports = <<>>
      /\ ~y.aborted /\ IsOrder(y.listeners) /\ IsOrder(y.dispatch)
      /\ Among(y.listeners) \subseteq y.called \cup Among(y.dispatch)
      /\ y.called \cap Among(y.dispatch) = {} /\ y.called \subseteq Heard
      /\ y.running # Nobody => y.running \in y.called
      /\ OnLoad \in y.called \cup Among(y.dispatch) => y.onloadWrapped
      /\ OnLoad \in y.called /\ y.running # OnLoad => y.onloadCalled
  BY <1>1 DEF Loading, Unlists
<1>5. Loading(y)
  BY <1>2, <1>3, <1>4 DEF Loading, Unlists
<1>6. QED BY <1>1, <1>5 DEF XhrGood, Unlists

\* The page changes the list of listeners, or aborts the request, while they are called.
LEMMA LoadChanges ==
  ASSUME XhrGood(xhr), Loading(xhr),
         \/ Open \/ SendXhr \/ SetOnload \/ ClearOnload \/ HeadersReceived
         \/ Loads \/ Fails \/ Abort
         \/ \E c \in Callbacks : AddListener(c) \/ RemoveListener(c) \/ SignalRemoves(c)
  PROVE  XhrGood(xhr')
<1> DEFINE x == xhr
           y == xhr'
<1>0. /\ DOMAIN x = XhrFields /\ x.disturbed \in BOOLEAN /\ Loading(x) /\ x.req \in Nat
      /\ x.type = "load" /\ x.state \in {"done", "unsent"} /\ InLoad(x) /\ ~Idle(x)
      /\ IsOrder(x.dispatch) /\ IsOrder(x.listeners) /\ x.called \cap Among(x.dispatch) = {}
      /\ Among(x.listeners) \subseteq x.called \cup Among(x.dispatch) /\ Counted(x)
      /\ x.running # Nobody => x.running \in x.called
  BY DEF XhrGood, Loading, InLoad, Idle
<1>1. DOMAIN y = XhrFields /\ y.req \in Nat /\ y.disturbed \in BOOLEAN
  BY StepKeeps DEF XhrGood, Keeps, XhrNext
<1>2. ASSUME y.disturbed PROVE XhrGood(xhr')
  BY <1>1, <1>2 DEF XhrGood, Over
<1>3. CASE Open
  <2> DEFINE o == [x EXCEPT !.req = @ + 1, !.params = x.req + 1, !.status = None, !.aborted = FALSE,
                            !.state = "opened", !.failed = FALSE, !.disturbed = @ \/ InLoad(x)]
  <2>1. xhr' = ReadyStateChange(o)
    BY <1>3 DEF Open
  <2> HIDE DEF x
  <2>2. DOMAIN o = XhrFields
    BY <1>0
  <2>3. o.disturbed = (x.disturbed \/ InLoad(x))
    BY <1>0 DEF XhrFields
  <2> HIDE DEF o
  <2>4. o.disturbed
    BY <1>0, <2>3
  <2>5. Kept(o, y)
    BY <2>1, <2>2, KeptByMethods
  <2>6. y.disturbed
    BY <2>4, <2>5 DEF Kept
  <2>7. QED BY <1>2, <2>6
<1>4. ASSUME NEW c \in Callbacks, AddListener(c) PROVE XhrGood(xhr')
  <2> DEFINE v == LoadAdded(x, Of(c))
  <2>1. y = [v EXCEPT !.disturbed = v.disturbed \/ InLoad(x)]
    BY <1>4 DEF AddListener
  <2>2. Kept(x, v)
    BY <1>0, KeptByMethods
  <2> HIDE DEF v, x
  <2>3. y.disturbed = (v.disturbed \/ InLoad(x))
    BY <1>0, <2>1, <2>2 DEF Kept, XhrFields
  <2> HIDE DEF y
  <2>4. y.disturbed
    BY <1>0, <2>3
  <2>5. QED BY <1>2, <2>4 DEF y
<1>5. CASE SetOnload
  <2>1. y = [x EXCEPT !.listeners = Append(x.listeners, OnLoad), !.onloadWrapped = FALSE,
                      !.disturbed = x.disturbed \/ InLoad(x)]
    BY <1>5 DEF SetOnload
  <2> HIDE DEF x
  <2>2. y.disturbed = (x.disturbed \/ InLoad(x))
    BY <1>0, <2>1 DEF XhrFields
  <2> HIDE DEF y
  <2>3. y.disturbed
    BY <1>0, <2>2
  <2>4. QED BY <1>2, <2>3 DEF y
<1>6. ASSUME NEW c \in Callbacks, RemoveListener(c) PROVE XhrGood(xhr')
  <2> DEFINE l == Of(c)
             v == LoadRemoved(x, l)
  <2>1. /\ y = [v EXCEPT !.disturbed = v.disturbed \/ l \in x.called]
        /\ x.running # Nobody /\ Contains(x.listeners, l)
    BY <1>0, <1>6 DEF RemoveListener, ByPage
  <2>2. /\ SameBut(x, v, OfLists) /\ v.listeners = RemoveFirst(x.listeners, l)
        /\ v.dispatch = RemoveFirst(x.dispatch, l) /\ v.guids = x.guids \ {l}
        /\ v.totalCbs = IF l \in x.guids THEN x.totalCbs - 1 ELSE x.totalCbs
    BY <1>0, RemovedFields
  <2> HIDE DEF v, x
  <2>3. y.disturbed = (v.disturbed \/ l \in x.called) /\ SameBut(v, y, {"disturbed"})
    BY <1>0, <2>1, <2>2 DEF SameBut, XhrFields
  <2>s. SameBut(x, y, OfLists \cup {"disturbed", "state"}) /\ y.state = x.state
    BY <2>2, <2>3 DEF SameBut, OfLists, XhrFields
  <2>4. /\ y.listeners = RemoveFirst(x.listeners, l) /\ y.dispatch = RemoveFirst(x.dispatch, l)
        /\ y.guids = x.guids \ {l} /\ y.calls = x.calls /\ y.running = x.running
        /\ y.totalCbs = IF l \in x.guids THEN x.totalCbs - 1 ELSE x.totalCbs
    BY <2>2, <2>3 DEF SameBut, OfLists, XhrFields
  <2> HIDE DEF l
  <2>5. CASE l \in x.called
    <3>1. y.disturbed
      <4> HIDE DEF y
      <4>1. QED BY <2>3, <2>5
    <3>2. QED BY <1>2, <3>1
  <2>6. CASE l \notin x.called
    <3> HIDE DEF y
    <3>1. /\ IsOrder(y.listeners) /\ Among(y.listeners) = Among(x.listeners) \ {l}
          /\ IsOrder(y.dispatch) /\ Among(y.dispatch) = Among(x.dispatch) \ {l}
      BY <1>0, <2>4, TakenOut
    <3>2. l \in Among(x.listeners)
      BY <2>1 DEF Contains, Among
    <3>3. l \in Left(x)
      <4>1. l \in Among(x.dispatch)
        BY <1>0, <2>6, <3>2
      <4>2. l # OnLoad /\ l # Nobody
        BY HeardIs DEF l
      <4>3. QED BY <4>1, <4>2 DEF Left
    <3>4. Left(y) = Left(x) \ {l}
      BY <1>0, <2>1, <2>4, <2>6, <3>1 DEF Left
    <3>5. Counted(y)
      <4>1. /\ IsFiniteSet(Left(x)) /\ x.calls \in Nat
                   /\ x.totalCbs = x.calls + Cardinality(Left(x))
            /\ Left(x) \subseteq x.guids
        BY <1>0 DEF Counted
      <4>2. IsFiniteSet(Left(x) \ {l})
            /\ Cardinality(Left(x) \ {l}) =
                 IF l \in Left(x) THEN Cardinality(Left(x)) - 1 ELSE Cardinality(Left(x))
        BY <4>1, FS_RemoveElement, Zenon
      <4>3. Cardinality(Left(x)) \in Nat
        BY <4>1, FS_CardinalityType
      <4>4. y.totalCbs = y.calls + Cardinality(Left(y))
        BY <2>4, <3>3, <3>4, <4>1, <4>2, <4>3
      <4>5. QED BY <2>4, <3>4, <4>1, <4>2, <4>4 DEF Counted
    <3>6. Unlists(x, y)
      BY <1>0, <1>1, <2>s, <3>1, <3>5 DEF Unlists
    <3>7. XhrGood(y)
      BY <1>0, <2>1, <3>6, StillLoading
    <3>8. QED BY <3>7 DEF y
  <2>7. QED BY <2>5, <2>6
<1>7. ASSUME NEW c \in Callbacks, SignalRemoves(c) PROVE XhrGood(xhr')
  <2> DEFINE l == Of(c)
             v == Without(x, l)
  <2>1. /\ y = [v EXCEPT !.disturbed = v.disturbed \/ l \notin x.called]
        /\ x.running # Nobody
    BY <1>0, <1>7 DEF SignalRemoves, ByPage
  <2>2. /\ SameBut(x, v, {"listeners", "dispatch"}) /\ v.listeners = RemoveFirst(x.listeners, l)
        /\ v.dispatch = RemoveFirst(x.dispatch, l)
    BY <1>0, WithoutIs
  <2> HIDE DEF v, x
  <2>3. y.disturbed = (v.disturbed \/ l \notin x.called) /\ SameBut(v, y, {"disturbed"})
    BY <1>0, <2>1, <2>2 DEF SameBut, XhrFields
  <2>s. SameBut(x, y, OfLists \cup {"disturbed", "state"}) /\ y.state = x.state
    BY <2>2, <2>3 DEF SameBut, OfLists, XhrFields
  <2>4. /\ y.listeners = RemoveFirst(x.listeners, l) /\ y.dispatch = RemoveFirst(x.dispatch, l)
        /\ y.guids = x.guids /\ y.calls = x.calls /\ y.running = x.running
        /\ y.totalCbs = x.totalCbs
    BY <2>2, <2>3 DEF SameBut, OfLists, XhrFields
  <2> HIDE DEF l
  <2>5. CASE l \notin x.called
    <3>1. y.disturbed
      <4> HIDE DEF y
      <4>1. QED BY <2>3, <2>5
    <3>2. QED BY <1>2, <3>1
  <2>6. CASE l \in x.called
    <3> HIDE DEF y
    <3>1. /\ IsOrder(y.listeners) /\ Among(y.listeners) = Among(x.listeners) \ {l}
          /\ IsOrder(y.dispatch) /\ Among(y.dispatch) = Among(x.dispatch) \ {l}
      BY <1>0, <2>4, TakenOut
    <3>2. Among(y.dispatch) = Among(x.dispatch)
      BY <1>0, <2>6, <3>1
    <3>3. Left(y) = Left(x)
      BY <2>4, <3>2 DEF Left
    <3>4. Counted(y)
      BY <1>0, <2>4, <3>3 DEF Counted
    <3>5. Unlists(x, y)
      BY <1>0, <1>1, <2>s, <3>1, <3>2, <3>4 DEF Unlists
    <3>6. XhrGood(y)
      BY <1>0, <2>1, <3>5, StillLoading
    <3>7. QED BY <3>6 DEF y
  <2>7. QED BY <2>5, <2>6
<1>8. CASE ClearOnload
  <2>1. y = Without(x, OnLoad) /\ x.running # Nobody
    BY <1>0, <1>8 DEF ClearOnload, ByPage
  <2>2. /\ SameBut(x, y, {"listeners", "dispatch"})
               /\ y.listeners = RemoveFirst(x.listeners, OnLoad)
        /\ y.dispatch = RemoveFirst(x.dispatch, OnLoad)
    BY <1>0, <2>1, WithoutIs
  <2> HIDE DEF x, y
  <2>s. SameBut(x, y, OfLists \cup {"disturbed", "state"}) /\ y.state = x.state
    BY <2>2 DEF SameBut, OfLists, XhrFields
  <2>3. /\ y.guids = x.guids /\ y.calls = x.calls /\ y.running = x.running
        /\ y.totalCbs = x.totalCbs
    BY <1>0, <2>2 DEF SameBut, XhrFields
  <2>4. /\ IsOrder(y.listeners) /\ Among(y.listeners) = Among(x.listeners) \ {OnLoad}
        /\ IsOrder(y.dispatch) /\ Among(y.dispatch) = Among(x.dispatch) \ {OnLoad}
    BY <1>0, <2>2, TakenOut
  <2>5. Left(y) = Left(x)
    BY <2>3, <2>4 DEF Left
  <2>6. Counted(y)
    BY <1>0, <2>3, <2>5 DEF Counted
  <2>7. Unlists(x, y)
    BY <1>0, <1>1, <2>s, <2>4, <2>6 DEF Unlists
  <2>8. XhrGood(y)
    BY <1>0, <2>1, <2>7, StillLoading
  <2>9. QED BY <2>8 DEF y
<1>9. CASE Abort
  <2>1. y = [x EXCEPT !.state = "unsent"] /\ x.running # Nobody
    BY <1>0, <1>9 DEF Abort, ByPage
  <2> HIDE DEF x, y
  <2>2. SameBut(x, y, OfLists \cup {"disturbed", "state"}) /\ y.state = "unsent"
    BY <1>0, <2>1 DEF SameBut, XhrFields
  <2>3. /\ y.guids = x.guids /\ y.calls = x.calls /\ y.running = x.running
        /\ y.totalCbs = x.totalCbs /\ y.listeners = x.listeners /\ y.dispatch = x.dispatch
    BY <1>0, <2>1 DEF XhrFields
  <2>4. Counted(y)
    BY <1>0, <2>3 DEF Counted, Left
  <2>5. Unlists(x, y)
    BY <1>0, <1>1, <2>2, <2>3, <2>4 DEF Unlists
  <2>6. XhrGood(y)
    BY <1>0, <2>1, <2>5, StillLoading
  <2>7. QED BY <2>6 DEF y
<1>10. CASE SendXhr \/ HeadersReceived \/ Loads \/ Fails
  BY <1>0, <1>10 DEF SendXhr, HeadersReceived, Loads, Fails
<1>11. QED BY <1>3, <1>4, <1>5, <1>6, <1>7, <1>8, <1>9, <1>10

(***************************************************************************)
(* The first request fails: onerror is called, and the listener of the     *)
(* send reports it unless it was aborted.                                  *)
(***************************************************************************)
OfPage == {"listeners", "guids", "totalCbs", "onloadWrapped", "disturbed", "state"}
LEMMA StillFailing ==
  ASSUME NEW x, DOMAIN x = XhrFields, x.req \in Nat, Failing(x), NEW y, SameBut(x, y, OfPage),
         y.state \in {"done", "unsent"}, y.disturbed \in BOOLEAN
  PROVE  XhrGood(y)
<1>1. /\ DOMAIN y = XhrFields /\ y.settled = x.settled
      /\ y.req = x.req /\ y.params = x.params /\ y.start = x.start /\ y.end = x.end
      /\ y.type = x.type /\ y.ended = x.ended /\ y.reports = x.reports
      /\ y.aborted = x.aborted /\ y.running = x.running /\ y.dispatch = x.dispatch
      /\ y.loadCaptureCalled = x.loadCaptureCalled /\ y.status = x.status
      /\ y.failed = x.failed /\ y.listener = x.listener
  BY DEF SameBut, OfPage, XhrFields
<1>2. OfFirst(y)
  BY <1>1 DEF Failing, OfFirst
<1>3. Failing(y)
  BY <1>1, <1>2 DEF Failing
<1>4. QED BY <1>1, <1>3 DEF XhrGood

LEMMA NotListed == ASSUME NEW l, l \notin {OnError, EndOf(1)}
                   PROVE  /\ RemoveFirst(<<OnError, EndOf(1)>>, l) = <<OnError, EndOf(1)>>
                          /\ RemoveFirst(<<EndOf(1)>>, l) = <<EndOf(1)>>
<1>1. ASSUME NEW s, l \notin Among(s) PROVE RemoveFirst(s, l) = s
  BY <1>1 DEF RemoveFirst, Among
<1>2. Among(<<OnError, EndOf(1)>>) = {OnError, EndOf(1)} /\ Among(<<EndOf(1)>>) = {EndOf(1)}
  BY DEF Among
<1>3. QED BY <1>1, <1>2

LEMMA FailChanges ==
  ASSUME XhrGood(xhr), Failing(xhr),
         \/ Open \/ SendXhr \/ SetOnload \/ ClearOnload \/ HeadersReceived
         \/ Loads \/ Fails \/ Abort
         \/ \E c \in Callbacks : AddListener(c) \/ RemoveListener(c) \/ SignalRemoves(c)
  PROVE  XhrGood(xhr')
<1> DEFINE x == xhr
           y == xhr'
<1>0. /\ DOMAIN x = XhrFields /\ x.disturbed \in BOOLEAN /\ Failing(x) /\ x.req \in Nat
      /\ x.state \in {"done", "unsent"} /\ x.req = 1 /\ x.settled = "no"
      /\ x.dispatch \in {<<OnError, EndOf(1)>>, <<EndOf(1)>>}
  BY DEF XhrGood, Failing, OfFirst
<1>1. DOMAIN y = XhrFields /\ y.req \in Nat /\ y.disturbed \in BOOLEAN
  BY StepKeeps DEF XhrGood, Keeps, XhrNext
<1>2. \A c \in Callbacks : Of(c) \notin {OnError, EndOf(1)}
  BY HeardIs
<1>3. CASE Open
  <2> DEFINE o == [x EXCEPT !.req = @ + 1, !.params = x.req + 1, !.status = None, !.aborted = FALSE,
                            !.state = "opened", !.failed = FALSE, !.disturbed = @ \/ InLoad(x)]
  <2>1. y = ReadyStateChange(o)
    BY <1>3 DEF Open
  <2> HIDE DEF x, y
  <2>2. DOMAIN o = XhrFields /\ o.req = 2 /\ o.settled = "no"
    BY <1>0 DEF XhrFields
  <2> HIDE DEF o
  <2>3. Kept(o, y)
    BY <2>1, <2>2, KeptByMethods
  <2>4. Over(y)
    BY <2>2, <2>3 DEF Kept, Over
  <2>5. QED BY <1>1, <2>4 DEF XhrGood, y
<1>4. ASSUME SameBut(x, y, OfPage), y.state \in {"done", "unsent"} PROVE XhrGood(xhr')
  <2> HIDE DEF x, y
  <2>1. XhrGood(y)
    BY <1>0, <1>1, <1>4, StillFailing
  <2>2. QED BY <2>1 DEF y
<1>5. ASSUME NEW c \in Callbacks, AddListener(c) PROVE XhrGood(xhr')
  <2> DEFINE v == LoadAdded(x, Of(c))
  <2>1. y = [v EXCEPT !.disturbed = v.disturbed \/ InLoad(x)]
    BY <1>5 DEF AddListener
  <2> HIDE DEF x, y
  <2>2. SameBut(x, v, {"listeners", "guids", "totalCbs"})
    BY <1>0 DEF LoadAdded, SameBut, XhrFields
  <2> HIDE DEF v
  <2>3. SameBut(v, y, {"disturbed"})
    BY <1>0, <2>1, <2>2 DEF SameBut, XhrFields
  <2>4. SameBut(x, y, OfPage) /\ y.state = x.state
    BY <2>2, <2>3 DEF SameBut, OfPage, XhrFields
  <2>5. QED BY <1>0, <1>4, <2>4
<1>6. ASSUME NEW c \in Callbacks, RemoveListener(c) PROVE XhrGood(xhr')
  <2> DEFINE v == LoadRemoved(x, Of(c))
  <2>1. y = [v EXCEPT !.disturbed = v.disturbed \/ Of(c) \in x.called]
    BY <1>6 DEF RemoveListener
  <2> HIDE DEF x, y
  <2>2. SameBut(x, v, OfLists) /\ v.dispatch = x.dispatch
    BY <1>0, <1>2, RemovedFields, NotListed
  <2> HIDE DEF v
  <2>3. SameBut(v, y, {"disturbed"})
    BY <1>0, <2>1, <2>2 DEF SameBut, XhrFields
  <2>4. SameBut(x, y, OfPage) /\ y.state = x.state
    BY <2>2, <2>3 DEF SameBut, OfPage, OfLists, XhrFields
  <2>5. QED BY <1>0, <1>4, <2>4
<1>7. ASSUME NEW c \in Callbacks, SignalRemoves(c) PROVE XhrGood(xhr')
  <2> DEFINE v == Without(x, Of(c))
  <2>1. y = [v EXCEPT !.disturbed = v.disturbed \/ Of(c) \notin x.called]
    BY <1>7 DEF SignalRemoves
  <2> HIDE DEF x, y
  <2>2. SameBut(x, v, {"listeners", "dispatch"}) /\ v.dispatch = x.dispatch
    BY <1>0, <1>2, WithoutIs, NotListed
  <2> HIDE DEF v
  <2>3. SameBut(v, y, {"disturbed"})
    BY <1>0, <2>1, <2>2 DEF SameBut, XhrFields
  <2>4. SameBut(x, y, OfPage) /\ y.state = x.state
    BY <2>2, <2>3 DEF SameBut, OfPage, XhrFields
  <2>5. QED BY <1>0, <1>4, <2>4
<1>8. CASE SetOnload
  <2>1. y = [x EXCEPT !.listeners = Append(x.listeners, OnLoad), !.onloadWrapped = FALSE,
                      !.disturbed = x.disturbed \/ InLoad(x)]
    BY <1>8 DEF SetOnload
  <2> HIDE DEF x, y
  <2>2. SameBut(x, y, OfPage) /\ y.state = x.state
    BY <1>0, <2>1 DEF SameBut, OfPage, XhrFields
  <2>3. QED BY <1>0, <1>4, <2>2
<1>9. CASE ClearOnload
  <2>1. y = Without(x, OnLoad)
    BY <1>9 DEF ClearOnload
  <2> HIDE DEF x
  <2>2. SameBut(x, y, {"listeners", "dispatch"}) /\ y.dispatch = x.dispatch
    BY <1>0, <2>1, WithoutIs, NotListed, HeardIs
  <2> HIDE DEF y
  <2>3. SameBut(x, y, OfPage) /\ y.state = x.state
    BY <2>2 DEF SameBut, OfPage, XhrFields
  <2>4. QED BY <1>0, <1>4, <2>3
<1>10. CASE Abort
  <2>1. y = [x EXCEPT !.state = "unsent"]
    BY <1>0, <1>10 DEF Abort
  <2> HIDE DEF x, y
  <2>2. SameBut(x, y, OfPage) /\ y.state = "unsent"
    BY <1>0, <2>1 DEF SameBut, OfPage, XhrFields
  <2>3. QED BY <1>4, <2>2
<1>11. CASE SendXhr \/ HeadersReceived \/ Loads \/ Fails
  BY <1>0, <1>11 DEF SendXhr, HeadersReceived, Loads, Fails
<1>12. QED BY <1>3, <1>5, <1>6, <1>7, <1>8, <1>9, <1>10, <1>11

LEMMA FailCalls ==
  ASSUME XhrGood(xhr), Failing(xhr), CallListener
  PROVE  XhrGood(xhr')
<1> DEFINE x == xhr
           y == xhr'
           l == Head(x.dispatch)
           v == [x EXCEPT !.dispatch = Tail(x.dispatch), !.called = x.called \cup {l}]
           c == CaptureXhrData(v)
<1>0. /\ DOMAIN x = XhrFields /\ x.disturbed \in BOOLEAN /\ Failing(x) /\ x.req \in Nat
      /\ x.req = 1 /\ x.settled = "no" /\ x.params = 1 /\ x.start = 1 /\ x.end = 1
      /\ x.type \in {"error", "abort"} /\ ~x.ended /\ x.reports = <<>> /\ ~x.aborted
      /\ ~x.loadCaptureCalled /\ x.failed /\ x.status = None /\ x.listener = 1
      /\ x.running = Nobody /\ x.dispatch \in {<<OnError, EndOf(1)>>, <<EndOf(1)>>}
  BY DEF XhrGood, Failing, OfFirst, CallListener
<1>1. y = IF IsOfPage(l) THEN [v EXCEPT !.running = l]
          ELSE IF l = Capture THEN Settle(CbTime(c, l))
          ELSE IF InLoad(v) THEN Settle(CbTime(OnEvent(v), l))
          ELSE Settle(OnEvent(v))
  BY DEF CallListener
<1> HIDE DEF x, y, c
<1>2. SameBut(x, v, {"dispatch", "called"}) /\ v.dispatch = Tail(x.dispatch) /\ DOMAIN v = XhrFields
  BY <1>0 DEF SameBut, XhrFields
<1> HIDE DEF v
<1>3. CASE x.dispatch = <<OnError, EndOf(1)>>
  <2>1. l = OnError /\ Tail(x.dispatch) = <<EndOf(1)>>
    BY <1>3
  <2>2. y = [v EXCEPT !.running = OnError]
    BY <1>1, <2>1, HeardIs
  <2>3. SameBut(x, y, {"dispatch", "called", "running"}) /\ y.dispatch = <<EndOf(1)>>
        /\ y.running = OnError
    BY <1>0, <1>2, <2>1, <2>2 DEF SameBut, XhrFields
  <2>4. /\ DOMAIN y = XhrFields /\ y.settled = x.settled
        /\ y.req = x.req /\ y.params = x.params /\ y.start = x.start /\ y.end = x.end
        /\ y.type = x.type /\ y.ended = x.ended /\ y.reports = x.reports
        /\ y.aborted = x.aborted /\ y.state = x.state /\ y.disturbed = x.disturbed
        /\ y.loadCaptureCalled = x.loadCaptureCalled /\ y.status = x.status
        /\ y.failed = x.failed /\ y.listener = x.listener
    BY <1>0, <2>3, ZenonT(60) DEF SameBut, XhrFields
  <2>5. OfFirst(y)
    BY <1>0, <2>4 DEF OfFirst
  <2>6. Failing(y)
    BY <1>0, <2>3, <2>4, <2>5 DEF Failing
  <2>7. QED BY <1>0, <2>4, <2>6 DEF XhrGood, y
<1>4. CASE x.dispatch = <<EndOf(1)>>
  <2>1. l = EndOf(1) /\ Tail(x.dispatch) = <<>>
    BY <1>4
  <2>2. /\ DOMAIN v = XhrFields /\ v.dispatch = <<>> /\ v.settled = x.settled
        /\ v.req = x.req /\ v.params = x.params /\ v.start = x.start /\ v.end = x.end
        /\ v.type = x.type /\ v.ended = x.ended /\ v.reports = x.reports
        /\ v.aborted = x.aborted /\ v.state = x.state /\ v.disturbed = x.disturbed
        /\ v.loadCaptureCalled = x.loadCaptureCalled /\ v.status = x.status
        /\ v.failed = x.failed /\ v.listener = x.listener
    BY <1>2, <2>1 DEF SameBut, XhrFields
  <2>3. y = Settle(OnEvent(v)) /\ v.type # "load"
    BY <1>0, <1>1, <2>1, <2>2, HeardIs DEF InLoad
  <2> DEFINE w == IF v.type = "abort" THEN [v EXCEPT !.aborted = TRUE] ELSE v
             e == End(w)
  <2>4. OnEvent(v) = e
    BY <1>0, <2>2, <2>3 DEF OnEvent
  <2>5. SameBut(v, w, {"aborted"}) /\ (w.aborted <=> x.type = "abort")
    <3>1. CASE v.type = "abort"
      BY <2>2, <3>1 DEF SameBut, XhrFields
    <3>2. CASE v.type # "abort"
      BY <1>0, <2>2, <3>2 DEF SameBut, XhrFields
    <3>3. QED BY <3>1, <3>2
  <2> HIDE DEF w
  <2>6. /\ DOMAIN w = XhrFields /\ w.dispatch = <<>> /\ w.settled = "no" /\ w.req = 1
               /\ w.params = 1
        /\ w.start = 1 /\ w.end = 1 /\ w.type = x.type /\ ~w.ended /\ w.reports = <<>>
        /\ w.disturbed = x.disturbed /\ ~w.loadCaptureCalled /\ w.status = None
        /\ w.failed /\ w.listener = 1
    <3>1. /\ DOMAIN w = XhrFields /\ w.dispatch = v.dispatch /\ w.settled = v.settled
          /\ w.req = v.req /\ w.params = v.params /\ w.start = v.start /\ w.end = v.end
          /\ w.type = v.type /\ w.ended = v.ended /\ w.reports = v.reports
          /\ w.disturbed = v.disturbed /\ w.loadCaptureCalled = v.loadCaptureCalled
          /\ w.status = v.status /\ w.failed = v.failed /\ w.listener = v.listener
      BY <2>2, <2>5 DEF SameBut, XhrFields
    <3>2. QED BY <1>0, <2>2, <3>1
  <2>7. /\ DOMAIN e = XhrFields /\ e.req = w.req /\ e.settled = w.settled /\ e.type = w.type
        /\ e.disturbed = w.disturbed /\ e.ended
        /\ e.dispatch = RemoveFirst(<<>>, EndOf(w.listener))
        /\ w.aborted => e.reports = w.reports
        /\ ~w.aborted => e.reports = Append(w.reports,
             [params |-> w.params, start |-> w.start, end |-> w.end,
              status |-> IF ~w.loadCaptureCalled /\ w.state = "done"
                         THEN IF ~w.failed THEN w.req ELSE None ELSE w.status])
    BY <2>6, EndIs
  <2> HIDE DEF e
  <2>8. e.dispatch = <<>>
    BY <2>7, NothingRemoved
  <2>9. e.reports = Expected(x.type)
    <3>1. CASE x.type = "abort"
      BY <2>5, <2>6, <2>7, <3>1 DEF Expected
    <3>2. CASE x.type = "error"
      <4>1. e.reports = Append(<<>>, [params |-> 1, start |-> 1, end |-> 1, status |-> None])
        BY <2>5, <2>6, <2>7, <3>2
      <4>2. QED BY <3>2, <4>1 DEF Expected
    <3>3. QED BY <1>0, <3>1, <3>2
  <2>10. /\ DOMAIN y = XhrFields /\ y.req = 1 /\ y.ended /\ y.disturbed = x.disturbed
         /\ y.reports = Expected(x.type) /\ y.settled = x.type
    BY <2>3, <2>4, <2>6, <2>7, <2>8, <2>9, SettleIs
  <2>11. Over(y)
    BY <1>0, <2>10 DEF Over
  <2>12. QED BY <1>0, <2>10, <2>11 DEF XhrGood, y
<1>5. QED BY <1>0, <1>3, <1>4

LEMMA FailReturns ==
  ASSUME XhrGood(xhr), Failing(xhr), Returns
  PROVE  XhrGood(xhr')
<1> DEFINE x == xhr
           y == xhr'
           v == [x EXCEPT !.running = Nobody]
<1>0. /\ DOMAIN x = XhrFields /\ x.disturbed \in BOOLEAN /\ Failing(x) /\ x.req \in Nat
      /\ x.dispatch = <<EndOf(1)>> /\ x.type # "load"
  BY DEF XhrGood, Failing, Returns
<1>1. y = Settle(v)
  BY <1>0 DEF Returns, InLoad
<1> HIDE DEF x, y
<1>2. SameBut(x, v, {"running"}) /\ v.running = Nobody /\ v.dispatch = x.dispatch
  BY <1>0 DEF SameBut, XhrFields
<1> HIDE DEF v
<1>d. v.dispatch # <<>>
  BY <1>0, <1>2
<1>3. y = v
  BY <1>1, <1>d DEF Settle
<1>4. /\ DOMAIN y = XhrFields /\ y.settled = x.settled
      /\ y.req = x.req /\ y.params = x.params /\ y.start = x.start /\ y.end = x.end
      /\ y.type = x.type /\ y.ended = x.ended /\ y.reports = x.reports
      /\ y.aborted = x.aborted /\ y.state = x.state /\ y.disturbed = x.disturbed
      /\ y.loadCaptureCalled = x.loadCaptureCalled /\ y.status = x.status
      /\ y.failed = x.failed /\ y.listener = x.listener /\ y.dispatch = x.dispatch
      /\ y.running = Nobody
  BY <1>0, <1>2, <1>3 DEF SameBut, XhrFields
<1>5. OfFirst(y)
  BY <1>0, <1>4 DEF Failing, OfFirst
<1>6. Failing(y)
  BY <1>0, <1>4, <1>5 DEF Failing
<1>7. QED BY <1>0, <1>4, <1>6 DEF XhrGood, y
LEMMA XhrStep ==
  ASSUME XhrGood(xhr), XhrNext \/ HeadersReceived
  PROVE  XhrGood(xhr')
<1>1. CASE Over(xhr) \/ Loaded(xhr)
  <2>1. Keeps(xhr, xhr')
    BY StepKeeps DEF XhrGood
  <2>2. QED BY <1>1, <2>1, OverStays
<1> DEFINE Changes ==
             \/ Open \/ SendXhr \/ SetOnload \/ ClearOnload \/ HeadersReceived
             \/ \E c \in Callbacks : AddListener(c) \/ RemoveListener(c) \/ SignalRemoves(c)
<1>2. Changes \/ Loads \/ Fails \/ Abort \/ CallListener \/ Returns
  BY DEF XhrNext
<1>3. CASE Before(xhr)
  <2>1. ~CallListener /\ ~Returns
    BY <1>3 DEF Before, CallListener, Returns
  <2>2. QED BY <1>2, <1>3, <2>1, BeforeChanges, LoadStarts, FailStarts
<1>4. CASE Loading(xhr)
  BY <1>2, <1>4, LoadChanges, LoadCalls, LoadReturns
<1>5. CASE Failing(xhr)
  BY <1>2, <1>5, FailChanges, FailCalls, FailReturns
<1>6. QED BY <1>1, <1>3, <1>4, <1>5 DEF XhrGood

LEMMA XhrStart == ASSUME NEW script, XhrInit(script) PROVE XhrGood(xhr)
<1>1. /\ DOMAIN xhr = XhrFields /\ xhr.req = 0 /\ xhr.disturbed = FALSE /\ xhr.settled = "no"
      /\ xhr.type = "none" /\ xhr.running = Nobody /\ xhr.dispatch = <<>> /\ xhr.called = {}
      /\ ~xhr.ended /\ xhr.reports = <<>> /\ ~xhr.loadCaptureCalled /\ xhr.resolved = FALSE
      /\ ~xhr.aborted /\ ~xhr.onloadCalled /\ xhr.status = None /\ ~xhr.failed /\ xhr.calls = 0
      /\ xhr.state = "unsent" /\ xhr.listeners = <<Capture>> /\ xhr.guids = {Capture}
      /\ xhr.totalCbs = 1
  BY DEF XhrInit, XhrFields, None
<1>2. Listed(xhr)
  <2>1. IsOrder(<<Capture>>) /\ Among(<<Capture>>) = {Capture} /\ Len(<<Capture>>) > 0
        /\ <<Capture>>[1] = Capture
    BY DEF IsOrder, Among, Heard
  <2>2. IsFiniteSet({Capture}) /\ Cardinality({Capture}) = 1
    BY FS_Singleton
  <2>3. QED BY <1>1, <2>1, <2>2, HeardIs DEF Listed
<1>3. Made(xhr)
  BY <1>1 DEF Made
<1>4. Before(xhr)
  <2> DEFINE x == xhr
  <2>1. /\ x.settled = "no" /\ x.type = "none" /\ x.running = Nobody /\ x.called = {} /\ ~x.ended
        /\ x.dispatch = <<>> /\ x.reports = <<>>
    BY <1>1
  <2>2. /\ ~x.loadCaptureCalled /\ ~x.aborted /\ x.resolved = FALSE /\ ~x.onloadCalled
        /\ x.status = None /\ ~x.failed /\ x.calls = 0 /\ Made(x) /\ Listed(x)
    BY <1>1, <1>2, <1>3
  <2> HIDE DEF x
  <2>3. Before(x)
    BY <2>1, <2>2 DEF Before
  <2>4. QED BY <2>3 DEF x
<1>5. xhr.req \in Nat /\ xhr.disturbed \in BOOLEAN
  BY DEF XhrInit, None
<1>6. QED BY <1>1, <1>4, <1>5 DEF XhrGood

HIDE XhrAssumption
-----------------------------------------------------------------------------
(***************************************************************************)
(* The page: what the methods that work on the world need of it.           *)
(***************************************************************************)
WorldFields == {"ua", "pvt", "ws", "mf", "mfe", "agg", "met", "custom", "page"}
PageFields == {"stage", "ins", "queue", "inputs", "events", "hidden", "hides", "closed"}
Kinds == {"ua", "uaXhr", "uaErr", "ws-complete", "api", "docHidden", "winPagehide", "xhr", "sm"}
Messages ==
  [kind : Kinds, arg : Elements \cup {NoElement} \cup FetchIds \cup SocketIds]

PageGood(p) ==
  /\ DOMAIN p = PageFields /\ p.queue \in Seq(Messages)
  /\ p.stage = "on" => p.queue = <<>>
  /\ \A i \in 1..Len(p.queue) : p.queue[i].kind = "ua" => p.queue[i].arg \in Elements
\* There is room for an action for each event that waits, and none is open before the drain
RoomFor(u, p) ==
  /\ \A i \in 1..Len(p.queue) : p.queue[i].kind = "ua" => u.last + i <= MaxActions
  /\ p.stage # "on" => u.key = NoElement
\* A call that is over and whose message waits was not stored yet, and has no other message
CallsWait(m, q) ==
  /\ \A i \in 1..Len(q) : q[i].kind = "xhr" =>
       q[i].arg \in FetchIds /\ m.calls[q[i].arg].state = "reported"
  /\ \A i, j \in 1..Len(q) :
       q[i].kind = "xhr" /\ q[j].kind = "xhr" /\ q[i].arg = q[j].arg => i = j
CustomGood(g) == DOMAIN g = {"calls", "marks", "waiting", "buffer", "sent"} /\ g.waiting \in Nat
GoodParts(u, p, m, g) ==
  /\ UserActionsGood(u) /\ PageGood(p) /\ RoomFor(u, p) /\ CustomGood(g)
  /\ FetchesGood(m) /\ CallsWait(m, p.queue)

Good(w) == DOMAIN w = WorldFields /\ GoodParts(w.ua, w.page, w.mf, w.custom)

\* The world v comes from w by methods that have nothing to do with errors and frontends
Later(w, v) == Good(v) /\ v.agg = w.agg /\ v.mfe = w.mfe

LEMMA WorldIs ==
  /\ DOMAIN World = WorldFields /\ World.ua = ua /\ World.page = page /\ World.mf = mf
  /\ World.custom = custom /\ World.agg = agg /\ World.mfe = mfe /\ World.pvt = pvt
  /\ World.ws = ws /\ World.met = met
BY DEF World, WorldFields

\* Changes that matter to none of the parts
LEMMA SameGood ==
  ASSUME NEW w, Good(w), NEW v, DOMAIN v = DOMAIN w, v.ua = w.ua, v.page = w.page,
         v.mf = w.mf, v.custom = w.custom, v.agg = w.agg, v.mfe = w.mfe
  PROVE  Later(w, v)
BY DEF Good, Later

\* The user actions change, without a new one
LEMMA ActionsGood ==
  ASSUME NEW w, Good(w), NEW v, DOMAIN v = DOMAIN w, v.page = w.page,
         v.mf = w.mf, v.custom = w.custom, v.agg = w.agg, v.mfe = w.mfe,
         UserActionsGood(v.ua), v.ua.last = w.ua.last,
         v.ua.key \in {w.ua.key, NoElement}
  PROVE  Later(w, v)
<1>1. RoomFor(v.ua, v.page)
  BY DEF Good, GoodParts, RoomFor
<1>2. QED BY <1>1 DEF Good, GoodParts, Later

LEMMA WithActionsIs ==
  ASSUME NEW w, DOMAIN w = WorldFields, NEW u
  PROVE  LET v == WithActions(w, u)
         IN /\ DOMAIN v = DOMAIN w /\ v.ua = u /\ v.page = w.page /\ v.mf = w.mf
            /\ v.custom = w.custom /\ v.agg = w.agg /\ v.mfe = w.mfe
BY DEF WithActions, WorldFields

LEMMA AddEventsGood ==
  ASSUME NEW w, Good(w), NEW v, DOMAIN v = DOMAIN w, v.ua = w.ua, v.page = w.page,
         v.mf = w.mf, v.agg = w.agg, v.mfe = w.mfe, CustomGood(v.custom)
  PROVE  Later(w, v)
BY DEF Good, GoodParts, Later

LEMMA FetchesLater ==
  ASSUME NEW w, Good(w), NEW v, DOMAIN v = DOMAIN w, v.ua = w.ua, v.page = w.page,
         v.custom = w.custom, v.agg = w.agg, v.mfe = w.mfe, FetchesGood(v.mf),
         CallsStay(w.mf, v.mf)
  PROVE  Later(w, v)
<1>1. CallsWait(v.mf, w.page.queue)
  BY DEF Good, GoodParts, CallsWait, CallsStay
<1>2. QED BY <1>1 DEF Good, GoodParts, Later

\* A message is received after the drain.
Received(w, m, v) ==
  /\ Later(w, v) /\ v.page = w.page
  /\ v.ua.last <= w.ua.last + 1 /\ (m.kind # "ua" => v.ua.last = w.ua.last)
  /\ \A x \in FetchIds :
       m.kind # "xhr" \/ x # m.arg => v.mf.calls[x] = w.mf.calls[x]

LEMMA ReceiveGenericGood ==
  ASSUME NEW w, Good(w), w.page.stage = "on", NEW m \in Messages,
         m.kind \in {"ua", "uaXhr", "uaErr", "ws-complete", "api"},
         m.kind = "ua" => m.arg \in Elements /\ (m.arg # w.ua.key => w.ua.last < MaxActions)
  PROVE  Received(w, m, ReceiveGeneric(w, m))
<1> DEFINE v == ReceiveGeneric(w, m)
<1>0. /\ DOMAIN w = WorldFields /\ UserActionsGood(w.ua) /\ CustomGood(w.custom)
      /\ w.ua.last \in Nat /\ w.page.queue = <<>>
  BY DEF Good, GoodParts, PageGood, UserActionsGood, UserActionsTypes
<1>1. CASE ~w.page.ins
  <2>1. v = w
    BY <1>1 DEF ReceiveGeneric
  <2>2. QED BY <2>1, <1>0 DEF Received, Later
<1>2. CASE w.page.ins /\ m.kind = "ua"
  <2> DEFINE u == Process(w.ua, m.arg)
  <2>1. UserActionsGood(u) /\ u.last <= w.ua.last + 1
    BY <1>0, <1>2, ProcessGood
  <2>2. v = WithActions(w, u)
    BY <1>2 DEF ReceiveGeneric
  <2> HIDE DEF u
  <2>3. /\ DOMAIN v = DOMAIN w /\ v.ua = u /\ v.page = w.page /\ v.mf = w.mf
        /\ v.custom = w.custom /\ v.agg = w.agg /\ v.mfe = w.mfe
    BY <1>0, <2>2, WithActionsIs
  <2> HIDE DEF v
  <2>4. RoomFor(u, w.page)
    <3>1. Len(w.page.queue) = 0
      BY <1>0
    <3>2. QED BY <3>1 DEF RoomFor
  <2>5. Good(v)
    BY <2>1, <2>3, <2>4 DEF Good, GoodParts
  <2>6. QED BY <1>2, <2>1, <2>3, <2>5 DEF Received, Later, v
<1>3. CASE w.page.ins /\ m.kind = "uaXhr"
  <2> DEFINE u == IsLiveClick(w.ua)
  <2>1. UserActionsGood(u) /\ u.last = w.ua.last /\ u.key = w.ua.key
    BY <1>0, IsLiveClickGood
  <2>2. v = [w EXCEPT !.ua = u]
    BY <1>3 DEF ReceiveGeneric
  <2> HIDE DEF u
  <2>3. /\ DOMAIN v = DOMAIN w /\ v.ua = u /\ v.page = w.page /\ v.mf = w.mf
        /\ v.custom = w.custom /\ v.agg = w.agg /\ v.mfe = w.mfe
    BY <1>0, <2>2 DEF WorldFields
  <2> HIDE DEF v
  <2>4. Later(w, v)
    BY <2>1, <2>3, ActionsGood
  <2>5. QED BY <1>0, <2>1, <2>3, <2>4 DEF Received, v
<1>4. CASE w.page.ins /\ m.kind = "uaErr"
  <2> DEFINE u == MarkAsErrorClick(w.ua)
  <2>1. UserActionsGood(u) /\ u.last = w.ua.last /\ u.key = w.ua.key
    BY <1>0, MarkAsErrorClickGood
  <2>2. v = [w EXCEPT !.ua = u]
    BY <1>4 DEF ReceiveGeneric
  <2> HIDE DEF u
  <2>3. /\ DOMAIN v = DOMAIN w /\ v.ua = u /\ v.page = w.page /\ v.mf = w.mf
        /\ v.custom = w.custom /\ v.agg = w.agg /\ v.mfe = w.mfe
    BY <1>0, <2>2 DEF WorldFields
  <2> HIDE DEF v
  <2>4. Later(w, v)
    BY <2>1, <2>3, ActionsGood
  <2>5. QED BY <1>0, <2>1, <2>3, <2>4 DEF Received, v
<1>5. CASE w.page.ins /\ m.kind = "ws-complete"
  <2>1. v = [w EXCEPT !.ws = AddSocketEvent(w.ws, m.arg),
            !.met = StoreSupportabilityMetrics(w.met, 1)]
    BY <1>5 DEF ReceiveGeneric
  <2>2. /\ DOMAIN v = DOMAIN w /\ v.ua = w.ua /\ v.page = w.page /\ v.mf = w.mf
        /\ v.custom = w.custom /\ v.agg = w.agg /\ v.mfe = w.mfe
    BY <1>0, <2>1 DEF WorldFields
  <2> HIDE DEF v
  <2>3. Later(w, v)
    BY <2>2, SameGood
  <2>4. QED BY <1>0, <2>2, <2>3 DEF Received, v
<1>6. CASE w.page.ins /\ m.kind = "api"
  <2> DEFINE g == AddEvents(w.custom, 1)
  <2>1. v = [w EXCEPT !.custom = g]
    BY <1>6 DEF ReceiveGeneric
  <2>2. CustomGood(g)
    BY <1>0 DEF AddEvents, CustomGood
  <2> HIDE DEF g
  <2>3. /\ DOMAIN v = DOMAIN w /\ v.ua = w.ua /\ v.page = w.page /\ v.mf = w.mf
        /\ v.custom = g /\ v.agg = w.agg /\ v.mfe = w.mfe
    BY <1>0, <2>1 DEF WorldFields
  <2> HIDE DEF v
  <2>4. Later(w, v)
    BY <2>2, <2>3, AddEventsGood
  <2>5. QED BY <1>0, <2>3, <2>4 DEF Received, v
<1>7. QED BY <1>1, <1>2, <1>3, <1>4, <1>5, <1>6

LEMMA ReceiveGood ==
  ASSUME NEW w, Good(w), w.page.stage = "on", NEW m \in Messages,
         m.kind = "ua" => m.arg \in Elements /\ (m.arg # w.ua.key => w.ua.last < MaxActions),
         m.kind = "xhr" => m.arg \in FetchIds /\ w.mf.calls[m.arg].state = "reported"
  PROVE  Received(w, m, Receive(w, m))
<1> DEFINE v == Receive(w, m)
<1>0. /\ DOMAIN w = WorldFields /\ w.ua.last \in Nat /\ FetchesGood(w.mf) /\ m.kind \in Kinds
      /\ w.page.queue = <<>>
  BY DEF Good, GoodParts, PageGood, UserActionsGood, UserActionsTypes, Messages
<1>1. CASE m.kind = "docHidden"
  <2>1. v = [w EXCEPT !.pvt = EndCurrentSession(w.pvt)]
    BY <1>1 DEF Receive
  <2>2. /\ DOMAIN v = DOMAIN w /\ v.ua = w.ua /\ v.page = w.page /\ v.mf = w.mf
        /\ v.custom = w.custom /\ v.agg = w.agg /\ v.mfe = w.mfe
    BY <1>0, <2>1 DEF WorldFields
  <2> HIDE DEF v
  <2>3. Later(w, v)
    BY <2>2, SameGood
  <2>4. QED BY <1>0, <2>2, <2>3 DEF Received, v
<1>2. CASE m.kind = "winPagehide"
  <2>1. v = [w EXCEPT !.pvt = AddTiming(w.pvt, "unload")]
    BY <1>2 DEF Receive
  <2>2. /\ DOMAIN v = DOMAIN w /\ v.ua = w.ua /\ v.page = w.page /\ v.mf = w.mf
        /\ v.custom = w.custom /\ v.agg = w.agg /\ v.mfe = w.mfe
    BY <1>0, <2>1 DEF WorldFields
  <2> HIDE DEF v
  <2>3. Later(w, v)
    BY <2>2, SameGood
  <2>4. QED BY <1>0, <2>2, <2>3 DEF Received, v
<1>3. CASE m.kind = "xhr"
  <2> DEFINE f == StoreFetch(w.mf, m.arg)
  <2>1. v = [w EXCEPT !.mf = f]
    BY <1>3 DEF Receive
  <2>2. FetchesGood(f) /\ \A x \in FetchIds \ {m.arg} : f.calls[x] = w.mf.calls[x]
    BY <1>0, <1>3, StoreFetchGood
  <2> HIDE DEF f
  <2>3. /\ DOMAIN v = DOMAIN w /\ v.ua = w.ua /\ v.page = w.page /\ v.mf = f
        /\ v.custom = w.custom /\ v.agg = w.agg /\ v.mfe = w.mfe
    BY <1>0, <2>1 DEF WorldFields
  <2> HIDE DEF v
  <2>4. CallsWait(v.mf, v.page.queue)
    <3>1. Len(w.page.queue) = 0
      BY <1>0
    <3>2. QED BY <2>3, <3>1 DEF CallsWait
  <2>5. Later(w, v)
    BY <2>2, <2>3, <2>4 DEF Good, GoodParts, Later
  <2>6. QED BY <1>0, <1>3, <2>2, <2>3, <2>5 DEF Received, v
<1>4. CASE m.kind = "sm"
  <2>1. v = [w EXCEPT !.met = StoreSupportabilityMetrics(w.met, 1)]
    BY <1>4 DEF Receive
  <2>2. /\ DOMAIN v = DOMAIN w /\ v.ua = w.ua /\ v.page = w.page /\ v.mf = w.mf
        /\ v.custom = w.custom /\ v.agg = w.agg /\ v.mfe = w.mfe
    BY <1>0, <2>1 DEF WorldFields
  <2> HIDE DEF v
  <2>3. Later(w, v)
    BY <2>2, SameGood
  <2>4. QED BY <1>0, <2>2, <2>3 DEF Received, v
<1>5. CASE m.kind \in {"ua", "uaXhr", "uaErr", "ws-complete", "api"}
  <2>1. v = ReceiveGeneric(w, m)
    BY <1>5 DEF Receive
  <2>2. QED BY <1>5, <2>1, ReceiveGenericGood
<1>6. QED BY <1>0, <1>1, <1>2, <1>3, <1>4, <1>5 DEF Kinds

\* A message is handled, or waits for the drain.
SentFor(w, kind, v) ==
  /\ Later(w, v) /\ v.page.stage = w.page.stage
  /\ kind # "ua" => v.ua.last = w.ua.last

LEMMA SendGood ==
  ASSUME NEW w, Good(w), NEW kind \in Kinds,
         NEW arg \in Elements \cup {NoElement} \cup FetchIds \cup SocketIds,
         kind = "ua" => arg \in Elements
                        /\ (arg # w.ua.key => w.ua.last + Len(w.page.queue) < MaxActions),
         kind = "xhr" =>
           /\ arg \in FetchIds /\ w.mf.calls[arg].state = "reported"
           /\ \A i \in 1..Len(w.page.queue) :
                w.page.queue[i].kind = "xhr" => w.page.queue[i].arg # arg
  PROVE  SentFor(w, kind, Send(w, kind, arg))
<1> DEFINE m == [kind |-> kind, arg |-> arg]
           v == Send(w, kind, arg)
           q == w.page.queue
<1>m. m \in Messages /\ m.kind = kind /\ m.arg = arg
  BY DEF Messages
<1>0. /\ DOMAIN w = WorldFields /\ w.ua.last \in Nat /\ PageGood(w.page) /\ RoomFor(w.ua, w.page)
      /\ DOMAIN w.page = PageFields /\ q \in Seq(Messages) /\ (w.page.stage = "on" => q = <<>>)
      /\ NoElement \notin Elements
  BY UserActionsAssumption DEF Good, GoodParts, PageGood, UserActionsGood, UserActionsTypes
<1>1. CASE w.page.stage = "on"
  <2>1. v = Receive(w, m)
    BY <1>1 DEF Send
  <2> HIDE DEF m
  <2>2. /\ kind = "ua" => arg \in Elements /\ (arg # w.ua.key => w.ua.last < MaxActions)
        /\ kind = "xhr" => arg \in FetchIds /\ w.mf.calls[arg].state = "reported"
    BY <1>0, <1>1
  <2>3. Received(w, m, v)
    BY <1>1, <1>m, <2>1, <2>2, ReceiveGood
  <2> HIDE DEF v
  <2>4. SentFor(w, kind, v)
    BY <1>m, <2>3 DEF Received, SentFor
  <2>5. QED BY <2>4 DEF v
<1>2. CASE w.page.stage # "on"
  <2> DEFINE r == Append(q, m)
             p == [w.page EXCEPT !.queue = r]
  <2>1. v = [w EXCEPT !.page = p]
    <3>1. v = [w EXCEPT !.page.queue = r]
      BY <1>2 DEF Send
    <3> HIDE DEF r, v
    <3>2. QED BY <3>1, <1>0
  <2>2. /\ r \in Seq(Messages) /\ Len(r) = Len(q) + 1 /\ r[Len(q) + 1] = m /\ Len(q) \in Nat
        /\ \A i \in 1..Len(q) : r[i] = q[i]
    BY <1>0, <1>m
  <2> HIDE DEF r, m
  <2>3. p.queue = r /\ p.stage = w.page.stage /\ DOMAIN p = PageFields
    BY <1>0 DEF PageFields
  <2> HIDE DEF p
  <2>4. \A i \in 1..Len(r) : i = Len(q) + 1 \/ i \in 1..Len(q)
    BY <2>2
  <2>5. PageGood(p)
    <3>1. \A i \in 1..Len(r) : r[i].kind = "ua" => r[i].arg \in Elements
      BY <1>0, <1>m, <2>2, <2>4 DEF PageGood
    <3>2. QED BY <1>2, <2>2, <2>3, <3>1 DEF PageGood
  <2>6. RoomFor(w.ua, p)
    <3>1. w.ua.key = NoElement
      BY <1>0, <1>2 DEF RoomFor
    <3>2. kind = "ua" => w.ua.last + (Len(q) + 1) <= MaxActions
      BY <1>0, <2>2, <3>1, UserActionsAssumption
    <3>3. \A i \in 1..Len(r) : r[i].kind = "ua" => w.ua.last + i <= MaxActions
      BY <1>0, <1>m, <2>2, <2>4, <3>2 DEF RoomFor
    <3>4. QED BY <2>3, <3>1, <3>3 DEF RoomFor
  <2>c. CallsWait(w.mf, r)
    <3>1. CallsWait(w.mf, q)
      BY DEF Good, GoodParts
    <3>2. QED BY <1>m, <2>2, <2>4, <3>1 DEF CallsWait
  <2> HIDE DEF v, q
  <2>7. /\ DOMAIN v = DOMAIN w /\ v.ua = w.ua /\ v.page = p /\ v.mf = w.mf
        /\ v.custom = w.custom /\ v.agg = w.agg /\ v.mfe = w.mfe
    BY <1>0, <2>1 DEF WorldFields
  <2>8. Good(v)
    BY <2>3, <2>5, <2>6, <2>7, <2>c DEF Good, GoodParts
  <2>9. SentFor(w, kind, v)
    BY <2>3, <2>7, <2>8 DEF Later, SentFor
  <2>10. QED BY <2>9 DEF v
<1>3. QED BY <1>1, <1>2

\* Without an event of the user and the end of a call there is nothing to ask of the world.
LEMMA SendLater ==
  ASSUME NEW w, Good(w), NEW kind \in Kinds \ {"ua", "xhr"},
         NEW arg \in {NoElement} \cup FetchIds \cup SocketIds
  PROVE  Later(w, Send(w, kind, arg)) /\ Send(w, kind, arg).page.stage = w.page.stage
<1>1. SentFor(w, kind, Send(w, kind, arg))
  BY SendGood
<1>2. QED BY <1>1 DEF SentFor

LEMMA CountedCallLater ==
  ASSUME NEW w, Good(w)
  PROVE  Later(w, CountedCall(w))
<1> DEFINE a == [w EXCEPT !.custom.calls = @ + 1]
           b == Send(a, "sm", NoElement)
<1>0. DOMAIN w = WorldFields /\ CustomGood(w.custom)
  BY DEF Good, GoodParts
<1>1. /\ DOMAIN a = DOMAIN w /\ a.ua = w.ua /\ a.page = w.page /\ a.mf = w.mf
      /\ a.agg = w.agg /\ a.mfe = w.mfe
  BY <1>0 DEF WorldFields
<1>2. CustomGood(a.custom)
  BY <1>0 DEF WorldFields, CustomGood
<1>3. CountedCall(w) = Send(b, "api", NoElement)
  BY DEF CountedCall
<1> HIDE DEF a
<1>4. Later(w, a)
  BY <1>1, <1>2, AddEventsGood
<1>5. Later(a, b)
  BY <1>4, SendLater DEF Later, Kinds
<1> HIDE DEF b
<1>6. Later(b, CountedCall(w))
  BY <1>3, <1>5, SendLater DEF Later, Kinds
<1>7. QED BY <1>4, <1>5, <1>6 DEF Later

LEMMA ReportTimingsLater ==
  ASSUME NEW w, Good(w), NEW i
  PROVE  Later(w, ReportTimings(w, i))
<1>1. CASE w.mf.entities[i].reported
  BY <1>1, SameGood DEF ReportTimings, Later
<1>2. CASE ~w.mf.entities[i].reported
  <2> DEFINE a == [w EXCEPT !.mf.entities[i].reported = TRUE]
             f == [w.mf EXCEPT !.entities[i].reported = TRUE]
  <2>0. DOMAIN w = WorldFields /\ FetchesGood(w.mf)
    BY DEF Good, GoodParts
  <2>1. a = [w EXCEPT !.mf = f]
    OBVIOUS
  <2>4. FetchesGood(f) /\ CallsStay(w.mf, f)
    BY <2>0, EntityMarks
  <2> HIDE DEF f, a
  <2>5. /\ DOMAIN a = DOMAIN w /\ a.ua = w.ua /\ a.page = w.page /\ a.mf = f
        /\ a.custom = w.custom /\ a.agg = w.agg /\ a.mfe = w.mfe
    BY <2>0, <2>1 DEF WorldFields
  <2>6. Later(w, a)
    BY <2>4, <2>5, FetchesLater
  <2>7. ReportTimings(w, i) = CountedCall(a)
    BY <1>2 DEF ReportTimings, a
  <2>8. Later(a, CountedCall(a))
    BY <2>6, CountedCallLater DEF Later
  <2>9. QED BY <2>6, <2>7, <2>8 DEF Later
<1>3. QED BY <1>1, <1>2

LEMMA SendAllLater ==
  ASSUME NEW w, Good(w)
  PROVE  Later(w, SendAll(w))
<1> DEFINE v == SendAll(w)
           u == SendActions(w.ua)
           f == SendFetches(w.mf)
           g == SendCustom(w.custom)
<1>0. DOMAIN w = WorldFields /\ UserActionsGood(w.ua) /\ FetchesGood(w.mf) /\ CustomGood(w.custom)
  BY DEF Good, GoodParts
<1>1. UserActionsGood(u) /\ u.last = w.ua.last /\ u.key = w.ua.key
  BY <1>0, SendActionsGood
<1>2. FetchesGood(f) /\ CallsStay(w.mf, f)
  BY <1>0, SendFetchesGood
<1>3. CustomGood(g)
  BY <1>0 DEF CustomGood, SendCustom
<1>4. v = [w EXCEPT !.pvt = SendTimings(w.pvt), !.ua = u, !.ws = SendSockets(w.ws), !.custom = g,
                    !.mf = f]
  BY DEF SendAll
<1> HIDE DEF u, f, g, v
<1>5. /\ DOMAIN v = DOMAIN w /\ v.ua = u /\ v.page = w.page /\ v.mf = f
      /\ v.custom = g /\ v.agg = w.agg /\ v.mfe = w.mfe
  BY <1>0, <1>4 DEF WorldFields
<1>6. RoomFor(u, w.page)
  BY <1>1 DEF Good, GoodParts, RoomFor
<1>7. CallsWait(f, w.page.queue)
  BY <1>2 DEF Good, GoodParts, CallsWait, CallsStay
<1>8. Later(w, v)
  BY <1>1, <1>2, <1>3, <1>5, <1>6, <1>7 DEF Good, GoodParts, Later
<1>9. QED BY <1>8 DEF v

LEMMA BeforeUnloadLater ==
  ASSUME NEW w, Good(w)
  PROVE  Later(w, BeforeUnload(w))
<1> DEFINE u == AggregationEvent(w.ua)
           v == IF Generic(w) THEN WithActions(w, u) ELSE w
           b == BeforeUnload(w)
<1>0. DOMAIN w = WorldFields /\ UserActionsGood(w.ua)
  BY DEF Good, GoodParts
<1>1. UserActionsGood(u) /\ u.last = w.ua.last /\ u.key = NoElement
  BY <1>0, AggregationEventGood
<1> HIDE DEF u
<1>2. Later(w, v)
  <2>1. CASE Generic(w)
    <3> DEFINE x == WithActions(w, u)
    <3>1. /\ DOMAIN x = DOMAIN w /\ x.ua = u /\ x.page = w.page /\ x.mf = w.mf
          /\ x.custom = w.custom /\ x.agg = w.agg /\ x.mfe = w.mfe
      BY <1>0, WithActionsIs
    <3>2. v = x
      BY <2>1
    <3> HIDE DEF x, v
    <3>3. Later(w, x)
      BY <1>1, <3>1, ActionsGood
    <3>4. QED BY <3>2, <3>3
  <2>2. CASE ~Generic(w)
    BY <2>2 DEF Later
  <2>3. QED BY <2>1, <2>2
<1>3. b = IF w.page.stage = "on" THEN [v EXCEPT !.met = EvaluateHarvestMetadata(v.met)] ELSE v
  BY DEF BeforeUnload, u
<1> HIDE DEF v, b
<1>4. DOMAIN v = WorldFields /\ Good(v)
  BY <1>2 DEF Later, Good
<1>5. /\ DOMAIN b = DOMAIN v /\ b.ua = v.ua /\ b.page = v.page /\ b.mf = v.mf
      /\ b.custom = v.custom /\ b.agg = v.agg /\ b.mfe = v.mfe
  BY <1>3, <1>4 DEF WorldFields
<1>6. Later(v, b)
  BY <1>4, <1>5, SameGood
<1>7. Later(w, b)
  BY <1>2, <1>6 DEF Later
<1>8. QED BY <1>7 DEF b

\* The page is hidden: the errors are taken, and the vitals of the frontends stop.
HiddenFrom(w, v) ==
  Good(v) /\ v.agg = TakeErrors(w.agg, FALSE) /\ v.mfe = DisconnectAll(w.mfe)

LEMMA PageChanges ==
  ASSUME NEW p, NEW q, PageGood(p), DOMAIN q = DOMAIN p, q.stage = p.stage, q.queue = p.queue
  PROVE  PageGood(q) /\ \A u : RoomFor(u, p) => RoomFor(u, q)
BY DEF PageGood, RoomFor

LEMMA HiddenGood ==
  ASSUME NEW w, Good(w)
  PROVE  HiddenFrom(w, Hidden(w))
<1> DEFINE o == [w EXCEPT !.pvt = VitalsHidden(w.pvt)]
           a == Send(o, "docHidden", NoElement)
           b == BeforeUnload(a)
           c == SendAll(b)
           e == TakeErrors(c.agg, FALSE)
           m == IF b.page.stage = "on" THEN SendMetrics(c.met) ELSE c.met
           f == [c EXCEPT !.agg = e, !.met = m]
           d == DisconnectAll(f.mfe)
           p == [f.page EXCEPT !.hidden = TRUE, !.hides = @ + 1]
           v == Hidden(w)
<1>0. DOMAIN w = WorldFields
  BY DEF Good
<1>1. /\ DOMAIN o = DOMAIN w /\ o.ua = w.ua /\ o.page = w.page /\ o.mf = w.mf
      /\ o.custom = w.custom /\ o.agg = w.agg /\ o.mfe = w.mfe
  BY <1>0 DEF WorldFields
<1>2. v = [FinalHarvest(b) EXCEPT !.mfe = DisconnectAll(FinalHarvest(b).mfe),
                                  !.page.hidden = TRUE, !.page.hides = @ + 1]
  BY DEF Hidden
<1>3. FinalHarvest(b) = f
  BY DEF FinalHarvest
<1> HIDE DEF o
<1>4. Later(w, o)
  BY <1>1, SameGood
<1>5. Later(o, a)
  BY <1>4, SendLater DEF Later, Kinds
<1> HIDE DEF a
<1>6. Later(a, b)
  BY <1>5, BeforeUnloadLater DEF Later
<1> HIDE DEF b
<1>7. Later(b, c)
  BY <1>6, SendAllLater DEF Later
<1>8. Good(c) /\ c.agg = w.agg /\ c.mfe = w.mfe /\ DOMAIN c = WorldFields
  BY <1>4, <1>5, <1>6, <1>7 DEF Later, Good
<1> HIDE DEF c, e, m
<1>9. /\ DOMAIN f = WorldFields /\ f.ua = c.ua /\ f.page = c.page /\ f.mf = c.mf
      /\ f.custom = c.custom /\ f.agg = e /\ f.mfe = c.mfe
  BY <1>8 DEF WorldFields
<1> HIDE DEF f
<1>10. PageGood(f.page) /\ DOMAIN f.page = PageFields
  BY <1>8, <1>9 DEF Good, GoodParts, PageGood
<1>11. v = [f EXCEPT !.mfe = d, !.page = p]
  <2> HIDE DEF v
  <2>1. v = [f EXCEPT !.mfe = DisconnectAll(f.mfe), !.page.hidden = TRUE, !.page.hides = @ + 1]
    BY <1>2, <1>3
  <2> HIDE DEF d
  <2>2. QED BY <1>9, <1>10, <2>1 DEF WorldFields, PageFields, d
<1>12. DOMAIN p = DOMAIN f.page /\ p.stage = f.page.stage /\ p.queue = f.page.queue
  BY <1>10 DEF PageFields
<1> HIDE DEF v, p, d
<1>13. /\ DOMAIN v = WorldFields /\ v.ua = c.ua /\ v.page = p /\ v.mf = c.mf
       /\ v.custom = c.custom /\ v.agg = e /\ v.mfe = d
  BY <1>9, <1>11 DEF WorldFields
<1>14. PageGood(p) /\ RoomFor(c.ua, p)
  BY <1>8, <1>9, <1>10, <1>12, PageChanges DEF Good, GoodParts
<1>15. Good(v)
  BY <1>8, <1>9, <1>12, <1>13, <1>14 DEF Good, GoodParts
<1>16. e = TakeErrors(w.agg, FALSE) /\ d = DisconnectAll(w.mfe)
  BY <1>8, <1>9 DEF e, d
<1>17. HiddenFrom(w, v)
  BY <1>13, <1>15, <1>16 DEF HiddenFrom
<1>18. QED BY <1>17 DEF v

(***************************************************************************)
(* The folds: of the messages that waited for the drain, of the marks that *)
(* the observer is handed, and, at the end of the page, of the sockets and *)
(* of the micro frontends.                                                 *)
(***************************************************************************)
Drained == INSTANCE Folding WITH Op <- Receive
LEMMA SameDrained == \A v, q : FoldLeft(Receive, v, q) = Drained!FoldLeft(Receive, v, q)
BY DEF FoldLeft, Drained!FoldLeft, MapThenFoldSet, Drained!MapThenFoldSet, Max, Drained!Max

LEMMA LastIsNat ==
  ASSUME NEW w, Good(w) PROVE w.ua.last \in Nat
BY DEF Good, GoodParts, UserActionsGood, UserActionsTypes

\* The message after the first n of a drain: one more action at most, and the call of
\* another message is left as it was.
LEMMA DrainsOne ==
  ASSUME NEW w, NEW x, NEW n \in Nat, NEW m \in Messages, w.ua.last \in Nat,
         Later(w, x), x.page = w.page, w.page.stage = "on", x.ua.last <= w.ua.last + n,
         m.kind = "ua" => m.arg \in Elements /\ w.ua.last + (n + 1) <= MaxActions,
         m.kind = "xhr" => m.arg \in FetchIds /\ x.mf.calls[m.arg].state = "reported"
  PROVE  /\ Later(w, Receive(x, m)) /\ Receive(x, m).page = w.page
         /\ Receive(x, m).ua.last <= w.ua.last + (n + 1)
         /\ \A k \in FetchIds : m.kind # "xhr" \/ k # m.arg =>
              Receive(x, m).mf.calls[k] = x.mf.calls[k]
<1> DEFINE y == Receive(x, m)
<1>1. Good(x) /\ x.agg = w.agg /\ x.mfe = w.mfe
  BY DEF Later
<1>2. x.ua.last \in Nat
  BY <1>1, LastIsNat
<1>3. m.kind = "ua" => x.ua.last < MaxActions
  BY <1>2, UserActionsAssumption
<1>4. Received(x, m, y)
  BY <1>1, <1>3, ReceiveGood
<1> HIDE DEF y
<1>5. /\ Good(y) /\ y.agg = x.agg /\ y.mfe = x.mfe /\ y.page = x.page
      /\ y.ua.last <= x.ua.last + 1
      /\ \A k \in FetchIds : m.kind # "xhr" \/ k # m.arg => y.mf.calls[k] = x.mf.calls[k]
  BY <1>4 DEF Received, Later
<1>6. y.ua.last \in Nat
  BY <1>5, LastIsNat
<1>7. y.ua.last <= w.ua.last + (n + 1)
  BY <1>2, <1>5, <1>6
<1>8. Later(w, y) /\ y.page = w.page
  BY <1>1, <1>5 DEF Later
<1>9. QED BY <1>5, <1>7, <1>8 DEF y

\* The drain hands over the messages that waited, each in the world that the one before it
\* left.
LEMMA DrainLater ==
  ASSUME NEW w, Good(w), w.page.stage = "on", NEW q \in Seq(Messages), w.ua.key = NoElement,
         \A i \in 1..Len(q) : q[i].kind = "ua" => q[i].arg \in Elements
             /\ w.ua.last + i <= MaxActions,
         CallsWait(w.mf, q)
  PROVE  Later(w, FoldLeft(Receive, w, q))
<1>1. PICK g : /\ g[0] = w /\ FoldLeft(Receive, w, q) = g[Len(q)]
               /\ \A m \in 0..(Len(q) - 1) : g[m + 1] = Receive(g[m], q[m + 1])
  <2>1. Drained!Passes(w, q)
    BY Drained!FoldPasses, Zenon
  <2>2. QED BY <2>1, SameDrained DEF Drained!Passes, Drained!Chain
<1> DEFINE Ahead(n, v) == \A k \in (n + 1)..Len(q) : q[k].kind = "xhr" =>
                            v.mf.calls[q[k].arg].state = "reported"
           P(n) == /\ Later(w, g[n]) /\ g[n].page = w.page /\ g[n].ua.last <= w.ua.last + n
                   /\ Ahead(n, g[n])
           T == {n \in Nat : n <= Len(q) => P(n)}
<1>2. /\ Len(q) \in Nat /\ \A k \in 1..Len(q) : q[k] \in Messages
      /\ w.ua.last \in Nat /\ MaxActions \in Nat
  BY UserActionsAssumption DEF Good, GoodParts, UserActionsGood, UserActionsTypes
<1>3. 0 \in T
  <2>1. Ahead(0, g[0])
    BY <1>1, <1>2 DEF CallsWait
  <2> HIDE DEF Ahead
  <2>2. QED BY <1>1, <1>2, <2>1 DEF Later
<1>4. ASSUME NEW n \in T \cap Nat PROVE n + 1 \in T
  <2> SUFFICES ASSUME n + 1 <= Len(q) PROVE P(n + 1)
    BY SMTT(20), ZenonT(60)
  <2> DEFINE m == q[n + 1]
             x == g[n]
             y == g[n + 1]
  <2>1. n \in 0..(Len(q) - 1) /\ n + 1 \in 1..Len(q) /\ n \in Nat /\ n <= Len(q)
    BY <1>2
  <2>2. P(n)
    BY <2>1
  <2>3. Later(w, x) /\ x.page = w.page /\ x.ua.last <= w.ua.last + n /\ Ahead(n, x)
    BY <2>2
  <2> HIDE DEF T, P
  <2>4. \A k \in (n + 1)..Len(q) : q[k].kind = "xhr" => x.mf.calls[q[k].arg].state = "reported"
    BY <2>3
  <2> HIDE DEF Ahead
  <2>5. m \in Messages /\ y = Receive(x, m)
    BY <1>1, <1>2, <2>1
  <2>6. m.kind = "ua" => m.arg \in Elements /\ w.ua.last + (n + 1) <= MaxActions
    BY <2>1
  <2>7. n + 1 \in (n + 1)..Len(q)
    BY <1>2, <2>1
  <2>8. \A k \in 1..Len(q) : q[k].kind = "xhr" => q[k].arg \in FetchIds
    BY DEF CallsWait
  <2>9. m.kind = "xhr" => m.arg \in FetchIds /\ x.mf.calls[m.arg].state = "reported"
    BY <2>1, <2>4, <2>7, <2>8
  <2>10. \A k \in (n + 2)..Len(q) : k \in 1..Len(q) /\ k \in (n + 1)..Len(q) /\ k # n + 1
    BY <1>2, <2>1
  <2>11. \A k \in (n + 2)..Len(q) : q[k].kind = "xhr" /\ m.kind = "xhr" => q[k].arg # m.arg
    BY <2>1, <2>10 DEF CallsWait
  <2> HIDE DEF m, x, y
  <2>12. /\ Later(w, y) /\ y.page = w.page /\ y.ua.last <= w.ua.last + (n + 1)
         /\ \A k \in FetchIds : m.kind # "xhr" \/ k # m.arg => y.mf.calls[k] = x.mf.calls[k]
    BY <1>2, <2>1, <2>3, <2>5, <2>6, <2>9, DrainsOne
  <2>13. \A k \in (n + 2)..Len(q) : q[k].kind = "xhr" =>
           y.mf.calls[q[k].arg].state = "reported"
    <3> SUFFICES ASSUME NEW k \in (n + 2)..Len(q), q[k].kind = "xhr"
                 PROVE  y.mf.calls[q[k].arg].state = "reported"
      OBVIOUS
    <3>1. q[k].arg \in FetchIds /\ x.mf.calls[q[k].arg].state = "reported"
      BY <2>4, <2>8, <2>10
    <3>2. y.mf.calls[q[k].arg] = x.mf.calls[q[k].arg]
      BY <2>11, <2>12, <3>1
    <3>3. QED BY <3>1, <3>2
  <2>14. Ahead(n + 1, y)
    <3>1. (n + 1) + 1 = n + 2
      BY <2>1
    <3>2. QED BY <2>13, <3>1 DEF Ahead
  <2>15. QED BY <2>12, <2>14 DEF P, y
<1> HIDE DEF T
<1>5. \A n \in Nat : n \in T
  BY <1>3, <1>4, Drained!Induct
<1>6. QED BY <1>1, <1>2, <1>5 DEF T

Notes(w, seen) == Send(w, seen, NoElement)
Noted == INSTANCE Folding WITH Op <- Notes
LEMMA SameNoted == \A v, q : FoldLeft(Notes, v, q) = Noted!FoldLeft(Notes, v, q)
BY DEF FoldLeft, Noted!FoldLeft, MapThenFoldSet, Noted!MapThenFoldSet, Max, Noted!Max

LEMMA NotesLater ==
  ASSUME NEW w, Good(w), NEW q \in Seq({"sm"})
  PROVE  Later(w, FoldLeft(LAMBDA x, seen : Send(x, seen, NoElement), w, q))
<1>0. FoldLeft(LAMBDA x, seen : Send(x, seen, NoElement), w, q) = FoldLeft(Notes, w, q)
  BY DEF Notes, FoldLeft, MapThenFoldSet
<1>1. PICK g : /\ g[0] = w /\ FoldLeft(Notes, w, q) = g[Len(q)]
               /\ \A m \in 0..(Len(q) - 1) : g[m + 1] = Notes(g[m], q[m + 1])
  <2>1. Noted!Passes(w, q)
    BY Noted!FoldPasses, Zenon
  <2>2. QED BY <2>1, SameNoted DEF Noted!Passes, Noted!Chain
<1> DEFINE T == {n \in Nat : n <= Len(q) => Later(w, g[n])}
<1>2. Len(q) \in Nat /\ \A k \in 1..Len(q) : q[k] = "sm"
  OBVIOUS
<1>3. 0 \in T
  BY <1>1 DEF Later
<1>4. ASSUME NEW n \in T \cap Nat PROVE n + 1 \in T
  <2> SUFFICES ASSUME n + 1 <= Len(q) PROVE Later(w, g[n + 1])
    OBVIOUS
  <2>1. n \in 0..(Len(q) - 1) /\ n + 1 \in 1..Len(q) /\ Later(w, g[n])
    BY <1>2
  <2>2. g[n + 1] = Send(g[n], "sm", NoElement)
    BY <1>1, <1>2, <2>1 DEF Notes
  <2>3. Later(g[n], g[n + 1])
    BY <2>1, <2>2, SendLater DEF Later, Kinds
  <2>4. QED BY <2>1, <2>3 DEF Later
<1> HIDE DEF T
<1>5. \A n \in Nat : n \in T
  BY <1>3, <1>4, Noted!Induct
<1>6. Later(w, FoldLeft(Notes, w, q))
  BY <1>1, <1>2, <1>5 DEF T
<1>7. QED BY <1>0, <1>6

Completes(w, n) == Send(w, "ws-complete", n)
Completed == INSTANCE Folding WITH Op <- Completes
CompletesAll(w, D) == FoldSet(LAMBDA n, x : Completes(x, n), w, D)
LEMMA SameCompleted == \A v, D : CompletesAll(v, D) = Completed!FoldOf(v, D)
BY DEF CompletesAll, Completed!FoldOf, FoldSet, Completed!FoldSet, MapThenFoldSet,
           Completed!MapThenFoldSet

LEMMA CompletesLater ==
  ASSUME NEW w, Good(w), NEW D, D \subseteq SocketIds, IsFiniteSet(D)
  PROVE  Later(w, CompletesAll(w, D))
<1>1. PICK n \in Nat : \E g : Completed!Thread(g, n, w, D) /\ Completed!FoldOf(w, D) = g[n]
  <2>1. Completed!IsFiniteSet(D)
    BY DEF IsFiniteSet, Completed!IsFiniteSet
  <2>2. Completed!SetPasses(w, D)
    BY <2>1, Completed!SetFoldPasses, Zenon
  <2>3. QED BY <2>2 DEF Completed!SetPasses
<1>2. PICK g : /\ g[0] = w /\ CompletesAll(w, D) = g[n]
               /\ \A m \in 0..(n - 1) : \E x \in D : g[m + 1] = Completes(g[m], x)
  BY <1>1, SameCompleted DEF Completed!Thread
<1> DEFINE T == {m \in Nat : m <= n => Later(w, g[m])}
<1>3. 0 \in T
  BY <1>2 DEF Later
<1>4. ASSUME NEW m \in T \cap Nat PROVE m + 1 \in T
  <2> SUFFICES ASSUME m + 1 <= n PROVE Later(w, g[m + 1])
    OBVIOUS
  <2>1. m \in 0..(n - 1) /\ Later(w, g[m])
    OBVIOUS
  <2>2. PICK x \in D : g[m + 1] = Send(g[m], "ws-complete", x)
    BY <1>2, <2>1 DEF Completes
  <2>3. Later(g[m], g[m + 1])
    BY <2>1, <2>2, SendLater DEF Later, Kinds
  <2>4. QED BY <2>1, <2>3 DEF Later
<1> HIDE DEF T
<1>5. \A m \in Nat : m \in T
  BY <1>3, <1>4, Completed!Induct
<1>6. QED BY <1>2, <1>5 DEF T

ReportedAll == INSTANCE Folding WITH Op <- ReportTimings
ReportsAll(w, D) == FoldSet(LAMBDA i, x : ReportTimings(x, i), w, D)
LEMMA SameReported == \A v, D : ReportsAll(v, D) = ReportedAll!FoldOf(v, D)
BY DEF ReportsAll, ReportedAll!FoldOf, FoldSet, ReportedAll!FoldSet, MapThenFoldSet,
       ReportedAll!MapThenFoldSet

LEMMA ReportsLater ==
  ASSUME NEW w, Good(w), NEW D, IsFiniteSet(D)
  PROVE  Later(w, ReportsAll(w, D))
<1>1. PICK n \in Nat : \E g : ReportedAll!Thread(g, n, w, D) /\ ReportedAll!FoldOf(w, D) = g[n]
  <2>1. ReportedAll!IsFiniteSet(D)
    BY DEF IsFiniteSet, ReportedAll!IsFiniteSet
  <2>2. ReportedAll!SetPasses(w, D)
    BY <2>1, ReportedAll!SetFoldPasses, Zenon
  <2>3. QED BY <2>2 DEF ReportedAll!SetPasses
<1>2. PICK g : /\ g[0] = w /\ ReportsAll(w, D) = g[n]
               /\ \A m \in 0..(n - 1) : \E x \in D : g[m + 1] = ReportTimings(g[m], x)
  BY <1>1, SameReported DEF ReportedAll!Thread
<1> DEFINE T == {m \in Nat : m <= n => Later(w, g[m])}
<1>3. 0 \in T
  BY <1>2 DEF Later
<1>4. ASSUME NEW m \in T \cap Nat PROVE m + 1 \in T
  <2> SUFFICES ASSUME m + 1 <= n PROVE Later(w, g[m + 1])
    OBVIOUS
  <2>1. m \in 0..(n - 1) /\ Later(w, g[m])
    OBVIOUS
  <2>2. PICK x \in D : g[m + 1] = ReportTimings(g[m], x)
    BY <1>2, <2>1
  <2>3. Later(g[m], g[m + 1])
    BY <2>1, <2>2, ReportTimingsLater DEF Later
  <2>4. QED BY <2>1, <2>3 DEF Later
<1> HIDE DEF T
<1>5. \A m \in Nat : m \in T
  BY <1>3, <1>4, ReportedAll!Induct
<1>6. QED BY <1>2, <1>5 DEF T

(***************************************************************************)
(* The inductive invariant, and the steps.                                 *)
(***************************************************************************)
PageActivityGood ==
  GoodParts(ua, page, mf, custom) /\ AggGood(agg) /\ MfeGood(mfe)

LEMMA WorldGood == PageActivityGood => Good(World)
BY WorldIs DEF PageActivityGood, Good

\* A step whose methods have nothing to do with errors and frontends
LEMMA LaterStep ==
  ASSUME PageActivityGood, NEW v, Apply(v), Later(World, v)
  PROVE  PageActivityGood'
<1>1. Good(v) /\ v.agg = agg /\ v.mfe = mfe
  BY WorldIs DEF Later
<1>2. /\ ua' = v.ua /\ mf' = v.mf /\ mfe' = mfe /\ agg' = agg /\ custom' = v.custom
      /\ page' = v.page
  BY <1>1 DEF Apply
<1>3. GoodParts(ua', page', mf', custom')
  BY <1>1, <1>2 DEF Good
<1>4. AggGood(agg') /\ MfeGood(mfe')
  BY <1>2 DEF PageActivityGood
<1>5. QED BY <1>3, <1>4 DEF PageActivityGood

\* A step that changes nothing else than the user actions or what is not of the parts
LEMMA ApplyHidden ==
  ASSUME PageActivityGood, NEW w, Later(World, w), NEW v, HiddenFrom(w, v), Apply(v)
  PROVE  PageActivityGood'
<1>1. Good(v) /\ v.agg = TakeErrors(agg, FALSE) /\ v.mfe = DisconnectAll(mfe)
  BY WorldIs DEF Later, HiddenFrom
<1>2. AggGood(v.agg) /\ MfeGood(v.mfe)
  <2>1. FALSE \in BOOLEAN
    OBVIOUS
  <2>2. QED BY <1>1, <2>1, TakeGood, DisconnectAllGood DEF PageActivityGood
<1>3. GoodParts(ua', page', mf', custom') /\ AggGood(agg') /\ MfeGood(mfe')
  BY <1>1, <1>2 DEF Good, Apply
<1>4. QED BY <1>3 DEF PageActivityGood

\* The world changes in what is not of the parts, or in the page's other fields.
LEMMA PageLater ==
  ASSUME NEW w, Good(w), NEW v, DOMAIN v = DOMAIN w, v.ua = w.ua,
         v.mf = w.mf, v.custom = w.custom, v.agg = w.agg, v.mfe = w.mfe,
         DOMAIN v.page = DOMAIN w.page, v.page.stage = w.page.stage, v.page.queue = w.page.queue
  PROVE  Later(w, v)
<1>1. PageGood(v.page) /\ RoomFor(v.ua, v.page)
  BY PageChanges DEF Good, GoodParts
<1>2. QED BY <1>1 DEF Good, GoodParts, Later

LEMMA RumResponseGood ==
  ASSUME PageActivityGood, NEW ins, NEW err, RumResponse(ins, err)
  PROVE  PageActivityGood'
<1> DEFINE w == World
           v == [w EXCEPT !.page.stage = "staged", !.page.ins = ins, !.pvt = Subscribe(@),
                          !.met = MetricsDecide(@, err)]
<1>1. Apply(v) /\ page.stage = "waiting"
  BY DEF RumResponse
<1>2. Good(w) /\ DOMAIN w = WorldFields /\ w.page.stage = "waiting" /\ DOMAIN w.page = PageFields
  BY <1>1, WorldGood, WorldIs DEF Good, GoodParts, PageGood
<1> HIDE DEF w
<1>3. /\ DOMAIN v = DOMAIN w /\ v.ua = w.ua /\ v.mf = w.mf /\ v.custom = w.custom
      /\ v.agg = w.agg /\ v.mfe = w.mfe /\ DOMAIN v.page = DOMAIN w.page
      /\ v.page.stage = "staged" /\ v.page.queue = w.page.queue
  BY <1>2 DEF WorldFields, PageFields
<1> HIDE DEF v
<1>4. PageGood(v.page) /\ RoomFor(v.ua, v.page)
  BY <1>2, <1>3 DEF Good, GoodParts, PageGood, RoomFor
<1>5. Later(w, v)
  BY <1>2, <1>3, <1>4 DEF Good, GoodParts, Later
<1>6. QED BY <1>1, <1>5, LaterStep DEF w

LEMMA DrainAllGood ==
  ASSUME PageActivityGood, DrainAll
  PROVE  PageActivityGood'
<1> DEFINE w == World
           o == [w EXCEPT !.page.stage = "on", !.page.queue = <<>>]
           v == FoldLeft(Receive, o, page.queue)
           q == page.queue
<1>1. Apply(v) /\ page.stage = "staged"
  BY DEF DrainAll
<1>2. /\ Good(w) /\ DOMAIN w = WorldFields /\ w.page = page /\ DOMAIN page = PageFields /\ w.ua = ua
      /\ q \in Seq(Messages) /\ PageGood(page) /\ RoomFor(ua, page)
  BY WorldGood, WorldIs DEF Good, GoodParts, PageGood
<1> HIDE DEF w
<1>3. /\ DOMAIN o = DOMAIN w /\ o.ua = w.ua /\ o.mf = w.mf /\ o.custom = w.custom
      /\ o.agg = w.agg /\ o.mfe = w.mfe /\ DOMAIN o.page = DOMAIN w.page
      /\ o.page.stage = "on" /\ o.page.queue = <<>>
  BY <1>2 DEF WorldFields, PageFields
<1> HIDE DEF o
<1>4. PageGood(o.page) /\ RoomFor(o.ua, o.page)
  <2>1. <<>> \in Seq(Messages) /\ Len(<<>>) = 0
    OBVIOUS
  <2>2. QED BY <1>2, <1>3, <2>1 DEF PageGood, RoomFor
<1>c. CallsWait(o.mf, o.page.queue) /\ CallsWait(o.mf, q)
  <2>1. Len(<<>>) = 0
    OBVIOUS
  <2>2. CallsWait(o.mf, o.page.queue)
    BY <1>3, <2>1 DEF CallsWait
  <2>3. CallsWait(o.mf, q)
    BY <1>2, <1>3 DEF Good, GoodParts
  <2>4. QED BY <2>2, <2>3
<1>5. Later(w, o)
  BY <1>2, <1>3, <1>4, <1>c DEF Good, GoodParts, Later
<1>6. o.ua.key = NoElement
  BY <1>1, <1>2, <1>3 DEF RoomFor
<1>7. \A i \in 1..Len(q) : q[i].kind = "ua" => q[i].arg \in Elements /\ o.ua.last + i <= MaxActions
  BY <1>2, <1>3 DEF PageGood, RoomFor
<1> HIDE DEF q
<1>8. Later(o, FoldLeft(Receive, o, q))
  BY <1>2, <1>3, <1>5, <1>6, <1>7, <1>c, DrainLater DEF Later
<1>9. Later(w, FoldLeft(Receive, o, q))
  BY <1>5, <1>8 DEF Later
<1>10. Apply(FoldLeft(Receive, o, q))
  BY <1>1 DEF q
<1>11. QED BY <1>9, <1>10, LaterStep DEF w

LEMMA UserEventGood ==
  ASSUME PageActivityGood, NEW el \in Elements, UserEvent(el)
  PROVE  PageActivityGood'
<1> DEFINE w == World
           o == [w EXCEPT !.page.events = @ + 1, !.pvt.input = TRUE]
           v == Send(o, "ua", el)
<1>1. Apply(v) /\ (el # ua.key => ua.last + Len(page.queue) < MaxActions)
  BY DEF UserEvent
<1>2. /\ Good(w) /\ DOMAIN w = WorldFields /\ w.page = page /\ DOMAIN page = PageFields /\ w.ua = ua
  BY WorldGood, WorldIs DEF Good, GoodParts, PageGood
<1> HIDE DEF w
<1>3. /\ DOMAIN o = DOMAIN w /\ o.ua = w.ua /\ o.mf = w.mf /\ o.custom = w.custom
      /\ o.agg = w.agg /\ o.mfe = w.mfe /\ DOMAIN o.page = DOMAIN w.page
      /\ o.page.stage = w.page.stage /\ o.page.queue = w.page.queue
  BY <1>2 DEF WorldFields, PageFields
<1> HIDE DEF o
<1>4. Later(w, o)
  BY <1>2, <1>3, PageLater
<1>5. SentFor(o, "ua", v)
  BY <1>1, <1>2, <1>3, <1>4, SendGood DEF Later, Kinds
<1> HIDE DEF v
<1>6. Later(w, v)
  BY <1>4, <1>5 DEF SentFor, Later
<1>7. QED BY <1>1, <1>6, LaterStep DEF w

\* A step that does nothing but send
LEMMA SendStep ==
  ASSUME PageActivityGood, NEW kind \in Kinds \ {"ua", "xhr"},
         NEW arg \in {NoElement} \cup FetchIds \cup SocketIds, NEW o, Later(World, o),
         Apply(Send(o, kind, arg))
  PROVE  PageActivityGood'
<1>1. Later(o, Send(o, kind, arg))
  BY SendLater DEF Later
<1>2. Later(World, Send(o, kind, arg))
  BY <1>1 DEF Later
<1>3. QED BY <1>2, LaterStep

LEMMA WorldLater == PageActivityGood => Later(World, World)
BY WorldGood DEF Later

LEMMA UserActionsStep ==
  ASSUME PageActivityGood, NEW u, UserActionsGood(u), u.last = ua.last, u.key = ua.key,
         Apply([World EXCEPT !.ua = u])
  PROVE  PageActivityGood'
<1> DEFINE w == World
           v == [w EXCEPT !.ua = u]
<1>1. Good(w) /\ DOMAIN w = WorldFields /\ w.ua = ua
  BY WorldGood, WorldIs DEF Good
<1>2. Apply(v)
  OBVIOUS
<1> HIDE DEF w
<1>3. /\ DOMAIN v = DOMAIN w /\ v.ua = u /\ v.mf = w.mf /\ v.custom = w.custom
      /\ v.agg = w.agg /\ v.mfe = w.mfe /\ v.page = w.page
  BY <1>1 DEF WorldFields
<1> HIDE DEF v
<1>4. Later(w, v)
  BY <1>1, <1>3, ActionsGood
<1>5. QED BY <1>2, <1>4, LaterStep DEF w

LEMMA DomChangesGood ==
  ASSUME PageActivityGood, DomChanges
  PROVE  PageActivityGood'
<1> DEFINE c == ua.cur
           v == [ua EXCEPT !.deadTimer = NoAction]
           a == [ua.action EXCEPT ![c].touched = TRUE]
           live == IsLiveClick(ua)
           u == IF Observes(ua) THEN live ELSE [ua EXCEPT !.action[ua.cur].touched = TRUE]
<1>1. Watched(ua) /\ Apply([World EXCEPT !.ua = u])
  BY WorldIs DEF DomChanges, WorldFields
<1>2. UserActionsGood(ua)
  BY DEF PageActivityGood, GoodParts
<1>3. live = [v EXCEPT !.action[c].touched = TRUE]
  BY <1>1 DEF IsLiveClick
<1>4. CASE Observes(ua)
  <2>1. UserActionsGood(live) /\ live.last = ua.last /\ live.key = ua.key /\ u = live
    BY <1>2, <1>4, IsLiveClickGood
  <2> HIDE DEF live, u
  <2>2. Apply([World EXCEPT !.ua = live])
    BY <1>1, <2>1
  <2>3. QED BY <2>1, <2>2, UserActionsStep
<1>5. CASE ~Observes(ua)
  <2>1. ua.deadTimer = NoAction
            /\ DOMAIN ua = {"action", "cur", "last", "key", "deadTimer", "errTimer"}
    BY <1>2, <1>5 DEF Observes, UserActionsGood, UserActionsTypes
  <2>2. DOMAIN v = DOMAIN ua /\ \A f \in DOMAIN ua : v[f] = ua[f]
    BY <2>1
  <2>3. live = [v EXCEPT !.action = [v.action EXCEPT ![c].touched = TRUE]]
    BY <1>3, <2>1
  <2>4. v.action = ua.action
    BY <2>1
  <2>5. u = [ua EXCEPT !.action = a]
    BY <1>5, <2>1
  <2>6. live = [v EXCEPT !.action = a]
    BY <2>3, <2>4
  <2> HIDE DEF live, u, a, v
  <2>7. u = live
    BY <2>2, <2>5, <2>6
  <2>8. UserActionsGood(live) /\ live.last = ua.last /\ live.key = ua.key
    BY <1>2, IsLiveClickGood DEF live
  <2>9. Apply([World EXCEPT !.ua = live])
    BY <1>1, <2>7
  <2>10. QED BY <2>8, <2>9, UserActionsStep
<1>6. QED BY <1>4, <1>5

LEMMA UserActionsSteps ==
  ASSUME PageActivityGood
  PROVE  /\ Navigate => PageActivityGood'
         /\ \A n \in Actions : TwoSecondsAfter(n) => PageActivityGood'
<1>1. UserActionsGood(ua)
  BY DEF PageActivityGood, GoodParts
<1>2. ASSUME Navigate PROVE PageActivityGood'
  <2> DEFINE u == IsLiveClick(ua)
  <2>1. UserActionsGood(u) /\ u.last = ua.last /\ u.key = ua.key
    BY <1>1, IsLiveClickGood
  <2>2. Apply([World EXCEPT !.ua = u])
    BY <1>2, WorldIs DEF Navigate, WorldFields
  <2> HIDE DEF u
  <2>3. QED BY <2>1, <2>2, UserActionsStep
<1>3. ASSUME NEW n \in Actions, TwoSecondsAfter(n) PROVE PageActivityGood'
  <2> DEFINE u == FrustrationTimeout(ua, n)
  <2>1. ua.action[n].open
    BY <1>3 DEF TwoSecondsAfter
  <2>2. UserActionsGood(u) /\ u.last = ua.last /\ u.key = ua.key
    BY <1>1, <2>1, FrustrationTimeoutGood
  <2>3. Apply([World EXCEPT !.ua = u])
    BY <1>3, WorldIs DEF TwoSecondsAfter, WorldFields
  <2> HIDE DEF u
  <2>4. QED BY <2>2, <2>3, UserActionsStep
<1>4. QED BY <1>2, <1>3

\* The page view timings and the sockets are not of the parts.
LEMMA OthersLater ==
  ASSUME PageActivityGood, NEW p
  PROVE  /\ Later(World, [World EXCEPT !.pvt = p])
         /\ Later(World, [World EXCEPT !.ws = p])
<1> DEFINE w == World
           v == [w EXCEPT !.pvt = p]
           x == [w EXCEPT !.ws = p]
<1>1. Good(w) /\ DOMAIN w = WorldFields
  BY WorldGood, WorldIs DEF Good
<1> HIDE DEF w
<1>2. /\ DOMAIN v = DOMAIN w /\ v.ua = w.ua /\ v.mf = w.mf /\ v.custom = w.custom
      /\ v.agg = w.agg /\ v.mfe = w.mfe /\ v.page = w.page
  BY <1>1 DEF WorldFields
<1>3. /\ DOMAIN x = DOMAIN w /\ x.ua = w.ua /\ x.mf = w.mf /\ x.custom = w.custom
      /\ x.agg = w.agg /\ x.mfe = w.mfe /\ x.page = w.page
  BY <1>1 DEF WorldFields
<1> HIDE DEF v, x
<1>4. Later(w, v) /\ Later(w, x)
  BY <1>1, <1>2, <1>3, SameGood
<1>5. QED BY <1>4 DEF v, x, w

LEMMA TimingsStep ==
  ASSUME PageActivityGood, NEW p, Apply([World EXCEPT !.pvt = p])
  PROVE  PageActivityGood'
<1>1. Later(World, [World EXCEPT !.pvt = p])
  BY OthersLater
<1>2. QED BY <1>1, LaterStep

LEMMA TimingsSteps ==
  ASSUME PageActivityGood,
         LcpCandidate \/ LcpFinal \/ Interaction \/ FirstPaint \/ LoadMeasured \/ LayoutShift
  PROVE  PageActivityGood'
<1>1. \E p : Apply([World EXCEPT !.pvt = p])
  <2>1. LcpCandidate => Apply([World EXCEPT !.pvt = Candidate(pvt, "lcp")])
    BY WorldIs DEF LcpCandidate, WorldFields
  <2>2. LcpFinal => Apply([World EXCEPT !.pvt = Update(pvt, "lcp")])
    BY WorldIs DEF LcpFinal, WorldFields
  <2>3. Interaction => Apply([World EXCEPT !.pvt = Candidate(pvt, "inp")])
    BY WorldIs DEF Interaction, WorldFields
  <2>4. FirstPaint => Apply([World EXCEPT !.pvt = Update(pvt, "fcp")])
    BY WorldIs DEF FirstPaint, WorldFields
  <2>5. LoadMeasured => Apply([World EXCEPT !.pvt = Update(pvt, "load")])
    BY WorldIs DEF LoadMeasured, WorldFields
  <2>6. LayoutShift => Apply([World EXCEPT !.pvt = [pvt EXCEPT !.cls = TRUE]])
    BY WorldIs DEF LayoutShift, WorldFields
  <2>7. QED BY <2>1, <2>2, <2>3, <2>4, <2>5, <2>6
<1>2. QED BY <1>1, TimingsStep

LEMMA SendSteps ==
  ASSUME PageActivityGood,
         PageError \/ FetchStart \/ XhrHeaders \/ HarvestAll \/ ApiCall
  PROVE  PageActivityGood'
<1>1. Later(World, World) /\ Good(World)
  BY WorldLater, WorldGood
<1>2. ASSUME PageError PROVE PageActivityGood'
  <2>1. Apply(Send(World, "uaErr", NoElement))
    BY <1>2 DEF PageError
  <2>2. QED BY <1>1, <2>1, SendStep DEF Kinds
<1>3. ASSUME FetchStart \/ XhrHeaders PROVE PageActivityGood'
  <2>1. Apply(Send(World, "uaXhr", NoElement))
    BY <1>3 DEF FetchStart, XhrHeaders
  <2>2. QED BY <1>1, <2>1, SendStep DEF Kinds
<1>4. ASSUME HarvestAll PROVE PageActivityGood'
  <2>1. Apply(SendAll(World)) /\ Later(World, SendAll(World))
    BY <1>1, <1>4, SendAllLater DEF HarvestAll
  <2>2. QED BY <2>1, LaterStep
<1>5. ASSUME ApiCall PROVE PageActivityGood'
  <2>1. Apply(CountedCall(World)) /\ Later(World, CountedCall(World))
    BY <1>1, <1>5, CountedCallLater DEF ApiCall
  <2>2. QED BY <2>1, LaterStep
<1>6. QED BY <1>2, <1>3, <1>4, <1>5

LEMMA HideGood ==
  ASSUME PageActivityGood, Hide
  PROVE  PageActivityGood'
<1>1. Apply(Hidden(World)) /\ Later(World, World)
  BY WorldLater DEF Hide
<1>2. HiddenFrom(World, Hidden(World))
  BY <1>1, HiddenGood DEF Later
<1>3. QED BY <1>1, <1>2, ApplyHidden

LEMMA ShowGood ==
  ASSUME PageActivityGood, Show
  PROVE  PageActivityGood'
<1> DEFINE w == World
           d == DisconnectAll(mfe)
           v == [w EXCEPT !.mfe = d, !.page.hidden = FALSE]
<1>1. Apply(v)
  BY WorldIs DEF Show, WorldFields
<1>2. /\ Good(w) /\ DOMAIN w = WorldFields /\ DOMAIN w.page = PageFields
      /\ w.agg = agg /\ w.mfe = mfe
  BY WorldGood, WorldIs DEF Good, GoodParts, PageGood
<1>3. MfeGood(d) /\ AggGood(agg)
  BY DisconnectAllGood DEF PageActivityGood
<1> HIDE DEF w, d
<1>4. /\ DOMAIN v = DOMAIN w /\ v.ua = w.ua /\ v.mf = w.mf /\ v.custom = w.custom
      /\ v.agg = w.agg /\ v.mfe = d /\ DOMAIN v.page = DOMAIN w.page
      /\ v.page.stage = w.page.stage /\ v.page.queue = w.page.queue
  BY <1>2 DEF WorldFields, PageFields
<1> HIDE DEF v
<1>5. PageGood(v.page) /\ RoomFor(v.ua, v.page)
  BY <1>2, <1>4, PageChanges DEF Good, GoodParts
<1>6. GoodParts(v.ua, v.page, v.mf, v.custom) /\ AggGood(v.agg) /\ MfeGood(v.mfe)
  BY <1>2, <1>3, <1>4, <1>5 DEF Good, GoodParts
<1>7. GoodParts(ua', page', mf', custom') /\ AggGood(agg') /\ MfeGood(mfe')
  BY <1>1, <1>6 DEF Apply
<1>8. QED BY <1>7 DEF PageActivityGood

LEMMA CloseGood ==
  ASSUME PageActivityGood, Close
  PROVE  PageActivityGood'
<1> DEFINE w == World
           o == [w EXCEPT !.page.closed = TRUE]
           u == Send(o, "winPagehide", NoElement)
           v == CompletesAll(u, Tracked(ws))
           x == ReportsAll(v, Unreported(mf))
<1>1. Apply(IF page.hidden THEN x ELSE Hidden(x))
  BY DEF Close, CompletesAll, ReportsAll, Completes
<1>2. Good(w) /\ DOMAIN w = WorldFields /\ DOMAIN w.page = PageFields
  BY WorldGood, WorldIs DEF Good, GoodParts, PageGood
<1>3. IsFiniteSet(Tracked(ws)) /\ Tracked(ws) \subseteq SocketIds
  BY SocketsAssumption, FS_Subset DEF Tracked
<1>4. IsFiniteSet(Unreported(mf))
  <2>1. PICK T : mf.entities \in Seq(T)
    BY DEF PageActivityGood, GoodParts, FetchesGood, EntitiesGood, IsList
  <2>2. Entities(mf) = 1..Len(mf.entities) /\ Len(mf.entities) \in Nat
    BY <2>1 DEF Entities
  <2>3. IsFiniteSet(Entities(mf))
    BY <2>2, FS_Interval
  <2>4. QED BY <2>3, FS_Subset DEF Unreported
<1> HIDE DEF w
<1>5. /\ DOMAIN o = DOMAIN w /\ o.ua = w.ua /\ o.mf = w.mf /\ o.custom = w.custom
      /\ o.agg = w.agg /\ o.mfe = w.mfe /\ DOMAIN o.page = DOMAIN w.page
      /\ o.page.stage = w.page.stage /\ o.page.queue = w.page.queue
  BY <1>2 DEF WorldFields, PageFields
<1> HIDE DEF o
<1>6. Later(w, o)
  BY <1>2, <1>5, PageLater
<1>7. Later(o, u)
  BY <1>6, SendLater DEF Later, Kinds
<1> HIDE DEF u
<1>8. Later(u, v)
  BY <1>3, <1>7, CompletesLater DEF Later
<1> HIDE DEF v
<1>9. Later(v, x)
  BY <1>4, <1>8, ReportsLater DEF Later
<1> HIDE DEF x
<1>10. Later(w, x) /\ Good(x)
  BY <1>6, <1>7, <1>8, <1>9 DEF Later
<1>11. CASE page.hidden
  BY <1>1, <1>10, <1>11, LaterStep DEF w
<1>12. CASE ~page.hidden
  <2>1. Apply(Hidden(x)) /\ HiddenFrom(x, Hidden(x))
    BY <1>1, <1>10, <1>12, HiddenGood
  <2>2. QED BY <1>10, <2>1, ApplyHidden DEF w
<1>13. QED BY <1>11, <1>12

LEMMA SocketsSteps ==
  ASSUME PageActivityGood, NEW n \in SocketIds, SocketOpens(n) \/ SocketCloses(n)
  PROVE  PageActivityGood'
<1>1. CASE SocketOpens(n)
  <2>1. \E s : Apply([World EXCEPT !.ws = s])
    <3>1. Apply([World EXCEPT !.ws = Construct(ws, n)]) \/ Apply([World EXCEPT !.ws = Opens(ws, n)])
      BY <1>1, WorldIs DEF SocketOpens, WorldFields
    <3>2. QED BY <3>1
  <2>2. PICK s : Apply([World EXCEPT !.ws = s])
    BY <2>1
  <2>3. Later(World, [World EXCEPT !.ws = s])
    BY OthersLater
  <2>4. QED BY <2>2, <2>3, LaterStep
<1>2. CASE SocketCloses(n)
  <2> DEFINE o == [World EXCEPT !.ws = Closes(ws, n)]
  <2>1. Apply(Send(o, "ws-complete", n))
    BY <1>2, WorldIs DEF SocketCloses, WorldFields
  <2>2. Later(World, o)
    BY OthersLater
  <2> HIDE DEF o
  <2>3. QED BY <2>1, <2>2, SendStep DEF Kinds
<1>3. QED BY <1>1, <1>2

\* What the application records, and the micro frontends' registrations and requests
LEMMA CustomLater ==
  ASSUME PageActivityGood, NEW g, CustomGood(g)
  PROVE  Later(World, [World EXCEPT !.custom = g])
<1> DEFINE w == World
           v == [w EXCEPT !.custom = g]
<1>1. Good(w) /\ DOMAIN w = WorldFields
  BY WorldGood, WorldIs DEF Good
<1> HIDE DEF w
<1>2. /\ DOMAIN v = DOMAIN w /\ v.ua = w.ua /\ v.mf = w.mf /\ v.custom = g
      /\ v.agg = w.agg /\ v.mfe = w.mfe /\ v.page = w.page
  BY <1>1 DEF WorldFields
<1> HIDE DEF v
<1>3. Later(w, v)
  BY <1>1, <1>2, AddEventsGood
<1>4. QED BY <1>3 DEF v, w

LEMMA RegistryLater ==
  ASSUME PageActivityGood, NEW m, FetchesGood(m), CallsStay(mf, m)
  PROVE  Later(World, [World EXCEPT !.mf = m])
<1> DEFINE w == World
           v == [w EXCEPT !.mf = m]
<1>1. Good(w) /\ DOMAIN w = WorldFields /\ w.mf = mf
  BY WorldGood, WorldIs DEF Good
<1> HIDE DEF w
<1>2. /\ DOMAIN v = DOMAIN w /\ v.ua = w.ua /\ v.mf = m /\ v.custom = w.custom
      /\ v.agg = w.agg /\ v.mfe = w.mfe /\ v.page = w.page
  BY <1>1 DEF WorldFields
<1> HIDE DEF v
<1>3. Later(w, v)
  BY <1>1, <1>2, FetchesLater
<1>4. QED BY <1>3 DEF v, w

LEMMA MarksSteps ==
  ASSUME PageActivityGood, Marked \/ ObserveMarks
  PROVE  PageActivityGood'
<1>0. CustomGood(custom)
  BY DEF PageActivityGood, GoodParts
<1>1. CASE Marked
  <2> DEFINE g == [custom EXCEPT !.marks = @ + 1, !.waiting = @ + 1]
  <2>1. CustomGood(g)
    BY <1>0 DEF CustomGood
  <2>2. Apply([World EXCEPT !.custom = g])
    <3>1. Apply([World EXCEPT !.custom.marks = @ + 1, !.custom.waiting = @ + 1])
      BY <1>1 DEF Marked
    <3>2. QED BY <1>0, <3>1, WorldIs DEF WorldFields, CustomGood
  <2> HIDE DEF g
  <2>3. Later(World, [World EXCEPT !.custom = g])
    BY <2>1, CustomLater
  <2>4. QED BY <2>2, <2>3, LaterStep
<1>2. CASE ObserveMarks
  <2> DEFINE g == MarksObserved(custom)
             o == [World EXCEPT !.custom = g]
             q == [i \in 1..custom.waiting |-> "sm"]
             v == FoldLeft(LAMBDA w, seen : Send(w, seen, NoElement), o, q)
  <2>1. CustomGood(g)
    BY <1>0 DEF MarksObserved, AddEvents, CustomGood
  <2>2. Apply(v)
    BY <1>2, WorldIs DEF ObserveMarks, WorldFields
  <2>3. q \in Seq({"sm"})
    BY <1>0 DEF CustomGood
  <2> HIDE DEF g, q
  <2>4. Later(World, o)
    BY <2>1, CustomLater
  <2> HIDE DEF o
  <2>5. Later(o, v)
    BY <2>3, <2>4, NotesLater DEF Later
  <2>6. Later(World, v)
    BY <2>4, <2>5 DEF Later
  <2> HIDE DEF v
  <2>7. QED BY <2>2, <2>6, LaterStep
<1>3. QED BY <1>1, <1>2

LEMMA RegistryStep ==
  ASSUME PageActivityGood, NEW m, FetchesGood(m), CallsStay(mf, m), Apply([World EXCEPT !.mf = m])
  PROVE  PageActivityGood'
<1>1. Later(World, [World EXCEPT !.mf = m])
  BY RegistryLater
<1>2. QED BY <1>1, LaterStep

LEMMA MfeNextGood ==
  ASSUME PageActivityGood, MfeNext
  PROVE  PageActivityGood'
<1>0. FetchesGood(mf) /\ DOMAIN mf = {"scripts", "entities", "calls"}
  BY DEF PageActivityGood, GoodParts, FetchesGood
<1>1. ASSUME TenSecondsPass PROVE PageActivityGood'
  <2>1. Apply([World EXCEPT !.mf = TenSecondsLater(mf)])
    BY <1>1, WorldIs DEF TenSecondsPass, WorldFields
  <2>2. FetchesGood(TenSecondsLater(mf)) /\ CallsStay(mf, TenSecondsLater(mf))
    BY <1>0, TenSecondsGood
  <2>3. QED BY <2>1, <2>2, RegistryStep
<1>2. ASSUME NEW f \in Files, ScriptObserved(f) PROVE PageActivityGood'
  <2>1. Apply([World EXCEPT !.mf = Observed(mf, f)])
    BY <1>2, WorldIs DEF ScriptObserved, WorldFields
  <2>2. FetchesGood(Observed(mf, f)) /\ CallsStay(mf, Observed(mf, f))
    BY <1>0, ObservedGood
  <2>3. QED BY <2>1, <2>2, RegistryStep
<1>3. ASSUME NEW f, NEW entry \in {"full", "listed"}, ScriptLoads(f, entry) PROVE PageActivityGood'
  <2> DEFINE m == [mf EXCEPT !.scripts[f] = entry]
  <2>1. Apply([World EXCEPT !.mf = m])
    BY <1>0, <1>3, WorldIs DEF ScriptLoads, WorldFields
  <2>2. FetchesGood(m) /\ CallsStay(mf, m)
    BY <1>0, ScriptsChange
  <2> HIDE DEF m
  <2>3. QED BY <2>1, <2>2, RegistryStep
<1>4. ASSUME NEW f \in Files, NEW id, Register(f, id) PROVE PageActivityGood'
  <2> DEFINE o == [World EXCEPT !.mf = Registered(mf, f, id)]
  <2>1. Apply(Send(o, "sm", NoElement)) /\ Len(mf.entities) < MaxEntities
    BY <1>4, WorldIs DEF Register, WorldFields
  <2>2. FetchesGood(Registered(mf, f, id)) /\ CallsStay(mf, Registered(mf, f, id))
    BY <1>0, <2>1, RegisteredGood
  <2>3. Later(World, o)
    BY <2>2, RegistryLater
  <2> HIDE DEF o
  <2>4. QED BY <2>1, <2>3, SendStep DEF Kinds
<1>5. ASSUME NEW i, Deregister(i) PROVE PageActivityGood'
  <2> DEFINE r == ReportTimings(World, i)
             m == [r.mf EXCEPT !.entities[i].blocked = TRUE]
             v == [r EXCEPT !.mf = m]
  <2>1. Later(World, r)
    BY WorldGood, ReportTimingsLater
  <2>2. Good(r) /\ DOMAIN r = WorldFields /\ FetchesGood(r.mf)
        /\ DOMAIN r.mf = {"scripts", "entities", "calls"}
    BY <2>1 DEF Later, Good, GoodParts, FetchesGood
  <2>3. Apply([r EXCEPT !.mf.entities[i].blocked = TRUE])
    BY <1>5 DEF Deregister
  <2> HIDE DEF r
  <2>4. [r EXCEPT !.mf.entities[i].blocked = TRUE] = v
    BY <2>2 DEF WorldFields
  <2>5. FetchesGood(m) /\ CallsStay(r.mf, m)
    BY <2>2, EntityMarks
  <2> HIDE DEF m
  <2>6. /\ DOMAIN v = DOMAIN r /\ v.ua = r.ua /\ v.mf = m /\ v.custom = r.custom
        /\ v.agg = r.agg /\ v.mfe = r.mfe /\ v.page = r.page
    BY <2>2 DEF WorldFields
  <2> HIDE DEF v
  <2>7. Later(r, v)
    BY <2>2, <2>5, <2>6, FetchesLater
  <2>8. Later(World, v) /\ Apply(v)
    BY <2>1, <2>3, <2>4, <2>7 DEF Later
  <2>9. QED BY <2>8, LaterStep
<1>6. ASSUME NEW n \in FetchIds, FetchEnds(n) PROVE PageActivityGood'
  <2> DEFINE m == FinishAndReport(mf, n)
             o == [World EXCEPT !.mf = m]
             v == Send(o, "xhr", n)
  <2>1. Apply(v) /\ mf.calls[n].state \in {"pending", "reading"}
    BY <1>6, WorldIs DEF FetchEnds, WorldFields
  <2>2. FetchesGood(m) /\ CallsStay(mf, m) /\ m.calls[n].state = "reported"
    BY <1>0, <2>1, CallGoesOn DEF FinishAndReport
  <2> HIDE DEF m
  <2>3. Later(World, o) /\ o.mf = m /\ o.page = page
    BY <2>2, RegistryLater, WorldIs DEF WorldFields
  <2>4. \A i \in 1..Len(page.queue) : page.queue[i].kind = "xhr" => page.queue[i].arg # n
    BY <2>1 DEF PageActivityGood, GoodParts, CallsWait
  <2> HIDE DEF o
  <2>5. SentFor(o, "xhr", v)
    BY <2>2, <2>3, <2>4, SendGood DEF Later, Kinds
  <2> HIDE DEF v
  <2>6. Later(World, v)
    BY <2>3, <2>5 DEF SentFor, Later
  <2>7. QED BY <2>1, <2>6, LaterStep
<1>7. ASSUME NEW n \in FetchIds, FetchReads(n) PROVE PageActivityGood'
  <2> DEFINE m == [mf EXCEPT !.calls[n].state = "reading"]
  <2>1. Apply([World EXCEPT !.mf = m]) /\ mf.calls[n].state = "pending"
    BY <1>0, <1>7, WorldIs DEF FetchReads, WorldFields
  <2>2. FetchesGood(m) /\ CallsStay(mf, m)
    BY <1>0, <2>1, CallGoesOn
  <2> HIDE DEF m
  <2>3. QED BY <2>1, <2>2, RegistryStep
<1>8. ASSUME NEW n \in FetchIds, NEW files, FetchCall(n, files) PROVE PageActivityGood'
  <2> DEFINE o == [World EXCEPT !.mf = Called(mf, n, files)]
  <2>1. Apply(Send(o, "uaXhr", NoElement)) /\ mf.calls[n].state = "none"
    BY <1>8, WorldIs DEF FetchCall, WorldFields
  <2>2. FetchesGood(Called(mf, n, files)) /\ CallsStay(mf, Called(mf, n, files))
    BY <1>0, <2>1, CalledGood
  <2>3. Later(World, o)
    BY <2>2, RegistryLater
  <2> HIDE DEF o
  <2>4. QED BY <2>1, <2>3, SendStep DEF Kinds
<1>9. QED BY <1>1, <1>2, <1>3, <1>4, <1>5, <1>6, <1>7, <1>8 DEF MfeNext

\* The first state has the invariant.
LEMMA InitGood == Init => PageActivityGood
<1> SUFFICES ASSUME Init PROVE PageActivityGood
  OBVIOUS
<1>1. UserActionsGood(ua) /\ AggGood(agg) /\ MfeGood(mfe)
  BY UaInitGood, AggInitGood, MfeInitGood DEF Init
<1>2. ua.key = NoElement
  BY DEF Init, UaInit
<1>3. DOMAIN page = PageFields /\ page.queue = <<>>
  BY DEF Init, PageFields
<1>4. <<>> \in Seq(Messages) /\ Len(<<>>) = 0
  OBVIOUS
<1>5. PageGood(page) /\ RoomFor(ua, page)
  BY <1>2, <1>3, <1>4 DEF PageGood, RoomFor
<1>6. FetchesGood(mf) /\ CallsWait(mf, page.queue)
  BY <1>3, <1>4, MfInitGood DEF Init, CallsWait
<1>7. CustomGood(custom)
  BY DEF Init, CustomInit, CustomGood
<1>8. QED BY <1>1, <1>5, <1>6, <1>7 DEF PageActivityGood, GoodParts

\* Every step keeps it: one case for each disjunct.
LEMMA NextGood == PageActivityGood /\ [Next]_vars => PageActivityGood'
<1> SUFFICES ASSUME PageActivityGood, [Next]_vars PROVE PageActivityGood'
  OBVIOUS
<1>1. CASE UserNext
  <2>1. CASE \E ins, err \in BOOLEAN : RumResponse(ins, err)
    BY <2>1, RumResponseGood
  <2>2. CASE DrainAll
    BY <2>2, DrainAllGood
  <2>3. CASE \E el \in Elements : UserEvent(el)
    BY <2>3, UserEventGood
  <2>4. CASE Navigate \/ \E n \in Actions : TwoSecondsAfter(n)
    BY <2>4, UserActionsSteps
  <2>5. CASE DomChanges
    BY <2>5, DomChangesGood
  <2>6. CASE LcpCandidate \/ LcpFinal \/ Interaction \/ FirstPaint \/ LoadMeasured \/ LayoutShift
    BY <2>6, TimingsSteps
  <2>7. CASE PageError \/ FetchStart \/ HarvestAll \/ ApiCall
    BY <2>7, SendSteps
  <2>8. CASE Hide
    BY <2>8, HideGood
  <2>9. CASE Show
    BY <2>9, ShowGood
  <2>10. CASE Close
    BY <2>10, CloseGood
  <2>11. CASE Marked \/ ObserveMarks
    BY <2>11, MarksSteps
  <2>12. CASE MfeNext
    BY <2>12, MfeNextGood
  <2>13. CASE \E n \in SocketIds : SocketOpens(n) \/ SocketCloses(n)
    BY <2>13, SocketsSteps
  <2>14. QED BY <1>1, <2>1, <2>2, <2>3, <2>4, <2>5, <2>6, <2>7, <2>8, <2>9, <2>10, <2>11, <2>12,
                <2>13 DEF UserNext
<1>2. CASE XhrHeaders
  BY <1>2, SendSteps
<1>3. CASE MfeStep /\ UNCHANGED <<ua, pvt, xhr, ws, mf, agg, met, custom, page>>
  <2>1. MfeGood(mfe')
    BY <1>3, MfeStepGood DEF PageActivityGood
  <2>2. QED BY <1>3, <2>1 DEF PageActivityGood
<1>4. CASE AggStep /\ UNCHANGED <<ua, pvt, xhr, ws, mf, mfe, met, custom, page>>
  <2>1. AggGood(agg')
    BY <1>4, AggStepGood DEF PageActivityGood
  <2>2. QED BY <1>4, <2>1 DEF PageActivityGood
<1>5. CASE UNCHANGED <<ua, pvt, ws, mf, mfe, agg, met, custom, page>>
  BY <1>5 DEF PageActivityGood
<1>6. QED BY <1>1, <1>2, <1>3, <1>4, <1>5 DEF Next, vars

\* The inductive invariant: a click that is watched has the timers that nothing has
\* stopped, a bucket is the summary of the occurrences it stands for, each root of the
\* page is claimed by one instance at most, and the queue of the drain has room for an
\* action for each event that waits (user-actions-aggregator.js, event-aggregator.js,
\* mfe-vitals.js, drain.js).
THEOREM PageActivityInvariant == Spec => []PageActivityGood
<1>1. Init => PageActivityGood
  BY InitGood
<1>2. PageActivityGood /\ [Next]_vars => PageActivityGood'
  BY NextGood
<1>3. QED BY <1>1, <1>2, PTL DEF Spec

\* A click is called dead if its timer ran out and nothing had changed, and an error click
\* if an error followed it while it was watched, whatever was clicked in between and
\* however long its message waited for the drain (user-actions-aggregator.js).
THEOREM FrustrationsAreTrue == Spec => []FrustrationIsTrue
<1>1. PageActivityGood => FrustrationIsTrue
  <2> SUFFICES ASSUME PageActivityGood, NEW n \in 1..ua.last
               PROVE  /\ ua.action[n].dead = (ua.action[n].lasted /\ ~ua.action[n].touched)
                      /\ ua.action[n].error = ua.action[n].erred
    BY DEF FrustrationIsTrue
  <2>1. UserActionsGood(ua) /\ MaxActions \in Nat
    BY UserActionsAssumption DEF PageActivityGood, GoodParts
  <2>2. n \in Actions
    BY <2>1 DEF Actions, UserActionsGood, UserActionsTypes
  <2>3. Clear(ua.action[n]) /\ IsAction(ua.action[n])
    BY <2>1, <2>2 DEF UserActionsGood, UserActionsTypes, ActionGood
  <2>4. QED BY <2>3 DEF Clear, IsAction
<1>2. QED BY <1>1, PageActivityInvariant, PTL

\* The count, total, extremes and sum of squares that are kept for a bucket are the ones
\* of its occurrences, each counted once, also those of a request that failed and was
\* merged back, with the params of the first (event-aggregator.js:76).
THEOREM BucketsStayExact == Spec => []BucketsAreExact
<1>1. PageActivityGood => BucketsAreExact
  BY DEF PageActivityGood, AggGood, BucketsAreExact
<1>2. QED BY <1>1, PageActivityInvariant, PTL

\* What an instance has measured came from a root that it claimed, or in the batch that
\* brought it, and its LCP is final once it was disconnected, in whatever order the
\* instances register, render and are used (mfe-vitals.js:85, :119, :218).
THEOREM VitalsStayTheirOwn == Spec => []VitalsAreTheirOwn
<1>1. PageActivityGood => VitalsAreTheirOwn
  BY VitalsOfGood DEF PageActivityGood
<1>2. QED BY <1>1, PageActivityInvariant, PTL

\* A call of fetch() that is over is reported once for each file on its stack and id that
\* is registered from it, to one that was not deregistered when the call was made if there
\* was one, and else to the container, whatever is registered, deregistered or observed,
\* and however long its message waits, before it is stored (common/v2/utils.js:49,
\* features/ajax/instrument/index.js).
THEOREM FetchesFindTheirOwners == Spec => []FetchHasItsOwners
<1>1. PageActivityGood => FetchHasItsOwners
  BY OwnedOnce DEF PageActivityGood, GoodParts
<1>2. QED BY <1>1, PageActivityInvariant, PTL

\* The first request of an object is reported once with its own times, and its status if
\* it loaded, or not at all if it was aborted, whatever listeners come and go, as long as
\* the page takes part in the count: the calls that were counted and the listeners that
\* are left are those that were registered (features/ajax/instrument/index.js:196, :222).
THEOREM FirstRequestsAreReported == Spec => []FirstRequestIsReported
<1> DEFINE Inv == XhrGood(xhr)
<1>1. Init => Inv
  BY XhrStart DEF Init
<1>2. Inv /\ [Next]_vars => Inv'
  <2> SUFFICES ASSUME Inv, [Next]_vars PROVE Inv'
    OBVIOUS
  <2>1. CASE XhrNext \/ HeadersReceived
    BY <2>1, XhrStep
  <2>2. CASE UNCHANGED xhr
    BY <2>2
  <2>3. QED BY <2>1, <2>2 DEF Next, vars, XhrHeaders
<1>3. Inv => FirstRequestIsReported
  <2>1. Over(xhr) /\ ~xhr.disturbed /\ xhr.settled # "no" => xhr.reports = Expected(xhr.settled)
    BY DEF Over
  <2>2. Before(xhr) \/ Loading(xhr) \/ Loaded(xhr) \/ Failing(xhr) => xhr.settled = "no"
    BY DEF Before, Loading, Loaded, Failing, OfFirst
  <2>3. QED BY <2>1, <2>2 DEF XhrGood, FirstRequestIsReported, Expected
<1> HIDE DEF Inv
<1>4. QED BY <1>1, <1>2, <1>3, PTL DEF Spec
=============================================================================
