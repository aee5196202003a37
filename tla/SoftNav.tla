-------------------------------- MODULE SoftNav -------------------------------
(***************************************************************************)
(* Soft navigations: the interactions of a page and the ajax requests and  *)
(* errors handed over for them.  At most one interaction is in progress    *)
(* besides the page load; it opens with an event of the user or with the   *)
(* API, and closes by URL and DOM changes, by timers or by the API.  What  *)
(* happens in it is withheld until then: it becomes part of the            *)
(* interaction, or it is given back to the feature it came from.           *)
(*                                                                         *)
(* A handler is a composition of methods on a world w, the record of the   *)
(* variables.  Time is a coarse clock: several things share an instant.    *)
(***************************************************************************)
EXTENDS Naturals, Sequences, Functions, FiniteSetsExt

CONSTANTS
  Requests,    \* ajax events
  Errors,      \* occurrences of one error: they share a bucket hash
  Visits,      \* what happens on a page: [stage |-> "waiting" for the flag, "on", or "absent"
               \* if the feature is not in use, big |-> are the page's attributes over the
               \* early harvest's size?, inputs |-> ..., events |-> ...]
  MergeWindow, \* POPSTATE_MERGE_WINDOW
  MaxIxns,     \* bound: starts of an interaction, the page load among them
  MaxQueued,   \* bound: messages that wait for the drain
  MaxTime      \* bound: the clock

Events == Requests \cup Errors
Inputs == {"click", "popstate", "api", "url", "longtask", "hide"}

ASSUME SoftNavAssumption ==
  /\ Requests \cap Errors = {}
  /\ Visits \subseteq [stage : {"waiting", "on", "absent"}, big : BOOLEAN,
                       inputs : SUBSET Inputs, events : SUBSET Events]
  /\ {MergeWindow, MaxIxns, MaxQueued, MaxTime} \subseteq Nat
  /\ MaxIxns > 0

VARIABLES
  nav,    \* the feature: stage, queue before the drain, interaction in progress,
          \* interactions to harvest, an API handle, the DOM observer
  ixn,    \* the interactions
  evt,    \* the events handed over: time, number of outcomes, interaction
  err,    \* the error feature: is the stack reported, its buckets, was the stack sent
  clock

vars == <<nav, ixn, evt, err, clock>>

Ixns == 1..MaxIxns
None == 0
PageLoad == 1
Open == {"in progress", "pending finish"}

(***************************************************************************)
(* Interaction: the constructor.  0 is a time that is not set.  History:   *)
(* live if it began after the drain, sent if it was serialised.            *)
(***************************************************************************)
NewInteraction(trigger, start) ==
  [trigger |-> trigger, start |-> start, end |-> 0, status |-> "in progress",
   hist |-> 0, dom |-> 0, customEnd |-> 0, keepOpen |-> FALSE, forceSave |-> FALSE,
   forceIgnore |-> FALSE, timers |-> {}, watching |-> FALSE, withheld |-> <<>>,
   children |-> {}, sent |-> FALSE, live |-> TRUE]
NoInteraction == [NewInteraction("none", 0) EXCEPT !.status = "none"]

IsActiveDuring(x, t) ==
  /\ x.start <= t
  /\ x.status \in Open \/ (x.status = "finished" /\ t < x.end)

\* The interaction in progress, else the latest one that waits for its harvest, else
\* the page load
GetInteractionFor(w, t) ==
  LET finished == {k \in w.nav.buffer \ {PageLoad} : IsActiveDuring(w.ixn[k], t)}
  IN CASE w.nav.cur # None /\ IsActiveDuring(w.ixn[w.nav.cur], t) -> w.nav.cur
       [] OTHER -> IF finished # {} THEN Max(finished)
                   ELSE IF IsActiveDuring(w.ixn[PageLoad], t) THEN PageLoad ELSE None
-----------------------------------------------------------------------------
(***************************************************************************)
(* The outcomes of an event.  An error goes back to its feature either     *)
(* way, with the interaction's id when it belongs to one; the buckets of   *)
(* the aggregator keep the parameters of their first error.                *)
(***************************************************************************)
\* The errors of s go to the buckets given by to, the first one of a new bucket with its stack
StoreJserrors(w, s, to) ==
  LET Of(b) == {i \in DOMAIN s : s[i] \in Errors /\ to[s[i]] = b}
  IN [b \in DOMAIN w.err.buckets \cup {to[e] : e \in Range(s) \cap Errors} |->
        IF b \in DOMAIN w.err.buckets THEN w.err.buckets[b] ELSE w.evt[s[Min(Of(b))]].stack]

\* An event is dealt with once, unless s holds it twice
Dealt(n, s, e) ==
  IF n = 0 /\ \A i, j \in DOMAIN s : s[i] = e /\ s[j] = e => i = j THEN 1 ELSE 2

\* The outcomes of the events s, in their order: those in alone have none of the
\* interactions, the others belong to k
Outcome(w, s, k, alone) ==
  LET to == [e \in Range(s) |-> IF e \in alone THEN None ELSE k]
  IN [w EXCEPT
        !.evt = [e \in Events |->
                   IF e \in Range(s)
                   THEN [w.evt[e] EXCEPT !.outcomes = Dealt(@, s, e), !.ixn = to[e]]
                   ELSE w.evt[e]],
        !.ixn = [n \in Ixns |->
                   IF n = k
                   THEN [w.ixn[n] EXCEPT !.children = @ \cup ((Range(s) \cap Requests) \ alone)]
                   ELSE w.ixn[n]],
        !.err = [w.err EXCEPT !.buckets = StoreJserrors(w, s, to)]]

GiveBack(w, s) == Outcome(w, s, None, {})

\* processAjax and processJserror: what falls outside the final span is given back
Process(w, s, k) == Outcome(w, s, k, {e \in Range(s) : w.evt[e].at > w.ixn[k].end})

HandOverAtOnce(w, e) ==  \* mutant: an open interaction takes its event at once
  LET k == GetInteractionFor(w, w.evt[e].at)
  IN IF k = None THEN GiveBack(w, <<e>>)
     ELSE IF w.ixn[k].status = "finished" THEN Process(w, <<e>>, k)
     ELSE [Outcome(w, <<e>>, k, {}) EXCEPT !.ixn[k].withheld = Append(@, e)]

\* #handleAjaxEvent and #handleJserror
HandOver(w, e) ==
  LET k == GetInteractionFor(w, w.evt[e].at)
  IN IF k = None THEN GiveBack(w, <<e>>)
     ELSE IF w.ixn[k].status = "finished" THEN Process(w, <<e>>, k)
     ELSE [w EXCEPT !.ixn[k].withheld = Append(@, e)]

\* What waits for an interaction hears how it ends, in the order it was withheld
OnFinished(w, k) ==
  [Process(w, w.ixn[k].withheld, k) EXCEPT !.ixn[k].withheld = <<>>]

OnCancelled(w, k) ==
  [GiveBack(w, w.ixn[k].withheld) EXCEPT !.ixn[k].withheld = <<>>]

\* makeHarvestPayload: the buffer is serialised and emptied
Harvest(w) ==
  IF w.nav.stage \notin {"draining", "on"} THEN w
  ELSE [w EXCEPT !.nav.buffer = {},
                 !.ixn = [k \in Ixns |-> [w.ixn[k] EXCEPT !.sent = @ \/ k \in w.nav.buffer]]]

\* events.add, which harvests at once when the buffer is over the ideal size
AddToHarvest(w, k) ==
  LET v == [w EXCEPT !.nav.buffer = @ \cup {k}] IN IF w.nav.visit.big THEN Harvest(v) ELSE v

\* setClosureHandlers
CloseCurrent(w, k) ==
  IF k = PageLoad THEN w ELSE [w EXCEPT !.nav.cur = None, !.nav.observing = FALSE]

Finish(w, k, end) ==
  LET x == w.ixn[k]
      v == [w EXCEPT !.ixn[k].status = "finished", !.ixn[k].end = Max({x.dom, x.hist, end})]
      u == IF k = PageLoad THEN v ELSE CloseCurrent(AddToHarvest(v, k), k)
  IN OnFinished(u, k)

CancelAndForget(w, k) ==  \* mutant: nothing listens to the cancellation
  CloseCurrent([w EXCEPT !.ixn[k].status = "cancelled", !.ixn[k].withheld = <<>>], k)

Cancel(w, k) ==
  OnCancelled(CloseCurrent([w EXCEPT !.ixn[k].status = "cancelled"], k), k)

\* What the page load does when it is done, before it is known how: index.js
\* pushes it to the harvest whatever follows
OnDone(w, k) ==
  IF k # PageLoad THEN w ELSE AddToHarvest([w EXCEPT !.ixn[k].forceSave = TRUE], k)

DoneKeepsTimers(w, k, end, byApi) ==  \* mutant: the timers are not cleared
  LET x == w.ixn[k]
      v == OnDone(w, k)
  IN IF (x.keepOpen /\ ~byApi) \/ x.status \notin Open THEN w
     ELSE IF x.forceIgnore THEN Cancel(v, k)
     ELSE IF x.status = "pending finish" THEN Finish(v, k, end)
     ELSE IF v.ixn[k].forceSave THEN Finish(v, k, IF end = 0 THEN w.clock ELSE end)
     ELSE Cancel(v, k)

\* done(customEndTime, calledByApi)
Done(w, k, end, byApi) ==
  LET x == w.ixn[k]
      v == OnDone([w EXCEPT !.ixn[k].timers = {}], k)
  IN IF (x.keepOpen /\ ~byApi) \/ x.status \notin Open THEN w
     ELSE IF x.forceIgnore THEN Cancel(v, k)
     ELSE IF x.status = "pending finish" THEN Finish(v, k, end)
     ELSE IF v.ixn[k].forceSave THEN Finish(v, k, IF end = 0 THEN w.clock ELSE end)
     ELSE Cancel(v, k)

DoneByItself(w, k) == IF k = None THEN w ELSE Done(w, k, w.ixn[k].customEnd, FALSE)
-----------------------------------------------------------------------------
\* A new interaction in progress: the one of the n-th start
Begin(w, n, trigger, t, timers) ==
  [w EXCEPT !.nav.cur = n,
            !.ixn[n] = [NewInteraction(trigger, t) EXCEPT !.timers = timers,
                                                          !.live = w.nav.stage = "on"]]

StartUIInteraction(w, n, trigger, t) ==
  LET c == w.nav.cur
      x == w.ixn[c]
  IN IF c # None /\ \/ x.trigger = "api"
                    \/ trigger = "popstate" /\ x.trigger # "popstate" /\ t <= x.start + MergeWindow
                    \/ x.keepOpen
     THEN w
     ELSE Begin(DoneByItself(w, c), n, trigger, t, {"cancel"})

\* newURL, with an URL that differs from the interaction's
UpdateHistory(w, t) ==
  LET c == w.nav.cur
  IN IF c = None \/ (c # None /\ w.ixn[c].dom > 0) THEN w ELSE [w EXCEPT !.ixn[c].hist = t]

PendingUntimed(w) ==  \* mutant: nothing waits for the long tasks
  LET c == w.nav.cur
      x == w.ixn[c]
  IN IF ~(x.hist > 0 /\ x.dom > x.hist) \/ x.status = "pending finish" THEN w
     ELSE [w EXCEPT !.ixn[c].status = "pending finish", !.ixn[c].watching = TRUE,
                    !.ixn[c].timers = @ \ {"cancel"}]

\* checkHistoryAndDomChange: the wait for long tasks replaces the cancellation timer
CheckHistoryAndDomChange(w) ==
  LET c == w.nav.cur
      x == w.ixn[c]
  IN IF ~(x.hist > 0 /\ x.dom > x.hist) \/ x.status = "pending finish" THEN w
     ELSE [w EXCEPT !.ixn[c].status = "pending finish", !.ixn[c].watching = TRUE,
                    !.ixn[c].timers = (@ \ {"cancel"}) \cup {"task"}]

NewDom(w, t) ==
  LET c == w.nav.cur
  IN IF c = None THEN w
     ELSE CheckHistoryAndDomChange(
            IF w.ixn[c].hist = 0 \/ t < w.ixn[c].hist THEN w ELSE [w EXCEPT !.ixn[c].dom = t])

ApiGetUnobserved(w, n, t, opts) ==  \* mutant: the DOM is not observed
  LET a == IF opts.targetPageLoad THEN PageLoad ELSE GetInteractionFor(w, t)
      v == IF opts.targetPageLoad \/ a \notin {None, PageLoad} THEN [w EXCEPT !.nav.handle = a]
           ELSE LET u == Begin(w, n, "api", t, {}) IN [u EXCEPT !.nav.handle = u.nav.cur]
  IN IF ~opts.waitForEnd THEN v
     ELSE [v EXCEPT !.ixn[v.nav.handle].keepOpen = TRUE, !.ixn[v.nav.handle].timers = @ \ {"cancel"}]

\* newrelic.interaction(opts): a handle on the interaction at that time, or on a new one
ApiGet(w, n, t, opts) ==
  LET a == IF opts.targetPageLoad THEN PageLoad ELSE GetInteractionFor(w, t)
      v == IF opts.targetPageLoad \/ a \notin {None, PageLoad} THEN [w EXCEPT !.nav.handle = a]
           ELSE LET u == Begin(w, n, "api", t, {})
                IN [u EXCEPT !.nav.handle = u.nav.cur, !.nav.observing = TRUE]
  IN IF ~opts.waitForEnd THEN v
     ELSE [v EXCEPT !.ixn[v.nav.handle].keepOpen = TRUE, !.ixn[v.nav.handle].timers = @ \ {"cancel"}]

(***************************************************************************)
(* The messages of the instrumentation, the API and the other features.    *)
(* They wait for the feature's drain, and are lost if it is switched off.  *)
(***************************************************************************)
Receive(w, m) ==
  CASE m.kind = "newUIEvent" -> StartUIInteraction(w, m.n, m.arg, m.t)
    [] m.kind = "newURL"     -> UpdateHistory(w, m.t)
    [] m.kind = "newDom"     -> NewDom(w, m.t)
    [] m.kind = "get"        -> ApiGet(w, m.n, m.t, m.arg)
    [] m.kind = "end"        -> Done(w, w.nav.handle, m.t, TRUE)
    [] m.kind = "save"       -> [w EXCEPT !.ixn[w.nav.handle].forceSave = TRUE]
    [] m.kind = "ignore"     -> [w EXCEPT !.ixn[w.nav.handle].forceIgnore = TRUE]
    [] OTHER                 -> HandOver(w, m.arg)

Send(w, kind, arg, t) ==
  LET m == [kind |-> kind, arg |-> arg, t |-> t, n |-> w.nav.starts]
  IN CASE w.nav.stage = "waiting" -> [w EXCEPT !.nav.queue = Append(@, m)]
       [] w.nav.stage = "on"      -> Receive(w, m)
       [] OTHER                   -> w

\* storeXhr and #storeError: the first occurrence of an error carries its stack
Report(w, e, t) ==
  LET v == [w EXCEPT !.evt[e].at = t, !.evt[e].stack = e \in Errors /\ ~w.err.stackReported,
                     !.err.stackReported = @ \/ e \in Errors]
  IN IF w.nav.stage = "absent" THEN GiveBack(v, <<e>>) ELSE Send(v, "event", e, t)
-----------------------------------------------------------------------------
World == [nav |-> nav, ixn |-> ixn, evt |-> evt, err |-> err, clock |-> clock]

\* What nobody reads any more of a closed interaction is forgotten
Settle(x) ==
  IF x.status \in Open THEN x
  ELSE [NewInteraction(x.trigger, x.start) EXCEPT !.status = x.status, !.end = x.end,
        !.forceIgnore = x.forceIgnore, !.timers = x.timers, !.withheld = x.withheld,
        !.children = x.children, !.sent = x.sent]

Apply(w) ==
  /\ nav' = w.nav
  /\ ixn' = [k \in Ixns |-> Settle(w.ixn[k])]
  /\ evt' = w.evt
  /\ err' = w.err
  /\ clock' = w.clock

Init ==
  /\ \E visit \in Visits :
       nav = [visit |-> visit, stage |-> visit.stage, cur |-> None, handle |-> None,
              asked |-> FALSE, buffer |-> {}, queue |-> <<>>, starts |-> 1,
              observing |-> FALSE, loaded |-> FALSE, hidden |-> FALSE]
  /\ ixn = [k \in Ixns |-> IF k = PageLoad THEN NewInteraction("initialPageLoad", 0)
                           ELSE NoInteraction]
  /\ evt = [e \in Events |-> [at |-> 0, outcomes |-> 0, ixn |-> None, stack |-> FALSE]]
  /\ err = [stackReported |-> FALSE, buckets |-> <<>>, stackSent |-> FALSE]
  /\ clock = 1

CanQueue == nav.stage = "waiting" => Len(nav.queue) < MaxQueued
Sends(input) == input \in nav.visit.inputs /\ nav.stage \in {"waiting", "on"} /\ CanQueue
Starts(w) == [w EXCEPT !.nav.starts = @ + 1]

Tick == clock < MaxTime /\ Apply([World EXCEPT !.clock = @ + 1])

\* waitForFlags(["spa"]): drain(), or deregisterDrain() and no more handlers
SpaOn == nav.stage = "waiting" /\ Apply([World EXCEPT !.nav.stage = "draining"])
SpaOff ==
  /\ nav.stage = "waiting"
  /\ Apply([World EXCEPT !.nav.stage = "off", !.nav.queue = <<>>])

\* drainGroup: one message after the other, and nothing else runs until it is done
DrainOne ==
  /\ nav.queue # <<>>
  /\ Apply(Receive([World EXCEPT !.nav.queue = Tail(@)], Head(nav.queue)))
Drained == nav.queue = <<>> /\ Apply([World EXCEPT !.nav.stage = "on"])

\* processUserInteraction: the observer starts after the message was handled
Observe(w) == [w EXCEPT !.nav.observing = TRUE]
UserEvent ==
  /\ Sends("click") /\ nav.starts < MaxIxns
  /\ Apply(Observe(Send(Starts(World), "newUIEvent", "click", clock)))

\* popstate is an event of the user, unless it is debounced, and a new URL
Popstate(debounced) ==
  /\ Sends("popstate") /\ nav.starts < MaxIxns
  /\ nav.stage = "waiting" => Len(nav.queue) + 1 < MaxQueued
  /\ Apply(Send(IF debounced THEN World
                ELSE Observe(Send(Starts(World), "newUIEvent", "popstate", clock)),
                "newURL", "", clock))
PushState == Sends("url") /\ Apply(Send(World, "newURL", "", clock))

\* The mutation observer reports in the next frame
DomChanges == nav.observing /\ Sends("url") /\ Apply(Send(World, "newDom", "", clock))

\* A long task ends: only an interaction that waits for them is extended
LongTask ==
  /\ "longtask" \in nav.visit.inputs
  /\ nav.cur # None /\ ixn[nav.cur].watching /\ ixn[nav.cur].customEnd < clock
  /\ Apply([World EXCEPT !.ixn[nav.cur].customEnd = clock,
                         !.ixn[nav.cur].timers = (@ \ {"task"}) \cup {"longtask"}])

CancelTimer(k) ==
  /\ "cancel" \in ixn[k].timers
  /\ Apply(DoneByItself([World EXCEPT !.ixn[k].timers = @ \ {"cancel"}], nav.cur))
TaskTimer(k) ==
  /\ "task" \in ixn[k].timers
  /\ Apply(DoneByItself([World EXCEPT !.ixn[k].timers = @ \ {"task"}], k))
LongTaskTimer(k) ==
  /\ "longtask" \in ixn[k].timers
  /\ Apply(DoneByItself([World EXCEPT !.ixn[k].timers = @ \ {"longtask"}], nav.cur))

Timer == \E k \in Ixns : CancelTimer(k) \/ TaskTimer(k) \/ LongTaskTimer(k)

LoadEvent ==
  /\ nav.stage # "absent" /\ ~nav.loaded
  /\ Apply(Done([World EXCEPT !.nav.loaded = TRUE], PageLoad, clock, FALSE))

GetApi(opts) ==
  /\ Sends("api") /\ nav.starts < MaxIxns
  /\ Apply(Send([Starts(World) EXCEPT !.nav.asked = TRUE], "get", opts, clock))
HandleApi(kind) ==
  /\ Sends("api") /\ nav.asked
  /\ nav.stage = "on" => ixn[nav.handle].status \in Open
  /\ Apply(Send(World, kind, "", clock))

\* A request ends that began at time t; an error occurs now
Occurs(e) == evt[e].at = 0 /\ e \in nav.visit.events /\ CanQueue
RequestEnds(e, t) ==
  Occurs(e) /\ t <= clock /\ Apply(Report(World, e, t))
ErrorOccurs(e) == Occurs(e) /\ Apply(Report(World, e, clock))

HarvestNavs == nav.stage = "on" /\ nav.buffer # {} /\ Apply(Harvest(World))
SendErrors(w) == [w EXCEPT !.err.buckets = <<>>,
                           !.err.stackSent = @ \/ TRUE \in Range(w.err.buckets)]
HarvestErrors == err.buckets # <<>> /\ Apply(SendErrors(World))

\* The page is hidden, once: beforeUnload, then the final harvest.  It may be shown again.
Hide ==
  /\ "hide" \in nav.visit.inputs /\ ~nav.hidden
  /\ LET v == [World EXCEPT !.nav.hidden = TRUE]
     IN Apply(SendErrors(Harvest(IF nav.stage = "on" THEN DoneByItself(v, nav.cur) ELSE v)))

Event ==
  \/ Tick \/ SpaOn \/ SpaOff \/ UserEvent \/ PushState \/ DomChanges \/ LongTask
  \/ LoadEvent \/ HarvestNavs \/ HarvestErrors \/ Hide
  \/ \E debounced \in BOOLEAN : Popstate(debounced)
  \/ Timer
  \/ \E opts \in [waitForEnd : BOOLEAN, targetPageLoad : BOOLEAN] : GetApi(opts)
  \/ \E kind \in {"end", "save", "ignore"} : HandleApi(kind)
  \/ \E e \in Requests, t \in 1..MaxTime : RequestEnds(e, t)
  \/ \E e \in Errors : ErrorOccurs(e)

Next == IF nav.stage = "draining" THEN DrainOne \/ Drained ELSE Event

Spec == Init /\ [][Next]_vars
-----------------------------------------------------------------------------
(***************************************************************************)
(* Every event that is handed over has one outcome, and what an            *)
(* interaction withholds is never lost nor given back twice: the feature   *)
(* implements Handover.                                                    *)
(***************************************************************************)
Withheld(e) == \E k \in Ixns : e \in Range(ixn[k].withheld)
Waits(e) == \E i \in DOMAIN nav.queue : nav.queue[i].kind = "event" /\ nav.queue[i].arg = e
Fate(e) ==
  LET n == evt[e].outcomes
  IN IF evt[e].at = 0 THEN "new"
     ELSE IF n = 0 /\ Withheld(e) /\ ~Waits(e) THEN "kept"
     ELSE IF n = 0 /\ Waits(e) /\ ~Withheld(e) THEN "queued"
     ELSE IF n = 0 /\ ~Waits(e) /\ ~Withheld(e) THEN "dropped"
     ELSE IF n = 1 /\ ~Waits(e) /\ ~Withheld(e)
          THEN IF evt[e].ixn = None THEN "alone" ELSE "attached"
     ELSE "twice"

Handovers == INSTANCE Handover WITH Event <- Events, fate <- [e \in Events |-> Fate(e)]
ImplementsHandover == Handovers!Spec

(***************************************************************************)
(* The timers call done() on the interaction that is in progress when they *)
(* fire: it is always the one they were set for (index.js:77, :114).       *)
(***************************************************************************)
TimersAreOfTheCurrent == \A k \in Ixns : ixn[k].timers # {} => k = nav.cur

(***************************************************************************)
(* While an interaction that began after the drain is open the DOM is      *)
(* observed, so that it can see the change that finishes it.               *)
(***************************************************************************)
ObservedWhileOpen == nav.cur # None /\ ixn[nav.cur].live => nav.observing

(***************************************************************************)
(* The stack of an error is sent with its first occurrence.  As long as    *)
(* that one is not dropped and the page load is not ignored, the stack is  *)
(* sent, waits in a bucket, or is withheld (jserrors index.js:265).        *)
(***************************************************************************)
StackIsNotLost ==
  err.stackReported /\ nav.stage # "off" /\ ~ixn[PageLoad].forceIgnore =>
    \/ err.stackSent
    \/ TRUE \in Range(err.buckets)
    \/ \E e \in Errors : evt[e].stack /\ Fate(e) \in {"queued", "kept"}

(***************************************************************************)
(* An interaction of the user that is open has a timer that will close it, *)
(* whatever happened before, unless the API keeps it open: what it         *)
(* withholds is not withheld for ever (index.js:114, interaction.js:70).   *)
(***************************************************************************)
OpenIsTimed ==
  nav.cur # None /\ ixn[nav.cur].trigger # "api" /\ ~ixn[nav.cur].keepOpen =>
    ixn[nav.cur].timers # {}

=============================================================================
