----------------------------- MODULE PageActivity -----------------------------
(***************************************************************************)
(* What happens on a page, and its end: the user actions, what the         *)
(* application records, the page view timings, requests, WebSockets,       *)
(* errors, micro frontends with their requests and vitals, and the metrics *)
(* about all that, from the page's load over the drain of the features to  *)
(* the final harvest.                                                      *)
(***************************************************************************)
EXTENDS UserActions, PageTimings, Xhr, Sockets, Fetches, MfeVitals, Aggregator, Metrics, CustomEvents

CONSTANTS
  Pages,      \* [drained |-> has the drain happened?, script |-> what the page does with
              \* an XMLHttpRequest, inputs |-> what else happens]
  MaxQueued,  \* bound: messages that wait for the drain
  MaxCount,   \* bound: events of the user
  MaxRecorded,  \* bound: API calls, and marks, of the application
  MaxHides    \* bound: times the page is hidden

Inputs == {"user", "change", "error", "vitals", "paints", "hide", "close", "xhr", "sockets", "mfe",
           "errors", "api", "register", "fetch", "capture"}

ASSUME PageActivityAssumption ==
  /\ Pages \subseteq [drained : BOOLEAN, script : SUBSET Scripts, inputs : SUBSET Inputs]
  /\ {MaxQueued, MaxCount, MaxRecorded, MaxHides} \subseteq Nat

VARIABLE page  \* the drain and its queue, is generic events entitled, visibility, and
               \* history: events of the user

vars == <<ua, pvt, xhr, ws, mf, mfe, agg, met, custom, page>>

Init ==
  /\ UaInit
  /\ \E kind \in Pages :
       /\ page = [stage |-> IF kind.drained THEN "on" ELSE "waiting", ins |-> TRUE, queue |-> <<>>,
                  inputs |-> kind.inputs, events |-> 0, hidden |-> FALSE, hides |-> 0,
                  closed |-> FALSE]
       /\ XhrInit(kind.script)
  /\ PvtInit /\ SocketsInit /\ MfInit /\ MfeInit /\ AggInit /\ MetricsInit /\ CustomInit
-----------------------------------------------------------------------------
(***************************************************************************)
(* A method works on the world w, the record of the variables.             *)
(***************************************************************************)
World == [ua |-> ua, pvt |-> pvt, ws |-> ws, mf |-> mf, mfe |-> mfe, agg |-> agg, met |-> met,
          custom |-> custom, page |-> page]
Apply(w) == /\ ua' = w.ua /\ pvt' = w.pvt /\ ws' = w.ws /\ mf' = w.mf /\ mfe' = w.mfe
            /\ agg' = w.agg /\ met' = w.met /\ custom' = w.custom /\ page' = w.page

\* #trackUserActionSM, for the actions that u reports and w did not
Frustrations(u, ns) ==
  Cardinality({n \in ns : u.action[n].dead}) + Cardinality({n \in ns : u.action[n].error})
Reported(u) == {n \in Actions : u.action[n].state \in {"buffered", "sent"}}
WithActions(w, u) ==
  [w EXCEPT !.ua = u,
            !.met = StoreSupportabilityMetrics(@, Frustrations(u, Reported(u) \ Reported(w.ua)))]

\* The generic events need their flag
ReceiveGeneric(w, m) ==
  IF ~w.page.ins THEN w
  ELSE CASE m.kind = "ua"          -> WithActions(w, Process(w.ua, m.arg))
         [] m.kind = "uaXhr"       -> [w EXCEPT !.ua = IsLiveClick(@)]
         [] m.kind = "uaErr"       -> [w EXCEPT !.ua = MarkAsErrorClick(@)]
         [] m.kind = "ws-complete" -> [w EXCEPT !.ws = AddSocketEvent(@, m.arg),
                                                !.met = StoreSupportabilityMetrics(@, 1)]
         [] m.kind = "api"         -> [w EXCEPT !.custom = AddEvents(@, 1)]

Receive(w, m) ==
  CASE m.kind = "docHidden"   -> [w EXCEPT !.pvt = EndCurrentSession(@)]
    [] m.kind = "winPagehide" -> [w EXCEPT !.pvt = AddTiming(@, "unload")]
    [] m.kind = "xhr"         -> [w EXCEPT !.mf = StoreFetch(@, m.arg)]
    [] m.kind = "sm"          -> [w EXCEPT !.met = StoreSupportabilityMetrics(@, 1)]
    [] OTHER                  -> ReceiveGeneric(w, m)

\* handle()
Send(w, kind, arg) ==
  LET m == [kind |-> kind, arg |-> arg]
  IN IF w.page.stage = "on" THEN Receive(w, m) ELSE [w EXCEPT !.page.queue = Append(@, m)]

CanQueueMore(n) == page.stage # "on" => Len(page.queue) + n <= MaxQueued
CanQueue == CanQueueMore(1)

SendAll(w) ==
  [w EXCEPT !.pvt = SendTimings(@), !.ua = SendActions(@), !.ws = SendSockets(@),
            !.custom = SendCustom(@), !.mf = SendFetches(@)]

\* generic events is there, and entitled
Generic(w) == w.page.stage # "waiting" /\ w.page.ins

\* The features wrap up before any of them is harvested
BeforeUnload(w) ==
  LET v == IF Generic(w) THEN WithActions(w, AggregationEvent(w.ua)) ELSE w
  IN IF w.page.stage = "on" THEN [v EXCEPT !.met = EvaluateHarvestMetadata(@)] ELSE v

\* The final harvest keeps nothing for a retry
FinalHarvest(w) ==
  [SendAll(w) EXCEPT !.agg = TakeErrors(@, FALSE),
                     !.met = IF w.page.stage = "on" THEN SendMetrics(@) ELSE @]

HiddenInCapture(w) ==  \* mutant: the final harvest runs in the capture phase
  LET a == [FinalHarvest(BeforeUnload(w)) EXCEPT !.pvt = VitalsHidden(@)]
  IN [Send(a, "docHidden", NoElement) EXCEPT !.page.hidden = TRUE, !.page.hides = @ + 1]

\* A call of the API is counted and recorded
CountedCall(w) ==
  Send(Send([w EXCEPT !.custom.calls = @ + 1], "sm", NoElement), "api", NoElement)

\* reportTimings: a custom event, once
ReportTimings(w, i) ==
  IF w.mf.entities[i].reported THEN w ELSE CountedCall([w EXCEPT !.mf.entities[i].reported = TRUE])

\* visibilitychange: the listeners of the capture phase, then the instrumentation's and
\* the harvester's, beforeUnload and the final harvest
Hidden(w) ==
  LET a == Send([w EXCEPT !.pvt = VitalsHidden(@)], "docHidden", NoElement)
  IN [FinalHarvest(BeforeUnload(a)) EXCEPT !.mfe = DisconnectAll(@),
                                           !.page.hidden = TRUE, !.page.hides = @ + 1]
-----------------------------------------------------------------------------
Happens(input) == input \in page.inputs /\ ~page.closed

\* The flags are known: generic events and metrics go on if they are entitled, and all
\* are staged
RumResponse(ins, err) ==
  /\ page.stage = "waiting" /\ ~page.closed
  /\ Apply([World EXCEPT !.page.stage = "staged", !.page.ins = ins, !.pvt = Subscribe(@),
                          !.met = MetricsDecide(@, err)])

DrainAll ==
  /\ page.stage = "staged" /\ ~page.closed
  /\ Apply(FoldLeft(Receive, [World EXCEPT !.page.stage = "on", !.page.queue = <<>>], page.queue))

UserEvent(el) ==
  /\ Happens("user") /\ ~page.hidden /\ CanQueue
  /\ page.events < MaxCount /\ (el # ua.key => ua.last + Len(page.queue) < MaxActions)
  /\ Apply(Send([World EXCEPT !.page.events = @ + 1, !.pvt.input = TRUE], "ua", el))

PageError == Happens("error") /\ CanQueue /\ Apply(Send(World, "uaErr", NoElement))
FetchStart == Happens("change") /\ CanQueue /\ Apply(Send(World, "uaXhr", NoElement))

\* navChange is not buffered
Navigate ==
  /\ Happens("change") /\ page.stage = "on" /\ page.ins
  /\ Apply([World EXCEPT !.ua = IsLiveClick(@)])
DomChanges ==
  /\ Happens("change") /\ Watched(ua)
  /\ Apply([World EXCEPT !.ua = IF Observes(ua) THEN IsLiveClick(@)
                                ELSE [@ EXCEPT !.action[ua.cur].touched = TRUE]])
TwoSecondsAfter(n) == ~page.closed /\ ua.action[n].open /\ Apply([World EXCEPT !.ua = FrustrationTimeout(@, n)])

LcpCandidate == /\ Happens("vitals") /\ pvt.vital["lcp"] = "none" /\ ~page.hidden
                /\ Apply([World EXCEPT !.pvt = Candidate(@, "lcp")])
LcpFinal == /\ ~page.closed /\ pvt.vital["lcp"] = "candidate"
            /\ Apply([World EXCEPT !.pvt = Update(@, "lcp")])

\* The user interacts: there is another value for INP when the page is hidden
Interaction == /\ Happens("paints") /\ ~page.hidden /\ pvt.vital["inp"] # "candidate"
               /\ Apply([World EXCEPT !.pvt = Candidate(@, "inp")])
FirstPaint == /\ Happens("paints") /\ pvt.vital["fcp"] = "none"
              /\ Apply([World EXCEPT !.pvt = Update(@, "fcp")])
LoadMeasured == /\ Happens("paints") /\ pvt.vital["load"] = "none"
                /\ Apply([World EXCEPT !.pvt = Update(@, "load")])
LayoutShift == Happens("vitals") /\ ~pvt.cls /\ Apply([World EXCEPT !.pvt.cls = TRUE])

HarvestAll == ~page.closed /\ page.stage # "waiting" /\ Apply(SendAll(World))

Hide ==
  /\ Happens("hide") /\ ~page.hidden /\ page.hides < MaxHides /\ CanQueue
  /\ Apply(Hidden(World))
Show == page.hidden /\ ~page.closed
        /\ Apply([World EXCEPT !.mfe = DisconnectAll(@), !.page.hidden = FALSE])

\* pagehide, and visibilitychange if the page is not hidden already
Close ==
  /\ Happens("close")
  /\ CanQueueMore(Cardinality(Tracked(ws)) + 2 * Cardinality(Unreported(mf)) + 2)
  /\ LET u == Send([World EXCEPT !.page.closed = TRUE], "winPagehide", NoElement)
         v == FoldSet(LAMBDA n, x : Send(x, "ws-complete", n), u, Tracked(ws))
         w == FoldSet(LAMBDA i, x : ReportTimings(x, i), v, Unreported(mf))
     IN Apply(IF page.hidden THEN w ELSE Hidden(w))

SocketOpens(n) ==
  /\ Happens("sockets")
  /\ \/ ws[n].state = "unused" /\ Apply([World EXCEPT !.ws = Construct(@, n)])
     \/ ws[n].state = "connecting" /\ Apply([World EXCEPT !.ws = Opens(@, n)])
SocketCloses(n) ==
  /\ Happens("sockets") /\ CanQueue /\ ws[n].state \in {"connecting", "open"}
  /\ Apply(Send([World EXCEPT !.ws = Closes(@, n)], "ws-complete", n))

ApiCall ==
  /\ Happens("api") /\ custom.calls < MaxRecorded
  /\ CanQueueMore(2)
  /\ Apply(CountedCall(World))

\* The observer of marks is set up with the flags, and is handed the earlier ones too;
\* each is counted as seen
Marked ==
  /\ Happens("api") /\ custom.marks < MaxRecorded
  /\ Apply([World EXCEPT !.custom.marks = @ + 1, !.custom.waiting = @ + 1])
ObserveMarks ==
  /\ ~page.closed /\ Generic(World) /\ custom.waiting > 0
  /\ CanQueueMore(custom.waiting)
  /\ Apply(FoldLeft(LAMBDA w, seen : Send(w, seen, NoElement), [World EXCEPT !.custom = MarksObserved(@)],
                    [i \in 1..custom.waiting |-> "sm"]))

ScriptLoads(f, entry) ==
  /\ Happens("register") /\ mf.scripts[f] = "none"
  /\ Apply([World EXCEPT !.mf.scripts[f] = entry])
ScriptObserved(f) ==
  /\ mf.scripts[f] \in {"full", "listed"} /\ ~page.closed
  /\ Apply([World EXCEPT !.mf = Observed(@, f)])
TenSecondsPass ==
  /\ ~page.closed /\ \E i \in Entities(mf) : mf.entities[i].entry = "subscribed"
  /\ Apply([World EXCEPT !.mf = TenSecondsLater(@)])
Register(f, id) ==
  /\ Happens("register") /\ mf.scripts[f] # "none" /\ Len(mf.entities) < MaxEntities /\ CanQueue
  /\ Apply(Send([World EXCEPT !.mf = Registered(@, f, id)], "sm", NoElement))
Deregister(i) ==
  /\ Happens("register") /\ ~mf.entities[i].blocked /\ CanQueueMore(2)
  /\ Apply([ReportTimings(World, i) EXCEPT !.mf.entities[i].blocked = TRUE])

\* fetch() is called with the files on the stack
FetchCall(n, files) ==
  /\ Happens("fetch") /\ mf.calls[n].state = "none" /\ CanQueue
  /\ \A f \in files : mf.scripts[f] # "none"
  /\ Apply(Send([World EXCEPT !.mf = Called(@, n, files)], "uaXhr", NoElement))

\* It is answered or fails; the body of an answer is read first if payloads are captured
FetchEnds(n) ==
  /\ ~page.closed /\ CanQueue
  /\ mf.calls[n].state \in {"pending", "reading"}
  /\ Apply(Send([World EXCEPT !.mf = FinishAndReport(@, n)], "xhr", n))
FetchReads(n) ==
  /\ "capture" \in page.inputs /\ ~page.closed /\ mf.calls[n].state = "pending"
  /\ Apply([World EXCEPT !.mf.calls[n].state = "reading"])

MfeNext ==
  \/ TenSecondsPass
  \/ \E f \in Files :
       \/ ScriptObserved(f)
       \/ \E entry \in {"full", "listed"} : ScriptLoads(f, entry)
       \/ \E id \in Ids : Register(f, id)
  \/ \E i \in Entities(mf) : Deregister(i)
  \/ \E n \in FetchIds : FetchEnds(n) \/ FetchReads(n) \/ \E files \in SUBSET Files : FetchCall(n, files)

UserNext ==
  \/ DrainAll \/ PageError \/ FetchStart \/ Navigate \/ DomChanges \/ LcpCandidate
  \/ LcpFinal \/ LayoutShift \/ Interaction \/ FirstPaint \/ LoadMeasured
  \/ MfeNext \/ HarvestAll \/ Hide \/ Show \/ Close \/ ApiCall \/ Marked \/ ObserveMarks
  \/ \E ins, err \in BOOLEAN : RumResponse(ins, err)
  \/ \E el \in Elements : UserEvent(el)
  \/ \E n \in Actions : TwoSecondsAfter(n)
  \/ \E n \in SocketIds : SocketOpens(n) \/ SocketCloses(n)

\* The headers of a request arrive, at readyState 2
XhrHeaders == Happens("xhr") /\ CanQueue /\ HeadersReceived /\ Apply(Send(World, "uaXhr", NoElement))

Next ==
  \/ UserNext /\ UNCHANGED xhr
  \/ Happens("xhr") /\ XhrNext /\ UNCHANGED <<ua, pvt, ws, mf, mfe, agg, met, custom, page>>
  \/ Happens("mfe") /\ MfeStep /\ UNCHANGED <<ua, pvt, xhr, ws, mf, agg, met, custom, page>>
  \/ Happens("errors") /\ AggStep /\ UNCHANGED <<ua, pvt, xhr, ws, mf, mfe, met, custom, page>>
  \/ XhrHeaders

Spec == Init /\ [][Next]_vars
-----------------------------------------------------------------------------
SumOfCounts(u) == FoldFunctionOnSet(LAMBDA a, n : a.count + n, 0, u.action, Actions)

(***************************************************************************)
(* "emitted timings are part of last outgoing" (harvester.js:35): when the *)
(* page is hidden after the drain, every event of the user is counted in   *)
(* an action that was sent, every WebSocket that closed, or was open when  *)
(* the page is left, is reported; every fetch that is over, every call of  *)
(* the API, what is known of each micro frontend when the page is left, and*)
(* every mark that was observed is sent; the metrics count all that, what the other   *)
(* features' last reports add to them included; and what the page's vitals *)
(* and its end are known to be was sent, each of them once; so was the     *)
(* first input, unless it came after the page was hidden before: with      *)
(* nothing else to send it is not looked up (aggregate-base.js:150).       *)
(***************************************************************************)
LastOutgoingIsComplete ==
  [][page'.hidden /\ ~page.hidden /\ page'.stage = "on" =>
       /\ page.ins => /\ SumOfCounts(ua') = page.events
                      /\ \A n \in 1..ua'.last : ua'.action[n].state = "sent"
                      /\ \A n \in SocketIds :
                           ws'[n].sent = IF HasEnded(ws', n, page'.closed) THEN 1 ELSE 0
                      /\ custom'.sent = custom'.calls + custom'.marks - custom'.waiting
       /\ ~met'.blocked =>
            met'.sent = met'.audits + Len(mf'.entities) + custom'.calls + custom'.marks - custom'.waiting
                        + Frustrations(ua', Reported(ua'))
                        + FoldFunctionOnSet(LAMBDA x, n : x.sent + n, 0, ws', SocketIds)
       /\ agg'.here = <<>>
       /\ \A n \in FetchIds : mf'.calls[n].state \in {"none", "pending", "reading", "sent"}
       /\ page'.closed => Unreported(mf') = {}
       /\ pvt'.buffer = {}
       /\ "pageHide" \in pvt'.sent
       /\ \A v \in Vitals : pvt.vital[v] # "none" => pvt'.vital[v] = "final" /\ v \in pvt'.sent
       /\ pvt.cls => "cls" \in pvt'.sent
       /\ pvt.input /\ ~pvt.curSessEndRecorded => "fi" \in pvt'.sent
       /\ page'.closed => "unload" \in pvt'.sent
       /\ \A t \in OnceTimings : pvt'.added[t] <= 1]_vars
=============================================================================
