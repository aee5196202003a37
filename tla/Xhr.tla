---------------------------------- MODULE Xhr ----------------------------------
(***************************************************************************)
(* How the ajax feature follows an XMLHttpRequest.  A request that loads   *)
(* is over when its last load callback has returned, which the feature     *)
(* sees by counting: it wraps addEventListener and removeEventListener and *)
(* compares the listeners that are there with the calls that were made.    *)
(* Its own listeners are counted as well.  The object and the page's       *)
(* callbacks, which may do anything to it, are external.                   *)
(***************************************************************************)
EXTENDS Naturals, SequencesExt

CONSTANTS
  Callbacks,   \* load listeners of the page
  MaxRequests  \* bound: requests made with the object

ASSUME XhrAssumption ==
  /\ \A c \in Callbacks : c \notin {"capture", "onload", "onerror", "end", "none"}
  /\ MaxRequests \in Nat \ {0}

VARIABLE xhr

Requests == 1..MaxRequests
None == 0
Scripts == {"listeners", "onload", "abort", "reuse"}  \* what the page does with the object

(***************************************************************************)
(* A listener: [what, req], with req # 0 for the one of each send.         *)
(***************************************************************************)
Capture == [what |-> "capture", req |-> None]
OnLoad  == [what |-> "onload", req |-> None]
OnError == [what |-> "onerror", req |-> None]
EndOf(r) == [what |-> "end", req |-> r]
Of(c)    == [what |-> c, req |-> None]
Nobody   == [what |-> "none", req |-> None]
IsOfPage(l) == l.what \notin {"capture", "end"}

\* onNewXhr.  params, start, end and status are known by the request they are of.
\* History: disturbed if the page did to the list of listeners what it should not while
\* they were called; settled if the first request was loaded, failed or aborted.
XhrInit(script) ==
  xhr = [script |-> script, state |-> "unsent", req |-> None, failed |-> FALSE,
         listeners |-> <<Capture>>, onloadWrapped |-> FALSE,
         dispatch |-> <<>>, type |-> "none", running |-> Nobody, called |-> {},
         totalCbs |-> 1, calls |-> 0, guids |-> {Capture}, onloadCalled |-> FALSE,
         ended |-> FALSE, loadCaptureCalled |-> FALSE, resolved |-> FALSE, aborted |-> FALSE,
         params |-> None, start |-> None, end |-> None, status |-> None, listener |-> None,
         reports |-> <<>>, disturbed |-> FALSE, settled |-> "no"]
-----------------------------------------------------------------------------
HasOnload(x) == Contains(x.listeners, OnLoad)

\* onXhrLoadAdded: the same callback is counted once
LoadAdded(x, l) ==
  [x EXCEPT !.listeners = IF Contains(@, l) THEN @ ELSE Append(@, l),
            !.guids = @ \cup {l},
            !.totalCbs = IF l \in x.guids THEN @ ELSE @ + 1]

\* A listener that is removed is not called any more
Without(x, l) == [x EXCEPT !.listeners = RemoveFirst(@, l), !.dispatch = RemoveFirst(@, l)]

LoadRemovedUncounted(x, l) ==  \* mutant: a listener that is gone is still counted
  [Without(x, l) EXCEPT !.guids = @ \ {l}]

\* onXhrLoadRemoved
LoadRemoved(x, l) ==
  [Without(x, l) EXCEPT !.guids = @ \ {l},
                        !.totalCbs = IF l \in x.guids THEN @ - 1 ELSE @]

\* captureXhrData
CaptureXhrData(x) ==
  [x EXCEPT !.status = IF x.state = "done" /\ ~x.failed THEN x.req ELSE None,
            !.loadCaptureCalled = TRUE]

\* end(): at most one report for an object
End(x) ==
  LET v == LoadRemoved([x EXCEPT !.ended = TRUE], EndOf(x.listener))
      u == IF ~v.loadCaptureCalled /\ v.state = "done" THEN CaptureXhrData(v) ELSE v
  IN IF x.ended THEN x
     ELSE IF x.aborted THEN v
     ELSE [u EXCEPT !.reports = Append(@,
            [params |-> u.params, start |-> u.start, end |-> u.end, status |-> u.status])]

AllCalled(x) == x.calls = x.totalCbs /\ (x.onloadCalled \/ ~HasOnload(x))

\* onXhrCbTime
CbTime(x, l) ==
  LET v == IF l = OnLoad THEN [x EXCEPT !.onloadCalled = TRUE] ELSE [x EXCEPT !.calls = @ + 1]
  IN IF AllCalled(v) THEN End(v) ELSE v

\* The listener of a send, for load, error, timeout and abort
OnEvent(x) ==
  LET v == IF x.type = "abort" /\ ~x.loadCaptureCalled THEN [x EXCEPT !.aborted = TRUE] ELSE x
  IN IF x.type # "load" \/ AllCalled(x) THEN End(v) ELSE x

\* readystatechange: onload is wrapped, and the first time the object is done is kept
ReadyStateChange(x) ==
  [x EXCEPT !.onloadWrapped = HasOnload(x),
            !.end = IF x.state = "done" /\ ~x.resolved THEN x.req ELSE @,
            !.resolved = @ \/ x.state = "done"]

\* The listeners of an event are called in the order of their registration; those of the
\* sends are registered for error, timeout and abort too
AndEnd(ls, l) == IF l.what = "end" THEN Append(ls, l) ELSE ls
Fire(x, type) ==
  [x EXCEPT !.type = type, !.called = {},
            !.dispatch = IF type = "load" THEN x.listeners
                         ELSE FoldLeft(AndEnd, <<OnError>>, x.listeners)]
-----------------------------------------------------------------------------
InLoad(x) == x.type = "load"
Idle(x) == x.type = "none"
ByPage(x) == x.running # Nobody \/ Idle(x)     \* a callback or another task of the page

Open ==
  /\ xhr.req < MaxRequests /\ ByPage(xhr)
  /\ xhr.req # None => "reuse" \in xhr.script
  /\ xhr' = ReadyStateChange(
       [xhr EXCEPT !.req = @ + 1, !.params = xhr.req + 1, !.status = None, !.aborted = FALSE,
                   !.state = "opened", !.failed = FALSE, !.disturbed = @ \/ InLoad(xhr)])

\* onSendXhrStart: the listener replaces the one before it, which stays registered
SendXhr ==
  /\ xhr.state = "opened" /\ ByPage(xhr)
  /\ xhr' = LoadAdded([xhr EXCEPT !.state = "sent", !.start = xhr.req, !.listener = xhr.req],
                      EndOf(xhr.req))

AddListener(c) ==
  /\ "listeners" \in xhr.script /\ ByPage(xhr) /\ ~Contains(xhr.listeners, Of(c))
  /\ xhr' = [LoadAdded(xhr, Of(c)) EXCEPT !.disturbed = @ \/ InLoad(xhr)]

RemoveListener(c) ==
  /\ "listeners" \in xhr.script /\ ByPage(xhr) /\ Contains(xhr.listeners, Of(c))
  /\ xhr' = [LoadRemoved(xhr, Of(c)) EXCEPT !.disturbed = @ \/ Of(c) \in xhr.called]

\* A listener with an abort signal: nobody is told
SignalRemoves(c) ==
  /\ "listeners" \in xhr.script /\ ByPage(xhr) /\ Contains(xhr.listeners, Of(c))
  /\ xhr' = [Without(xhr, Of(c)) EXCEPT !.disturbed = @ \/ Of(c) \notin xhr.called]

SetOnload ==
  /\ "onload" \in xhr.script /\ ByPage(xhr) /\ ~HasOnload(xhr)
  /\ xhr' = [xhr EXCEPT !.listeners = Append(@, OnLoad), !.onloadWrapped = FALSE,
                        !.disturbed = @ \/ InLoad(xhr)]
ClearOnload ==
  /\ "onload" \in xhr.script /\ ByPage(xhr) /\ HasOnload(xhr)
  /\ xhr' = Without(xhr, OnLoad)

HeadersReceived ==
  /\ xhr.state = "sent" /\ Idle(xhr)
  /\ xhr' = ReadyStateChange([xhr EXCEPT !.state = "headers"])

Loads ==
  /\ xhr.state = "headers" /\ Idle(xhr)
  /\ xhr' = Fire(ReadyStateChange([xhr EXCEPT !.state = "done"]), "load")

\* error or timeout
Fails ==
  /\ xhr.state \in {"sent", "headers"} /\ Idle(xhr)
  /\ xhr' = Fire(ReadyStateChange([xhr EXCEPT !.state = "done", !.failed = TRUE]), "error")

\* abort() has no event once the object is done
Abort ==
  /\ "abort" \in xhr.script
  /\ \/ /\ xhr.state \in {"sent", "headers"} /\ Idle(xhr)
        /\ xhr' = Fire(ReadyStateChange([xhr EXCEPT !.state = "done", !.failed = TRUE]), "abort")
     \/ xhr.state = "done" /\ ByPage(xhr) /\ xhr' = [xhr EXCEPT !.state = "unsent"]

\* After the last listener the event is over
Settle(x) ==
  IF x.dispatch # <<>> THEN x
  ELSE [x EXCEPT !.type = "none", !.called = {},
                 !.settled = IF x.req = 1 /\ @ = "no" THEN x.type ELSE @]

\* The next listener: one of the page runs for a while
CallListener ==
  /\ xhr.dispatch # <<>> /\ xhr.running = Nobody
  /\ LET l == Head(xhr.dispatch)
         v == [xhr EXCEPT !.dispatch = Tail(@), !.called = @ \cup {l}]
     IN xhr' = IF IsOfPage(l) THEN [v EXCEPT !.running = l]
               ELSE IF l = Capture THEN Settle(CbTime(CaptureXhrData(v), l))
               ELSE IF InLoad(v) THEN Settle(CbTime(OnEvent(v), l))
               ELSE Settle(OnEvent(v))

\* onFnEnd for a callback of a load event
Returns ==
  /\ xhr.running # Nobody
  /\ LET l == xhr.running
         v == [xhr EXCEPT !.running = Nobody]
     IN xhr' = Settle(IF InLoad(xhr) /\ (l = OnLoad => xhr.onloadWrapped) THEN CbTime(v, l) ELSE v)

XhrNext ==
  \/ Open \/ SendXhr \/ SetOnload \/ ClearOnload \/ Loads \/ Fails \/ Abort
  \/ CallListener \/ Returns
  \/ \E c \in Callbacks : AddListener(c) \/ RemoveListener(c) \/ SignalRemoves(c)
-----------------------------------------------------------------------------
(***************************************************************************)
(* The first request of an object is reported once, with its own times     *)
(* and, if it loaded, its status, whatever the page does with the object   *)
(* before and after; an aborted one is not reported.  Excepted is a page   *)
(* that, while the load listeners are called, adds one, removes one that   *)
(* was called or opens the next request, or that takes a listener away     *)
(* without removeEventListener (ajax/instrument/index.js:196, :222).       *)
(***************************************************************************)
FirstRequestIsReported ==
  xhr.settled # "no" /\ ~xhr.disturbed =>
    xhr.reports =
      IF xhr.settled = "abort" THEN <<>>
      ELSE <<[params |-> 1, start |-> 1, end |-> 1,
              status |-> IF xhr.settled = "load" THEN 1 ELSE None]>>
=============================================================================
