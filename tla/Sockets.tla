-------------------------------- MODULE Sockets --------------------------------
(***************************************************************************)
(* The WebSockets of a page.  A wrapped socket is tracked from its open    *)
(* event to its close event; one of the two reports it, its close or, for  *)
(* those that are tracked, the page's pagehide.                            *)
(*                                                                         *)
(* The operators work on s, the record of the variable ws.                 *)
(***************************************************************************)
EXTENDS Naturals, FiniteSets

CONSTANT SocketIds

ASSUME SocketsAssumption == IsFiniteSet(SocketIds)

VARIABLE ws

\* state is that of the native socket; buffered and sent count a socket's reports, up to 2
SocketsInit ==
  ws = [n \in SocketIds |-> [state |-> "unused", opened |-> FALSE, tracked |-> FALSE,
                             buffered |-> 0, sent |-> 0]]

Construct(s, n) == [s EXCEPT ![n].state = "connecting"]
Opens(s, n) == [s EXCEPT ![n].state = "open", ![n].opened = TRUE, ![n].tracked = TRUE]
Closes(s, n) == [s EXCEPT ![n].state = "closed", ![n].tracked = FALSE]

Tracked(s) == {n \in SocketIds : s[n].tracked}

\* 'ws-complete': the handler copies what is known of the socket then
AddSocketEvent(s, n) == [s EXCEPT ![n].buffered = IF @ = 2 THEN 2 ELSE @ + 1]

SendSockets(s) ==
  [n \in SocketIds |-> [s[n] EXCEPT !.sent = IF @ + s[n].buffered > 2 THEN 2 ELSE @ + s[n].buffered,
                                    !.buffered = 0]]

\* What has to be reported: a socket that closed, and one open when the page is left
HasEnded(s, n, left) == s[n].state = "closed" \/ (left /\ s[n].opened)
=============================================================================
