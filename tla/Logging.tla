-------------------------------- MODULE Logging --------------------------------
(***************************************************************************)
(* The logs of a page.  The feature waits for its flags, takes the modes   *)
(* of the session if that has some, follows those another tab writes, and  *)
(* stops for good when the session is reset here or turned off there.      *)
(***************************************************************************)
EXTENDS PageView

Origins == {"auto", "api"}  \* a wrapped logger, the API
Unset == [auto |-> "unset", api |-> "unset"]
Off == [auto |-> "off", api |-> "off"]

VARIABLE
  log  \* the aggregate: stage, modes, logs buffered and saved (how many), the origins
       \* buffered before the drain, requests unanswered; history: logs so far

LogInit ==
  log = [stage |-> "waiting", modes |-> Unset, blocked |-> FALSE, live |-> FALSE,
         listening |-> FALSE, backlog |-> <<>>, buffer |-> 0, backup |-> 0, inflight |-> 0,
         n |-> 0]
-----------------------------------------------------------------------------
\* deregisterDrain(): the group is released, with its backlog and the handlers that
\* do not listen yet
ReleaseLogs(w) ==
  [w EXCEPT !.log.backlog = <<>>, !.log.live = TRUE,
            !.log.stage = IF @ = "waiting" THEN @ ELSE "done"]

WriteLogModes(w, m) == IF w.page.tracking THEN [w EXCEPT !.session.logModes = m] ELSE w

\* abort()
AbortLogs(w) ==
  LET v == [w EXCEPT !.log.blocked = TRUE, !.log.buffer = 0, !.log.backup = 0,
                     !.log.modes = Off]
  IN ReleaseLogs(WriteLogModes(v, Off))

\* The flags are known.  The session's modes win; modes another tab wrote meanwhile
\* are kept even if they are null.
LogFlags(w) ==
  LET own == IF w.log.modes = Unset THEN w.page.flags.log ELSE w.log.modes
      stored == w.session.logModes
      v == IF ~w.page.tracking THEN [w EXCEPT !.log.modes = own]
           ELSE IF None \in {stored.auto, stored.api}
           THEN WriteLogModes([w EXCEPT !.log.modes = own], own)
           ELSE [w EXCEPT !.log.modes = stored]
  IN IF w.log.blocked THEN [w EXCEPT !.log.stage = "done"]
     ELSE IF v.log.modes = Off
     THEN ReleaseLogs([v EXCEPT !.log.blocked = TRUE, !.log.stage = "done"])
     ELSE [v EXCEPT !.log.stage = "staged"]

\* SESSION_EVENTS.UPDATE of another tab
LogUpdate(w) ==
  IF w.log.blocked \/ w.page.aborted THEN w
  ELSE IF w.session.logModes = Off THEN AbortLogs(w)
  ELSE [w EXCEPT !.log.modes = w.session.logModes]

\* SESSION_EVENTS.RESET: a feature that is blocked aborts again
LogReset(w) == IF w.page.aborted THEN w ELSE AbortLogs(w)

HandleLog(w, origin) ==
  IF w.log.blocked \/ w.log.modes[origin] # "on" THEN w ELSE [w EXCEPT !.log.buffer = @ + 1]

\* bufferLog
BufferLog(w, origin) ==
  LET v == [w EXCEPT !.log.n = @ + 1]
  IN IF w.page.aborted THEN v
     ELSE IF ~w.log.live THEN [v EXCEPT !.log.backlog = Append(@, origin)]
     ELSE IF w.log.listening THEN HandleLog(v, origin) ELSE v

DrainLogs(w) ==
  IF w.page.aborted THEN [w EXCEPT !.log.stage = "done"]
  ELSE FoldLeft(HandleLog, [w EXCEPT !.log.stage = "done", !.log.live = TRUE, !.log.listening = TRUE,
                                     !.log.backlog = <<>>], w.log.backlog)

HarvestLogs(w, final) ==
  IF w.log.blocked \/ w.page.aborted \/ ~HasConsent(w) \/ w.log.buffer = 0 THEN w
  ELSE [w EXCEPT !.log.backup = IF final THEN @ ELSE w.log.buffer, !.log.buffer = 0,
                 !.log.inflight = IF final THEN @ ELSE @ + 1]

LogsAnswered(w, status) ==
  [w EXCEPT !.log.inflight = @ - 1, !.log.backup = 0,
            !.log.buffer = IF status = "retry" THEN @ + w.log.backup ELSE @]
=============================================================================
