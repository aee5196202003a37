-------------------------------- MODULE Fetches --------------------------------
(***************************************************************************)
(* Who a call of fetch() belongs to.  A script registers micro frontends;  *)
(* a call is reported to those whose script is on the stack when it is     *)
(* made, or to the container.  The script's URL is known from its resource *)
(* timing entry, which may come after the registration.  Scripts, entries  *)
(* and the answers to the calls are external.                              *)
(***************************************************************************)
EXTENDS FiniteSetsExt, Sequences

CONSTANTS
  Files,        \* scripts
  Preloaded,    \* those with a preload link
  Versioned,    \* those that are loaded with a query in their URL
  Ids,          \* ids of micro frontends
  FetchIds,     \* calls of fetch()
  MaxEntities   \* bound: registrations

ASSUME FetchesAssumption == Preloaded \subseteq Files /\ Versioned \subseteq Files /\ MaxEntities \in Nat

VARIABLE mf

Container == 0
Targets == Container..MaxEntities
Entities(m) == DOMAIN m.entities
Unreported(m) == {i \in Entities(m) : ~m.entities[i].reported}

\* scripts: "listed" if the entry of the loaded script is in the timeline, "full" if there was
\* no room for it; the observer is handed it in any case
NoCall == [state |-> "none", files |-> {}, targets |-> {}, reports |-> [t \in Targets |-> 0],
           owners |-> {}]
MfInit == mf = [scripts |-> [f \in Files |-> "none"], entities |-> <<>>,
                calls |-> [n \in FetchIds |-> NoCall]]
-----------------------------------------------------------------------------
\* The observer of resources: who waited for the entry has it, who waits for another for
\* more than ten seconds gives up
Observed(m, f) ==
  [m EXCEPT !.scripts[f] = "observed",
            !.entities = [i \in Entities(m) |->
              LET e == m.entities[i]
              IN IF e.entry \notin {"subscribed", "late"} THEN e
                 ELSE IF e.file = f THEN [e EXCEPT !.entry = "known"]
                 ELSE IF e.entry = "late" THEN [e EXCEPT !.entry = "expired"]
                 ELSE e]]

TenSecondsLater(m) ==
  [m EXCEPT !.entities = [i \in Entities(m) |->
     IF m.entities[i].entry = "subscribed" THEN [m.entities[i] EXCEPT !.entry = "late"]
     ELSE m.entities[i]]]

\* register() and findScriptTimings
Registered(m, f, id) ==
  [m EXCEPT !.entities = Append(@,
     [file |-> f, id |-> id, blocked |-> FALSE, reported |-> FALSE,
      entry |-> IF m.scripts[f] \in {"listed", "observed"} THEN "known" ELSE "subscribed"])]

\* timings.asset is the name of the entry, query and all; until then that of the preload link
AssetIsUrl(e) == IF e.entry = "known" THEN e.file \notin Versioned ELSE e.file \in Preloaded

\* dedupeRegisteredEntitiesByAsset: of those of one asset and id the first that is not
\* deregistered, else the first
Canonical(m, is) ==
  {i \in is : LET same == {j \in is : m.entities[j].id = m.entities[i].id}
                  live == {j \in same : ~m.entities[j].blocked}
              IN i = Min(IF live # {} THEN live ELSE same)}

\* getRegisteredTargetsFromFilename
TargetsOf(m, f) == Canonical(m, {i \in Entities(m) : m.entities[i].file = f /\ AssetIsUrl(m.entities[i])})

\* findTargetsFromStackTrace
FindTargets(m, files) ==
  LET found == UNION {TargetsOf(m, f) : f \in files}
  IN IF found = {} THEN {Container} ELSE found

\* History: for each file and id whose script is known by now, who may have the call.  Who gave
\* up waiting for the entry does not know it.
Owners(m, files) ==
  LET Due(e) == /\ e.file \in files
                /\ \/ e.file \notin Versioned /\ e.entry = "known"
                   \/ e.file \notin Versioned /\ e.entry # "expired" /\ m.scripts[e.file] = "observed"
                   \/ e.file \in Preloaded /\ (e.file \in Versioned => e.entry # "known")
      due == {i \in Entities(m) : Due(m.entities[i])}
      Group(i) == {j \in due : m.entities[j].file = m.entities[i].file /\ m.entities[j].id = m.entities[i].id}
      Best(g) == LET live == {j \in g : ~m.entities[j].blocked} IN IF live # {} THEN live ELSE g
  IN IF due = {} THEN {{Container}} ELSE {Best(Group(i)) : i \in due}

\* The wrapped fetch looks for the targets before the call
Called(m, n, files) ==
  [m EXCEPT !.calls[n] = [@ EXCEPT !.state = "pending", !.files = files,
                                   !.targets = FindTargets(m, files), !.owners = Owners(m, files)]]

FoundWhenDone(m, n) ==  \* mutant: the targets are looked for when the call is over
  [m EXCEPT !.calls[n] = [@ EXCEPT !.state = "reported", !.targets = FindTargets(m, m.calls[n].files)]]

\* finishAndReport
FinishAndReport(m, n) == [m EXCEPT !.calls[n].state = "reported"]

\* storeXhr, for each target
StoreFetch(m, n) ==
  [m EXCEPT !.calls[n] = [@ EXCEPT !.state = "buffered",
     !.reports = [t \in Targets |-> m.calls[n].reports[t] + (IF t \in m.calls[n].targets THEN 1 ELSE 0)]]]

SendFetches(m) ==
  [m EXCEPT !.calls =
     [n \in FetchIds |-> LET c == m.calls[n]
                         IN IF c.state = "buffered" THEN [c EXCEPT !.state = "sent"] ELSE c]]
-----------------------------------------------------------------------------
(***************************************************************************)
(* A call that is over is reported once for each file on its stack and id  *)
(* registered from it, to one that was not deregistered when the call was  *)
(* made if there was one, and else once to the container: duplicate        *)
(* registrations do not multiply it ("only be reported once per real       *)
(* occurrence", common/v2/utils.js:49), and what is registered,            *)
(* deregistered or observed before the answer comes does not move it.  A   *)
(* script with a query in its URL counts as known only by its preload link *)
(* and until its entry comes: the entry's name keeps the query, the stack  *)
(* does not.                                                               *)
(***************************************************************************)
FetchHasItsOwners ==
  \A n \in FetchIds :
    LET c == mf.calls[n]
    IN c.state \in {"buffered", "sent"} =>
         /\ \A own \in c.owners : \E t \in own :
              c.reports[t] = 1 /\ \A u \in own \ {t} : c.reports[u] = 0
         /\ \A t \in Targets \ UNION c.owners : c.reports[t] = 0
=============================================================================
