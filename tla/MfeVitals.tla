------------------------------- MODULE MfeVitals -------------------------------
(***************************************************************************)
(* The vitals of the micro frontends that register under one id.  Their    *)
(* content is what is inside a root element with that id; an instance      *)
(* claims the root where it first finds content.  Paints are looked for    *)
(* until the user interacts; everything stops when the page's visibility   *)
(* changes, at the deregistration, or after a time without any paint.      *)
(*                                                                         *)
(* The operators work on v, the record of the variable mfe.                *)
(***************************************************************************)
EXTENDS Naturals, SequencesExt

CONSTANTS
  Instances,  \* a sequence: the instances in the order they register
  Nodes,      \* the nodes an application adds, roots among them
  RootOf,     \* [Nodes -> Nodes or Outside]: the root that a node is or is inside of
  Brings,     \* [Nodes -> SUBSET Nodes]: the roots inside of a node that is added
  Images,     \* nodes whose size is known when they have loaded
  Area,       \* [Nodes -> Nat]
  Batches     \* sequences of nodes that are added in one task

Outside == "outside"
Unclaimed == "nobody"
InstanceSet == ToSet(Instances)
Roots == {n \in Nodes : RootOf[n] = n}

ASSUME MfeAssumption ==
  /\ Instances \in Seq(InstanceSet)
  /\ RootOf \in [Nodes -> Roots \cup {Outside}] /\ Brings \in [Nodes -> SUBSET Roots]
  /\ Images \subseteq Nodes /\ Area \in [Nodes -> Nat] /\ Batches \subseteq Seq(Nodes)
  /\ Unclaimed \notin InstanceSet

VARIABLE mfe

(***************************************************************************)
(* Of an instance: the root its MutationObservers observe (or the          *)
(* document), which observers and listeners are on, elements seen, waiting *)
(* to load and handed to the ResizeObserver, is there an FCP, the largest  *)
(* area.  History: counted nodes, those swept in with the root's batch, is *)
(* the LCP final, at which area, and has an image loaded after that.       *)
(***************************************************************************)
NewInstance ==
  [own |-> Outside, fcpOn |-> FALSE, lcpOn |-> FALSE, entriesOn |-> FALSE, listening |-> FALSE,
   timer |-> FALSE, registered |-> FALSE, seen |-> {}, waiting |-> {}, resizing |-> {}, fcp |-> FALSE,
   largest |-> 0, counted |-> {}, swept |-> {}, frozen |-> FALSE,
   final |-> 0, late |-> FALSE]

MfeInit ==
  mfe = [dom |-> {}, loaded |-> {}, claim |-> [r \in Roots |-> Unclaimed],
         inst |-> [i \in InstanceSet |-> NewInstance]]
-----------------------------------------------------------------------------
IsMatch(v, i, r) == r # Outside /\ v.claim[r] \in {Unclaimed, i}

MarkUnclaimed(v, i, r) == v  \* mutant: nrMfeObserved is not set
Mark(v, i, r) == [v EXCEPT !.claim[r] = i]

\* isInMFE: the walk to the root claims it
IsInMFE(v, i, n) == IsMatch(v, i, RootOf[n])

PopulateVitalMinimums(v, i, n) ==
  [v EXCEPT !.inst[i].fcp = TRUE, !.inst[i].counted = @ \cup {n}]

\* onMatch of the two observers
OnMatch(v, i, n) ==
  LET p == [PopulateVitalMinimums(v, i, n) EXCEPT !.inst[i].fcpOn = FALSE]
      waits == n \in Images \ v.loaded
  IN IF ~v.inst[i].lcpOn \/ n \in v.inst[i].seen THEN p
     ELSE [p EXCEPT !.inst[i].seen = @ \cup {n},
                    !.inst[i].waiting = IF waits THEN @ \cup {n} ELSE @,
                    !.inst[i].resizing = IF waits THEN @ ELSE @ \cup {n}]

\* What the observers of i do with node n of a batch; from is what they observed before
\* it: who has found the root takes the rest of the batch for its own
SeeNode(v, i, n, from) ==
  LET found == v.inst[i].own = Outside /\ n \in Roots /\ IsMatch(v, i, n)
      a == IF found THEN [Mark(v, i, n) EXCEPT !.inst[i].own = n] ELSE v
      own == a.inst[i].own
      b == IF own # Outside \/ ~IsInMFE(a, i, n) THEN a ELSE Mark(a, i, RootOf[n])
  IN IF from \notin {Outside, RootOf[n]} \/ (own = Outside /\ ~IsInMFE(a, i, n)) THEN v
     ELSE [OnMatch(b, i, n) EXCEPT
             !.inst[i].swept = IF own \in {Outside, RootOf[n]} THEN @ ELSE @ \cup {n}]

Observing(v, i) == v.inst[i].fcpOn \/ v.inst[i].lcpOn

\* The callbacks run after the task, in the order of the registrations
AddNodes(v, batch) ==
  LET added == [v EXCEPT !.dom = @ \cup ToSet(batch) \cup UNION {Brings[n] : n \in ToSet(batch)}]
      See(u, i) == IF ~Observing(u, i) THEN u
                   ELSE FoldLeft(LAMBDA x, n : SeeNode(x, i, n, u.inst[i].own), u, batch)
  IN FoldLeft(See, added, Instances)

Freeze(v, i) ==
  [v EXCEPT !.inst[i].frozen = TRUE,
            !.inst[i].final = IF v.inst[i].frozen THEN @ ELSE v.inst[i].largest]

\* vitals.disconnect()
Disconnect(v, i) ==
  [Freeze(v, i) EXCEPT !.inst[i].fcpOn = FALSE, !.inst[i].lcpOn = FALSE,
                       !.inst[i].entriesOn = FALSE, !.inst[i].listening = FALSE,
                       !.inst[i].resizing = {}]
DisconnectAll(v) ==
  FoldLeft(LAMBDA u, i : IF v.inst[i].registered THEN Disconnect(u, i) ELSE u, v, Instances)

\* trackMFEVitals, where root is the first match in the document or Outside
Track(v, i, root) ==
  LET t == [v EXCEPT !.inst[i].registered = TRUE, !.inst[i].timer = TRUE, !.inst[i].fcpOn = TRUE,
                     !.inst[i].lcpOn = TRUE, !.inst[i].entriesOn = TRUE,
                     !.inst[i].listening = TRUE]
  IN IF root = Outside THEN t
     ELSE [PopulateVitalMinimums(Mark(t, i, root), i, root) EXCEPT !.inst[i].own = root]

\* Each instance whose listeners are on looks whether n is its own, and does f if so
ForOwner(v, n, on(_, _), f(_, _)) ==
  FoldLeft(LAMBDA u, i : IF on(u, i) /\ IsInMFE(u, i, n) THEN f(Mark(u, i, RootOf[n]), i) ELSE u,
           v, Instances)

\* handleInteraction: the LCP is final
HandleInteraction(v, n) ==
  ForOwner(v, n, LAMBDA u, i : u.inst[i].listening,
           LAMBDA u, i : [Freeze(u, i) EXCEPT !.inst[i].lcpOn = FALSE, !.inst[i].resizing = {},
                                              !.inst[i].listening = FALSE])

\* A layout shift, or an event with its interaction
PerformanceEntry(v, n) ==
  ForOwner(v, n, LAMBDA u, i : u.inst[i].entriesOn, LAMBDA u, i : PopulateVitalMinimums(u, i, n))

\* The load listener hands the image to the ResizeObserver, disconnected or not
ImageLoads(v, n) ==
  [v EXCEPT !.loaded = @ \cup {n},
            !.inst = [i \in InstanceSet |->
              IF n \notin v.inst[i].waiting THEN v.inst[i]
              ELSE [v.inst[i] EXCEPT !.waiting = @ \ {n}, !.resizing = @ \cup {n},
                                !.late = @ \/ v.inst[i].frozen]]]

Resized(v, i, n) ==
  [v EXCEPT !.inst[i].resizing = @ \ {n},
            !.inst[i].largest = IF Area[n] > @ THEN Area[n] ELSE @]

GiveUp(v, i) ==
  LET t == [v EXCEPT !.inst[i].timer = FALSE]
  IN IF v.inst[i].fcp THEN t ELSE Disconnect(t, i)
-----------------------------------------------------------------------------
\* The instances register in their order; the code may add what is not there yet
CanTrack(v, i) ==
  /\ ~v.inst[i].registered
  /\ \A j \in 1..Len(Instances) :
       Instances[j] = i => \A k \in 1..(j - 1) : v.inst[Instances[k]].registered
CanAdd(v, batch) ==
  /\ ToSet(batch) \cap v.dom = {}
  /\ \A k \in DOMAIN batch : RootOf[batch[k]] \in {Outside} \cup v.dom \cup ToSet(SubSeq(batch, 1, k))
FirstMatches(v, i) ==
  LET there == {r \in Roots \cap v.dom : IsMatch(v, i, r)}
  IN IF there = {} THEN {Outside} ELSE there

MfeStep ==
  \/ \E i \in InstanceSet :
       \/ CanTrack(mfe, i) /\ \E root \in FirstMatches(mfe, i) : mfe' = Track(mfe, i, root)
       \/ mfe.inst[i].entriesOn /\ mfe' = Disconnect(mfe, i)  \* reportTimings of deregister()
       \/ mfe.inst[i].timer /\ mfe' = GiveUp(mfe, i)
       \/ \E n \in mfe.inst[i].resizing : mfe' = Resized(mfe, i, n)
  \/ \E batch \in Batches : CanAdd(mfe, batch) /\ mfe' = AddNodes(mfe, batch)
  \/ \E n \in mfe.dom :
       \/ mfe' = HandleInteraction(mfe, n)
       \/ mfe' = PerformanceEntry(mfe, n)
       \/ n \in Images \ mfe.loaded /\ mfe' = ImageLoads(mfe, n)
-----------------------------------------------------------------------------
(***************************************************************************)
(* "All Core Web Vitals for a specific MFE" (mfe-vitals.js:119): what an   *)
(* instance counts is in a root no other instance of the id has, in        *)
(* whatever order they register, render and are used, and its LCP is final *)
(* after the interaction, the change of visibility or the end that         *)
(* disconnected it.  The code's exceptions: nodes added in one task with   *)
(* the root, after it, are counted wherever they are (:85), and an image   *)
(* that loads after all that is observed anew (:218).                      *)
(***************************************************************************)
VitalsAreTheirOwn ==
  \A i \in InstanceSet :
    LET m == mfe.inst[i]
    IN /\ \A n \in m.counted \ m.swept : RootOf[n] # Outside /\ mfe.claim[RootOf[n]] = i
       /\ m.frozen /\ ~m.late => m.largest = m.final
=============================================================================
